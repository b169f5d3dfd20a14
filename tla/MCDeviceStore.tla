---------------------------- MODULE MCDeviceStore ---------------------------
(***************************************************************************)
(* DeviceStore for TLC: two routers, a case twin, a name with the same     *)
(* file, two tenants, and one form for every rule of the store.            *)
(***************************************************************************)
EXTENDS DeviceStore, TLC

MCNames == {"a", "A", "a."}
MCFold == ("a" :> "a") @@ ("A" :> "a") @@ ("a." :> "a.")
MCSlug == ("a" :> "a") @@ ("A" :> "a") @@ ("a." :> "a")

Form(name, tenant, kind, secret, enabled, policy) ==
    [name |-> name, tenant |-> tenant, kind |-> kind, secret |-> secret,
     path |-> kind = "key", enabled |-> enabled, policy |-> policy]

MCForms == {
    Form("a", 1, "password", TRUE, TRUE, "stable"),
    Form("a.", 2, "password", FALSE, TRUE, "stable"),
    Form("A", 2, "key", FALSE, TRUE, "stable"),
    Form("a", 1, "key", TRUE, FALSE, "stable"),
    Form("a.", 2, "agent", FALSE, TRUE, "held")}

Arguments(name, tenant, kind, update) ==
    [name |-> name, tenant |-> tenant, kind |-> kind, secret |-> kind = "password",
     update |-> update, enabled |-> TRUE]

MCAdds == {Arguments("a", 2, "password", FALSE), Arguments("A", 1, None, TRUE)}

\* No definition tells one id, or one operator, from another.
Symmetry == Permutations(Ids) \cup Permutations(Operators)
=============================================================================
