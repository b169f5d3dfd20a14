-------------------------- MODULE DeviceStoreProofs --------------------------
(***************************************************************************)
(* What DeviceStore guarantees for any fleet, any names and tenants, any   *)
(* forms, and any number of handlers and commands that run into each other. *)
(***************************************************************************)
EXTENDS DeviceStore, FiniteSetTheorems, TLAPS

-----------------------------------------------------------------------------
(* Types *)

\* What a handler remembers, by what it is about to do.
LEMMA Jobs ==
    ASSUME NEW j \in JobType
    PROVE  /\ j.op \in {"update", "add"} => j.id \in Ids \cup {None} /\ j.form \in FormType
           /\ j.op = "update" => j.id \in Ids /\ j.read \in Kinds
           /\ j.op \in {"remove", "enable", "disable"} => j.id \in Ids
           /\ j.op = "settings" => j.template \in Templates /\ j.token \in TokenFields
           /\ j.op \in {"configure", "load", "run", "probe"} =>
                  /\ j.for.what \in {"run", "probe"}
                  /\ j.for.id \in Ids \cup {None} /\ j.for.name \in Names \cup {None}
                  /\ j.for \in [what : {"run", "probe"}, id : Ids \cup {None},
                                name : Names \cup {None}]
           /\ j.op = "load" => j.template \in Templates
           /\ j.op \in {"run", "probe"} => j.selected \subseteq Ids
BY DEF JobType

\* A form that is typed, or made of the arguments of fleet add, is a form.
LEMMA FormsTyped ==
    ASSUME TypeOK
    PROVE  /\ \A f \in Forms : f \in FormType
           /\ \A a \in Adds : a.name \in Names
           /\ \A a \in Adds, id \in Live : AddForm(a, id) \in FormType
           /\ \A a \in Adds : \A id : a.kind # None => AddForm(a, id) \in FormType
<1>1. \A a \in Adds : a \in AddType
  BY InputAssumption
<1>2. \A id \in Live : devices[id].kind \in Kinds
  BY DEF TypeOK, Live, LiveIn, RowType
<1>3. DefaultPolicy \in Policies
  BY DeviceStoreAssumption
<1>4. ASSUME NEW a \in Adds, NEW id, a.kind # None \/ id \in Live
      PROVE  AddForm(a, id) \in FormType
  BY <1>1, <1>2, <1>3, <1>4 DEF AddForm, AddType, FormType
<1>5. QED
  BY <1>1, <1>4, InputAssumption DEF AddType

\* The row that update_device writes is a row, and no sentinel.
LEMMA UpdatedTyped ==
    ASSUME NEW row \in RowType, NEW f \in FormType
    PROVE  /\ Updated(row, f) \in RowType
           /\ Updated(row, f).name = f.name /\ Updated(row, f).tenant = f.tenant
           /\ Updated(row, f).kind = f.kind /\ Updated(row, f).path = f.path
           /\ Updated(row, f).facts = row.facts
           /\ Updated(row, f).secret = IF f.secret THEN f.kind
                                       ELSE IF f.kind = "agent" THEN None ELSE row.secret
BY DEF Updated, RowType, FormType

LEMMA TypeInit == Init => TypeOK
<1> SUFFICES ASSUME Init PROVE TypeOK
  OBVIOUS
<1>1. /\ devices = [d \in Ids |-> None] /\ job = [o \in Operators |-> None] /\ Live = {}
  BY DEF Init, Live, LiveIn
<1>2. /\ settings \in SettingsType /\ tenants = {} /\ renamed = {} /\ overtaken = {}
      /\ begun = 0
  BY DEF Init, SettingsType, Templates
<1>3. 0 \in 0..MaxHandlers
  BY DeviceStoreAssumption
<1>4. QED
  BY <1>1, <1>2, <1>3 DEF TypeOK

\* A row that is a row is live.
LEMMA LiveRow ==
    ASSUME TypeOK, NEW id \in Ids
    PROVE  /\ id \in Live <=> devices[id] \in RowType
           /\ id \in Live <=> devices[id] \notin {None, Gone}
BY NoValueAssumption DEF TypeOK, Live, LiveIn

\* One row is written, and its tenant is there.
LEMMA TableTyped ==
    ASSUME TypeOK, NEW id \in Ids, NEW row \in RowType \cup {Gone},
           devices' = [devices EXCEPT ![id] = row],
           tenants \subseteq tenants', row \in RowType => row.tenant \in tenants'
    PROVE  /\ devices' \in [Ids -> RowType \cup {None, Gone}]
           /\ \A d \in Live' : devices'[d].tenant \in tenants'
<1>1. devices' \in [Ids -> RowType \cup {None, Gone}] /\ devices'[id] = row
  BY DEF TypeOK
<1>2. \A d \in Ids : d # id => devices'[d] = devices[d]
  BY DEF TypeOK
<1>3. \A d \in Live' : d = id \/ d \in Live
  BY <1>2 DEF Live, LiveIn
<1>4. id \in Live' => row \in RowType
  BY <1>1, NoValueAssumption DEF Live, LiveIn
<1>5. QED
  BY <1>1, <1>2, <1>3, <1>4 DEF TypeOK, Live, LiveIn

\* create_device makes a row of the form, and the tenant.
LEMMA Creates ==
    ASSUME TypeOK, NEW f \in FormType, Create(f)
    PROVE  \E id \in Ids, row \in RowType :
               /\ devices[id] = None /\ devices' = [devices EXCEPT ![id] = row]
               /\ row.name = f.name /\ row.tenant = f.tenant
               /\ row.kind = f.kind /\ row.path = f.path
               /\ row.secret = (IF f.secret THEN f.kind ELSE None)
               /\ row.facts = None /\ tenants' = tenants \cup {f.tenant}
<1> DEFINE row == [name |-> f.name, tenant |-> f.tenant, kind |-> f.kind,
                   secret |-> IF f.secret THEN f.kind ELSE None, path |-> f.path,
                   enabled |-> f.enabled, policy |-> f.policy, facts |-> None]
<1>1. row \in RowType
  BY DEF FormType, RowType
<1>2. QED
  BY <1>1 DEF Create, UpsertTenant

\* The actions of a handler keep everything in its type.
LEMMA TypeStep == TypeOK /\ [Next]_vars => TypeOK'
<1> SUFFICES ASSUME TypeOK, [Next]_vars PROVE TypeOK'
  OBVIOUS
<1>r. \* The rows are as they were.
      devices' = devices /\ tenants' = tenants =>
          /\ devices' \in [Ids -> RowType \cup {None, Gone}] /\ tenants' \subseteq Tenants
          /\ \A d \in Live' : devices'[d].tenant \in tenants'
  BY DEF TypeOK, Live, LiveIn
<1>b. \A o : (Begins(o) \/ begun' = begun) => begun' \in 0..MaxHandlers
  BY DeviceStoreAssumption DEF Begins, TypeOK
<1>j. \A o \in Operators, j \in JobType \cup {None} :
          Proceeds(o, j) => job' \in [Operators -> JobType \cup {None}]
  BY DEF Proceeds, TypeOK
<1>n. \A o \in Operators : Ends(o) => job' \in [Operators -> JobType \cup {None}]
  BY <1>j DEF Ends
<1>t. \A o \in Operators : job[o] \in JobType \cup {None}
  BY DEF TypeOK
<1>c. \A f \in FormType : Create(f) =>
          /\ devices' \in [Ids -> RowType \cup {None, Gone}] /\ tenants' \subseteq Tenants
          /\ \A d \in Live' : devices'[d].tenant \in tenants'
  <2> SUFFICES ASSUME NEW f \in FormType, Create(f)
               PROVE  /\ devices' \in [Ids -> RowType \cup {None, Gone}] /\ tenants' \subseteq Tenants
                      /\ \A d \in Live' : devices'[d].tenant \in tenants'
    OBVIOUS
  <2>1. PICK id \in Ids, row \in RowType :
            /\ devices' = [devices EXCEPT ![id] = row] /\ row.tenant = f.tenant
            /\ tenants' = tenants \cup {f.tenant}
    BY Creates
  <2>2. f.tenant \in Tenants
    BY DEF FormType
  <2>3. tenants \subseteq tenants' /\ row.tenant \in tenants' /\ tenants' \subseteq Tenants
    BY <2>1, <2>2 DEF TypeOK
  <2>4. QED
    BY <2>1, <2>3, TableTyped
<1>e. \* A row that is there is edited, in place.
      ASSUME NEW id \in Live, NEW row \in RowType \cup {Gone},
             row \in RowType => row.tenant = devices[id].tenant,
             devices' = [devices EXCEPT ![id] = row], tenants' = tenants
      PROVE  /\ devices' \in [Ids -> RowType \cup {None, Gone}] /\ tenants' \subseteq Tenants
             /\ \A d \in Live' : devices'[d].tenant \in tenants'
  <2>1. id \in Ids
    BY DEF Live, LiveIn
  <2>2. row \in RowType => row.tenant \in tenants'
    BY <1>e DEF TypeOK
  <2>3. QED
    BY <1>e, <2>1, <2>2, TableTyped DEF TypeOK
<1>u. \A o \in Operators, id \in Ids, f \in FormType : ReadForUpdate(o, id, f) =>
          job' \in [Operators -> JobType \cup {None}]
  <2> SUFFICES ASSUME NEW o \in Operators, NEW id \in Ids, NEW f \in FormType, id \in Live
               PROVE  [op |-> "update", id |-> id, form |-> f, read |-> devices[id].kind]
                          \in JobType
    BY <1>j DEF ReadForUpdate, Proceeds
  <2>1. devices[id].kind \in Kinds
    BY LiveRow DEF RowType
  <2>2. QED
    BY <2>1 DEF JobType
<1>1. ASSUME NEW o \in Operators, CreateDevice(o) PROVE TypeOK'
  BY <1>1, <1>b, <1>c, FormsTyped DEF CreateDevice, TypeOK
<1>2. ASSUME NEW o \in Operators, UpdateDevice(o) PROVE TypeOK'
  BY <1>2, <1>b, <1>r, <1>u, FormsTyped DEF UpdateDevice, ReadForUpdate, TypeOK
<1>3. ASSUME NEW o \in Operators, WriteUpdate(o) PROVE TypeOK'
  <2> DEFINE f == job[o].form
             id == job[o].id
  <2>1. f \in FormType /\ f.tenant \in Tenants
    BY <1>3, <1>t, Jobs DEF WriteUpdate, At, FormType
  <2>2. /\ settings' = settings /\ begun' = begun
        /\ job' \in [Operators -> JobType \cup {None}]
    BY <1>3, <1>n DEF WriteUpdate, At
  <2>3. renamed' \subseteq Ids /\ overtaken' \subseteq Ids
    BY <1>3 DEF WriteUpdate, TypeOK, Live, LiveIn
  <2>4. /\ devices' \in [Ids -> RowType \cup {None, Gone}] /\ tenants' \subseteq Tenants
        /\ \A d \in Live' : devices'[d].tenant \in tenants'
    <3>1. CASE UNCHANGED <<devices, tenants, renamed>>
      BY <1>r, <3>1
    <3>2. CASE id \notin Live /\ UNCHANGED devices /\ UpsertTenant(f.tenant)
      BY <2>1, <3>2 DEF UpsertTenant, TypeOK, Live, LiveIn
    <3>3. CASE /\ id \in Live /\ UpsertTenant(f.tenant)
               /\ devices' = [devices EXCEPT ![id] = Updated(@, f)]
      <4>1. devices[id] \in RowType /\ id \in Ids
        BY <3>3, LiveRow DEF Live, LiveIn
      <4>2. Updated(devices[id], f) \in RowType /\ Updated(devices[id], f).tenant = f.tenant
        BY <2>1, <4>1, UpdatedTyped
      <4>3. tenants' = tenants \cup {f.tenant}
        BY <3>3 DEF UpsertTenant
      <4> HIDE DEF f, id
      <4>4. devices' = [devices EXCEPT ![id] = Updated(devices[id], f)]
        BY <3>3
      <4>5. tenants \subseteq tenants' /\ f.tenant \in tenants' /\ tenants' \subseteq Tenants
        BY <2>1, <4>3 DEF TypeOK
      <4>6. QED
        BY <4>1, <4>2, <4>4, <4>5, TableTyped
    <3>4. QED
      BY <1>3, <3>1, <3>2, <3>3 DEF WriteUpdate
  <2>5. QED
    BY <2>2, <2>3, <2>4 DEF TypeOK
<1>4. ASSUME NEW o \in Operators, AddLookup(o) PROVE TypeOK'
  <2>1. job' \in [Operators -> JobType \cup {None}]
    <3>1. PICK a \in Adds :
              \/ a.kind # None /\ Proceeds(o, [op |-> "add", id |-> None, form |-> AddForm(a, None)])
              \/ \E id \in FoundByName(a.name) :
                     Proceeds(o, [op |-> "add", id |-> id, form |-> AddForm(a, id)])
      BY <1>4 DEF AddLookup
    <3>2. \A id \in Ids \cup {None}, f \in FormType :
              [op |-> "add", id |-> id, form |-> f] \in JobType
      BY DEF JobType
    <3>3. \A id \in FoundByName(a.name) : id \in Live /\ id \in Ids
      BY DEF FoundByName, Live, LiveIn
    <3>4. QED
      BY <1>j, <3>1, <3>2, <3>3, FormsTyped
  <2>2. QED
    BY <1>4, <1>b, <1>r, <2>1 DEF AddLookup, TypeOK
<1>5. ASSUME NEW o \in Operators, AddWrite(o) PROVE TypeOK'
  <2>1. job[o].form \in FormType /\ job[o].id \in Ids \cup {None}
    BY <1>5, <1>t, Jobs DEF AddWrite, At
  <2>2. CASE Create(job[o].form) /\ Ends(o) /\ UNCHANGED <<settings, renamed, overtaken>>
    BY <1>5, <1>n, <1>c, <2>1, <2>2 DEF AddWrite, At, TypeOK
  <2>3. CASE job[o].id # None /\ ReadForUpdate(o, job[o].id, job[o].form)
    BY <1>5, <1>r, <1>u, <2>1, <2>3 DEF AddWrite, At, ReadForUpdate, TypeOK
  <2>4. CASE Ends(o) /\ UNCHANGED <<devices, tenants, settings, renamed, overtaken>>
    BY <1>5, <1>r, <1>n, <2>4 DEF AddWrite, At, TypeOK
  <2>5. QED
    BY <1>5, <2>2, <2>3, <2>4 DEF AddWrite
<1>d. \* Delete and SetEnabled.
      \A id \in Ids : tenants' = tenants /\ (Delete(id) \/ \E on \in BOOLEAN : SetEnabled(id, on)) =>
          /\ devices' \in [Ids -> RowType \cup {None, Gone}] /\ tenants' \subseteq Tenants
          /\ \A d \in Live' : devices'[d].tenant \in tenants'
  <2> SUFFICES ASSUME NEW id \in Ids, tenants' = tenants, NEW on \in BOOLEAN,
                      Delete(id) \/ SetEnabled(id, on)
               PROVE  /\ devices' \in [Ids -> RowType \cup {None, Gone}] /\ tenants' \subseteq Tenants
                      /\ \A d \in Live' : devices'[d].tenant \in tenants'
    OBVIOUS
  <2>1. CASE devices' = devices
    BY <1>r, <2>1
  <2>2. CASE id \in Live /\ Delete(id)
    <3>1. Gone \in RowType \cup {Gone} /\ Gone \notin RowType
      BY NoValueAssumption
    <3>2. devices' = [devices EXCEPT ![id] = Gone]
      BY <2>2 DEF Delete
    <3>3. QED
      BY <1>e, <2>2, <3>1, <3>2
  <2>3. CASE id \in Live /\ SetEnabled(id, on)
    <3>1. devices[id] \in RowType
      BY <2>3, LiveRow
    <3>2. /\ [devices[id] EXCEPT !.enabled = on] \in RowType
          /\ [devices[id] EXCEPT !.enabled = on].tenant = devices[id].tenant
      BY <3>1 DEF RowType
    <3>3. devices' = [devices EXCEPT ![id] = [devices[id] EXCEPT !.enabled = on]]
      BY <2>3 DEF SetEnabled
    <3>4. QED
      BY <1>e, <2>3, <3>2, <3>3
  <2>4. QED
    BY <2>1, <2>2, <2>3 DEF Delete, SetEnabled
<1>6. ASSUME NEW o \in Operators, DeleteDevice(o) PROVE TypeOK'
  BY <1>6, <1>b, <1>d DEF DeleteDevice, TypeOK, Live, LiveIn
<1>7. ASSUME NEW o \in Operators, FleetLookup(o) PROVE TypeOK'
  <2>1. \A act \in {"remove", "enable", "disable"}, id \in Ids : [op |-> act, id |-> id] \in JobType
    BY DEF JobType
  <2>2. \A n : FoundByName(n) \subseteq Ids
    BY DEF FoundByName, Live, LiveIn
  <2>3. job' \in [Operators -> JobType \cup {None}]
    BY <1>7, <1>j, <2>1, <2>2 DEF FleetLookup
  <2>4. QED
    BY <1>7, <1>b, <1>r, <2>3 DEF FleetLookup, TypeOK
<1>8. ASSUME NEW o \in Operators, FleetAct(o) PROVE TypeOK'
  <2>1. job[o].id \in Ids /\ (job[o].op = "enable") \in BOOLEAN
    BY <1>8, <1>t, Jobs DEF FleetAct, At
  <2>2. Delete(job[o].id) \/ \E on \in BOOLEAN : SetEnabled(job[o].id, on)
    BY <1>8, <2>1 DEF FleetAct
  <2>3. QED
    BY <1>8, <1>d, <1>n, <2>1, <2>2 DEF FleetAct, At, TypeOK
<1>9. ASSUME NEW o \in Operators, SetPolicy(o) PROVE TypeOK'
  <2>1. PICK id \in Live, p \in Policies : devices' = [devices EXCEPT ![id].policy = p]
    BY <1>9 DEF SetPolicy
  <2>2. devices[id] \in RowType
    BY LiveRow DEF Live, LiveIn
  <2>3. /\ [devices[id] EXCEPT !.policy = p] \in RowType
        /\ [devices[id] EXCEPT !.policy = p].tenant = devices[id].tenant
        /\ devices' = [devices EXCEPT ![id] = [devices[id] EXCEPT !.policy = p]]
    BY <2>1, <2>2 DEF RowType
  <2>4. QED
    BY <1>9, <1>b, <1>e, <2>3 DEF SetPolicy, TypeOK
<1>10. ASSUME NEW o \in Operators, ReadSettings(o) PROVE TypeOK'
  <2>1. \A t \in Templates, c \in TokenFields :
            [op |-> "settings", read |-> settings.token, template |-> t, token |-> c] \in JobType
    BY DEF JobType, TypeOK, SettingsType
  <2>2. QED
    BY <1>10, <1>b, <1>j, <1>r, <2>1 DEF ReadSettings, TypeOK
<1>11. ASSUME NEW o \in Operators, WriteSettings(o) PROVE TypeOK'
  <2>1. job[o].template \in Templates /\ job[o].token \in TokenFields
    BY <1>11, <1>t, Jobs DEF WriteSettings, At
  <2>2. Saved(job[o]) \in SettingsType
    BY <2>1 DEF Saved, SettingsType, TypeOK
  <2>3. QED
    BY <1>11, <1>n, <1>r, <2>2 DEF WriteSettings, At, TypeOK
<1>12. ASSUME NEW o \in Operators, OpenPage(o) PROVE TypeOK'
  <2>1. \A id \in Live : id \in Ids /\ devices[id].name \in Names
    BY LiveRow DEF Live, LiveIn, RowType
  <2>2. \A p \in Purposes : [op |-> "configure", for |-> p] \in JobType
    BY <2>1 DEF Purposes, JobType
  <2>3. QED
    BY <1>12, <1>b, <1>j, <1>r, <2>2 DEF OpenPage, TypeOK
<1>13. ASSUME NEW o \in Operators, LoadSettings(o) PROVE TypeOK'
  <2>1. job[o].for \in [what : {"run", "probe"}, id : Ids \cup {None}, name : Names \cup {None}]
    BY <1>13, <1>t, Jobs DEF LoadSettings, At
  <2>2. settings.template \in Templates
    BY DEF TypeOK, SettingsType
  <2>3. [op |-> "load", for |-> job[o].for, template |-> settings.template] \in JobType
    BY <2>1, <2>2 DEF JobType
  <2>4. QED
    BY <1>13, <1>j, <1>r, <2>3 DEF LoadSettings, At, Proceeds, TypeOK
<1>14. ASSUME NEW o \in Operators, LoadDevices(o) PROVE TypeOK'
  <2> DEFINE p == job[o].for
  <2>1. p \in [what : {"run", "probe"}, id : Ids \cup {None}, name : Names \cup {None}]
    BY <1>14, <1>t, Jobs DEF LoadDevices, At
  <2>2. \A names : Select(names, devices) \subseteq Ids
    BY DEF Select, LiveIn
  <2>3. \A names : [op |-> p.what, for |-> p, selected |-> Select(names, devices)] \in JobType
    BY <2>1, <2>2 DEF JobType
  <2>4. QED
    BY <1>14, <1>j, <1>n, <1>r, <2>3 DEF LoadDevices, Selects, At, TypeOK
<1>15. ASSUME NEW o \in Operators, EndRun(o) PROVE TypeOK'
  BY <1>15, <1>n, <1>r DEF EndRun, At, TypeOK
<1>16. ASSUME NEW o \in Operators, RecordProbe(o) PROVE TypeOK'
  <2>1. job[o].selected \subseteq Ids
    BY <1>16, <1>t, Jobs DEF RecordProbe, At
  <2>2. ASSUME NEW id \in Live, NEW router \in job[o].selected,
               devices' = [devices EXCEPT ![id].facts = router], tenants' = tenants
        PROVE  /\ devices' \in [Ids -> RowType \cup {None, Gone}] /\ tenants' \subseteq Tenants
               /\ \A d \in Live' : devices'[d].tenant \in tenants'
    <3>1. devices[id] \in RowType
      BY LiveRow DEF Live, LiveIn
    <3>2. /\ [devices[id] EXCEPT !.facts = router] \in RowType
          /\ [devices[id] EXCEPT !.facts = router].tenant = devices[id].tenant
          /\ devices' = [devices EXCEPT ![id] = [devices[id] EXCEPT !.facts = router]]
      BY <2>1, <2>2, <3>1 DEF RowType
    <3>3. QED
      BY <1>e, <2>2, <3>2
  <2>3. /\ devices' \in [Ids -> RowType \cup {None, Gone}] /\ tenants' \subseteq Tenants
        /\ \A d \in Live' : devices'[d].tenant \in tenants'
    BY <1>16, <1>r, <2>2 DEF RecordProbe
  <2>4. QED
    BY <1>16, <1>n, <2>3 DEF RecordProbe, At, TypeOK
<1>17. CASE UNCHANGED vars
  BY <1>17, <1>r DEF vars, TypeOK
<1>18. QED
  BY <1>1, <1>2, <1>3, <1>4, <1>5, <1>6, <1>7, <1>8, <1>9, <1>10, <1>11, <1>12, <1>13, <1>14,
     <1>15, <1>16, <1>17 DEF Next, Handle

-----------------------------------------------------------------------------
(* What a step does to the table *)

Sits(id, row) == devices' = [devices EXCEPT ![id] = row]
\* A row appears.
Appears ==
    \E id \in Ids, row \in RowType, f \in FormType :
        /\ devices[id] = None /\ Sits(id, row) /\ Valid(f, TRUE)
        /\ renamed' = renamed /\ overtaken' = overtaken
        /\ row.kind = f.kind /\ row.path = f.path /\ row.facts = None
        /\ row.secret = (IF f.secret THEN f.kind ELSE None)
\* A row is rewritten, and maybe renamed.
Rewritten ==
    \E id \in Live, f \in FormType :
        /\ Valid(f, FALSE) /\ PasswordCheck(devices[id], f)
        /\ Sits(id, Updated(devices[id], f))
        /\ overtaken' = IF KeepsPassword(f) /\ devices[id].kind # "password"
                        THEN overtaken \cup {id}
                        ELSE IF f.secret THEN overtaken \ {id} ELSE overtaken
        /\ renamed' = IF Fold[devices[id].name] = Fold[f.name] THEN renamed ELSE renamed \cup {id}
\* A row goes.
Goes ==
    /\ renamed' = renamed /\ overtaken' = overtaken
    /\ \E id \in Live : Sits(id, Gone)
\* A row gets another switch or policy.
Switched ==
    \E id \in Live, row \in RowType :
        /\ Sits(id, row) /\ renamed' = renamed /\ overtaken' = overtaken
        /\ row.name = devices[id].name /\ row.kind = devices[id].kind
        /\ row.path = devices[id].path /\ row.secret = devices[id].secret
        /\ row.facts = devices[id].facts
\* A row gets the facts of a router.
Probed ==
    \E o \in Operators, id \in Live, row \in RowType :
        /\ Doing(o, {"probe"}) /\ row.facts \in job[o].selected
        /\ id = (IF job[o].for.id = None THEN row.facts ELSE job[o].for.id)
        /\ Sits(id, row) /\ renamed' = renamed /\ overtaken' = overtaken
        /\ row.name = devices[id].name /\ row.kind = devices[id].kind
        /\ row.path = devices[id].path /\ row.secret = devices[id].secret

LEMMA TableSteps ==
    ASSUME TypeOK, UpdatesValid, [Next]_vars
    PROVE  \/ devices' = devices /\ renamed' = renamed /\ overtaken' = overtaken
           \/ Appears \/ Rewritten \/ Goes \/ Switched \/ Probed
<1> DEFINE Result == \/ devices' = devices /\ renamed' = renamed /\ overtaken' = overtaken
                     \/ Appears \/ Rewritten \/ Goes \/ Switched \/ Probed
<1> SUFFICES Result
  OBVIOUS
<1>t. \A o \in Operators : job[o] \in JobType \cup {None}
  BY DEF TypeOK
<1>c. \A f \in FormType : Create(f) /\ renamed' = renamed /\ overtaken' = overtaken => Appears
  <2> SUFFICES ASSUME NEW f \in FormType, Create(f), renamed' = renamed,
                      overtaken' = overtaken
               PROVE  Appears
    OBVIOUS
  <2>1. Valid(f, TRUE)
    BY DEF Create
  <2>2. PICK id \in Ids, row \in RowType :
            /\ devices[id] = None /\ devices' = [devices EXCEPT ![id] = row]
            /\ row.kind = f.kind /\ row.path = f.path /\ row.facts = None
            /\ row.secret = (IF f.secret THEN f.kind ELSE None)
    BY Creates
  <2>3. QED
    BY <2>1, <2>2 DEF Appears, Sits
<1>s. \A id \in Live, on \in BOOLEAN : 
          SetEnabled(id, on) /\ renamed' = renamed /\ overtaken' = overtaken => Switched
  <2> SUFFICES ASSUME NEW id \in Live, NEW on \in BOOLEAN, SetEnabled(id, on),
                      renamed' = renamed, overtaken' = overtaken
               PROVE  Switched
    OBVIOUS
  <2> DEFINE row == [devices[id] EXCEPT !.enabled = on]
  <2>1. devices[id] \in RowType
    BY LiveRow DEF Live, LiveIn
  <2>2. /\ row \in RowType /\ row.name = devices[id].name /\ row.kind = devices[id].kind
        /\ row.path = devices[id].path /\ row.secret = devices[id].secret
        /\ row.facts = devices[id].facts
    BY <2>1 DEF RowType
  <2>3. Sits(id, row)
    BY DEF SetEnabled, Sits
  <2> HIDE DEF row
  <2>4. QED
    BY <2>2, <2>3 DEF Switched
<1>1. ASSUME NEW o \in Operators, CreateDevice(o) PROVE Result
  BY <1>1, <1>c, FormsTyped DEF CreateDevice
<1>2. ASSUME NEW o \in Operators, WriteUpdate(o) PROVE Result
  <2> DEFINE f == job[o].form
             id == job[o].id
  <2>1. /\ f \in FormType /\ Valid(f, FALSE)
        /\ KeepsPassword(f) => job[o].read = "password"
    BY <1>2, <1>t, Jobs DEF WriteUpdate, At, UpdatesValid, Doing
  <2>2. \/ UNCHANGED <<devices, renamed, overtaken>>
        \/ /\ id \in Live /\ PasswordCheck(devices[id], f)
           /\ devices' = [devices EXCEPT ![id] = Updated(@, f)]
           /\ overtaken' = IF KeepsPassword(f) /\ devices[id].kind # "password"
                           THEN overtaken \cup {id}
                           ELSE IF f.secret THEN overtaken \ {id} ELSE overtaken
           /\ renamed' = IF Fold[devices[id].name] = Fold[f.name]
                         THEN renamed ELSE renamed \cup {id}
    BY <1>2, <2>1 DEF WriteUpdate
  <2> HIDE DEF f, id
  <2>3. QED
    BY <2>1, <2>2 DEF Rewritten, Sits
<1>3. ASSUME NEW o \in Operators, AddWrite(o) PROVE Result
  <2>1. job[o].form \in FormType
    BY <1>3, <1>t, Jobs DEF AddWrite, At
  <2>2. CASE Create(job[o].form) /\ renamed' = renamed /\ overtaken' = overtaken
    BY <1>c, <2>1, <2>2
  <2>3. CASE UNCHANGED <<devices, renamed, overtaken>>
    BY <2>3
  <2>4. QED
    BY <1>3, <2>2, <2>3 DEF AddWrite, ReadForUpdate
<1>4. ASSUME NEW o \in Operators, DeleteDevice(o) PROVE Result
  BY <1>4 DEF DeleteDevice, Delete, Goes, Sits
<1>5. ASSUME NEW o \in Operators, FleetAct(o) PROVE Result
  <2>1. CASE job[o].id \notin Live
    BY <1>5, <2>1 DEF FleetAct, Delete, SetEnabled
  <2>2. CASE job[o].id \in Live /\ Delete(job[o].id)
    BY <1>5, <2>2 DEF FleetAct, Delete, Goes, Sits
  <2>3. CASE job[o].id \in Live /\ SetEnabled(job[o].id, job[o].op = "enable")
    <3>1. (job[o].op = "enable") \in BOOLEAN
      OBVIOUS
    <3>2. QED
      BY <1>5, <1>s, <2>3, <3>1 DEF FleetAct
  <2>4. QED
    BY <1>5, <2>1, <2>2, <2>3 DEF FleetAct
<1>6. ASSUME NEW o \in Operators, SetPolicy(o) PROVE Result
  <2>1. PICK id \in Live, p \in Policies : devices' = [devices EXCEPT ![id].policy = p]
    BY <1>6 DEF SetPolicy
  <2> DEFINE row == [devices[id] EXCEPT !.policy = p]
  <2>2. devices[id] \in RowType
    BY LiveRow DEF Live, LiveIn
  <2>3. /\ row \in RowType /\ row.name = devices[id].name /\ row.kind = devices[id].kind
        /\ row.path = devices[id].path /\ row.secret = devices[id].secret
        /\ row.facts = devices[id].facts
    BY <2>2 DEF RowType
  <2>4. Sits(id, row)
    BY <2>1 DEF Sits
  <2> HIDE DEF row
  <2>5. QED
    BY <1>6, <2>3, <2>4 DEF Switched, SetPolicy
<1>7. ASSUME NEW o \in Operators, RecordProbe(o) PROVE Result
  <2>1. CASE devices' = devices
    BY <1>7, <2>1 DEF RecordProbe
  <2>2. ASSUME NEW router \in job[o].selected, NEW id \in Live,
               id = (IF job[o].for.id = None THEN router ELSE job[o].for.id),
               devices' = [devices EXCEPT ![id].facts = router]
        PROVE  Result
    <3> DEFINE row == [devices[id] EXCEPT !.facts = router]
    <3>1. devices[id] \in RowType /\ router \in Ids
      BY <1>7, <1>t, Jobs, LiveRow DEF Live, LiveIn, RecordProbe, At
    <3>2. /\ row \in RowType /\ row.name = devices[id].name /\ row.kind = devices[id].kind
          /\ row.path = devices[id].path /\ row.secret = devices[id].secret
          /\ row.facts = router
      BY <3>1 DEF RowType
    <3>3. Sits(id, row)
      BY <2>2 DEF Sits
    <3>4. Doing(o, {"probe"}) /\ renamed' = renamed /\ overtaken' = overtaken
      BY <1>7 DEF RecordProbe, At, Doing
    <3> HIDE DEF row
    <3>5. QED
      BY <2>2, <3>2, <3>3, <3>4 DEF Probed
  <2>3. QED
    BY <1>7, <2>1, <2>2 DEF RecordProbe
<1>8. \A o \in Operators :
          UpdateDevice(o) \/ AddLookup(o) \/ FleetLookup(o) \/ ReadSettings(o) \/ WriteSettings(o)
              \/ OpenPage(o) \/ LoadSettings(o) \/ LoadDevices(o) \/ EndRun(o) =>
          devices' = devices /\ renamed' = renamed /\ overtaken' = overtaken
  BY DEF UpdateDevice, ReadForUpdate, AddLookup, FleetLookup, ReadSettings, WriteSettings,
         OpenPage, LoadSettings, LoadDevices, Selects, EndRun
<1>9. QED
  BY <1>1, <1>2, <1>3, <1>4, <1>5, <1>6, <1>7, <1>8 DEF Next, Handle, vars

\* The rest of the table stays.
LEMMA Seated ==
    ASSUME TypeOK, NEW id \in Ids, NEW row, Sits(id, row)
    PROVE  /\ devices'[id] = row
           /\ \A d \in Ids : d # id => devices'[d] = devices[d] /\ (d \in Live' <=> d \in Live)
           /\ id \in Live' <=> row \notin {None, Gone}
BY DEF TypeOK, Sits, Live, LiveIn

-----------------------------------------------------------------------------
(* Credentials *)

\* An update that may be written.
Sound(j) == /\ Valid(j.form, FALSE)
            /\ KeepsPassword(j.form) => j.read = "password"
LEMMA UpdatesStep == TypeOK /\ UpdatesValid /\ [Next]_vars => UpdatesValid'
<1> SUFFICES ASSUME TypeOK, UpdatesValid, [Next]_vars, NEW q \in Operators, Doing(q, {"update"})'
             PROVE  Sound(job'[q])
  BY DEF UpdatesValid, Sound
<1>q. job[q] = job'[q] => Sound(job'[q])
  BY DEF UpdatesValid, Doing, Sound
<1>r. \A o \in Operators : \A id, f : ReadForUpdate(o, id, f) => Sound(job'[q])
  <2> SUFFICES ASSUME NEW o \in Operators, NEW id, NEW f, ReadForUpdate(o, id, f)
               PROVE  Sound(job'[q])
    OBVIOUS
  <2>1. CASE o = q
    BY <2>1 DEF ReadForUpdate, PasswordStored, Sound, TypeOK
  <2>2. CASE o # q
    BY <1>q, <2>2 DEF ReadForUpdate, TypeOK
  <2>3. QED
    BY <2>1, <2>2
<1>p. \A o \in Operators : \A j : Proceeds(o, j) /\ (j = None \/ j.op # "update") =>
          Sound(job'[q])
  BY <1>q DEF Proceeds, Doing, TypeOK
<1>1. ASSUME NEW o \in Operators, Handle(o) PROVE Sound(job'[q])
  <2>1. CASE UpdateDevice(o)
    BY <1>r, <2>1 DEF UpdateDevice
  <2>2. CASE AddWrite(o)
    BY <1>p, <1>r, <2>2 DEF AddWrite, Ends
  <2>3. CASE AddLookup(o)
    BY <1>p, <2>3 DEF AddLookup
  <2>4. CASE FleetLookup(o)
    BY <1>p, <2>4 DEF FleetLookup
  <2>5. CASE ReadSettings(o) \/ OpenPage(o)
    BY <1>p, <2>5 DEF ReadSettings, OpenPage
  <2>6. CASE LoadSettings(o)
    BY <1>p, <2>6 DEF LoadSettings, Proceeds
  <2>7. CASE LoadDevices(o)
    <3>1. job[o].for.what # "update"
      BY <2>7, Jobs DEF LoadDevices, At, TypeOK
    <3>2. QED
      BY <1>p, <2>7, <3>1 DEF LoadDevices, Selects, Ends
  <2>8. CASE WriteUpdate(o) \/ FleetAct(o) \/ WriteSettings(o) \/ EndRun(o) \/ RecordProbe(o)
    BY <1>p, <2>8 DEF WriteUpdate, FleetAct, WriteSettings, EndRun, RecordProbe, Ends
  <2>9. CASE CreateDevice(o) \/ DeleteDevice(o) \/ SetPolicy(o)
    BY <1>q, <2>9 DEF CreateDevice, DeleteDevice, SetPolicy
  <2>10. QED
    BY <1>1, <2>1, <2>2, <2>3, <2>4, <2>5, <2>6, <2>7, <2>8, <2>9 DEF Handle
<1>2. QED
  BY <1>1, <1>q DEF Next, vars

LEMMA CredentialsStep ==
    TypeOK /\ UpdatesValid /\ CredentialsUsable /\ [Next]_vars => CredentialsUsable'
<1> SUFFICES ASSUME TypeOK, UpdatesValid, CredentialsUsable, [Next]_vars PROVE CredentialsUsable'
  OBVIOUS
<1>1. ASSUME NEW id \in Ids, NEW row, Sits(id, row),
             row.kind = "password" => row.secret # None,
             row.kind = "password" => row.secret = "password" \/ id \in overtaken',
             row.kind = "key" => row.path, overtaken \ {id} \subseteq overtaken'
      PROVE  CredentialsUsable'
  <2>1. \A d \in Live' : d # id => d \in Live /\ devices'[d] = devices[d]
    BY <1>1, Seated DEF Live, LiveIn
  <2>2. devices'[id] = row
    BY <1>1, Seated
  <2>3. QED
    BY <1>1, <2>1, <2>2 DEF CredentialsUsable
<1>2. \A id \in Live :
          /\ id \in Ids
          /\ devices[id].kind = "password" => devices[id].secret # None
          /\ devices[id].kind = "password" =>
                 devices[id].secret = "password" \/ id \in overtaken
          /\ devices[id].kind = "key" => devices[id].path
  BY DEF CredentialsUsable, Live, LiveIn
<1>3. CASE devices' = devices /\ overtaken' = overtaken
  BY <1>3 DEF CredentialsUsable, Live, LiveIn
<1>4. CASE Appears
  <2>1. "password" # None /\ "key" # None
    BY NoValueAssumption DEF Kinds
  <2>2. QED
    BY <1>1, <1>4, <2>1 DEF Appears, Valid
<1>5. CASE Rewritten
  <2>1. PICK id \in Live, f \in FormType :
            /\ Valid(f, FALSE) /\ PasswordCheck(devices[id], f)
            /\ Sits(id, Updated(devices[id], f))
            /\ overtaken' = IF KeepsPassword(f) /\ devices[id].kind # "password"
                            THEN overtaken \cup {id}
                            ELSE IF f.secret THEN overtaken \ {id} ELSE overtaken
    BY <1>5 DEF Rewritten
  <2>2. devices[id] \in RowType /\ id \in Ids
    BY LiveRow DEF Live, LiveIn
  <2>3. "password" # None
    BY NoValueAssumption DEF Kinds
  <2> DEFINE row == Updated(devices[id], f)
  <2>4. /\ row.kind = f.kind /\ row.path = f.path
        /\ row.secret = IF f.secret THEN f.kind
                        ELSE IF f.kind = "agent" THEN None ELSE devices[id].secret
    BY <2>2, UpdatedTyped
  <2>5. Sits(id, row)
    BY <2>1
  <2> HIDE DEF row
  <2>6. row.kind = "key" => row.path
    BY <2>1, <2>4 DEF Valid
  <2>7. row.kind = "password" => row.secret # None
    BY <2>1, <2>3, <2>4 DEF PasswordCheck
  <2>8. \* Kept: it was a password, or it is excepted from now on.
        row.kind = "password" => row.secret = "password" \/ id \in overtaken'
    <3>1. CASE f.kind = "password" /\ f.secret
      BY <2>4, <3>1
    <3>2. CASE f.kind = "password" /\ ~f.secret /\ devices[id].kind = "password"
      <4>1. row.secret = devices[id].secret /\ overtaken' = overtaken
        BY <2>1, <2>4, <3>2
      <4>2. QED
        BY <1>2, <3>2, <4>1
    <3>3. CASE f.kind = "password" /\ ~f.secret /\ devices[id].kind # "password"
      BY <2>1, <3>3 DEF KeepsPassword
    <3>4. QED
      BY <2>4, <3>1, <3>2, <3>3 DEF FormType
  <2>9. overtaken \ {id} \subseteq overtaken'
    BY <2>1
  <2>10. QED
    BY <1>1, <2>2, <2>5, <2>6, <2>7, <2>8, <2>9
<1>6. CASE Goes
  BY <1>6, Seated DEF Goes, CredentialsUsable, Live, LiveIn
<1>7. CASE Switched \/ Probed
  BY <1>1, <1>2, <1>7 DEF Switched, Probed
<1>8. QED
  BY <1>3, <1>4, <1>5, <1>6, <1>7, TableSteps

-----------------------------------------------------------------------------
(* Pages *)

\* A device that was renamed or is gone stays so, and any other keeps its name.
LEMMA Persists ==
    ASSUME TypeOK, UpdatesValid, [Next]_vars, NEW id \in Ids
    PROVE  /\ Lost(id) => Lost(id)'
           /\ \A n : id \in Live /\ Fold[devices[id].name] = Fold[n] =>
                  \/ Lost(id)'
                  \/ id \in Live' /\ Fold[devices'[id].name] = Fold[n]
<1> DEFINE Result == /\ Lost(id) => Lost(id)'
                     /\ \A n : id \in Live /\ Fold[devices[id].name] = Fold[n] =>
                            \/ Lost(id)'
                            \/ id \in Live' /\ Fold[devices'[id].name] = Fold[n]
<1>s. Gone \notin RowType \cup {None} /\ None \notin RowType
  BY NoValueAssumption
<1>l. \A d \in Live : d \in Ids /\ devices[d] \in RowType /\ devices[d] # Gone
  BY LiveRow DEF Live, LiveIn
<1>k. \* Another device is touched, or this one keeps its name.
      ASSUME NEW d \in Ids, NEW row, Sits(d, row), renamed \subseteq renamed',
             devices[d] # Gone,
             d = id /\ d \in Live => row \in RowType /\ Fold[row.name] = Fold[devices[d].name]
      PROVE  Result
  <2>1. CASE d = id
    BY <1>k, <1>s, <2>1, Seated DEF Lost
  <2>2. CASE d # id
    BY <1>k, <2>2, Seated DEF Lost
  <2>3. QED
    BY <2>1, <2>2
<1>1. CASE devices' = devices /\ renamed' = renamed
  BY <1>1 DEF Lost, Live, LiveIn
<1>2. CASE Appears
  <2>1. PICK d \in Ids, row \in RowType :
            devices[d] = None /\ Sits(d, row) /\ renamed' = renamed
    BY <1>2 DEF Appears
  <2>2. d \notin Live /\ devices[d] # Gone
    BY <1>s, <2>1 DEF Live, LiveIn
  <2>3. QED
    BY <1>k, <2>1, <2>2
<1>3. CASE Rewritten
  <2>1. PICK d \in Live, f \in FormType :
            /\ Sits(d, Updated(devices[d], f))
            /\ renamed' = IF Fold[devices[d].name] = Fold[f.name]
                          THEN renamed ELSE renamed \cup {d}
    BY <1>3 DEF Rewritten
  <2>2. Updated(devices[d], f) \in RowType /\ Updated(devices[d], f).name = f.name
    BY <1>l, UpdatedTyped
  <2>3. CASE d = id /\ Fold[devices[d].name] # Fold[f.name]
    BY <2>1, <2>3 DEF Lost
  <2>4. CASE d # id \/ Fold[devices[d].name] = Fold[f.name]
    BY <1>k, <1>l, <2>1, <2>2, <2>4
  <2>5. QED
    BY <2>3, <2>4
<1>4. CASE Goes
  <2>1. PICK d \in Live : Sits(d, Gone) /\ renamed' = renamed
    BY <1>4 DEF Goes
  <2>2. CASE d = id
    BY <1>l, <2>1, <2>2, Seated DEF Lost
  <2>3. CASE d # id
    BY <1>k, <1>l, <2>1, <2>3
  <2>4. QED
    BY <2>2, <2>3
<1>5. CASE Switched \/ Probed
  <2>1. PICK d \in Live, row \in RowType :
            Sits(d, row) /\ renamed' = renamed /\ row.name = devices[d].name
    BY <1>5 DEF Switched, Probed
  <2>2. QED
    BY <1>k, <1>l, <2>1
<1>6. QED
  BY <1>1, <1>2, <1>3, <1>4, <1>5, TableSteps

\* What a handler builds a configuration for is what its page was opened for.
Building(o) == Doing(o, {"configure", "load", "run", "probe"})
LEMMA ForStays ==
    ASSUME TypeOK, [Next]_vars, NEW q \in Operators, Building(q)'
    PROVE  \/ /\ Building(q) /\ job'[q].for = job[q].for
              /\ \/ job'[q].op \in {"configure", "load"}
                 \/ job'[q] = job[q]
                 \/ LoadDevices(q)
           \/ /\ job'[q].op = "configure"
              /\ \E p \in Purposes : job'[q].for = p
<1> DEFINE Result == \/ /\ Building(q) /\ job'[q].for = job[q].for
                        /\ \/ job'[q].op \in {"configure", "load"}
                           \/ job'[q] = job[q]
                           \/ LoadDevices(q)
                     \/ /\ job'[q].op = "configure"
                        /\ \E p \in Purposes : job'[q].for = p
<1> USE DEF TypeOK
<1>q. job'[q] = job[q] => Result
  BY DEF Building, Doing
<1>p. \A o \in Operators : \A j : Proceeds(o, j)
          /\ (j = None \/ j.op \notin {"configure", "load", "run", "probe"}) => Result
  BY <1>q DEF Proceeds, Building, Doing
<1>1. ASSUME NEW o \in Operators, Handle(o) PROVE Result
  <2>1. CASE UpdateDevice(o)
    BY <1>p, <2>1 DEF UpdateDevice, ReadForUpdate, Proceeds
  <2>2. CASE AddWrite(o)
    BY <1>p, <2>2 DEF AddWrite, Ends, ReadForUpdate, Proceeds
  <2>3. CASE AddLookup(o)
    BY <1>p, <2>3 DEF AddLookup
  <2>4. CASE FleetLookup(o)
    BY <1>p, <2>4 DEF FleetLookup
  <2>5. CASE ReadSettings(o)
    BY <1>p, <2>5 DEF ReadSettings
  <2>6. CASE OpenPage(o)
    BY <1>q, <2>6 DEF OpenPage, Proceeds
  <2>7. CASE LoadSettings(o)
    BY <1>q, <2>7 DEF LoadSettings, At, Building, Doing
  <2>8. CASE LoadDevices(o)
    <3>1. CASE o = q
      <4>1. Building(q)
        BY <2>8, <3>1 DEF LoadDevices, At, Building, Doing
      <4>2. CASE Ends(o)
        BY <1>p, <4>2 DEF Ends
      <4>3. CASE ~Ends(o)
        BY <2>8, <3>1, <4>1, <4>3 DEF LoadDevices, Selects, Proceeds
      <4>4. QED
        BY <4>2, <4>3
    <3>2. CASE o # q
      BY <1>q, <2>8, <3>2 DEF LoadDevices, Selects, Ends, Proceeds
    <3>3. QED
      BY <3>1, <3>2
  <2>9. CASE WriteUpdate(o) \/ FleetAct(o) \/ WriteSettings(o) \/ EndRun(o) \/ RecordProbe(o)
    BY <1>p, <2>9 DEF WriteUpdate, FleetAct, WriteSettings, EndRun, RecordProbe, Ends
  <2>10. CASE CreateDevice(o) \/ DeleteDevice(o) \/ SetPolicy(o)
    BY <1>q, <2>10 DEF CreateDevice, DeleteDevice, SetPolicy
  <2>11. QED
    BY <1>1, <2>1, <2>2, <2>3, <2>4, <2>5, <2>6, <2>7, <2>8, <2>9, <2>10 DEF Handle
<1>2. QED
  BY <1>1, <1>q DEF Next, vars

LEMMA PageStep == TypeOK /\ UpdatesValid /\ PageKept /\ [Next]_vars => PageKept'
<1> SUFFICES ASSUME TypeOK, UpdatesValid, PageKept, [Next]_vars,
                    NEW q \in Operators, Building(q)', job'[q].for.id # None
             PROVE  /\ job'[q].for.name # None
                    /\ \/ job'[q].for.id \in renamed' \/ devices'[job'[q].for.id] = Gone
                       \/ /\ job'[q].for.id \in Live'
                          /\ Fold[devices'[job'[q].for.id].name] = Fold[job'[q].for.name]
  BY DEF PageKept, Building, Doing, Lost
<1>1. CASE Building(q) /\ job'[q].for = job[q].for
  <2>1. PICK id \in Ids : id = job[q].for.id
    BY <1>1, Jobs DEF Building, Doing, TypeOK
  <2>2. PICK n : n = job[q].for.name
    OBVIOUS
  <2>3. n # None /\ (Lost(id) \/ (id \in Live /\ Fold[devices[id].name] = Fold[n]))
    BY <1>1, <2>1, <2>2 DEF PageKept, Building
  <2>4. Lost(id)' \/ (id \in Live' /\ Fold[devices'[id].name] = Fold[n])
    BY <2>3, Persists
  <2>5. QED
    BY <1>1, <2>1, <2>2, <2>3, <2>4 DEF Lost
<1>2. CASE \E x \in Purposes : job'[q].for = x
  <2>1. PICK id \in Ids : /\ id = job'[q].for.id /\ id \in Live
                          /\ job'[q].for.name = devices[id].name
    BY <1>2 DEF Purposes, Live, LiveIn
  <2>2. PICK n : n = devices[id].name
    OBVIOUS
  <2>3. n # None
    BY <2>1, <2>2, LiveRow, NoValueAssumption DEF RowType
  <2>4. Lost(id)' \/ (id \in Live' /\ Fold[devices'[id].name] = Fold[n])
    BY <2>1, <2>2, Persists
  <2>5. QED
    BY <2>1, <2>2, <2>3, <2>4 DEF Lost
<1>3. QED
  BY <1>1, <1>2, ForStays

LEMMA OneStep ==
    TypeOK /\ UpdatesValid /\ PageKept /\ OneSelected /\ [Next]_vars => OneSelected'
<1> SUFFICES ASSUME TypeOK, UpdatesValid, PageKept, OneSelected, [Next]_vars,
                    NEW q \in Operators, Doing(q, {"run", "probe"})', job'[q].for.name # None
             PROVE  \E d \in Ids :
                        /\ job'[q].selected = {d}
                        /\ job'[q].for.id \notin {None, d} =>
                               job'[q].for.id \in renamed' \/ devices'[job'[q].for.id] = Gone
  BY DEF OneSelected, Doing, Lost
<1>b. Building(q)'
  BY DEF Building, Doing
<1>1. CASE job'[q] = job[q]
  <2>1. PICK d \in Ids : /\ job[q].selected = {d}
                         /\ job[q].for.id \notin {None, d} => Lost(job[q].for.id)
    BY <1>1 DEF OneSelected, Doing
  <2>2. job[q].for.id \in Ids \cup {None}
    BY <1>1, Jobs DEF Doing, TypeOK
  <2>3. \A id \in Ids : Lost(id) => id \in renamed' \/ devices'[id] = Gone
    BY Persists DEF Lost
  <2>4. QED
    BY <1>1, <2>1, <2>2, <2>3
<1>2. CASE LoadDevices(q)
  <2> DEFINE p == job[q].for
             names == {p.name} \ {None}
  <2>0. ~Ends(q)
    BY DEF Ends, Proceeds, Doing, TypeOK
  <2>1. /\ Validates(job[q].template, devices) /\ ~SelectRefuses(names, devices)
        /\ job'[q] = [op |-> p.what, for |-> p, selected |-> Select(names, devices)]
        /\ devices' = devices /\ renamed' = renamed
    BY <1>2, <2>0 DEF LoadDevices, Selects, Proceeds, TypeOK
  <2>2. p.name # None /\ names = {p.name}
    BY <2>1
  <2>3. Select(names, devices) = {d \in Live : Fold[p.name] = Fold[devices[d].name]}
    BY <2>2 DEF Select, Matches, Live
  <2>4. PICK d \in Live : Fold[p.name] = Fold[devices[d].name]
    BY <2>1, <2>2, <2>3 DEF SelectRefuses
  <2>5. Select(names, devices) = {d}
    BY <2>1, <2>3, <2>4 DEF Validates, Live
  <2>6. d \in Ids
    BY <2>4 DEF Live, LiveIn
  <2>7. p.id \notin {None, d} => Lost(p.id)
    <3>1. p.id # None => Lost(p.id) \/ (p.id \in Live /\ Fold[devices[p.id].name] = Fold[p.name])
      BY <1>2 DEF PageKept, LoadDevices, At, Doing
    <3>2. QED
      BY <2>3, <2>5, <3>1
  <2>8. job'[q].selected = {d} /\ job'[q].for = p
    BY <2>1, <2>5
  <2> HIDE DEF p, names
  <2>9. QED
    BY <2>1, <2>6, <2>7, <2>8 DEF Lost
<1>3. QED
  BY <1>b, <1>1, <1>2, ForStays DEF Doing

LEMMA FactsStep ==
    TypeOK /\ UpdatesValid /\ PageKept /\ OneSelected /\ FactsAreTheDevices /\ [Next]_vars
        => FactsAreTheDevices'
<1> SUFFICES ASSUME TypeOK, UpdatesValid, PageKept, OneSelected, FactsAreTheDevices, [Next]_vars
             PROVE  FactsAreTheDevices'
  OBVIOUS
<1>k. \* The row that is written has its own facts, or none.
      ASSUME NEW id \in Ids, NEW row, Sits(id, row), renamed \subseteq renamed',
             row \notin {None, Gone} => row.facts \in {None, id} \/ id \in renamed'
      PROVE  FactsAreTheDevices'
  <2>1. \A d \in Ids : d # id => devices'[d] = devices[d] /\ (d \in Live' <=> d \in Live)
    BY <1>k, Seated
  <2>2. \A d \in Live' : d \in Ids /\ devices'[d] \notin {None, Gone}
    BY DEF Live, LiveIn
  <2>3. QED
    BY <1>k, <2>1, <2>2, Seated DEF FactsAreTheDevices
<1>l. \A d \in Live : /\ d \in Ids /\ devices[d] \in RowType
                      /\ devices[d].facts \in {None, d} \/ d \in renamed
  BY LiveRow DEF FactsAreTheDevices, Live, LiveIn
<1>1. CASE devices' = devices /\ renamed' = renamed
  BY <1>1 DEF FactsAreTheDevices, Live, LiveIn
<1>2. CASE Appears
  BY <1>2, <1>k DEF Appears
<1>3. CASE Rewritten
  <2>1. PICK id \in Live, f \in FormType :
            Sits(id, Updated(devices[id], f)) /\ renamed \subseteq renamed'
    BY <1>3 DEF Rewritten
  <2>2. Updated(devices[id], f).facts = devices[id].facts
    BY <1>l, UpdatedTyped
  <2>3. QED
    BY <1>k, <1>l, <2>1, <2>2
<1>4. CASE Goes
  BY <1>4, <1>k, <1>l DEF Goes
<1>5. CASE Switched
  BY <1>5, <1>k, <1>l DEF Switched
<1>6. CASE Probed
  <2>1. PICK o \in Operators, id \in Live, row \in RowType :
            /\ Doing(o, {"probe"}) /\ row.facts \in job[o].selected
            /\ id = (IF job[o].for.id = None THEN row.facts ELSE job[o].for.id)
            /\ Sits(id, row) /\ renamed' = renamed
    BY <1>6 DEF Probed
  <2>2. row.facts = id \/ id \in renamed
    <3>1. CASE job[o].for.id = None
      BY <2>1, <3>1
    <3>2. CASE job[o].for.id # None
      <4>1. job[o].for.name # None
        BY <2>1, <3>2 DEF PageKept, Doing
      <4>2. PICK d \in Ids : job[o].selected = {d} /\ (id # d => Lost(id))
        BY <2>1, <3>2, <4>1 DEF OneSelected, Doing
      <4>3. devices[id] # Gone
        BY DEF Live, LiveIn
      <4>4. QED
        BY <2>1, <4>2, <4>3 DEF Lost
    <3>3. QED
      BY <3>1, <3>2
  <2>3. QED
    BY <1>k, <1>l, <2>1, <2>2
<1>7. QED
  BY <1>1, <1>2, <1>3, <1>4, <1>5, <1>6, TableSteps

-----------------------------------------------------------------------------
(* The theorems *)

LEMMA Invariant == Spec => []IInv
<1>1. Init => IInv
  <2>1. Init => \A o \in Operators : job[o] = None
    BY DEF Init
  <2>2. Init => Live = {}
    BY DEF Init, Live, LiveIn
  <2>3. QED
    BY <2>1, <2>2, TypeInit DEF IInv, UpdatesValid, PageKept, OneSelected, Doing,
                                CredentialsUsable, FactsAreTheDevices
<1>2. IInv /\ [Next]_vars => IInv'
  BY TypeStep, UpdatesStep, PageStep, OneStep, CredentialsStep, FactsStep DEF IInv
<1>3. QED
  BY <1>1, <1>2, PTL DEF Spec

\* Rows, handlers and their memory are well typed, and every device's tenant is in its
\* table, for any number of devices, names, forms and handlers (db/mod.rs).
THEOREM StoreTypeCorrect == Spec => []TypeOK
<1>1. IInv => TypeOK
  BY DEF IInv
<1>2. QED
  BY <1>1, Invariant, PTL

\* Whatever edits and fleet commands run into each other, a password device has a
\* password stored and not a key's passphrase, but for a password that
\* was kept while another update replaced it, and a key device has its path (db/mod.rs
\* update_device, create_device).
THEOREM Credentials == Spec => []CredentialsUsable
<1>1. IInv => CredentialsUsable
  BY DEF IInv
<1>2. QED
  BY <1>1, Invariant, PTL

\* The facts of a device that was not renamed are its own, whatever was created,
\* deleted or renamed around it while it was probed (routes.rs test_device).
THEOREM Facts == Spec => []FactsAreTheDevices
<1>1. IInv => FactsAreTheDevices
  BY DEF IInv
<1>2. QED
  BY <1>1, Invariant, PTL

\* A run of one named device selects exactly one, and that of the page it was started
\* from unless it was renamed or deleted (routes.rs start_device_run, config.rs select).
THEOREM NamedRuns == Spec => []RunsWhatWasNamed
<1>1. IInv => RunsWhatWasNamed
  <2> SUFFICES ASSUME IInv, NEW o \in Operators, job[o] # None, job[o].op = "run",
                      job[o].for.name # None
               PROVE  /\ Cardinality(job[o].selected) = 1
                      /\ \/ job[o].for.id \in job[o].selected \cup renamed \cup {None}
                         \/ devices[job[o].for.id] = Gone
    BY DEF RunsWhatWasNamed
  <2>1. PICK d \in Ids : /\ job[o].selected = {d}
                         /\ job[o].for.id \notin {None, d} => Lost(job[o].for.id)
    BY DEF IInv, OneSelected, Doing
  <2>2. Cardinality({d}) = 1
    BY FS_Singleton
  <2>3. QED
    BY <2>1, <2>2 DEF Lost
<1>2. QED
  BY <1>1, Invariant, PTL

\* A save that types or clears no token leaves the one that is there, however long ago
\* its page or command read the settings and whatever else it changes (db/mod.rs
\* update_settings, to_input).
THEOREM TokenKept == Spec => TokenNeverDropped
<1> DEFINE Kept == settings'.token # settings.token =>
                       \E o \in Operators :
                           /\ job[o] # None /\ job[o].op = "settings" /\ job'[o] = None
                           /\ job[o].token = IF settings'.token THEN "typed" ELSE "cleared"
<1>1. ASSUME IInv, NEW o \in Operators, WriteSettings(o) PROVE Kept
  <2>1. job[o].token \in TokenFields /\ settings.token \in BOOLEAN
    BY <1>1, Jobs DEF IInv, TypeOK, WriteSettings, At, SettingsType
  <2>2. settings'.token = (job[o].token = "typed" \/ (job[o].token = "kept" /\ settings.token))
    BY <1>1 DEF WriteSettings, Saved
  <2>3. job[o] # None /\ job[o].op = "settings" /\ job'[o] = None
    BY <1>1 DEF WriteSettings, At, Ends, Proceeds, IInv, TypeOK
  <2>4. QED
    BY <2>1, <2>2, <2>3 DEF TokenFields
<1>2. \A o \in Operators : Handle(o) /\ ~WriteSettings(o) => settings' = settings
  BY DEF Handle, CreateDevice, UpdateDevice, WriteUpdate, AddLookup, AddWrite, DeleteDevice,
         FleetLookup, FleetAct, SetPolicy, ReadSettings, OpenPage, LoadSettings, LoadDevices,
         Selects, EndRun, RecordProbe, ReadForUpdate
<1>3. IInv /\ [Next]_vars => Kept
  BY <1>1, <1>2 DEF Next, vars
<1>4. IInv /\ [Next]_vars => [Kept]_vars
  BY <1>3
<1>5. QED
  BY <1>4, Invariant, PTL DEF Spec, TokenNeverDropped
=============================================================================
