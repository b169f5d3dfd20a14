----------------------------- MODULE DeviceStore -----------------------------
(***************************************************************************)
(* The fleet and the settings in the database, and the configuration that  *)
(* runs, tests and sweeps are built from (db/mod.rs, config.rs).           *)
(*                                                                         *)
(* Every operator is one request handler or one command at a time.  What a *)
(* handler does in one statement or transaction is one action; what it     *)
(* reads before is an action of its own, and between the two others write: *)
(*   - update_device reads the row, then updates it in a transaction;      *)
(*   - the fleet commands find a device by name, then act on its id;       *)
(*   - settings are read as a whole, changed, and written as a whole;      *)
(*   - runtime_config reads settings, then devices, and a device page has  *)
(*     read its row before.                                                *)
(* A handler that gives up before it writes takes no action here.          *)
(*                                                                         *)
(* Host, port, SSH username and tags are left out: no rule looks at them   *)
(* but "not empty".  A secret is known by the kind of credential it was    *)
(* typed as, a router by the device row that was made for it.  Tenants are *)
(* numbers in the order of their slugs.                                    *)
(***************************************************************************)
EXTENDS Naturals, FiniteSets

CONSTANTS
    Ids,            \* device ids
    Names,          \* device names
    Tenants,        \* tenant slugs, as numbers in their order
    Fold,           \* the lower-case form of each name
    Slug,           \* the file name slugify makes of each name
    Policies,       \* update channel and upgrade permission
    DefaultPolicy,  \* stable, upgrades permitted
    Operators,      \* handlers and commands in flight
    Forms,          \* the device forms operators submit
    Adds,           \* the argument lists of fleet add
    MaxHandlers,    \* bound on the handlers that begin
    None,           \* no value; a device id that was not given out yet
    Gone            \* in the place of a row: the device was deleted

ASSUME DeviceStoreAssumption ==
    /\ Tenants \subseteq Nat
    /\ DOMAIN Fold = Names /\ DOMAIN Slug = Names
    /\ DefaultPolicy \in Policies
    /\ MaxHandlers \in Nat

Kinds == {"password", "key", "agent"}
Templates == {"{tenant}/{device}", "{device}"}

\* DeviceInput.  `secret` is whether one was typed: an empty field keeps what is
\* stored.  `path` is whether a private key path is given.
FormType == [name : Names, tenant : Tenants, kind : Kinds, secret : BOOLEAN,
             path : BOOLEAN, enabled : BOOLEAN, policy : Policies]
\* AddArgs.  kind is None when no credential is given, secret tells a key with a
\* passphrase from one without.
AddType == [name : Names, tenant : Tenants, kind : Kinds \cup {None},
            secret : BOOLEAN, update : BOOLEAN, enabled : BOOLEAN]

ASSUME InputAssumption == Forms \subseteq FormType /\ Adds \subseteq AddType

\* A row of the devices table.
RowType == [name : Names, tenant : Tenants, kind : Kinds, secret : Kinds \cup {None},
            path : BOOLEAN, enabled : BOOLEAN, policy : Policies,
            facts : Ids \cup {None}]

ASSUME NoValueAssumption ==
    /\ None \notin Ids \cup Names \cup Kinds \cup RowType
    /\ Gone \notin RowType \cup {None}

SettingsType == [template : Templates, token : BOOLEAN]

VARIABLES
    devices,    \* the devices table
    tenants,    \* the tenants table
    settings,   \* the settings row
    job,        \* what each operator's handler has read and is about to do
    renamed,    \* history: devices that were given another name
    overtaken,  \* history: devices whose password an update kept although another
                \* update had taken it away since, and that were not typed one yet
    begun       \* handlers that have begun

vars == <<devices, tenants, settings, job, renamed, overtaken, begun>>

LiveIn(rows) == {d \in Ids : rows[d] \notin {None, Gone}}
Live == LiveIn(devices)

-----------------------------------------------------------------------------
(* Slips: forms of definitions below as a plausible mistake would have them.  *)
(* They are no part of Next; each is a change that one property must notice.  *)
(* One more stands before LoadDevices.                                        *)

\* The constraint device_password_needs_secret is not there.
PasswordCheckMissing(row, f) == TRUE

\* Keeping a password takes a stored secret, of whatever kind.
SecretStored(row, f) == f.kind = "password" /\ ~f.secret => row.secret # None

\* A name adds to the fleet instead of narrowing it.
MatchesAlso(names, row) == row.enabled \/ \E n \in names : Fold[n] = Fold[row.name]

\* to_input carries the token that was read.
SavedAsRead(j) == [template |-> j.template,
                   token |-> j.token = "typed" \/ (j.token = "kept" /\ j.read)]

\* The tenant is made in a transaction of its own that is rolled back.
TenantForgotten(t) == tenants' = tenants

-----------------------------------------------------------------------------
(* Inputs *)

\* DeviceInput::validate.
Valid(f, creating) ==
    /\ f.kind = "password" /\ creating => f.secret
    /\ f.kind = "key" => f.path

\* device_credentials and the input fleet_add builds: without a credential the
\* kind is the stored one, and the policy is always the default.
AddForm(a, existing) ==
    [name |-> a.name, tenant |-> a.tenant,
     kind |-> IF a.kind = None THEN devices[existing].kind ELSE a.kind,
     secret |-> a.secret, path |-> a.kind = "key",
     enabled |-> a.enabled, policy |-> DefaultPolicy]

-----------------------------------------------------------------------------
(* The configuration of a run *)

\* render_backup_path.
BackupPath(template, row) ==
    IF template = "{device}" THEN <<Slug[row.name]>> ELSE <<row.tenant, Slug[row.name]>>

\* Config::validate: no two names that differ in case only, no two devices with
\* one file.
Validates(template, rows) ==
    \A d, e \in LiveIn(rows) : d # e =>
        /\ Fold[rows[d].name] # Fold[rows[e].name]
        /\ BackupPath(template, rows[d]) # BackupPath(template, rows[e])

\* DeviceFilter::matches, for names: a device that is named is selected although
\* it is switched off.
Matches(names, row) ==
    LET named == \E n \in names : Fold[n] = Fold[row.name]
    IN  IF names = {} THEN row.enabled ELSE named

\* Config::select, of the rows of a configuration; it refuses a name that no
\* selected device has.  find_device is select of one name.
Select(names, rows) == {d \in LiveIn(rows) : Matches(names, rows[d])}
SelectRefuses(names, rows) ==
    \E n \in names : \A d \in Select(names, rows) : Fold[n] # Fold[rows[d].name]

-----------------------------------------------------------------------------
(* Writing a device *)

\* find_device_by_name: without regard to case, the first tenant's match.
FoundByName(n) ==
    {d \in Live :
        /\ Fold[devices[d].name] = Fold[n]
        /\ \A e \in Live : Fold[devices[e].name] = Fold[n] =>
               devices[d].tenant <= devices[e].tenant}

\* UNIQUE (tenant_id, name), with case.
NameTaken(f, except) ==
    \E d \in Live \ {except} : devices[d].name = f.name /\ devices[d].tenant = f.tenant

\* The row update_device writes.  A secret that was not typed stays, unless the
\* device no longer has a credential of its own.
Updated(row, f) ==
    [row EXCEPT !.name = f.name, !.tenant = f.tenant, !.kind = f.kind,
                !.path = f.path, !.enabled = f.enabled, !.policy = f.policy,
                !.secret = IF f.secret THEN f.kind
                           ELSE IF f.kind = "agent" THEN None ELSE row.secret]

\* CHECK device_password_needs_secret, when the first of the transaction's two
\* updates sets the kind and the second has not yet set the secret.
PasswordCheck(row, f) == f.kind = "password" => row.secret # None

\* The check of update_device on the row it read.
KeepsPassword(f) == f.kind = "password" /\ ~f.secret
PasswordStored(row, f) == KeepsPassword(f) => row.kind = "password" /\ row.secret # None

\* upsert_tenant.
UpsertTenant(t) == tenants' = tenants \cup {t}

\* create_device: one transaction, in which the tenant is made if need be.
Create(f) ==
    /\ Valid(f, TRUE)
    /\ ~NameTaken(f, None)
    /\ \E id \in Ids :
        /\ devices[id] = None
        /\ devices' = [devices EXCEPT ![id] =
               [name |-> f.name, tenant |-> f.tenant, kind |-> f.kind,
                secret |-> IF f.secret THEN f.kind ELSE None, path |-> f.path,
                enabled |-> f.enabled, policy |-> f.policy, facts |-> None]]
    /\ UpsertTenant(f.tenant)

-----------------------------------------------------------------------------
(* Handlers *)

\* A handler is at its start, or about to do what its operator's job says.
Begins(o) == job[o] = None /\ begun < MaxHandlers /\ begun' = begun + 1
At(o, ops) == job[o] # None /\ job[o].op \in ops /\ begun' = begun
Proceeds(o, j) == job' = [job EXCEPT ![o] = j]
Ends(o) == Proceeds(o, None)

\* POST /devices.
CreateDevice(o) ==
    /\ Begins(o)
    /\ \E f \in Forms : Create(f)
    /\ UNCHANGED <<settings, job, renamed, overtaken>>

\* update_device up to its transaction: the row is read, and keeping a password
\* takes one that is stored now.
ReadForUpdate(o, id, f) ==
    /\ id \in Live
    /\ Valid(f, FALSE)
    /\ PasswordStored(devices[id], f)
    /\ job' = [job EXCEPT ![o] =
           [op |-> "update", id |-> id, form |-> f, read |-> devices[id].kind]]
    /\ UNCHANGED <<devices, tenants, settings, renamed, overtaken>>

\* POST /devices/{id}.
UpdateDevice(o) == Begins(o) /\ \E id \in Ids, f \in Forms : ReadForUpdate(o, id, f)

\* The transaction of update_device.  A row that is gone by now is not missed.
WriteUpdate(o) ==
    /\ At(o, {"update"})
    /\ LET f == job[o].form
           id == job[o].id
           refused == id \in Live /\ (NameTaken(f, id) \/ ~PasswordCheck(devices[id], f))
       IN  IF refused
           THEN UNCHANGED <<devices, tenants, renamed, overtaken>>
           ELSE /\ UpsertTenant(f.tenant)
                /\ IF id \notin Live
                   THEN UNCHANGED <<devices, renamed, overtaken>>
                   ELSE /\ devices' = [devices EXCEPT ![id] = Updated(@, f)]
                        /\ renamed' = IF Fold[devices[id].name] = Fold[f.name]
                                      THEN renamed ELSE renamed \cup {id}
                        /\ overtaken' = IF KeepsPassword(f) /\ devices[id].kind # job[o].read
                                        THEN overtaken \cup {id}
                                        ELSE IF f.secret THEN overtaken \ {id}
                                        ELSE overtaken
    /\ Ends(o)
    /\ UNCHANGED settings

\* fleet add: the device is looked up by name.
AddLookup(o) ==
    /\ Begins(o)
    /\ \E a \in Adds :
        \/ /\ FoundByName(a.name) = {}
           /\ a.kind # None
           /\ Proceeds(o, [op |-> "add", id |-> None, form |-> AddForm(a, None)])
        \/ \E id \in FoundByName(a.name) :
            /\ a.update
            /\ Proceeds(o, [op |-> "add", id |-> id, form |-> AddForm(a, id)])
    /\ UNCHANGED <<devices, tenants, settings, renamed, overtaken>>

\* fleet add: then it is created, or handed to update_device.
AddWrite(o) ==
    /\ At(o, {"add"})
    /\ \/ /\ job[o].id = None
          /\ Create(job[o].form)
          /\ Ends(o)
          /\ UNCHANGED <<settings, renamed, overtaken>>
       \/ job[o].id # None /\ ReadForUpdate(o, job[o].id, job[o].form)
       \* Refused: name or credential will not do, the device is gone, the database
       \* fails.
       \/ /\ Ends(o)
          /\ UNCHANGED <<devices, tenants, settings, renamed, overtaken>>

\* delete_device and set_device_enabled: one statement on the row with that id, if
\* it is still there.
Delete(id) == devices' = IF id \in Live THEN [devices EXCEPT ![id] = Gone] ELSE devices
SetEnabled(id, on) ==
    devices' = IF id \in Live THEN [devices EXCEPT ![id].enabled = on] ELSE devices

\* POST /devices/{id}/delete.
DeleteDevice(o) ==
    /\ Begins(o)
    /\ \E id \in Live : Delete(id)
    /\ UNCHANGED <<tenants, settings, job, renamed, overtaken>>

\* fleet remove, enable and disable: find by name, then act on the id.
FleetLookup(o) ==
    /\ Begins(o)
    /\ \E n \in Names, act \in {"remove", "enable", "disable"} :
        \E id \in FoundByName(n) : Proceeds(o, [op |-> act, id |-> id])
    /\ UNCHANGED <<devices, tenants, settings, renamed, overtaken>>
FleetAct(o) ==
    /\ \/ At(o, {"remove"}) /\ Delete(job[o].id)
       \/ At(o, {"enable", "disable"}) /\ SetEnabled(job[o].id, job[o].op = "enable")
    /\ Ends(o)
    /\ UNCHANGED <<tenants, settings, renamed, overtaken>>

\* POST /firmware/policy/{id}: set_device_policy.
SetPolicy(o) ==
    /\ Begins(o)
    /\ \E id \in Live, p \in Policies : devices' = [devices EXCEPT ![id].policy = p]
    /\ UNCHANGED <<tenants, settings, job, renamed, overtaken>>

-----------------------------------------------------------------------------
(* Settings *)

\* GET /settings, or the settings command: the row is what the form or to_input()
\* starts from.  Then any field is changed or left alone: here the template, which
\* is sent whole, and the token, which is typed, cleared or left empty.
TokenFields == {"kept", "cleared", "typed"}
ReadSettings(o) ==
    /\ Begins(o)
    /\ \E template \in Templates, token \in TokenFields :
        Proceeds(o, [op |-> "settings", read |-> settings.token,
                     template |-> template, token |-> token])
    /\ UNCHANGED <<devices, tenants, settings, renamed, overtaken>>

\* update_settings: every field as it was sent, and a token that was not typed as
\* it is now.
Saved(j) == [template |-> j.template,
             token |-> j.token = "typed" \/ (j.token = "kept" /\ settings.token)]

WriteSettings(o) ==
    /\ At(o, {"settings"})
    /\ settings' = Saved(job[o])
    /\ Ends(o)
    /\ UNCHANGED <<devices, tenants, renamed, overtaken>>

-----------------------------------------------------------------------------
(* Building a configuration, and testing a device with it *)

\* What a configuration is built for: a run or the test of a device, of a device
\* page that has read the row by its id before, or of a command that gives a name;
\* or a run of the whole fleet.
Purposes ==
    [what : {"run", "probe"}, id : {None}, name : Names]
    \cup {[what |-> w, id |-> id, name |-> devices[id].name] :
              w \in {"run", "probe"}, id \in Live}
    \cup {[what |-> "run", id |-> None, name |-> None]}

\* The page's row is read.
OpenPage(o) ==
    /\ Begins(o)
    /\ \E p \in Purposes : Proceeds(o, [op |-> "configure", for |-> p])
    /\ UNCHANGED <<devices, tenants, settings, renamed, overtaken>>

\* runtime_config reads the settings; what it takes but the template, no rule here
\* looks at.
LoadSettings(o) ==
    /\ At(o, {"configure"})
    /\ job' = [job EXCEPT ![o] =
           [op |-> "load", for |-> job[o].for, template |-> settings.template]]
    /\ UNCHANGED <<devices, tenants, settings, renamed, overtaken>>

\* Then it reads the devices, and validate looks at the whole: a fleet it refuses
\* ends the handler, as does a name that is not found.
Selects(o, accepted) ==
    /\ At(o, {"load"})
    /\ LET p == job[o].for
           names == {p.name} \ {None}
       IN  IF ~accepted \/ SelectRefuses(names, devices)
           THEN Ends(o)
           ELSE Proceeds(o, [op |-> p.what, for |-> p, selected |-> Select(names, devices)])
    /\ UNCHANGED <<devices, tenants, settings, renamed, overtaken>>
\* A slip: the test of a device takes the configuration without validate.
LoadDevicesUnchecked(o) ==
    At(o, {"load"}) /\ Selects(o, job[o].for.what = "probe" \/ Validates(job[o].template, devices))
LoadDevices(o) == At(o, {"load"}) /\ Selects(o, Validates(job[o].template, devices))

\* The run is over, with the devices it selected at its start.
EndRun(o) ==
    /\ At(o, {"run"})
    /\ Ends(o)
    /\ UNCHANGED <<devices, tenants, settings, renamed, overtaken>>

\* routeros::probe answers and record_probe writes, or it fails.
RecordProbe(o) ==
    /\ At(o, {"probe"})
    /\ \/ UNCHANGED devices
       \/ \E router \in job[o].selected :
            LET id == IF job[o].for.id = None THEN router ELSE job[o].for.id
            IN  /\ id \in Live
                /\ devices' = [devices EXCEPT ![id].facts = router]
    /\ Ends(o)
    /\ UNCHANGED <<tenants, settings, renamed, overtaken>>

-----------------------------------------------------------------------------
(* Specification *)

Init ==
    /\ devices = [d \in Ids |-> None]
    /\ tenants = {}
    /\ settings = [template |-> "{tenant}/{device}", token |-> FALSE]
    /\ job = [o \in Operators |-> None]
    /\ renamed = {}
    /\ overtaken = {}
    /\ begun = 0

Handle(o) ==
    \/ CreateDevice(o) \/ UpdateDevice(o) \/ WriteUpdate(o)
    \/ AddLookup(o) \/ AddWrite(o)
    \/ DeleteDevice(o) \/ FleetLookup(o) \/ FleetAct(o) \/ SetPolicy(o)
    \/ ReadSettings(o) \/ WriteSettings(o)
    \/ OpenPage(o) \/ LoadSettings(o) \/ LoadDevices(o) \/ EndRun(o) \/ RecordProbe(o)

Next == \E o \in Operators : Handle(o)

Spec == Init /\ [][Next]_vars

-----------------------------------------------------------------------------
(* Properties *)

\* Every row and every handler's memory is well formed, and a device's tenant is
\* in the tenants table.
JobType ==
    LET purpose == [what : {"run", "probe"}, id : Ids \cup {None}, name : Names \cup {None}]
    IN  [op : {"update"}, id : Ids, form : FormType, read : Kinds]
        \cup [op : {"add"}, id : Ids \cup {None}, form : FormType]
        \cup [op : {"remove", "enable", "disable"}, id : Ids]
        \cup [op : {"settings"}, read : BOOLEAN, template : Templates, token : TokenFields]
        \cup [op : {"configure"}, for : purpose]
        \cup [op : {"load"}, for : purpose, template : Templates]
        \cup [op : {"run", "probe"}, for : purpose, selected : SUBSET Ids]
TypeOK ==
    /\ devices \in [Ids -> RowType \cup {None, Gone}]
    /\ tenants \subseteq Tenants
    /\ \A d \in Live : devices[d].tenant \in tenants
    /\ settings \in SettingsType
    /\ job \in [Operators -> JobType \cup {None}]
    /\ renamed \subseteq Ids
    /\ overtaken \subseteq Ids
    /\ begun \in 0..MaxHandlers

\* Whatever edits and fleet commands run into each other, every device can log in
\* the way it says: what a password device has stored was typed as a password, not
\* as a key's passphrase, and a key device has a path (update_device decides on a
\* row it read before).  Only the update that keeps a password another update has
\* just replaced gets past the CHECK constraint, which sees that there is a secret
\* and not what it is: PasswordIsStored.
CredentialsUsable ==
    \A d \in Live :
        /\ devices[d].kind = "password" =>
               /\ devices[d].secret # None
               /\ devices[d].secret = "password" \/ d \in overtaken
        /\ devices[d].kind = "key" => devices[d].path

\* The facts on a device's page come from that device, unless it was renamed
\* (test_device reads a row by its id, probes whatever has its name, and records
\* the answer under the id).
FactsAreTheDevices ==
    \A d \in Live : devices[d].facts \notin {None, d} => d \in renamed

\* A run of one named device backs up one device, and the one of the page it was
\* started from, unless that was renamed or deleted (start_device_run knows an id
\* and passes on a name; names are unique only per tenant and by case).
RunsWhatWasNamed ==
    \A o \in Operators :
        LET j == job[o]
        IN  (j # None /\ j.op = "run" /\ j.for.name # None) =>
                /\ Cardinality(j.selected) = 1
                /\ \/ j.for.id \in j.selected \cup renamed \cup {None}
                   \/ devices[j.for.id] = Gone

\* "A partial update must never silently drop the token" (db/mod.rs, to_input):
\* a save that changes anything else, from a page or a command that read the
\* settings before others saved them, keeps the token that is there now, be it one
\* that was typed or none since it was cleared.
TokenNeverDropped ==
    [][settings'.token # settings.token =>
        \E o \in Operators :
            /\ job[o] # None /\ job[o].op = "settings" /\ job'[o] = None
            /\ job[o].token = IF settings'.token THEN "typed" ELSE "cleared"]_vars

-----------------------------------------------------------------------------
(* The inductive invariant *)

Doing(o, ops) == job[o] # None /\ job[o].op \in ops

\* What update_device is about to write passed validate and its check of the row.
UpdatesValid ==
    \A o \in Operators : Doing(o, {"update"}) =>
        /\ Valid(job[o].form, FALSE)
        /\ KeepsPassword(job[o].form) => job[o].read = "password"

\* The device of a page still has the name the page was opened with, or was
\* renamed, or is gone; and a configuration for it has that device, or no other.
Lost(id) == id \in renamed \/ devices[id] = Gone
PageKept ==
    \A o \in Operators :
        LET p == job[o].for
        IN  Doing(o, {"configure", "load", "run", "probe"}) /\ p.id # None =>
                /\ p.name # None
                /\ \/ Lost(p.id)
                   \/ p.id \in Live /\ Fold[devices[p.id].name] = Fold[p.name]
OneSelected ==
    \A o \in Operators :
        LET p == job[o].for
        IN  Doing(o, {"run", "probe"}) /\ p.name # None =>
                \E d \in Ids :
                    /\ job[o].selected = {d}
                    /\ p.id \notin {None, d} => Lost(p.id)

IInv ==
    /\ TypeOK /\ UpdatesValid /\ PageKept /\ OneSelected
    /\ CredentialsUsable /\ FactsAreTheDevices

-----------------------------------------------------------------------------
(* What the comments say, and the code does not do *)

\* "Changing to password auth without typing a password is only valid if one is
\* already stored" (db/mod.rs, update_device): with a typed one it is valid.
TypedPasswordAccepted ==
    \A o \in Operators :
        (job[o] # None /\ job[o].op = "update" /\ job[o].id \in Live) =>
            LET f == job[o].form
            IN  f.kind = "password" /\ f.secret => PasswordCheck(devices[job[o].id], f)

\* The same comment: a device that was changed to password auth has a password
\* stored, typed as one.
PasswordIsStored == \A d \in Live : devices[d].kind = "password" => devices[d].secret = "password"

\* "Switching away from password auth drops it, so a stale credential is not left
\* behind" (db/mod.rs, update_device): a password is stored only for password auth.
StaleCredentialDropped ==
    \A d \in Live : devices[d].secret = "password" => devices[d].kind = "password"
=============================================================================
