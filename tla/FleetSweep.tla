----------------------------- MODULE FleetSweep ------------------------------
(***************************************************************************)
(* Sweeps over the fleet: backup runs, the monitor's polls and the update  *)
(* checks (backup.rs, monitor.rs, firmware/mod.rs), each of which opens    *)
(* SSH sessions on blocking threads (routeros/mod.rs, routeros/ssh.rs).    *)
(*                                                                         *)
(* The three kinds of sweeps run side by side.  They share the router      *)
(* fleet, from which devices may be deleted meanwhile, and the known_hosts *)
(* file, which every first connection reads, extends and writes back.  A   *)
(* sweep awaits each of its threads under a timeout; a thread that timed   *)
(* out cannot be stopped and goes on, with its session and with whatever   *)
(* it is about to write.                                                   *)
(*                                                                         *)
(* What a backup does with a capture is BackupRepo; who may start one is   *)
(* RunControl.  Left out: the contents of exports and samples, database    *)
(* errors that are only logged, and the pruning of old samples.  Devices   *)
(* are numbers in the order of the configuration.                          *)
(***************************************************************************)
EXTENDS Naturals, FiniteSets, Sequences

CONSTANTS
    Devices,      \* the devices of the configuration
    Enabled,      \* those that are switched on
    Named,        \* those an operator names, to back up, to check or to delete
    Pinned,       \* those whose key is in known_hosts from the start
    Policy,       \* host_key_policy
    Concurrency,  \* general.concurrency
    Answers,      \* what a router can tell an update check
    MaxSweeps,    \* bound on sweeps
    MaxSelected,  \* bound on the devices they select, together
    MaxEvents,    \* bound on deletions and stops of the server
    MaxOrphans,   \* bound on threads that outlive their timeout, at a time
    None

ASSUME FleetSweepAssumption ==
    /\ Devices \subseteq Nat /\ IsFiniteSet(Devices)
    /\ Enabled \subseteq Devices /\ Named \subseteq Devices /\ Pinned \subseteq Devices
    /\ Policy \in {"off", "strict", "accept-new"}
    /\ Concurrency \in Nat \ {0}
    /\ MaxSweeps \in Nat /\ MaxSelected \in Nat
    /\ MaxEvents \in Nat /\ MaxOrphans \in Nat

Sweeps == 1..MaxSweeps
Tasks == Sweeps \X Devices
Kinds == {"backup", "monitor", "check"}

\* A row of device_updates.
Versions == UNION {{a.installed, a.latest} : a \in Answers}
UpdateType == [installed : Versions \cup {None}, latest : Versions \cup {None}, failed : BOOLEAN]
GoodType == [answer : Answers, since : BOOLEAN]

ASSUME NoneAssumption == None \notin Answers \cup UpdateType \cup GoodType \cup Kinds

VARIABLES
    fleet,      \* devices that have a row
    sweeps,     \* kind, state, selection, report and samples of each sweep
    tasks,      \* the blocking thread of a sweep for a device
    known,      \* known_hosts: the devices whose key is pinned
    checks,     \* AppState.checks: an update check is in progress
    samples,    \* device_samples, by sweep and device
    updates,    \* device_updates
    events,     \* deletions and stops so far
    good,       \* history: last answer of each device to an update check
    settled,    \* history: known_hosts when last no connection was about to rewrite it
    torn        \* history: known_hosts was extended as read half written, or a rewrite
                \* was cut short

vars == <<fleet, sweeps, tasks, known, checks, samples, updates, events, good, settled, torn>>

NoTask == [stage |-> "none", orphan |-> FALSE, seen |-> {}]
Unused == [kind |-> None, state |-> "unused", selected |-> {}, todo |-> {}, report |-> <<>>,
           taken |-> <<>>, stored |-> 0]
On(n) == sweeps[n].state \in {"loading", "sweeping", "storing"}

\* Threads a sweep awaits, and threads that run, awaited or not.
Stages == {"verifying", "pinning", "writing", "working"}
Running(t) == tasks[t].stage \in Stages
Awaited(n) == {d \in Devices : Running(<<n, d>>) /\ ~tasks[<<n, d>>].orphan}

\* First connections between their read of known_hosts and the end of their rewrite.
Rewriting(t) == tasks[t].stage \in {"pinning", "writing"}
\* When none is left, what known_hosts has is settled.
Settle == settled' = IF \E t \in Tasks : Rewriting(t)' THEN settled ELSE known'

Reported(n) == {sweeps[n].report[i] : i \in DOMAIN sweeps[n].report}
Taken(n) == sweeps[n].taken

-----------------------------------------------------------------------------
(* Starting a sweep *)

\* The sweep is the next one, and no other of its kind is in progress: the run
\* lock, the monitor's one task and the checks flag see to that.
IsNext(n, kind) ==
    /\ sweeps[n].state = "unused"
    /\ \A m \in Sweeps : m < n => sweeps[m].state # "unused"
    /\ \A m \in Sweeps : sweeps[m].kind = kind => ~On(m)

Selected == {t \in Tasks : t[2] \in sweeps[t[1]].selected}
Select(n, kind, selected) ==
    /\ Cardinality(Selected) + Cardinality(selected) <= MaxSelected
    /\ sweeps' = [sweeps EXCEPT ![n] =
        [Unused EXCEPT !.kind = kind, !.state = "sweeping", !.selected = selected,
                       !.todo = selected]]

\* A backup of the fleet, or of one named device; with nothing selected run
\* returns at once.
StartBackup(n) ==
    /\ IsNext(n, "backup")
    /\ \E selected \in {fleet \cap Enabled} \cup {{d} : d \in fleet \cap Named} :
        selected # {} /\ Select(n, "backup", selected)
    /\ UNCHANGED <<fleet, tasks, known, checks, samples, updates, events, good, settled, torn>>

\* monitor_tick.
StartMonitor(n) ==
    /\ IsNext(n, "monitor")
    /\ Select(n, "monitor", fleet \cap Enabled)
    /\ UNCHANGED <<fleet, tasks, known, checks, samples, updates, events, good, settled, torn>>

\* spawn_check: the flag, then a task.
StartCheck(n) ==
    /\ IsNext(n, "check")
    /\ ~checks
    /\ checks' = TRUE
    /\ sweeps' = [sweeps EXCEPT ![n] = [Unused EXCEPT !.kind = "check", !.state = "loading"]]
    /\ UNCHANGED <<fleet, tasks, known, samples, updates, events, good, settled, torn>>

\* The task loads the configuration: the enabled fleet, or the one device asked
\* for, enabled or not and possibly gone by now.
LoadCheck(n) ==
    /\ sweeps[n].state = "loading"
    /\ \E selected \in {fleet \cap Enabled} \cup {{d} \cap fleet : d \in Named} :
        Select(n, "check", selected)
    /\ UNCHANGED <<fleet, tasks, known, checks, samples, updates, events, good, settled, torn>>

Over(n) == sweeps' = [sweeps EXCEPT ![n].state = "over"]

\* A slip: only a sweep that ran gives the flag back.
LoadFailsSilently(n) ==
    /\ sweeps[n].state = "loading"
    /\ Over(n)
    /\ UNCHANGED <<fleet, tasks, known, checks, samples, updates, events, good, settled, torn>>

\* runtime_config fails: the flag is given back all the same.
LoadFails(n) ==
    /\ sweeps[n].state = "loading"
    /\ Over(n)
    /\ checks' = FALSE
    /\ UNCHANGED <<fleet, tasks, known, samples, updates, events, good, settled, torn>>

-----------------------------------------------------------------------------
(* What becomes of an answer *)

\* A slip: what was not answered is cleared.
UpsertClears(row, answer) ==
    IF answer = None THEN [installed |-> None, latest |-> None, failed |-> TRUE]
    ELSE [installed |-> answer.installed, latest |-> answer.latest, failed |-> FALSE]

\* upsert_device_update: a failed check, or a field the router left out, keeps
\* what the row had.
OrElse(new, old) == IF new # None THEN new ELSE old
Upsert(row, answer) ==
    LET old == IF row = None THEN [installed |-> None, latest |-> None] ELSE row
    IN  IF answer = None
        THEN [installed |-> old.installed, latest |-> old.latest, failed |-> TRUE]
        ELSE [installed |-> OrElse(answer.installed, old.installed),
              latest |-> OrElse(answer.latest, old.latest), failed |-> FALSE]

\* The sweep takes the outcome of a device: a check stores it at once, unless the
\* device's row is gone; a poll keeps the sample for the end.
Deliver(n, d, ok, answer) ==
    /\ sweeps' = [sweeps EXCEPT ![n].report = Append(@, d),
           ![n].taken = IF ok /\ sweeps[n].kind = "monitor" THEN Append(@, d) ELSE @]
    /\ IF sweeps[n].kind = "check" /\ d \in fleet
       THEN /\ updates' = [updates EXCEPT ![d] = Upsert(@, answer)]
            /\ good' = [good EXCEPT ![d] =
                   IF ok THEN [answer |-> answer, since |-> FALSE]
                   ELSE IF good[d] = None THEN None ELSE [good[d] EXCEPT !.since = TRUE]]
       ELSE UNCHANGED <<updates, good>>

-----------------------------------------------------------------------------
(* A device of a sweep *)

\* capture_one, sample_device, check_device_inner: with a permit, in the order of
\* the configuration, a blocking thread is spawned, which connects.
Spawn(n) ==
    /\ sweeps[n].state = "sweeping"
    /\ Cardinality(Awaited(n)) < Concurrency
    /\ \E d \in sweeps[n].todo :
        /\ \A e \in sweeps[n].todo : d <= e
        /\ sweeps' = [sweeps EXCEPT ![n].todo = @ \ {d}]
        /\ tasks' = [tasks EXCEPT ![<<n, d>>] =
               [NoTask EXCEPT !.stage = IF Policy = "off" THEN "working" ELSE "verifying"]]
    /\ UNCHANGED <<fleet, known, checks, samples, updates, events, good, settled, torn>>

Proceeds(t, stage) == tasks' = [tasks EXCEPT ![t].stage = stage]

\* verify_host_key reads known_hosts.  A key that is not there is pinned, if the
\* policy says so.  A key that does not match is one of the ways ThreadEnds.
ReadHosts(t) ==
    /\ tasks[t].stage = "verifying"
    /\ \/ t[2] \in known /\ Proceeds(t, "working") /\ torn' = torn
       \/ /\ t[2] \notin known /\ Policy = "accept-new"
          /\ tasks' = [tasks EXCEPT ![t].stage = "pinning", ![t].seen = known]
          /\ torn' = (torn \/ \E u \in Tasks : tasks[u].stage = "writing")
    /\ UNCHANGED <<fleet, sweeps, known, checks, samples, updates, events, good, settled>>

\* write_file truncates the file, and there is less than it will have until it is
\* done.
WriteHosts(t) ==
    /\ tasks[t].stage = "pinning"
    /\ Proceeds(t, "writing")
    /\ known' = {}
    /\ UNCHANGED <<fleet, sweeps, checks, samples, updates, events, good, settled, torn>>

\* A slip: known_hosts.add on an empty collection.
ExtendedAlone(t) == {t[2]}
\* What is written is what was read, and the new key.
Extended(t) == tasks[t].seen \cup {t[2]}

HostsWritten(t) ==
    /\ tasks[t].stage = "writing"
    /\ tasks' = [tasks EXCEPT ![t].stage = "working", ![t].seen = {}]
    /\ known' = Extended(t)
    /\ Settle
    /\ UNCHANGED <<fleet, sweeps, checks, samples, updates, events, good, torn>>

\* The thread ends.  If the sweep has given it up, nobody hears of it; otherwise
\* its permit is free again.  A rewrite that fails leaves the part there is.
ThreadEnds(t, ok) ==
    /\ IF ok THEN tasks[t].stage = "working" ELSE Running(t)
    /\ tasks' = [tasks EXCEPT ![t] = NoTask]
    /\ torn' = (torn \/ tasks[t].stage = "writing")
    /\ IF tasks[t].orphan
       THEN UNCHANGED <<sweeps, updates, good>>
       ELSE \E answer \in IF ok /\ sweeps[t[1]].kind = "check" THEN Answers ELSE {None} :
                Deliver(t[1], t[2], ok, answer)
    /\ UNCHANGED <<fleet, known, checks, samples, events>>
    /\ Settle

\* A slip: the thread that was given up is still listened to.
TimeoutListens(t) ==
    /\ Running(t) /\ ~tasks[t].orphan
    /\ Deliver(t[1], t[2], FALSE, None)
    /\ UNCHANGED <<fleet, tasks, known, checks, samples, events, settled, torn>>

\* with_timeout: the wait is over, the thread is not -- or ends just now, if
\* MaxOrphans others go on.
Timeout(t) ==
    /\ Running(t) /\ ~tasks[t].orphan
    /\ IF Cardinality({u \in Tasks : tasks[u].orphan}) < MaxOrphans
       THEN tasks' = [tasks EXCEPT ![t].orphan = TRUE] /\ torn' = torn
       ELSE /\ tasks' = [tasks EXCEPT ![t] = NoTask]
            /\ torn' = (torn \/ tasks[t].stage = "writing")
    /\ Deliver(t[1], t[2], FALSE, None)
    /\ UNCHANGED <<fleet, known, checks, samples, events>>
    /\ Settle

-----------------------------------------------------------------------------
(* The end of a sweep *)

\* "Report order follows the config, not completion order" (backup.rs).
InOrder(report) ==
    [i \in DOMAIN report |->
        CHOOSE d \in Devices :
            /\ \E j \in DOMAIN report : report[j] = d
            /\ Cardinality({j \in DOMAIN report : report[j] < d}) = i - 1]

\* A slip: the threads that were given up are waited for.
SweptAndQuiet(n) ==
    /\ sweeps[n].state = "sweeping" /\ sweeps[n].todo = {}
    /\ \A d \in Devices : ~Running(<<n, d>>)
\* Every device has answered or timed out.
Swept(n) == sweeps[n].state = "sweeping" /\ sweeps[n].todo = {} /\ Awaited(n) = {}

EndSweep(n) ==
    /\ Swept(n)
    /\ \/ /\ sweeps[n].kind = "backup"
          /\ sweeps' = [sweeps EXCEPT ![n].state = "over", ![n].report = InOrder(@)]
          /\ UNCHANGED checks
       \/ /\ sweeps[n].kind = "monitor"
          /\ sweeps' = [sweeps EXCEPT ![n].state = "storing"]
          /\ UNCHANGED checks
       \/ /\ sweeps[n].kind = "check"
          /\ Over(n)
          /\ checks' = FALSE
    /\ UNCHANGED <<fleet, tasks, known, samples, updates, events, good, settled, torn>>

\* insert_samples: a row at a time, and the first that fails ends it.  A sample
\* of a deleted device has no row to refer to.
InsertSample(n) ==
    /\ sweeps[n].state = "storing"
    /\ \/ /\ sweeps[n].stored = Len(Taken(n))
          /\ Over(n)
          /\ UNCHANGED samples
       \/ /\ sweeps[n].stored < Len(Taken(n))
          /\ LET d == Taken(n)[sweeps[n].stored + 1]
             IN  IF d \in fleet
                 THEN /\ samples' = samples \cup {<<n, d>>}
                      /\ sweeps' = [sweeps EXCEPT ![n].stored = @ + 1]
                 ELSE Over(n) /\ UNCHANGED samples
    /\ UNCHANGED <<fleet, tasks, known, checks, updates, events, good, settled, torn>>

-----------------------------------------------------------------------------
(* What happens meanwhile *)

Event == events < MaxEvents /\ events' = events + 1

\* A slip: a samples table without ON DELETE CASCADE.
DeleteLeavesSamples(d) ==
    /\ Event
    /\ d \in fleet
    /\ fleet' = fleet \ {d}
    /\ updates' = [updates EXCEPT ![d] = None]
    /\ good' = [good EXCEPT ![d] = None]
    /\ UNCHANGED <<sweeps, tasks, known, checks, samples, settled, torn>>

\* delete_device: its samples and its update row go with it.
DeleteDevice(d) ==
    /\ Event
    /\ d \in fleet
    /\ fleet' = fleet \ {d}
    /\ samples' = {s \in samples : s[2] # d}
    /\ updates' = [updates EXCEPT ![d] = None]
    /\ good' = [good EXCEPT ![d] = None]
    /\ UNCHANGED <<sweeps, tasks, known, checks, settled, torn>>

\* The process ends, and its sweeps and their threads with it.
ServerStops ==
    /\ Event
    /\ sweeps' = [n \in Sweeps |-> IF On(n) THEN [Unused EXCEPT !.state = "killed"]
                                   ELSE sweeps[n]]
    /\ tasks' = [t \in Tasks |-> NoTask]
    /\ torn' = (torn \/ \E t \in Tasks : tasks[t].stage = "writing")
    /\ checks' = FALSE
    /\ UNCHANGED <<fleet, known, samples, updates, good>>
    /\ Settle

-----------------------------------------------------------------------------
(* Specification *)

Init ==
    /\ fleet = Devices
    /\ sweeps = [n \in Sweeps |-> Unused]
    /\ tasks = [t \in Tasks |-> NoTask]
    /\ known = Pinned
    /\ checks = FALSE
    /\ samples = {}
    /\ updates = [d \in Devices |-> None]
    /\ events = 0
    /\ good = [d \in Devices |-> None]
    /\ settled = Pinned
    /\ torn = FALSE

Sweep(n) == Spawn(n) \/ EndSweep(n) \/ InsertSample(n) \/ LoadCheck(n) \/ LoadFails(n)

Next ==
    \/ \E n \in Sweeps : StartBackup(n) \/ StartMonitor(n) \/ StartCheck(n) \/ Sweep(n)
    \/ \E t \in Tasks :
        \/ ReadHosts(t) \/ WriteHosts(t) \/ HostsWritten(t) \/ Timeout(t)
        \/ \E ok \in BOOLEAN : ThreadEnds(t, ok)
    \/ \E d \in Named : DeleteDevice(d)
    \/ ServerStops

\* A sweep in progress goes on, by a step of its task or a timeout that comes.  A
\* thread may hang for good: nothing is fair to it.
Fairness ==
    \A n \in Sweeps : WF_vars(Sweep(n) \/ \E d \in Devices : Timeout(<<n, d>>))

Spec == Init /\ [][Next]_vars
FairSpec == Spec /\ Fairness

-----------------------------------------------------------------------------
(* Properties *)

SweepType ==
    [kind : Kinds \cup {None},
     state : {"unused", "loading", "sweeping", "storing", "over", "killed"},
     selected : SUBSET Devices, todo : SUBSET Devices,
     report : Seq(Devices), taken : Seq(Devices), stored : Nat]
TaskType == [stage : Stages \cup {"none"}, orphan : BOOLEAN, seen : SUBSET Devices]
TypeOK ==
    /\ fleet \subseteq Devices
    /\ sweeps \in [Sweeps -> SweepType]
    /\ \A n \in Sweeps :
        sweeps[n].todo \subseteq sweeps[n].selected /\ sweeps[n].stored <= Len(Taken(n))
    /\ tasks \in [Tasks -> TaskType]
    /\ known \subseteq Devices
    /\ checks \in BOOLEAN
    /\ samples \subseteq Sweeps \X fleet
    /\ updates \in [Devices -> UpdateType \cup {None}]
    /\ events \in 0..MaxEvents
    /\ good \in [Devices -> GoodType \cup {None}]
    /\ settled \subseteq Devices
    /\ torn \in BOOLEAN

\* A sweep accounts for every device it selected once: it waits, is under way on
\* one of the permits, or is in the report -- however many threads were given up
\* and answer late.
EachOnce ==
    \A n \in Sweeps : sweeps[n].state \notin {"unused", "loading", "killed"} =>
        /\ Cardinality(Awaited(n)) <= Concurrency
        /\ sweeps[n].selected = sweeps[n].todo \cup Awaited(n) \cup Reported(n)
        /\ Cardinality(sweeps[n].selected) =
            Cardinality(sweeps[n].todo) + Cardinality(Awaited(n)) + Len(sweeps[n].report)

\* "A failed check keeps the last good versions and only records last_error"
\* (firmware/mod.rs): a row has what versions the last answer gave, through failures,
\* timeouts and late answers, and says whether a check has failed since.
LastGoodShown ==
    \A d \in Devices : good[d] # None =>
        /\ good[d].answer.installed \in {None, updates[d].installed}
        /\ good[d].answer.latest \in {None, updates[d].latest}
        /\ updates[d].failed = good[d].since

\* However many first connections read, extend and write known_hosts at a time, over
\* each other, they take away no key that was in it when none of them was under way
\* (ssh.rs, verify_host_key) -- unless one read it while another was writing it, or
\* a write was cut short.  They may lose each other's keys: FirstUsePinned.
PinsKept == ~torn /\ (\A t \in Tasks : tasks[t].stage # "writing") => settled \subseteq known

\* The checks flag is up exactly while a check is in progress: it keeps a second one
\* out, and however the check ends, another can be asked for.
FlagIsACheck == checks <=> \E n \in Sweeps : sweeps[n].kind = "check" /\ On(n)

\* "A router wedged mid-command cannot hold a slot past the timeout" (monitor.rs):
\* every sweep comes to an end, whatever its threads do.
SweepsEnd == \A n \in Sweeps : On(n) ~> ~On(n)

-----------------------------------------------------------------------------
(* The inductive invariant *)

\* What a sweep is doing fits its kind.
KindsFit ==
    \A n \in Sweeps :
        /\ On(n) => sweeps[n].kind \in Kinds
        /\ sweeps[n].state = "loading" => sweeps[n].kind = "check"
        /\ sweeps[n].state = "storing" => sweeps[n].kind = "monitor"
        /\ sweeps[n].state \in {"unused", "loading"} => sweeps[n].selected = {}
        /\ sweeps[n].state = "sweeping" => sweeps[n].stored = 0
OneCheck ==
    \A m, n \in Sweeps :
        sweeps[m].kind = "check" /\ On(m) /\ sweeps[n].kind = "check" /\ On(n) => m = n

\* A device that was selected waits, is under way, or is reported, one of the three;
\* a thread that was given up belongs to one that is reported, and a sweep that is
\* not under way awaits nothing.
Parted(n) ==
    /\ sweeps[n].selected = sweeps[n].todo \cup Awaited(n) \cup Reported(n)
    /\ sweeps[n].todo \cap (Awaited(n) \cup Reported(n)) = {}
    /\ Awaited(n) \cap Reported(n) = {}
    /\ \A i, j \in DOMAIN sweeps[n].report :
        sweeps[n].report[i] = sweeps[n].report[j] => i = j
    /\ Cardinality(Awaited(n)) <= Concurrency
    /\ sweeps[n].state # "sweeping" => Awaited(n) = {}
    /\ \A d \in Devices : tasks[<<n, d>>].orphan =>
        Running(<<n, d>>) /\ d \in Reported(n)
AllParted == \A n \in Sweeps : Parted(n)

RowShown == \A d \in Devices : good[d] # None => updates[d] # None

\* What a first connection has read, and will write with its own key, has every
\* settled key.
HostsKept == ~torn =>
    /\ \A t \in Tasks : Rewriting(t) => settled \subseteq tasks[t].seen
    /\ (\A t \in Tasks : tasks[t].stage # "writing") => settled \subseteq known

IInv ==
    /\ TypeOK /\ KindsFit /\ OneCheck /\ FlagIsACheck /\ AllParted
    /\ LastGoodShown /\ RowShown /\ HostsKept

-----------------------------------------------------------------------------
(* What the documents and the comments say, and the code does not do *)

\* "The key is recorded on first connection and a later change is refused" (README),
\* "trust on first use, then pin it" (ssh.rs): while known_hosts is not being
\* written, every device that a session has been opened with is in it.
FirstUsePinned ==
    (Policy # "off" /\ \A t \in Tasks : tasks[t].stage # "writing") =>
        {t[2] : t \in {u \in Tasks : tasks[u].stage = "working"}} \subseteq known

\* "Per-row inserts keep a single bad row from costing the whole batch" (db/mod.rs,
\* insert_samples): when a poll is over, every device that answered it and still has
\* a row has its sample.
BadRowCostsItself ==
    \A n \in Sweeps : sweeps[n].kind = "monitor" /\ sweeps[n].state = "over" =>
        \A i \in DOMAIN Taken(n) : Taken(n)[i] \in fleet => <<n, Taken(n)[i]>> \in samples
=============================================================================
