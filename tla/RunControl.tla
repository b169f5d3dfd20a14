----------------------------- MODULE RunControl -----------------------------
(***************************************************************************)
(* Who may run a backup, and what the operator is told about it.           *)
(*                                                                         *)
(* Three kinds of actor start backup runs of one fleet:                    *)
(*   Handlers  POST /runs handlers of the web server,                      *)
(*   Tickers   the scheduler loop of the same server,                      *)
(*   Clis      "dondude backup run" processes (cron, an operator's shell). *)
(* Handlers and tickers share RunManager's slot, an in-memory mutex-guarded*)
(* Option<Live>.  All three share a PostgreSQL advisory lock held by a     *)
(* connection of its own, and the table backup_runs.                       *)
(*                                                                         *)
(* One actor stands for one call of RunManager::start together with the    *)
(* task it spawns, or for one CLI process.  pc names the await it is at:   *)
(*   idle       no start in progress                                       *)
(*   asking     slot claimed (web), try_lock_run in flight                 *)
(*   locked     lock granted, the INSERT of start_run in flight            *)
(*   opened     row inserted, its id not yet published in the slot         *)
(*   engine     inside backup::run                                         *)
(*   recording  finish_run or abort_run in flight                          *)
(*   recorded   recorded, or given up recording                            *)
(*   closing    slot marked finished; report email; the lock still held    *)
(* What happens inside the engine is BackupRepo's subject.  A refused      *)
(* claim changes nothing, so it is no action.                              *)
(*                                                                         *)
(* One server listens.  Another "dondude serve" with the same address      *)
(* finds it taken, though not before it has closed the running rows; two   *)
(* that listen at different addresses of one database are not modelled.    *)
(***************************************************************************)
EXTENDS Naturals, FiniteSets

CONSTANTS
    Handlers,   \* concurrent start requests over HTTP
    Tickers,    \* scheduler loops (one per server)
    Clis,       \* command-line runs
    Runs,       \* run ids that can be generated: bounds the runs of a behaviour
    Nil,        \* Uuid::nil(), the id of a run that has no row yet
    NoOne,      \* the advisory lock is free
    MaxFaults   \* bounds crashes, kills, disconnects and lost lock sessions

Web == Handlers \cup Tickers
Actors == Web \cup Clis

ASSUME RunControlAssumption ==
    /\ Handlers \cap Tickers = {}
    /\ Web \cap Clis = {}
    /\ Nil \notin Runs
    /\ NoOne \notin Actors
    /\ MaxFaults \in Nat

VARIABLES
    up,         \* the web server is serving
    slot,       \* RunManager.shared.current: free = None, busy = unfinished
    pc,         \* where each actor stands
    run,        \* the id of the run an actor works on
    verdict,    \* the status its report or error calls for ("failed" until then)
    lock,       \* whose session holds the advisory lock, as PostgreSQL sees it
    lost,       \* actors that hold a RunLock whose session has died
    rows,       \* backup_runs.status; "interrupted" is failed with the push
                \* detail recover_after_restart writes, "none" no row
    abandoned,  \* history: the slot's claimant was dropped before it spawned
    faults      \* faults so far

vars == <<up, slot, pc, run, verdict, lock, lost, rows, abandoned, faults>>

Pcs == {"idle", "asking", "locked", "opened", "engine",
        "recording", "recorded", "closing"}
\* The actor owns a RunLock value, so its connection is open as far as it knows.
LockPcs == {"locked", "opened", "engine", "recording", "recorded", "closing"}
\* RunManager::start still awaits the database.
StartPcs == {"asking", "locked", "opened"}
\* The run is published in the slot and not yet marked finished there.
TaskPcs == {"engine", "recording", "recorded"}

Verdicts == {"completed", "failed"}
RowStatus == {"none", "running", "interrupted"} \cup Verdicts

Free == [state |-> "free", id |-> Nil, failed |-> FALSE]
Claimed == [state |-> "busy", id |-> Nil, failed |-> FALSE]

Init ==
    /\ up = FALSE
    /\ slot = Free
    /\ pc = [a \in Actors |-> "idle"]
    /\ run = [a \in Actors |-> Nil]
    /\ verdict = [a \in Actors |-> "failed"]
    /\ lock = NoOne
    /\ lost = {}
    /\ rows = [r \in Runs |-> "none"]
    /\ abandoned = FALSE
    /\ faults = 0

-----------------------------------------------------------------------------
(* Slips: actions as a plausible mistake would have them.  They are no part of *)
(* Next; each stands for a change of the code that one property must notice.   *)

\* The slot is claimed without looking at the run in it.
ClaimUnchecked(w) ==
    /\ up
    /\ pc[w] = "idle"
    /\ slot' = Claimed
    /\ pc' = [pc EXCEPT ![w] = "asking"]
    /\ UNCHANGED <<up, run, verdict, lock, lost, rows, abandoned, faults>>

\* The lock is taken on a pooled connection, which may hold it already.
TakeLockPooled(a) ==
    /\ pc[a] = "asking"
    /\ lock = NoOne \/ {a, lock} \subseteq Web
    /\ lock' = a
    /\ pc' = [pc EXCEPT ![a] = "locked"]
    /\ UNCHANGED <<up, slot, run, verdict, lost, rows, abandoned, faults>>

\* A refused start leaves its claim in the slot.
StartDeniedKeepsSlot(a) ==
    /\ pc[a] = "asking"
    /\ pc' = [pc EXCEPT ![a] = "idle"]
    /\ UNCHANGED <<up, slot, run, verdict, lock, lost, rows, abandoned, faults>>

\* A failed run is recorded under a status the interface does not know.
RecordAborted(a) ==
    /\ pc[a] = "recording"
    /\ rows' = [rows EXCEPT ![run[a]] = IF verdict[a] = "failed" THEN "aborted" ELSE @]
    /\ pc' = [pc EXCEPT ![a] = "recorded"]
    /\ UNCHANGED <<up, slot, run, verdict, lock, lost, abandoned, faults>>

\* The slot reports success whatever the exit code.
FinishIgnoresFailure(a) ==
    /\ pc[a] = "recorded"
    /\ slot' = IF a \in Web THEN [slot EXCEPT !.state = "done"] ELSE slot
    /\ pc' = [pc EXCEPT ![a] = "closing"]
    /\ UNCHANGED <<up, run, verdict, lock, lost, rows, abandoned, faults>>

\* A web run's pooled connection goes back to the pool still holding the lock.
ServerNoticesClisOnly ==
    /\ lock \in Clis
    /\ pc[lock] \notin {"locked", "opened", "engine", "recording", "recorded", "closing"}
    /\ lock' = NoOne
    /\ UNCHANGED <<up, slot, pc, run, verdict, lost, rows, abandoned, faults>>

\* The engine records its run itself, and its caller once more.
EngineRecords(a) ==
    /\ pc[a] = "engine"
    /\ \E v \in Verdicts :
        /\ verdict' = [verdict EXCEPT ![a] = v]
        /\ rows' = [rows EXCEPT ![run[a]] = v]
    /\ pc' = [pc EXCEPT ![a] = "recording"]
    /\ UNCHANGED <<up, slot, run, lock, lost, abandoned, faults>>

\* The UPDATE lost its WHERE status = 'running'.
ServeStartsClosesAll ==
    /\ up' = TRUE
    /\ rows' = [r \in Runs |-> IF rows[r] = "none" THEN "none" ELSE "interrupted"]
    /\ UNCHANGED <<slot, pc, run, verdict, lock, lost, abandoned, faults>>

-----------------------------------------------------------------------------
(* Starting a run *)

\* RunManager::start claims the slot under the mutex, before any await.
Claim(w) ==
    /\ up
    /\ pc[w] = "idle"
    /\ slot.state # "busy"
    /\ slot' = Claimed
    /\ pc' = [pc EXCEPT ![w] = "asking"]
    /\ UNCHANGED <<up, run, verdict, lock, lost, rows, abandoned, faults>>

\* backup_run of the command line knows no slot: it goes for the lock at once.
CliStart(c) ==
    /\ pc[c] = "idle"
    /\ pc' = [pc EXCEPT ![c] = "asking"]
    /\ UNCHANGED <<up, slot, run, verdict, lock, lost, rows, abandoned, faults>>

\* What a start that fails leaves in the slot: the web clears it, whatever it
\* holds; a command-line run has none to clear.
ClearSlot(a) == slot' = IF a \in Web THEN Free ELSE slot

\* pg_try_advisory_lock said yes.
TakeLock(a) ==
    /\ pc[a] = "asking"
    /\ lock = NoOne
    /\ lock' = a
    /\ pc' = [pc EXCEPT ![a] = "locked"]
    /\ UNCHANGED <<up, slot, run, verdict, lost, rows, abandoned, faults>>

\* pg_try_advisory_lock said no, or the database could not be asked.
StartDenied(a) ==
    /\ pc[a] = "asking"
    /\ ClearSlot(a)
    /\ pc' = [pc EXCEPT ![a] = "idle"]
    /\ UNCHANGED <<up, run, verdict, lock, lost, rows, abandoned, faults>>

\* start_run's INSERT commits under a fresh id.
OpenRow(a) ==
    /\ pc[a] = "locked"
    /\ \E r \in Runs :
        /\ rows[r] = "none"
        /\ rows' = [rows EXCEPT ![r] = "running"]
        /\ run' = [run EXCEPT ![a] = r]
    /\ pc' = [pc EXCEPT ![a] = "opened"]
    /\ UNCHANGED <<up, slot, verdict, lock, lost, abandoned, faults>>

\* start_run reports an error, before its INSERT took effect or (the answer
\* lost) after it.  Returning drops the RunLock.
StartFails(a) ==
    /\ pc[a] \in {"locked", "opened"}
    /\ ClearSlot(a)
    /\ pc' = [pc EXCEPT ![a] = "idle"]
    /\ run' = [run EXCEPT ![a] = Nil]
    /\ lost' = lost \ {a}
    /\ UNCHANGED <<up, verdict, lock, rows, abandoned, faults>>

\* The id is published in the slot and the task spawned.
Begin(a) ==
    /\ pc[a] = "opened"
    /\ slot' = IF a \in Web THEN [slot EXCEPT !.id = run[a]] ELSE slot
    /\ pc' = [pc EXCEPT ![a] = "engine"]
    /\ UNCHANGED <<up, run, verdict, lock, lost, rows, abandoned, faults>>

-----------------------------------------------------------------------------
(* Running and recording it *)

\* backup::run returns: a report with exit code 0, one with failures, or an error.
EngineEnds(a) ==
    /\ pc[a] = "engine"
    /\ \E v \in Verdicts : verdict' = [verdict EXCEPT ![a] = v]
    /\ pc' = [pc EXCEPT ![a] = "recording"]
    /\ UNCHANGED <<up, slot, run, lock, lost, rows, abandoned, faults>>

\* finish_run's transaction, or abort_run's UPDATE, commits; neither looks at
\* the status the row has.
Record(a) ==
    /\ pc[a] = "recording"
    /\ rows' = [rows EXCEPT ![run[a]] = verdict[a]]
    /\ pc' = [pc EXCEPT ![a] = "recorded"]
    /\ UNCHANGED <<up, slot, run, verdict, lock, lost, abandoned, faults>>

\* It fails (a device of the report was deleted meanwhile, the database is
\* away): logged, never retried.
RecordFails(a) ==
    /\ pc[a] = "recording"
    /\ pc' = [pc EXCEPT ![a] = "recorded"]
    /\ UNCHANGED <<up, slot, run, verdict, lock, lost, rows, abandoned, faults>>

\* manager.finish; then a scheduled run mails its report.
Finish(a) ==
    /\ pc[a] = "recorded"
    /\ slot' = IF a \in Web
               THEN [slot EXCEPT !.state = "done", !.failed = (verdict[a] = "failed")]
               ELSE slot
    /\ pc' = [pc EXCEPT ![a] = "closing"]
    /\ UNCHANGED <<up, run, verdict, lock, lost, rows, abandoned, faults>>

\* The task (or the CLI process) ends and drops its RunLock.
Leave(a) ==
    /\ pc[a] = "closing"
    /\ pc' = [pc EXCEPT ![a] = "idle"]
    /\ run' = [run EXCEPT ![a] = Nil]
    /\ verdict' = [verdict EXCEPT ![a] = "failed"]
    /\ lost' = lost \ {a}
    /\ UNCHANGED <<up, slot, lock, rows, abandoned, faults>>

-----------------------------------------------------------------------------
(* The lock's session, crashes and disconnects *)

\* PostgreSQL sees the closed connection and frees the lock: some time after
\* the RunLock was dropped, not with it.
ServerNotices ==
    /\ lock # NoOne
    /\ pc[lock] \notin LockPcs
    /\ lock' = NoOne
    /\ UNCHANGED <<up, slot, pc, run, verdict, lost, rows, abandoned, faults>>

Fault ==
    /\ faults < MaxFaults
    /\ faults' = faults + 1

\* The lock's connection dies (a network fault, a restart of PostgreSQL).
\* Nothing reads the RunLock, so its owner never learns of it.
SessionLost ==
    /\ Fault
    /\ lock # NoOne
    /\ pc[lock] \in LockPcs
    /\ lock' = NoOne
    /\ lost' = lost \cup {lock}
    /\ UNCHANGED <<up, slot, pc, run, verdict, rows, abandoned>>

\* The client hangs up and the handler's future is dropped at its await.  The
\* slot it claimed has no guard that would give it back.
ClientGone(h) ==
    /\ Fault
    /\ pc[h] \in StartPcs
    /\ pc' = [pc EXCEPT ![h] = "idle"]
    /\ run' = [run EXCEPT ![h] = Nil]
    /\ lost' = lost \ {h}
    /\ abandoned' = TRUE
    /\ UNCHANGED <<up, slot, verdict, lock, rows>>

CliKilled(c) ==
    /\ Fault
    /\ pc[c] # "idle"
    /\ pc' = [pc EXCEPT ![c] = "idle"]
    /\ run' = [run EXCEPT ![c] = Nil]
    /\ verdict' = [verdict EXCEPT ![c] = "failed"]
    /\ lost' = lost \ {c}
    /\ UNCHANGED <<up, slot, lock, rows, abandoned>>

\* The server stops, gracefully or not: its tasks end where they stand.
ServeStops ==
    /\ Fault
    /\ up
    /\ up' = FALSE
    /\ slot' = Free
    /\ pc' = [a \in Actors |-> IF a \in Web THEN "idle" ELSE pc[a]]
    /\ run' = [a \in Actors |-> IF a \in Web THEN Nil ELSE run[a]]
    /\ lost' = lost \ Web
    /\ verdict' = [a \in Actors |-> IF a \in Web THEN "failed" ELSE verdict[a]]
    /\ abandoned' = FALSE
    /\ UNCHANGED <<lock, rows>>

\* serve calls recover_after_restart before it listens: every running row is
\* closed, whoever runs it.  Beside a server that listens it gets no further.
ServeStarts ==
    /\ up' = TRUE
    /\ rows' = [r \in Runs |-> IF rows[r] = "running" THEN "interrupted" ELSE rows[r]]
    /\ UNCHANGED <<slot, pc, run, verdict, lock, lost, abandoned, faults>>

-----------------------------------------------------------------------------
\* What an actor does of its own accord once it has begun.
Step(a) ==
    \/ TakeLock(a) \/ StartDenied(a) \/ OpenRow(a) \/ StartFails(a) \/ Begin(a)
    \/ EngineEnds(a) \/ Record(a) \/ RecordFails(a) \/ Finish(a) \/ Leave(a)

Next ==
    \/ \E w \in Web : Claim(w)
    \/ \E c \in Clis : CliStart(c)
    \/ \E a \in Actors : Step(a)
    \/ ServerNotices
    \/ SessionLost
    \/ \E h \in Handlers : ClientGone(h)
    \/ \E c \in Clis : CliKilled(c)
    \/ ServeStops
    \/ ServeStarts

\* An actor that has begun goes on: tokio polls a ready task, every SSH capture
\* ends by its timeout, and PostgreSQL ends the session of a closed connection.
\* Nobody has to start a run, and no fault has to happen.
Fairness ==
    /\ \A a \in Actors : WF_vars(Step(a))
    /\ WF_vars(ServerNotices)

Spec == Init /\ [][Next]_vars
FairSpec == Spec /\ Fairness

-----------------------------------------------------------------------------
(* Properties *)

TypeOK ==
    /\ up \in BOOLEAN
    /\ slot \in [state : {"free", "busy", "done"}, id : Runs \cup {Nil}, failed : BOOLEAN]
    /\ pc \in [Actors -> Pcs]
    /\ run \in [Actors -> Runs \cup {Nil}]
    /\ verdict \in [Actors -> Verdicts]
    /\ lock \in Actors \cup {NoOne}
    /\ lost \subseteq Actors
    /\ rows \in [Runs -> RowStatus]
    /\ abandoned \in BOOLEAN
    /\ faults \in 0..MaxFaults

\* Two runs overlap only if the database session of one of them died under it
\* (db/mod.rs, RunLock): neither the slot, nor the delayed release, nor a crash
\* lets a second run begin while another has its lock.
RunsExclusive ==
    \A a, b \in Actors :
        (a # b /\ pc[a] \in LockPcs /\ pc[b] \in LockPcs) => (a \in lost \/ b \in lost)

\* The slot shows the one web run in progress: unnamed while it is being
\* started, then under its own id, never cleared or finished by another start
\* (runner.rs, RunManager::start and execute both write it without looking).
SlotShowsRun ==
    /\ \A w \in Web : pc[w] \in StartPcs => slot = Claimed
    /\ \A w \in Web : pc[w] \in TaskPcs => slot.state = "busy" /\ slot.id = run[w]
    /\ slot.state = "busy" =>
        \/ abandoned
        \/ \E w \in Web : pc[w] \in StartPcs \cup TaskPcs
    /\ \A w, x \in Web :
        (pc[w] \in StartPcs \cup TaskPcs /\ pc[x] \in StartPcs \cup TaskPcs) => w = x

\* What the finished slot tells the run page is what the database recorded, or
\* it was never recorded and the row is as it was: running, or closed by a server
\* that was started meanwhile.
LiveMatchesRow ==
    slot.state = "done" =>
        /\ slot.id \in Runs
        /\ rows[slot.id] \in {"running", "interrupted",
                             IF slot.failed THEN "failed" ELSE "completed"}

\* Two actors never work on one run, and a run's row has no verdict until its
\* actor records it.
RowOpenWhileRunning ==
    /\ \A a, b \in Actors : (a # b /\ run[a] # Nil) => run[a] # run[b]
    /\ \A a \in Actors : pc[a] \in {"opened", "engine", "recording"} =>
        rows[run[a]] \in {"running", "interrupted"}

\* A recorded verdict is final: no restart, crash or second recording changes a
\* row that finish_run or abort_run has closed.
VerdictsFinal ==
    [][\A r \in Runs : rows[r] \in Verdicts => rows'[r] = rows[r]]_vars

\* A claimed slot is given back, unless the request that claimed it was dropped
\* before it could spawn the run.
SlotFreed == (slot.state = "busy") ~> (slot.state # "busy" \/ abandoned)

\* The advisory lock never stays with one actor: whatever happens to its run,
\* the lock is freed.
LockFreed == \A a \in Actors : (lock = a) ~> (lock # a)

-----------------------------------------------------------------------------
(* The inductive invariant: what the properties above rest on *)

\* Stages at which an actor has a run id.
RunPcs == {"opened", "engine", "recording", "recorded", "closing"}

\* The lock is with whoever has not lost it.
LockHeld == \A a \in Actors : (pc[a] \in LockPcs /\ a \notin lost) => lock = a

\* Run ids are Nil or fresh, one per actor, and have a row.
RunIds ==
    /\ \A a \in Actors : pc[a] \in RunPcs <=> run[a] # Nil
    /\ \A a \in Actors : run[a] # Nil => rows[run[a]] # "none"
    /\ \A a, b \in Actors : (a # b /\ run[a] # Nil) => run[a] # run[b]

\* The slot is empty while the server is down; an abandoned claim stays as it
\* is; the slot's id names a web run that has a row.
SlotSettled ==
    /\ ~up => slot = Free /\ ~abandoned /\ \A w \in Web : pc[w] = "idle"
    /\ slot.state = "free" => slot = Free
    /\ abandoned => slot = Claimed /\ \A w \in Web : pc[w] \notin StartPcs \cup TaskPcs
    /\ slot.id # Nil => rows[slot.id] # "none" /\ \A c \in Clis : run[c] # slot.id

\* How far the row of each run has come.
RowsFollow ==
    /\ RowOpenWhileRunning
    /\ \A a \in Actors : pc[a] = "recorded" =>
        rows[run[a]] \in {"running", "interrupted", verdict[a]}

IInv ==
    /\ TypeOK
    /\ LockHeld
    /\ RunIds
    /\ SlotShowsRun
    /\ SlotSettled
    /\ RowsFollow
    /\ LiveMatchesRow

-----------------------------------------------------------------------------
(* What the comments say, and the code does not do *)

\* "Release the slot we just claimed, or nothing could ever run" (web/runner.rs,
\* start): every claim ends.
SlotAlwaysFreed == (slot.state = "busy") ~> (slot.state # "busy")

\* "A run marked running after a restart can never finish -- the process that owned
\* it is gone" (db/mod.rs, recover_after_restart): no run that was closed so is
\* recorded afterwards.
RecoveredNeverFinish ==
    [][\A r \in Runs : rows[r] = "interrupted" => rows'[r] = "interrupted"]_vars
=============================================================================
