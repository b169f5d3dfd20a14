----------------------------- MODULE BackupRepo -----------------------------
(***************************************************************************)
(* One backup run over the Git repository, and what it leaves behind.      *)
(*                                                                         *)
(* backup::run opens the repository (git/mod.rs, open_or_init), reconciles *)
(* it with the remote (sync), stores each capture as it arrives (store,    *)
(* store_binary: write the file, stage it, commit) and pushes once.  Runs  *)
(* follow one another: RunControl keeps them apart.  Meanwhile             *)
(*   - a run can be killed anywhere, a file half written included;         *)
(*   - the history and diff pages open the same repository (open_repo);    *)
(*   - another machine pushes to the remote, devices change, and the       *)
(*     operator edits the remote settings.                                 *)
(*                                                                         *)
(* A branch is the sequence of its commits, oldest first, <<>> when it     *)
(* does not exist; so one branch descends from another iff that one is a   *)
(* prefix of it.  No branch is ever rewound, hence equal sequences are     *)
(* equal commits.  A tree, the index and the working tree map each path    *)
(* to its contents.                                                        *)
(***************************************************************************)
EXTENDS Naturals, Sequences, FiniteSets, SequencesExt

CONSTANTS
    Devices,    \* the fleet
    Binaries,   \* devices that also yield a binary backup
    Contents,   \* what a device can answer
    Branches,   \* branch names the operator can configure
    Main,       \* DEFAULT_BRANCH, in use when no remote is configured
    NoRemote,   \* the remote settings are empty
    Absent,     \* no such file
    Torn,       \* a file whose write was cut short
    MaxEvents   \* bounds kills, failed writes, page views, foreign pushes, changes

ASSUME BackupRepoAssumption ==
    /\ Binaries \subseteq Devices
    /\ Main \in Branches
    /\ NoRemote \notin Branches
    /\ Absent \notin Contents /\ Torn \notin Contents /\ Absent # Torn
    /\ MaxEvents \in Nat

Kinds == {"rsc", "backup"}
Text(d) == <<d, "rsc">>
Binary(d) == <<d, "backup">>
Paths == {Text(d) : d \in Devices} \cup {Binary(d) : d \in Binaries}

Files == Contents \cup {Absent, Torn}
Tree == [Paths -> Files]
Empty == [p \in Paths |-> Absent]
Commits == [path : Paths, tree : Tree, by : {"self", "other"}]

VARIABLES
    refs,       \* local branches
    head,       \* the branch HEAD points at
    index,      \* the staged files
    work,       \* the files of the working tree
    remote,     \* the remote's branches
    device,     \* what each device would answer now
    conf,       \* the configured remote branch, or NoRemote
    run,        \* the run in progress and its report
    events      \* events so far

repo == <<refs, head, index, work>>
world == <<remote, device, conf, events>>
vars == <<refs, head, index, work, remote, device, conf, run, events>>

Tip(h) == IF h = <<>> THEN Empty ELSE Last(h).tree
HeadTree == Tip(refs[head])
\* status_file is empty: the path is the same in HEAD, index and working tree.
Clean(p) == HeadTree[p] = index[p] /\ index[p] = work[p]

BranchOf(c) == IF c = NoRemote THEN Main ELSE c

Storing == {"write", "stage", "commit"}
RunStates ==
    [pc : {"idle", "open", "sync", "checkout", "walk", "done"} \cup Storing,
     mode : {"capture", "dry run"}, conf : Branches \cup {NoRemote},
     todo : SUBSET Devices, cur : Paths \cup {Absent}, got : Tree, commits : Nat,
     sync : {"none", "unavailable", "remote branch missing", "up to date",
             "local ahead", "fast forwarded"},
     outcome : [Devices -> {"none", "failed", "would change", "unchanged", "committed"}],
     push : {"none", "aborted", "dry run", "not wanted", "no remote", "no new commits",
             "pushed", "failed"},
     moved : BOOLEAN]

Idle == [pc |-> "idle", mode |-> "capture", conf |-> NoRemote, todo |-> {}, cur |-> Absent,
         sync |-> "none", commits |-> 0, got |-> Empty,
         outcome |-> [d \in Devices |-> "none"], push |-> "none", moved |-> FALSE]

Init ==
    /\ refs = [b \in Branches |-> <<>>]
    /\ head = Main
    /\ index = Empty
    /\ work = Empty
    /\ remote = [b \in Branches |-> <<>>]
    /\ \E c \in Contents : device = [p \in Paths |-> c]
    /\ conf \in Branches \cup {NoRemote}
    /\ run = Idle
    /\ events = 0

\* What the environment does is counted and bounded.
Event ==
    /\ events < MaxEvents
    /\ events' = events + 1

-----------------------------------------------------------------------------
(* Slips: forms of the definitions below, each with a mistake that its         *)
(* property notices.  No action uses them.                                     *)

WalkKeepsFile(r) == [r EXCEPT !.pc = "walk", !.todo = @ \ {run.cur[1]}]

ChangedBytesOnly(p, contents) == work[p] # contents

StageAll ==
    /\ run.pc = "stage"
    /\ index' = work
    /\ run' = [run EXCEPT !.pc = "commit"]
    /\ UNCHANGED <<refs, head, work, world>>

PushingNewOnly == run.mode # "dry run" /\ run.conf # NoRemote /\ run.commits > 0

PushForced ==
    LET b == BranchOf(run.conf) IN
    /\ run.pc = "walk" /\ run.todo = {}
    /\ run.conf # NoRemote /\ run.commits > 0
    /\ remote' = [remote EXCEPT ![b] = refs[b]]
    /\ run' = [run EXCEPT !.pc = "done", !.push = "pushed"]
    /\ UNCHANGED <<repo, device, conf, events>>

RejectionUnnoticed ==
    /\ run.pc = "walk" /\ run.todo = {}
    /\ run.conf # NoRemote /\ run.commits > 0
    /\ run' = [run EXCEPT !.pc = "done", !.push = "pushed"]
    /\ UNCHANGED <<repo, world>>

-----------------------------------------------------------------------------
(* Opening and reconciling *)

\* runtime_config and config.select: the run works on a copy of the settings.  A
\* selection that is empty, or refused, ends the run before it opens anything.
StartRun ==
    /\ run.pc = "idle"
    /\ \E mode \in {"capture", "dry run"}, todo \in (SUBSET Devices) \ {{}} :
        run' = [Idle EXCEPT !.pc = "open", !.mode = mode, !.conf = conf, !.todo = todo]
    /\ UNCHANGED <<repo, world>>

\* ensure_branch.  An unborn HEAD is aimed at the branch; otherwise the branch
\* is created where HEAD is unless it exists.  checkout_head comes after
\* set_head, so its baseline is its target: it changes neither files nor index.
EnsureBranch(b) ==
    /\ head' = b
    /\ refs' = IF refs[b] = <<>> THEN [refs EXCEPT ![b] = refs[head]] ELSE refs
    /\ UNCHANGED <<index, work>>

OpenOrInit ==
    /\ run.pc = "open"
    /\ EnsureBranch(BranchOf(run.conf))
    /\ run' = [run EXCEPT
        !.pc = IF run.conf # NoRemote /\ run.mode # "dry run" THEN "sync" ELSE "walk"]
    /\ UNCHANGED world

Synced(outcome) == run' = [run EXCEPT !.pc = "walk", !.sync = outcome]
Aborted == run' = [run EXCEPT !.pc = "done", !.push = "aborted"]

\* sync, the fetch having failed.
FetchFails ==
    /\ run.pc = "sync"
    /\ Synced("unavailable")
    /\ UNCHANGED <<repo, world>>

\* sync, the local branch not behind the remote's: nothing moves.
SyncKeeps ==
    LET b == BranchOf(run.conf) IN
    /\ run.pc = "sync"
    /\ \/ remote[b] = <<>> /\ Synced("remote branch missing")
       \/ remote[b] # <<>> /\ refs[head] = remote[b] /\ Synced("up to date")
       \/ remote[b] # <<>> /\ IsStrictPrefix(remote[b], refs[head]) /\ Synced("local ahead")
    /\ UNCHANGED <<repo, world>>

\* sync, adopting the remote's history: an unborn branch takes it as it is, an
\* older one only over a tree without changes.  The branch moves first, the files
\* follow.
FastForward ==
    LET b == BranchOf(run.conf) IN
    /\ run.pc = "sync"
    /\ IsStrictPrefix(refs[head], remote[b])
    /\ refs[head] = <<>> \/ \A p \in Paths : Clean(p)
    /\ refs' = [refs EXCEPT ![b] = remote[b]]
    /\ head' = IF refs[head] = <<>> THEN b ELSE head
    /\ run' = [run EXCEPT !.pc = "checkout"]
    /\ UNCHANGED <<index, work, world>>

\* checkout_head with force: tracked files follow the tree, and a staged file
\* the tree does not have is removed.  A file neither knows of stays.
CheckedOut ==
    [p \in Paths |-> IF HeadTree[p] # Absent \/ index[p] # Absent THEN HeadTree[p] ELSE work[p]]

Checkout ==
    /\ run.pc = "checkout"
    /\ work' = CheckedOut
    /\ index' = HeadTree
    /\ Synced("fast forwarded")
    /\ UNCHANGED <<refs, head, world>>

\* sync fails: the branches diverged, or a fast-forward would run over changes.
SyncRefuses ==
    LET b == BranchOf(run.conf) IN
    /\ run.pc = "sync"
    /\ remote[b] # <<>> /\ refs[head] # <<>>
    /\ ~IsPrefix(remote[b], refs[head])
    /\ IsPrefix(refs[head], remote[b]) => \E p \in Paths : ~Clean(p)
    /\ Aborted
    /\ UNCHANGED <<repo, world>>

-----------------------------------------------------------------------------
(* Walking the fleet *)

CaptureFails(d) ==
    /\ run.pc = "walk"
    /\ d \in run.todo
    /\ run' = [run EXCEPT !.todo = @ \ {d}, !.outcome[d] = "failed"]
    /\ UNCHANGED <<repo, world>>

\* What would_change and store look at first.
Changed(p, contents) == work[p] # contents \/ ~Clean(p)

\* What a capture of the device adds: its export, and the binary backup when the
\* download of that succeeds too.
Captured(d) ==
    {[p \in Paths |-> IF p = Text(d) \/ (binary /\ p = Binary(d)) THEN device[p] ELSE run.got[p]] :
        binary \in BOOLEAN}

\* fold_capture of a dry run: would_change decides, nothing is written.
Compare(d) ==
    /\ run.pc = "walk" /\ run.mode = "dry run"
    /\ d \in run.todo
    /\ \E got \in Captured(d) : run' = [run EXCEPT
        !.todo = @ \ {d}, !.got = got,
        !.outcome[d] = IF Changed(Text(d), device[Text(d)]) THEN "would change" ELSE "unchanged"]
    /\ UNCHANGED <<repo, world>>

\* fold_capture otherwise: the text export goes to store.
Fold(d) ==
    /\ run.pc = "walk" /\ run.mode # "dry run"
    /\ d \in run.todo
    /\ \E got \in Captured(d) :
        run' = [run EXCEPT !.pc = "write", !.cur = Text(d), !.got = got]
    /\ UNCHANGED <<repo, world>>

\* After the text export its binary sibling is stored; after that, or without
\* one, the next device's capture is awaited.
Walk(r) == [r EXCEPT !.pc = "walk", !.cur = Absent, !.todo = @ \ {run.cur[1]}]
NextFile(r) ==
    IF run.cur[2] = "rsc" /\ run.cur[1] \in Binaries /\ run.got[Binary(run.cur[1])] # Absent
    THEN [r EXCEPT !.pc = "write", !.cur = Binary(run.cur[1])]
    ELSE Walk(r)

\* store and store_binary, up to "unchanged".
Unchanged ==
    /\ run.pc = "write"
    /\ ~Changed(run.cur, run.got[run.cur])
    /\ run' = NextFile(
        IF run.cur[2] = "rsc" THEN [run EXCEPT !.outcome[run.cur[1]] = "unchanged"] ELSE run)
    /\ UNCHANGED <<repo, world>>

\* The file is written unless it has these bytes already.
Write ==
    /\ run.pc = "write"
    /\ Changed(run.cur, run.got[run.cur])
    /\ work' = [work EXCEPT ![run.cur] = run.got[run.cur]]
    /\ run' = [run EXCEPT !.pc = "stage"]
    /\ UNCHANGED <<refs, head, index, world>>

\* commit_path: index.add_path and index.write ...
Stage ==
    /\ run.pc = "stage"
    /\ index' = [index EXCEPT ![run.cur] = work[run.cur]]
    /\ run' = [run EXCEPT !.pc = "commit"]
    /\ UNCHANGED <<refs, head, work, world>>

\* ... then a commit of the whole index on top of HEAD.  Only a text export
\* counts towards the commits of the run.
Commit ==
    /\ run.pc = "commit"
    /\ refs' = [refs EXCEPT ![head] =
        Append(@, [path |-> run.cur, tree |-> index, by |-> "self"])]
    /\ run' = NextFile(
        IF run.cur[2] = "rsc"
        THEN [run EXCEPT !.outcome[run.cur[1]] = "committed", !.commits = @ + 1]
        ELSE run)
    /\ UNCHANGED <<head, index, work, world>>

\* An I/O or Git error while storing: a text export's ends the run, a binary
\* backup's is logged.  A failed write may have left part of the file.
StoreFails ==
    /\ Event
    /\ run.pc \in Storing
    /\ \/ UNCHANGED work
       \/ run.pc = "write" /\ work' = [work EXCEPT ![run.cur] = Torn]
    /\ IF run.cur[2] = "rsc" THEN Aborted ELSE run' = Walk(run)
    /\ UNCHANGED <<refs, head, index, remote, device, conf>>

-----------------------------------------------------------------------------
(* Pushing *)

Pushing ==
    /\ run.mode # "dry run" /\ run.conf # NoRemote
    /\ run.commits > 0 \/ run.sync = "local ahead"

Done(push) == run' = [run EXCEPT !.pc = "done", !.push = push]

\* push_if_needed, without a push.  Nothing else reads --no-push and the
\* remote's push setting, so they are left open until here.
PushSkipped ==
    /\ run.pc = "walk" /\ run.todo = {}
    /\ \/ run.mode = "dry run" /\ Done("dry run")
       \/ run.mode # "dry run" /\ Done("not wanted")
       \/ run.mode # "dry run" /\ run.conf = NoRemote /\ Done("no remote")
       \/ run.mode # "dry run" /\ run.conf # NoRemote /\ ~Pushing /\ Done("no new commits")
    /\ UNCHANGED <<repo, world>>

\* The remote takes the configured branch if that is a fast-forward for it.
\* The answer can get lost on its way back.
PushAccepted ==
    LET b == BranchOf(run.conf) IN
    /\ run.pc = "walk" /\ run.todo = {}
    /\ Pushing
    /\ refs[b] # <<>> /\ IsPrefix(remote[b], refs[b])
    /\ remote' = [remote EXCEPT ![b] = refs[b]]
    /\ Done("pushed") \/ Done("failed")
    /\ UNCHANGED <<repo, device, conf, events>>

\* The remote is away, or refuses: it has commits the branch does not.
PushFails ==
    /\ run.pc = "walk" /\ run.todo = {}
    /\ Pushing
    /\ Done("failed")
    /\ UNCHANGED <<repo, world>>

\* The report is handed over; a later run starts afresh.
EndRun ==
    /\ run.pc = "done"
    /\ run' = Idle
    /\ UNCHANGED <<repo, world>>

-----------------------------------------------------------------------------
(* What happens around a run *)

\* open_repo for a history or diff page: configured without a remote, it aims
\* HEAD at the default branch.
OpenForReading ==
    /\ Event
    /\ head # Main
    /\ EnsureBranch(Main)
    /\ run' = [run EXCEPT !.moved = run.pc # "idle"]
    /\ UNCHANGED <<remote, device, conf>>

\* The process is killed.  A file being written is old, cut short, or complete;
\* the index of a checkout is written last.
Killed ==
    /\ Event
    /\ run.pc \notin {"idle", "done"}
    /\ \/ UNCHANGED work
       \/ /\ run.pc = "write"
          /\ \E f \in {Torn, run.got[run.cur]} : work' = [work EXCEPT ![run.cur] = f]
       \/ /\ run.pc = "checkout"
          /\ work' \in {files \in Tree : \A p \in Paths :
                files[p] \in {work[p], CheckedOut[p]} \cup
                    (IF work[p] = CheckedOut[p] THEN {} ELSE {Torn})}
    /\ run' = Idle
    /\ UNCHANGED <<refs, head, index, remote, device, conf>>

\* Another machine pushes a commit of its own to a branch.
ForeignPush ==
    /\ Event
    /\ \E b \in Branches, p \in Paths, c \in Contents :
        remote' = [remote EXCEPT ![b] = Append(@,
            [path |-> p, tree |-> [Tip(remote[b]) EXCEPT ![p] = c], by |-> "other"])]
    /\ UNCHANGED <<repo, device, conf, run>>

DeviceChanges ==
    /\ Event
    /\ \E p \in Paths : \E c \in Contents \ {device[p]} :
        device' = [device EXCEPT ![p] = c]
    /\ UNCHANGED <<repo, remote, conf, run>>

\* The operator saves the remote settings.
Configure ==
    /\ Event
    /\ \E c \in (Branches \cup {NoRemote}) \ {conf} : conf' = c
    /\ UNCHANGED <<repo, remote, device, run>>

-----------------------------------------------------------------------------
Next ==
    \/ StartRun \/ OpenOrInit
    \/ FetchFails \/ SyncKeeps \/ FastForward \/ Checkout \/ SyncRefuses
    \/ \E d \in Devices : CaptureFails(d) \/ Compare(d) \/ Fold(d)
    \/ Unchanged \/ Write \/ Stage \/ Commit \/ StoreFails
    \/ PushSkipped \/ PushAccepted \/ PushFails \/ EndRun
    \/ OpenForReading \/ Killed \/ ForeignPush \/ DeviceChanges \/ Configure

Spec == Init /\ [][Next]_vars

-----------------------------------------------------------------------------
(* Properties *)

\* Types, and a file at hand exactly while one is stored.
TypeOK ==
    /\ refs \in [Branches -> Seq(Commits)]
    /\ remote \in [Branches -> Seq(Commits)]
    /\ head \in Branches
    /\ index \in Tree
    /\ work \in Tree
    /\ device \in [Paths -> Contents]
    /\ conf \in Branches \cup {NoRemote}
    /\ run \in RunStates
    /\ IF run.pc \in Storing THEN run.cur \in Paths ELSE run.cur = Absent \/ run.pc = "done"
    /\ events \in 0..MaxEvents

\* Every version in a history is a file some device answered with: a file whose
\* write was cut short is never committed, although a later commit takes the
\* whole index and the file stays in the working tree until it is captured again.
NothingTornCommitted ==
    \A b \in Branches : \A history \in {refs[b], remote[b]} : \A i \in DOMAIN history :
        \A p \in Paths : history[i].tree[p] # Torn

\* No branch loses a commit, here or on the remote: whatever the two sides hold,
\* a sync or a push of theirs moves a branch forward or not at all.  Here that
\* is so unless a page moved HEAD under the run (LocalHistoryKept).
HistoryKept ==
    [][\A b \in Branches :
        /\ run.moved \/ IsPrefix(refs[b], refs'[b])
        /\ IsPrefix(remote[b], remote'[b])]_vars

\* A device reported as unchanged or committed has the captured export at the
\* tip of a local branch, also after kills that left it written or staged only.
ReportedIsCommitted ==
    \A d \in Devices : run.outcome[d] \in {"unchanged", "committed"} =>
        \E b \in Branches : Tip(refs[b])[Text(d)] = run.got[Text(d)]

\* A push reported as done took every export the run committed along, unless a
\* page moved HEAD under the run.
PushedIsOnRemote ==
    (~run.moved /\ run.push = "pushed") =>
        \A d \in Devices : run.outcome[d] = "committed" =>
            \E i \in DOMAIN remote[run.conf] :
                remote[run.conf][i].tree[Text(d)] = run.got[Text(d)]

\* When a run that saw the remote's branch gives "no new commits" as the reason
\* not to push, all that the remote lacks is binary backups.
OnlyBinariesLeftBehind ==
    (~run.moved /\ run.push = "no new commits"
        /\ run.sync \notin {"unavailable", "remote branch missing"}) =>
        \A i \in DOMAIN refs[run.conf] :
            i > Len(remote[run.conf]) => refs[run.conf][i].path[2] = "backup"

-----------------------------------------------------------------------------
(* The inductive invariant *)

Whole(tree) == \A p \in Paths : tree[p] # Torn
WholeHistory(history) == \A i \in DOMAIN history : Whole(history[i].tree)

\* Only the working tree has torn files, and not at the file about to be staged.
NothingTornStaged ==
    /\ \A b \in Branches : WholeHistory(refs[b]) /\ WholeHistory(remote[b])
    /\ Whole(index)
    /\ Whole(run.got)
    /\ run.pc = "stage" => work[run.cur] = run.got[run.cur]

\* The report grows with the run: no device has an outcome before the walk, nor one
\* that waits; what became of the sync is known by then, and of the push at the end.
Walking == {"walk"} \cup Storing
ReportGrows ==
    /\ run.pc \in {"idle", "open", "sync", "checkout"} => \A d \in Devices : run.outcome[d] = "none"
    /\ run.pc \in Walking => \A d \in run.todo :
        run.outcome[d] = "none" \/ (run.pc \in Storing /\ d = run.cur[1])
    /\ run.pc \in {"idle", "open", "sync"} => run.sync = "none"
    /\ run.pc \in {"sync", "checkout"} \/ run.sync # "none" => run.conf # NoRemote
    /\ run.pc \in Walking /\ run.mode # "dry run" /\ run.conf # NoRemote => run.sync # "none"
    /\ run.push # "none" => run.pc = "done"
    /\ run.push = "pushed" => run.conf # NoRemote
    /\ run.push = "no new commits" => run.commits = 0 /\ run.sync \notin {"none", "local ahead"}

\* A run is at HEAD's branch, unless a page has moved it.
OnBranch ==
    (~run.moved /\ run.pc \in {"sync", "checkout"} \cup Walking) => head = BranchOf(run.conf)

\* What is stored is there, and staged when it is committed.
FileHeld ==
    /\ run.pc \in Storing => run.got[run.cur] # Absent
    /\ run.pc = "commit" => index[run.cur] = run.got[run.cur]

\* What a device is reported with stays staged, so that the commits that follow have
\* it too; and what the run committed is in the history of its branch.
ReportedIsStaged ==
    \A d \in Devices : run.outcome[d] \in {"unchanged", "committed"} =>
        run.got[Text(d)] # Absent /\ index[Text(d)] = run.got[Text(d)]
CommittedHere ==
    (~run.moved /\ run.pc \in Walking) =>
        \A d \in Devices : run.outcome[d] = "committed" =>
            \E i \in DOMAIN refs[BranchOf(run.conf)] :
                refs[BranchOf(run.conf)][i].tree[Text(d)] = run.got[Text(d)]

\* A run that was level with the remote and has committed no export.
LeftBehind ==
    (~run.moved /\ run.commits = 0
        /\ (run.pc = "checkout" \/ run.sync \in {"up to date", "fast forwarded"})) =>
        \A i \in DOMAIN refs[run.conf] :
            i > Len(remote[run.conf]) => refs[run.conf][i].path[2] = "backup"

IInv ==
    /\ TypeOK /\ NothingTornStaged /\ ReportGrows /\ OnBranch /\ FileHeld
    /\ ReportedIsCommitted /\ ReportedIsStaged /\ CommittedHere /\ PushedIsOnRemote /\ LeftBehind

-----------------------------------------------------------------------------
(* What the comments say and the code does not do *)

\* push_if_needed: commits of an earlier run that was interrupted before its push
\* are noticed by the fetch and pushed.  Not when the remote has no branch yet.
InterruptedPushMadeUp ==
    (~run.moved /\ run.push = "no new commits" /\ run.sync # "unavailable") =>
        \A i \in DOMAIN refs[run.conf] :
            i > Len(remote[run.conf]) => refs[run.conf][i].path[2] = "backup"

\* open_repo is "for reading history and diffs".  But it aims HEAD at the default
\* branch, and a sync under way then compares that one with the remote and
\* overwrites the configured branch, its unpushed commits included.
LocalHistoryKept == [][\A b \in Branches : IsPrefix(refs[b], refs'[b])]_vars
=============================================================================
