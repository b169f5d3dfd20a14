-------------------------- MODULE BackupRepoProofs --------------------------
(***************************************************************************)
(* What the backup repository guarantees for any fleet, any branches, any  *)
(* contents and any number of runs, kills, pages and foreign pushes.       *)
(***************************************************************************)
EXTENDS BackupRepo, TLAPS

(* Prefixes of sequences, in the form the branches need them *)

LEMMA PrefixSelf == \A s \in Seq(Commits) : IsPrefix(s, s)
BY DEF IsPrefix

LEMMA PrefixOfEmpty == \A s \in Seq(Commits) : IsPrefix(<<>>, s)
BY DEF IsPrefix

LEMMA PrefixAppend ==
    \A s \in Seq(Commits), c \in Commits : IsPrefix(s, Append(s, c))
BY DEF IsPrefix

(* Trees and histories *)

LEMMA PathsOfDevices ==
    /\ \A p \in Paths : p[1] \in Devices
    /\ \A d \in Devices : Text(d) \in Paths
    /\ \A d \in Binaries : Binary(d) \in Paths
BY BackupRepoAssumption DEF Paths, Text, Binary

\* The tip of a branch is a tree, and whole if the branch's history is.
LEMMA TipIsTree ==
    \A h \in Seq(Commits) : Tip(h) \in Tree /\ (WholeHistory(h) => Whole(Tip(h)))
<1> SUFFICES ASSUME NEW h \in Seq(Commits)
             PROVE  Tip(h) \in Tree /\ (WholeHistory(h) => Whole(Tip(h)))
  OBVIOUS
<1>1. CASE h = <<>>
  BY <1>1, BackupRepoAssumption DEF Tip, Empty, Tree, Files, Whole
<1>2. CASE h # <<>>
  <2>1. Len(h) \in DOMAIN h /\ Last(h) \in Commits /\ Tip(h) = h[Len(h)].tree
    BY <1>2 DEF Tip, Last
  <2>2. QED
    BY <2>1 DEF Last, Commits, WholeHistory
<1>3. QED
  BY <1>1, <1>2

\* A history stays whole when a commit of a whole tree is added.
LEMMA AppendWhole ==
    \A h \in Seq(Commits), c \in Commits :
        WholeHistory(h) /\ Whole(c.tree) => WholeHistory(Append(h, c))
BY DEF WholeHistory

\* A capture of a device yields a tree, whole if what was captured so far is.
LEMMA CapturedTree ==
    ASSUME TypeOK, NEW d \in Devices, NEW got \in Captured(d)
    PROVE  got \in Tree /\ (Whole(run.got) => Whole(got))
<1>1. PICK binary \in BOOLEAN : got = [p \in Paths |->
        IF p = Text(d) \/ (binary /\ p = Binary(d)) THEN device[p] ELSE run.got[p]]
  BY DEF Captured
<1>2. device \in [Paths -> Contents] /\ run.got \in [Paths -> Files]
  BY DEF TypeOK, RunStates, Tree
<1>3. got = [p \in Paths |-> got[p]]
  BY <1>1
<1>4. \A p \in Paths : got[p] = device[p] \/ got[p] = run.got[p]
  BY <1>1
<1>5. \A p \in Paths : device[p] \in Files /\ device[p] # Torn
  BY <1>2, BackupRepoAssumption DEF Files
<1>6. \A p \in Paths : got[p] \in Files /\ (Whole(run.got) => got[p] # Torn)
  BY <1>2, <1>4, <1>5 DEF Whole
<1>7. QED
  BY <1>3, <1>6 DEF Tree, Whole

\* What a run has in hand fits where it stands.
FileAtHand(r) == IF r.pc \in Storing THEN r.cur \in Paths ELSE r.cur = Absent \/ r.pc = "done"

\* After a file the run goes on to its binary sibling or to the next device.
LEMMA NextFileType ==
    ASSUME TypeOK, run.pc \in Storing, NEW r \in RunStates
    PROVE  /\ NextFile(r) \in RunStates /\ FileAtHand(NextFile(r))
           /\ Walk(r) \in RunStates /\ FileAtHand(Walk(r))
           /\ NextFile(r).got = r.got /\ Walk(r).got = r.got
           /\ NextFile(r).pc \in {"walk", "write"} /\ Walk(r).pc = "walk"
<1>1. run.cur \in Paths
  BY DEF TypeOK
<1>2. /\ Walk(r) \in RunStates /\ FileAtHand(Walk(r)) /\ Walk(r).got = r.got
      /\ Walk(r).pc = "walk"
  <2>1. /\ Walk(r).pc = "walk" /\ Walk(r).cur = Absent /\ Walk(r).got = r.got
        /\ Walk(r).todo = r.todo \ {run.cur[1]}
    BY DEF Walk, RunStates
  <2>2. Walk(r) \in RunStates
    <3>1. r.todo \ {run.cur[1]} \in SUBSET Devices
      BY DEF RunStates
    <3>2. QED
      BY <3>1 DEF Walk, RunStates
  <2>3. QED
    BY <2>1, <2>2 DEF FileAtHand, Storing
<1>3. CASE NextFile(r) = Walk(r)
  BY <1>2, <1>3
<1>4. CASE NextFile(r) # Walk(r)
  <2>1. /\ NextFile(r) = [r EXCEPT !.pc = "write", !.cur = Binary(run.cur[1])]
        /\ Binary(run.cur[1]) \in Paths
    BY <1>4, PathsOfDevices DEF NextFile
  <2>2. /\ NextFile(r).pc = "write" /\ NextFile(r).cur = Binary(run.cur[1])
        /\ NextFile(r).got = r.got
    BY <2>1 DEF RunStates
  <2>3. NextFile(r) \in RunStates
    BY <2>1 DEF RunStates, Storing
  <2>4. QED
    BY <1>2, <2>1, <2>2, <2>3 DEF FileAtHand, Storing
<1>5. QED
  BY <1>3, <1>4

LEMMA TypeInit == Init => TypeOK
<1> SUFFICES ASSUME Init PROVE TypeOK
  OBVIOUS
<1>1. Empty \in Tree
  BY DEF Empty, Tree, Files
<1>2. run \in RunStates /\ run.pc \notin Storing /\ run.cur = Absent
  BY <1>1 DEF Init, Idle, RunStates, Storing
<1>3. device \in [Paths -> Contents]
  BY DEF Init
<1>4. QED
  BY <1>1, <1>2, <1>3, BackupRepoAssumption DEF Init, TypeOK

\* Every action keeps every variable in its type.
LEMMA TypeStep == TypeOK /\ [Next]_vars => TypeOK'
<1> SUFFICES ASSUME TypeOK, [Next]_vars PROVE TypeOK'
  OBVIOUS
<1> USE DEF repo, world
<1>e. Event => events' \in 0..MaxEvents
  BY BackupRepoAssumption DEF TypeOK, Event
<1>b. \A c \in Branches \cup {NoRemote} : BranchOf(c) \in Branches
  BY BackupRepoAssumption DEF BranchOf
<1>i. Idle \in RunStates /\ Idle.pc \notin Storing /\ Idle.cur = Absent
  BY DEF Idle, RunStates, Storing, Empty, Tree, Files
<1>o. ASSUME NEW b \in Branches, EnsureBranch(b)
      PROVE  /\ head' \in Branches /\ refs' \in [Branches -> Seq(Commits)]
             /\ index' = index /\ work' = work
  BY <1>o DEF EnsureBranch, TypeOK
<1>a. Aborted => run' \in RunStates /\ run'.pc = "done"
  BY DEF Aborted, TypeOK, RunStates
<1>y. ASSUME run.pc \notin Storing \cup {"done"},
             NEW outcome \in {"unavailable", "remote branch missing", "up to date",
                              "local ahead", "fast forwarded"},
             Synced(outcome)
      PROVE  run' \in RunStates /\ FileAtHand(run')
  <2>1. run \in RunStates /\ run.cur = Absent
    BY <1>y DEF TypeOK
  <2>2. run' \in RunStates /\ run'.cur = run.cur /\ run'.pc = "walk"
    BY <1>y, <2>1 DEF Synced, RunStates
  <2>3. QED
    BY <2>1, <2>2 DEF FileAtHand, Storing
<1>d. ASSUME NEW push \in {"dry run", "not wanted", "no remote", "no new commits", "pushed",
                           "failed"},
             Done(push)
      PROVE  run' \in RunStates /\ run'.pc = "done"
  <2>1. run \in RunStates /\ run' = [run EXCEPT !.pc = "done", !.push = push]
    BY <1>d DEF TypeOK, Done
  <2>2. QED
    BY <2>1 DEF RunStates
<1>t. HeadTree \in Tree
  BY TipIsTree DEF HeadTree, TypeOK
<1>r. \* Steps that change nothing but where the run stands.
      ASSUME UNCHANGED <<repo, world>>, run' \in RunStates, FileAtHand(run')
      PROVE  TypeOK'
  BY <1>r DEF TypeOK, FileAtHand
<1>s. CheckedOut \in Tree
  BY <1>t DEF CheckedOut, TypeOK, Tree
<1>1. CASE StartRun
  <2>1. PICK mode \in {"capture", "dry run"}, todo \in SUBSET Devices :
          run' = [Idle EXCEPT !.pc = "open", !.mode = mode, !.conf = conf, !.todo = todo]
    BY <1>1 DEF StartRun
  <2>2. run'.pc = "open" /\ run'.cur = Absent
    BY <2>1 DEF Idle
  <2>3. run' \in RunStates
    <3>1. conf \in Branches \cup {NoRemote}
      BY DEF TypeOK
    <3>2. QED
      BY <1>i, <2>1, <3>1 DEF RunStates
  <2>4. QED
    BY <1>1, <1>r, <2>2, <2>3 DEF StartRun, FileAtHand, Storing
<1>2. CASE OpenOrInit
  <2>1. BranchOf(run.conf) \in Branches
    BY <1>b DEF TypeOK, RunStates
  <2>2. run' \in RunStates /\ run'.pc \notin Storing /\ run'.cur = Absent
    BY <1>2 DEF OpenOrInit, TypeOK, RunStates, Storing
  <2>3. QED
    BY <1>2, <1>o, <2>1, <2>2 DEF OpenOrInit, TypeOK
<1>3. CASE FetchFails
  <2>1. run' \in RunStates /\ FileAtHand(run')
    BY <1>3, <1>y DEF FetchFails, Storing
  <2>2. QED
    BY <1>3, <1>r, <2>1 DEF FetchFails
<1>4. CASE SyncKeeps
  <2>1. run' \in RunStates /\ FileAtHand(run')
    BY <1>4, <1>y DEF SyncKeeps, Storing
  <2>2. QED
    BY <1>4, <1>r, <2>1 DEF SyncKeeps
<1>5. CASE FastForward
  <2>1. BranchOf(run.conf) \in Branches
    BY <1>b DEF TypeOK, RunStates
  <2>2. run' \in RunStates /\ run'.pc \notin Storing /\ run'.cur = Absent
    BY <1>5 DEF FastForward, TypeOK, RunStates, Storing
  <2>3. QED
    BY <1>5, <2>1, <2>2 DEF FastForward, TypeOK
<1>6. CASE Checkout
  <2>1. run' \in RunStates /\ FileAtHand(run')
    BY <1>6, <1>y DEF Checkout, Storing
  <2>2. QED
    BY <1>6, <1>s, <1>t, <2>1 DEF Checkout, FileAtHand, TypeOK
<1>7. CASE SyncRefuses
  BY <1>7, <1>a DEF SyncRefuses, TypeOK, Storing
<1>8. ASSUME NEW d \in Devices, CaptureFails(d) PROVE TypeOK'
  <2>1. run' \in RunStates /\ run'.pc = run.pc /\ run'.cur = run.cur
    BY <1>8 DEF CaptureFails, TypeOK, RunStates
  <2>2. QED
    BY <1>8, <1>r, <2>1 DEF CaptureFails, FileAtHand, TypeOK
<1>9. ASSUME NEW d \in Devices, Compare(d) PROVE TypeOK'
  <2>1. PICK got \in Captured(d) : run' = [run EXCEPT
          !.todo = @ \ {d}, !.got = got,
          !.outcome[d] =
            IF Changed(Text(d), device[Text(d)]) THEN "would change" ELSE "unchanged"]
    BY <1>9 DEF Compare
  <2>2. got \in Tree
    BY CapturedTree
  <2>3. run' \in RunStates /\ run'.pc \notin Storing /\ run'.cur = Absent
    BY <1>9, <2>1, <2>2 DEF Compare, TypeOK, RunStates, Storing
  <2>4. QED
    BY <1>9, <2>3 DEF Compare, TypeOK
<1>10. ASSUME NEW d \in Devices, Fold(d) PROVE TypeOK'
  <2>1. PICK got \in Captured(d) :
          run' = [run EXCEPT !.pc = "write", !.cur = Text(d), !.got = got]
    BY <1>10 DEF Fold
  <2>2. got \in Tree /\ Text(d) \in Paths
    BY CapturedTree, PathsOfDevices
  <2>3. run' \in RunStates /\ run'.cur \in Paths /\ run'.pc \in Storing
    BY <2>1, <2>2 DEF TypeOK, RunStates, Storing
  <2>4. QED
    BY <1>10, <2>3 DEF Fold, TypeOK
<1>11. CASE Unchanged
  <2>1. PICK r \in RunStates : run' = NextFile(r)
    BY <1>11 DEF Unchanged, TypeOK, RunStates
  <2>2. QED
    BY <1>11, <2>1, NextFileType DEF Unchanged, FileAtHand, TypeOK, Storing
<1>12. CASE Write
  BY <1>12 DEF Write, TypeOK, RunStates, Storing, Tree
<1>13. CASE Stage
  BY <1>13 DEF Stage, TypeOK, RunStates, Storing, Tree
<1>14. CASE Commit
  <2>1. PICK r \in RunStates : run' = NextFile(r)
    <3>1. run \in RunStates /\ run' = NextFile(
            IF run.cur[2] = "rsc"
            THEN [run EXCEPT !.outcome[run.cur[1]] = "committed", !.commits = @ + 1]
            ELSE run)
      BY <1>14 DEF Commit, TypeOK
    <3>2. [run EXCEPT !.outcome[run.cur[1]] = "committed", !.commits = @ + 1] \in RunStates
      <4> DEFINE outcomes == {"none", "failed", "would change", "unchanged", "committed"}
      <4>a. run.commits \in Nat /\ run.outcome \in [Devices -> outcomes]
        BY <3>1 DEF RunStates
      <4>b. run.commits + 1 \in Nat
        <5>1. \A n \in Nat : n + 1 \in Nat
          OBVIOUS
        <5>2. QED
          BY <4>a, <5>1
      <4>c. [run.outcome EXCEPT ![run.cur[1]] = "committed"] \in [Devices -> outcomes]
        BY <4>a
      <4>1. /\ run.commits + 1 \in Nat
            /\ [run.outcome EXCEPT ![run.cur[1]] = "committed"] \in [Devices -> outcomes]
        BY <4>b, <4>c
      <4>2. [run EXCEPT !.outcome = [run.outcome EXCEPT ![run.cur[1]] = "committed"],
                        !.commits = run.commits + 1] \in RunStates
        BY <3>1, <4>1 DEF RunStates
      <4>3. QED
        BY <4>2
    <3>3. QED
      BY <3>1, <3>2
  <2>2. [path |-> run.cur, tree |-> index, by |-> "self"] \in Commits
    BY <1>14 DEF Commit, TypeOK, Commits, Storing
  <2>3. refs' \in [Branches -> Seq(Commits)]
    BY <1>14, <2>2 DEF Commit, TypeOK
  <2>4. QED
    BY <1>14, <2>1, <2>3, NextFileType DEF Commit, FileAtHand, TypeOK, Storing
<1>15. CASE StoreFails
  <2>1. run' \in RunStates /\ FileAtHand(run')
    BY <1>15, <1>a, NextFileType DEF StoreFails, TypeOK, FileAtHand, Storing
  <2>2. work' \in Tree
    BY <1>15 DEF StoreFails, TypeOK, Tree, Files
  <2>3. QED
    BY <1>15, <1>e, <2>1, <2>2 DEF StoreFails, FileAtHand, TypeOK
<1>16. CASE PushSkipped
  <2>1. run' \in RunStates /\ run'.pc = "done"
    BY <1>16, <1>d DEF PushSkipped
  <2>2. QED
    BY <1>16, <1>r, <2>1 DEF PushSkipped, FileAtHand, Storing
<1>17. CASE PushAccepted
  <2>1. BranchOf(run.conf) \in Branches
    BY <1>b DEF TypeOK, RunStates
  <2>2. run' \in RunStates /\ run'.pc = "done"
    BY <1>17, <1>d DEF PushAccepted
  <2>3. QED
    BY <1>17, <2>1, <2>2 DEF PushAccepted, TypeOK, Storing
<1>18. CASE PushFails
  <2>1. run' \in RunStates /\ run'.pc = "done"
    BY <1>18, <1>d DEF PushFails
  <2>2. QED
    BY <1>18, <1>r, <2>1 DEF PushFails, FileAtHand, Storing
<1>19. CASE EndRun
  BY <1>19, <1>i DEF EndRun, TypeOK
<1>20. CASE OpenForReading
  <2>1. run' \in RunStates /\ run'.pc = run.pc /\ run'.cur = run.cur
    BY <1>20 DEF OpenForReading, TypeOK, RunStates
  <2>2. QED
    BY <1>20, <1>o, <1>e, <2>1, BackupRepoAssumption DEF OpenForReading, TypeOK
<1>21. CASE Killed
  <2>1. work' \in Tree
    <3>1. work \in [Paths -> Files] /\ run.got \in [Paths -> Files] /\ Torn \in Files
      BY DEF TypeOK, RunStates, Tree, Files
    <3>2. CASE run.pc = "write"
      <4>1. run.cur \in Paths /\ run.got[run.cur] \in Files
        BY <3>1, <3>2 DEF TypeOK, Storing
      <4>2. QED
        BY <1>21, <3>1, <3>2, <4>1 DEF Killed, Tree
    <3>3. CASE run.pc # "write"
      BY <1>21, <3>1, <3>3 DEF Killed, Tree
    <3>4. QED
      BY <3>2, <3>3
  <2>2. QED
    BY <1>21, <1>i, <1>e, <2>1 DEF Killed, TypeOK
<1>22. CASE ForeignPush
  <2>1. PICK b \in Branches, p \in Paths, c \in Contents :
          remote' = [remote EXCEPT ![b] = Append(@,
            [path |-> p, tree |-> [Tip(remote[b]) EXCEPT ![p] = c], by |-> "other"])]
    BY <1>22 DEF ForeignPush
  <2>2. [Tip(remote[b]) EXCEPT ![p] = c] \in Tree
    BY TipIsTree DEF TypeOK, Tree, Files
  <2> DEFINE commit ==
        [path |-> p, tree |-> [Tip(remote[b]) EXCEPT ![p] = c], by |-> "other"]
  <2>3. remote' \in [Branches -> Seq(Commits)]
    <3>1. commit \in Commits
      BY <2>2 DEF Commits
    <3>2. remote' = [remote EXCEPT ![b] = Append(remote[b], commit)]
      BY <2>1 DEF TypeOK
    <3> HIDE DEF commit
    <3>3. QED
      BY <3>1, <3>2 DEF TypeOK
  <2>4. QED
    BY <1>22, <1>e, <2>3 DEF ForeignPush, TypeOK
<1>23. CASE DeviceChanges
  BY <1>23, <1>e DEF DeviceChanges, TypeOK
<1>24. CASE Configure
  BY <1>24, <1>e DEF Configure, TypeOK
<1>25. CASE UNCHANGED vars
  BY <1>25 DEF vars, TypeOK
<1>26. QED
  BY <1>1, <1>2, <1>3, <1>4, <1>5, <1>6, <1>7, <1>8, <1>9, <1>10, <1>11, <1>12, <1>13,
     <1>14, <1>15, <1>16, <1>17, <1>18, <1>19, <1>20, <1>21, <1>22, <1>23, <1>24, <1>25
     DEF Next

\* Type correctness, for any number of runs, kills, pages and foreign pushes.
THEOREM RepoTypeCorrect == Spec => []TypeOK
BY TypeInit, TypeStep, PTL DEF Spec

-----------------------------------------------------------------------------
(* Only whole files are committed *)

\* No step stages, commits or adopts a file that was cut short: the only contents
\* that reach the index are those of a capture just written, or of a commit.
LEMMA TornStep == TypeOK /\ NothingTornStaged /\ [Next]_vars => NothingTornStaged'
<1> SUFFICES ASSUME TypeOK, NothingTornStaged, [Next]_vars PROVE NothingTornStaged'
  OBVIOUS
<1> USE DEF repo, world
<1>h. TypeOK'
  BY TypeStep
<1>k. \* Steps that leave refs, remote and index alone and do not stage.
      ASSUME UNCHANGED <<refs, remote, index>>, Whole(run'.got), run'.pc # "stage"
      PROVE  NothingTornStaged'
  BY <1>k DEF NothingTornStaged, Whole, WholeHistory
<1>b. \A c \in Branches \cup {NoRemote} : BranchOf(c) \in Branches
  BY BackupRepoAssumption DEF BranchOf
<1>i. Idle.pc = "idle" /\ Whole(Idle.got)
  BY BackupRepoAssumption DEF Idle, Whole, Empty
<1>g. Whole(run.got) /\ run \in RunStates
  BY DEF NothingTornStaged, TypeOK
<1>a. Aborted => run'.got = run.got /\ run'.pc = "done"
  BY <1>g DEF Aborted, RunStates
<1>y. ASSUME NEW outcome, Synced(outcome) PROVE run'.got = run.got /\ run'.pc = "walk"
  BY <1>g, <1>y DEF Synced, RunStates
<1>d. ASSUME NEW push, Done(push) PROVE run'.got = run.got /\ run'.pc = "done"
  BY <1>g, <1>d DEF Done, RunStates
<1>t. HeadTree \in Tree /\ Whole(HeadTree)
  BY TipIsTree DEF HeadTree, TypeOK, NothingTornStaged
<1>e. ASSUME NEW b \in Branches, EnsureBranch(b)
      PROVE  index' = index /\ \A c \in Branches : WholeHistory(refs'[c])
  BY <1>e DEF EnsureBranch, TypeOK, NothingTornStaged
<1>1. CASE StartRun
  <2>1. run'.pc = "open" /\ run'.got = Idle.got
    BY <1>1 DEF StartRun, Idle
  <2>2. QED
    BY <1>1, <1>i, <1>k, <2>1 DEF StartRun
<1>2. CASE OpenOrInit
  <2>1. BranchOf(run.conf) \in Branches
    BY <1>b, <1>g DEF RunStates
  <2>2. run'.got = run.got /\ run'.pc # "stage" /\ remote' = remote
    BY <1>2, <1>g DEF OpenOrInit, RunStates
  <2>3. QED
    BY <1>2, <1>g, <1>e, <2>1, <2>2 DEF OpenOrInit, NothingTornStaged, Whole
<1>3. CASE FetchFails
  BY <1>3, <1>g, <1>k, <1>y DEF FetchFails
<1>4. CASE SyncKeeps
  BY <1>4, <1>g, <1>k, <1>y DEF SyncKeeps
<1>5. CASE FastForward
  <2>1. BranchOf(run.conf) \in Branches
    BY <1>b, <1>g DEF RunStates
  <2>2. /\ run'.got = run.got /\ run'.pc # "stage" /\ remote' = remote /\ index' = index
        /\ refs' = [refs EXCEPT ![BranchOf(run.conf)] = remote[BranchOf(run.conf)]]
    BY <1>5, <1>g DEF FastForward, RunStates
  <2>3. QED
    BY <1>g, <2>1, <2>2 DEF TypeOK, NothingTornStaged, Whole
<1>6. CASE Checkout
  <2>1. run'.got = run.got /\ run'.pc # "stage"
    BY <1>6, <1>g DEF Checkout, Synced, RunStates
  <2>2. QED
    BY <1>6, <1>g, <1>t, <2>1 DEF Checkout, NothingTornStaged, Whole
<1>7. CASE SyncRefuses
  BY <1>7, <1>g, <1>a, <1>k DEF SyncRefuses
<1>8. ASSUME NEW d \in Devices, CaptureFails(d) PROVE NothingTornStaged'
  BY <1>8, <1>g, <1>k DEF CaptureFails, RunStates
<1>9. ASSUME NEW d \in Devices, Compare(d) PROVE NothingTornStaged'
  <2>1. PICK got \in Captured(d) : run' = [run EXCEPT
          !.todo = @ \ {d}, !.got = got,
          !.outcome[d] =
            IF Changed(Text(d), device[Text(d)]) THEN "would change" ELSE "unchanged"]
    BY <1>9 DEF Compare
  <2>2. run'.got = got /\ run'.pc = "walk"
    BY <1>9, <1>g, <2>1 DEF Compare, RunStates
  <2>3. QED
    BY <1>9, <1>g, <1>k, <2>2, CapturedTree DEF Compare
<1>10. ASSUME NEW d \in Devices, Fold(d) PROVE NothingTornStaged'
  <2>1. PICK got \in Captured(d) :
          run' = [run EXCEPT !.pc = "write", !.cur = Text(d), !.got = got]
    BY <1>10 DEF Fold
  <2>2. run'.got = got /\ run'.pc = "write"
    BY <1>g, <2>1 DEF RunStates
  <2>3. QED
    BY <1>10, <1>g, <1>k, <2>2, CapturedTree DEF Fold
<1>11. CASE Unchanged
  <2>1. PICK r \in RunStates : run' = NextFile(r) /\ r.got = run.got
    <3> DEFINE r == [run EXCEPT !.outcome[run.cur[1]] = "unchanged"]
    <3>1. r \in RunStates /\ r.got = run.got
      BY <1>g DEF RunStates
    <3>2. run' = NextFile(r) \/ run' = NextFile(run)
      BY <1>11 DEF Unchanged
    <3>3. QED
      BY <1>g, <3>1, <3>2
  <2>2. run.pc \in Storing
    BY <1>11 DEF Unchanged, Storing
  <2>3. QED
    BY <1>11, <1>g, <1>k, <2>1, <2>2, NextFileType DEF Unchanged
<1>12. CASE Write
  <2>1. run'.got = run.got /\ run'.cur = run.cur
    BY <1>12, <1>g DEF Write, RunStates
  <2>2. work'[run.cur] = run.got[run.cur]
    BY <1>12 DEF Write, TypeOK, Storing, Tree
  <2>3. QED
    BY <1>12, <2>1, <2>2 DEF Write, NothingTornStaged, Whole
<1>13. CASE Stage
  <2>1. run.cur \in Paths /\ index' = [index EXCEPT ![run.cur] = run.got[run.cur]]
    BY <1>13 DEF Stage, TypeOK, NothingTornStaged, Storing
  <2>2. Whole(index')
    BY <1>g, <2>1 DEF NothingTornStaged, TypeOK, Tree, Whole
  <2>3. run'.got = run.got /\ run'.pc = "commit"
    BY <1>13, <1>g DEF Stage, RunStates
  <2>4. QED
    BY <1>13, <1>g, <2>2, <2>3 DEF Stage, NothingTornStaged
<1>14. CASE Commit
  <2>1. run'.got = run.got /\ run'.pc \in {"walk", "write"}
    <3>1. run.pc \in Storing
      BY <1>14 DEF Commit, Storing
    <3>2. QED
      BY <1>14, <1>g, <3>1 DEF Commit, NextFile, Walk, RunStates
  <2>2. [path |-> run.cur, tree |-> index, by |-> "self"] \in Commits
    BY <1>14 DEF Commit, TypeOK, Commits, Storing
  <2>3. WholeHistory(Append(refs[head], [path |-> run.cur, tree |-> index, by |-> "self"]))
    BY <2>2, AppendWhole DEF TypeOK, NothingTornStaged
  <2>4. \A b \in Branches : WholeHistory(refs'[b])
    BY <1>14, <2>3 DEF Commit, TypeOK, NothingTornStaged
  <2>5. QED
    BY <1>14, <1>g, <2>1, <2>4 DEF Commit, NothingTornStaged
<1>15. CASE StoreFails
  <2>1. run'.got = run.got /\ run'.pc # "stage"
    BY <1>15, <1>g, <1>a, NextFileType DEF StoreFails
  <2>2. QED
    BY <1>15, <1>g, <1>k, <2>1 DEF StoreFails
<1>16. CASE PushSkipped
  BY <1>16, <1>g, <1>k, <1>d DEF PushSkipped
<1>17. CASE PushAccepted
  <2>1. BranchOf(run.conf) \in Branches
    BY <1>b, <1>g DEF RunStates
  <2>2. run'.got = run.got /\ run'.pc = "done"
    BY <1>17, <1>g DEF PushAccepted, Done, RunStates
  <2>3. QED
    BY <1>17, <1>g, <2>1, <2>2 DEF PushAccepted, TypeOK, NothingTornStaged
<1>18. CASE PushFails
  BY <1>18, <1>g, <1>k, <1>d DEF PushFails
<1>19. CASE EndRun
  BY <1>19, <1>i, <1>k DEF EndRun
<1>20. CASE OpenForReading
  <2>1. run'.got = run.got /\ run'.pc = run.pc /\ run'.cur = run.cur
    BY <1>20, <1>g DEF OpenForReading, RunStates
  <2>2. work' = work /\ remote' = remote
    BY <1>20 DEF OpenForReading, EnsureBranch
  <2>3. QED
    BY <1>20, <1>g, <1>e, <2>1, <2>2, BackupRepoAssumption
       DEF OpenForReading, NothingTornStaged, Whole
<1>21. CASE Killed
  BY <1>21, <1>i, <1>k DEF Killed
<1>22. CASE ForeignPush
  <2>1. PICK b \in Branches, p \in Paths, c \in Contents :
          remote' = [remote EXCEPT ![b] = Append(@,
            [path |-> p, tree |-> [Tip(remote[b]) EXCEPT ![p] = c], by |-> "other"])]
    BY <1>22 DEF ForeignPush
  <2> DEFINE tree == [Tip(remote[b]) EXCEPT ![p] = c]
             commit == [path |-> p, tree |-> tree, by |-> "other"]
  <2>2. tree \in Tree /\ Whole(tree)
    <3>1. Tip(remote[b]) \in Tree /\ Whole(Tip(remote[b]))
      BY TipIsTree DEF TypeOK, NothingTornStaged
    <3>2. QED
      BY <3>1, BackupRepoAssumption DEF Tree, Files, Whole
  <2>3. WholeHistory(Append(remote[b], commit))
    <3>1. commit \in Commits /\ Whole(commit.tree)
      BY <2>2 DEF Commits
    <3> HIDE DEF commit
    <3>2. QED
      BY <3>1, AppendWhole DEF TypeOK, NothingTornStaged
  <2>4. remote' = [remote EXCEPT ![b] = Append(remote[b], commit)]
    BY <2>1 DEF TypeOK
  <2> HIDE DEF commit
  <2>5. QED
    BY <1>22, <1>g, <2>3, <2>4 DEF ForeignPush, TypeOK, NothingTornStaged, Whole
<1>23. CASE DeviceChanges
  BY <1>23, <1>g DEF DeviceChanges, NothingTornStaged
<1>24. CASE Configure
  BY <1>24, <1>g DEF Configure, NothingTornStaged
<1>25. CASE UNCHANGED vars
  BY <1>25, <1>g DEF vars, NothingTornStaged
<1>26. QED
  BY <1>1, <1>2, <1>3, <1>4, <1>5, <1>6, <1>7, <1>8, <1>9, <1>10, <1>11, <1>12, <1>13,
     <1>14, <1>15, <1>16, <1>17, <1>18, <1>19, <1>20, <1>21, <1>22, <1>23, <1>24, <1>25
     DEF Next

-----------------------------------------------------------------------------
(* What the steps do to the run *)

Plan == <<run.conf, run.mode, run.moved>>
Report == <<run.outcome, run.commits, run.got>>

\* There is no run, or it has just begun.
Fresh ==
    /\ run'.pc \in {"idle", "open"} /\ run'.sync = "none" /\ run'.push = "none"
    /\ \A d \in Devices : run'.outcome[d] = "none"
    /\ ~run'.moved
\* The run goes on, with what is known of the sync.
Proceeds(pc, sync) ==
    /\ run'.pc = pc /\ run'.sync = sync
    /\ UNCHANGED <<Plan, Report, run.todo, run.cur, run.push>>
\* It ends, with the push accounted for.
Ends(push) ==
    /\ run'.pc = "done" /\ run'.push = push
    /\ UNCHANGED <<Plan, Report, run.todo, run.cur, run.sync>>
\* A device is done with, without a file of its.
Handles(d, outcome, got) ==
    /\ run.pc = "walk" /\ d \in run.todo
    /\ run'.pc = "walk" /\ run'.got = got /\ run'.todo = run.todo \ {d}
    /\ run'.outcome = [run.outcome EXCEPT ![d] = outcome]
    /\ UNCHANGED <<Plan, run.commits, run.cur, run.sync, run.push>>
\* A file is done with: the binary sibling follows, or the next device.
Onwards ==
    /\ \/ run'.pc = "walk" /\ run'.cur = Absent /\ run'.todo = run.todo \ {run.cur[1]}
       \/ /\ run'.pc = "write" /\ run'.cur = Binary(run.cur[1]) /\ run'.todo = run.todo
          /\ run.got[run'.cur] # Absent
    /\ UNCHANGED <<Plan, run.got, run.sync, run.push>>
Stores(outcome, commits) ==
    /\ run.cur \in Paths /\ run.cur[1] \in Devices
    /\ Onwards
    /\ IF run.cur[2] = "rsc"
       THEN /\ run'.outcome = [run.outcome EXCEPT ![run.cur[1]] = outcome]
            /\ run'.commits = commits
       ELSE UNCHANGED <<run.outcome, run.commits>>

LEMMA Beginning ==
    ASSUME TypeOK, StartRun \/ EndRun \/ Killed
    PROVE  Fresh /\ UNCHANGED <<refs, head, index, remote>>
<1>1. Idle.pc = "idle" /\ Idle.sync = "none" /\ Idle.push = "none" /\ Idle.moved = FALSE
  BY DEF Idle
<1>2. \A d \in Devices : Idle.outcome[d] = "none"
  BY DEF Idle
<1>3. CASE StartRun
  <2>1. PICK mode, todo :
            run' = [Idle EXCEPT !.pc = "open", !.mode = mode, !.conf = conf, !.todo = todo]
    BY <1>3 DEF StartRun
  <2>2. /\ run'.pc = "open" /\ run'.sync = Idle.sync /\ run'.push = Idle.push
        /\ run'.outcome = Idle.outcome /\ run'.moved = Idle.moved
    BY <2>1 DEF Idle
  <2>3. QED
    BY <1>1, <1>2, <1>3, <2>2 DEF StartRun, Fresh, repo, world
<1>4. CASE EndRun \/ Killed
  BY <1>1, <1>2, <1>4 DEF EndRun, Killed, Fresh, repo, world
<1>5. QED
  BY <1>3, <1>4

LEMMA Proceeding ==
    ASSUME TypeOK
    PROVE  /\ OpenOrInit => Proceeds(IF run.conf # NoRemote /\ run.mode # "dry run"
                                     THEN "sync" ELSE "walk", run.sync)
           /\ FetchFails => Proceeds("walk", "unavailable")
           /\ SyncKeeps => \E sync \in {"remote branch missing", "up to date", "local ahead"} :
                  /\ Proceeds("walk", sync)
                  /\ sync = "up to date" => refs[head] = remote[BranchOf(run.conf)]
           /\ FastForward => Proceeds("checkout", run.sync)
           /\ Checkout => Proceeds("walk", "fast forwarded")
           /\ Write => Proceeds("stage", run.sync)
           /\ Stage => Proceeds("commit", run.sync)
<1>1. run \in RunStates
  BY DEF TypeOK
<1> USE <1>1 DEF Proceeds, Plan, Report
<1>2. ASSUME NEW sync, Synced(sync) PROVE Proceeds("walk", sync)
  BY <1>2 DEF Synced, RunStates
<1>3. OpenOrInit => Proceeds(IF run.conf # NoRemote /\ run.mode # "dry run"
                             THEN "sync" ELSE "walk", run.sync)
  BY DEF OpenOrInit, RunStates
<1>4. FastForward => Proceeds("checkout", run.sync)
  BY DEF FastForward, RunStates
<1>5. Write => Proceeds("stage", run.sync)
  BY DEF Write, RunStates
<1>6. Stage => Proceeds("commit", run.sync)
  BY DEF Stage, RunStates
<1> HIDE DEF Proceeds
<1>7. QED
  BY <1>2, <1>3, <1>4, <1>5, <1>6 DEF FetchFails, SyncKeeps, Checkout

LEMMA Ending ==
    ASSUME TypeOK
    PROVE  /\ SyncRefuses => Ends("aborted")
           /\ PushSkipped => \E push \in {"dry run", "not wanted", "no remote", "no new commits"} :
                  /\ Ends(push)
                  /\ push = "no new commits" =>
                         /\ run.mode # "dry run" /\ run.conf # NoRemote
                         /\ run.commits = 0 /\ run.sync # "local ahead"
           /\ PushAccepted => \E push \in {"pushed", "failed"} : Ends(push)
           /\ PushFails => Ends("failed")
<1>1. run \in RunStates /\ run.commits \in Nat
  BY DEF TypeOK, RunStates
<1>2. ASSUME NEW push, Done(push) PROVE Ends(push)
  BY <1>1, <1>2 DEF Done, Ends, Plan, Report, RunStates
<1>3. Aborted => Ends("aborted")
  BY <1>1 DEF Aborted, Ends, Plan, Report, RunStates
<1>4. run.mode # "dry run" /\ run.conf # NoRemote /\ ~Pushing =>
          run.commits = 0 /\ run.sync # "local ahead"
  <2>1. \A n \in Nat : n > 0 \/ n = 0
    OBVIOUS
  <2>2. run.commits > 0 \/ run.commits = 0
    BY <1>1, <2>1
  <2>3. QED
    BY <2>2 DEF Pushing
<1>5. QED
  BY <1>2, <1>3, <1>4 DEF SyncRefuses, PushSkipped, PushAccepted, PushFails

LEMMA Handling ==
    ASSUME TypeOK, NEW d \in Devices
    PROVE  /\ CaptureFails(d) => Handles(d, "failed", run.got)
           /\ Compare(d) => \E got \in Captured(d), outcome \in {"would change", "unchanged"} :
                  /\ Handles(d, outcome, got)
                  /\ outcome = "unchanged" => ~Changed(Text(d), device[Text(d)])
           /\ Fold(d) => \E got \in Captured(d) :
                  /\ run.pc = "walk" /\ d \in run.todo
                  /\ run'.pc = "write" /\ run'.cur = Text(d) /\ run'.got = got
                  /\ UNCHANGED <<Plan, run.outcome, run.commits, run.todo, run.sync, run.push>>
<1>1. run \in RunStates
  BY DEF TypeOK
<1>2. CaptureFails(d) => Handles(d, "failed", run.got)
  BY <1>1 DEF CaptureFails, Handles, Plan, RunStates
<1>3. ASSUME Compare(d)
      PROVE  \E got \in Captured(d), outcome \in {"would change", "unchanged"} :
                  /\ Handles(d, outcome, got)
                  /\ outcome = "unchanged" => ~Changed(Text(d), device[Text(d)])
  <2>1. PICK got \in Captured(d), outcome \in {"would change", "unchanged"} :
            /\ outcome = "unchanged" => ~Changed(Text(d), device[Text(d)])
            /\ run' = [run EXCEPT !.todo = @ \ {d}, !.got = got, !.outcome[d] = outcome]
    BY <1>3 DEF Compare
  <2>2. Handles(d, outcome, got)
    BY <1>1, <1>3, <2>1 DEF Compare, Handles, Plan, RunStates
  <2>3. QED
    BY <2>1, <2>2
<1>4. ASSUME Fold(d)
      PROVE  \E got \in Captured(d) :
                  /\ run.pc = "walk" /\ d \in run.todo
                  /\ run'.pc = "write" /\ run'.cur = Text(d) /\ run'.got = got
                  /\ UNCHANGED <<Plan, run.outcome, run.commits, run.todo, run.sync, run.push>>
  <2>1. PICK got \in Captured(d) :
            run' = [run EXCEPT !.pc = "write", !.cur = Text(d), !.got = got]
    BY <1>4 DEF Fold
  <2>2. QED
    BY <1>1, <1>4, <2>1 DEF Fold, Plan, RunStates
<1>5. QED
  BY <1>2, <1>3, <1>4

LEMMA Storage ==
    ASSUME TypeOK
    PROVE  /\ Unchanged => Stores("unchanged", run.commits)
           /\ Commit => Stores("committed", run.commits + 1)
           /\ StoreFails => \/ run.cur[2] = "rsc" /\ Ends("aborted")
                            \/ /\ run.cur[2] # "rsc" /\ Onwards
                               /\ UNCHANGED <<run.outcome, run.commits>>
<1>1. run \in RunStates
  BY DEF TypeOK
<1>2. run.pc \in Storing => run.cur \in Paths /\ run.cur[1] \in Devices
  BY PathsOfDevices DEF TypeOK
<1>3. ASSUME NEW r \in RunStates, run' = NextFile(r), r.todo = run.todo, r.got = run.got,
             r.sync = run.sync, r.push = run.push, r.conf = run.conf, r.mode = run.mode,
             r.moved = run.moved
      PROVE  Onwards /\ run'.outcome = r.outcome /\ run'.commits = r.commits
  BY <1>3 DEF NextFile, Walk, Onwards, Plan, RunStates
<1>4. ASSUME Unchanged PROVE Stores("unchanged", run.commits)
  <2>1. run.cur \in Paths /\ run.cur[1] \in Devices
    BY <1>2, <1>4 DEF Unchanged, Storing
  <2>2. CASE run.cur[2] = "rsc"
    <3> DEFINE r == [run EXCEPT !.outcome = [run.outcome EXCEPT ![run.cur[1]] = "unchanged"]]
    <3>1. run' = NextFile(r)
      BY <1>4, <2>2 DEF Unchanged
    <3>2. /\ r \in RunStates /\ r.todo = run.todo /\ r.got = run.got /\ r.sync = run.sync
          /\ r.push = run.push /\ r.conf = run.conf /\ r.mode = run.mode /\ r.moved = run.moved
          /\ r.outcome = [run.outcome EXCEPT ![run.cur[1]] = "unchanged"]
          /\ r.commits = run.commits
      BY <1>1, <2>1 DEF RunStates
    <3> HIDE DEF r
    <3>3. QED
      BY <1>3, <2>1, <2>2, <3>1, <3>2 DEF Stores
  <2>3. CASE run.cur[2] # "rsc"
    BY <1>1, <1>3, <1>4, <2>1, <2>3 DEF Unchanged, Stores
  <2>4. QED
    BY <2>2, <2>3
<1>5. ASSUME Commit PROVE Stores("committed", run.commits + 1)
  <2>1. run.cur \in Paths /\ run.cur[1] \in Devices
    BY <1>2, <1>5 DEF Commit, Storing
  <2>2. CASE run.cur[2] = "rsc"
    <3> DEFINE r == [run EXCEPT !.outcome = [run.outcome EXCEPT ![run.cur[1]] = "committed"],
                                !.commits = run.commits + 1]
    <3>1. run' = NextFile(r)
      BY <1>5, <2>2 DEF Commit
    <3>2. run.commits + 1 \in Nat
      <4>1. run.commits \in Nat
        BY <1>1 DEF RunStates
      <4>2. QED
        BY <4>1
    <3>3. /\ r \in RunStates /\ r.todo = run.todo /\ r.got = run.got /\ r.sync = run.sync
          /\ r.push = run.push /\ r.conf = run.conf /\ r.mode = run.mode /\ r.moved = run.moved
          /\ r.outcome = [run.outcome EXCEPT ![run.cur[1]] = "committed"]
          /\ r.commits = run.commits + 1
      <4> DEFINE outcomes == {"none", "failed", "would change", "unchanged", "committed"}
      <4>1. [run.outcome EXCEPT ![run.cur[1]] = "committed"] \in [Devices -> outcomes]
        BY <1>1, <2>1 DEF RunStates
      <4>2. r \in RunStates
        BY <1>1, <3>2, <4>1 DEF RunStates
      <4>3. QED
        BY <1>1, <4>2 DEF RunStates
    <3> HIDE DEF r
    <3>4. QED
      BY <1>3, <2>1, <2>2, <3>1, <3>3 DEF Stores
  <2>3. CASE run.cur[2] # "rsc"
    BY <1>1, <1>3, <1>5, <2>1, <2>3 DEF Commit, Stores
  <2>4. QED
    BY <2>2, <2>3
<1>6. ASSUME StoreFails
      PROVE  \/ run.cur[2] = "rsc" /\ Ends("aborted")
             \/ /\ run.cur[2] # "rsc" /\ Onwards
                /\ UNCHANGED <<run.outcome, run.commits>>
  <2>1. CASE run.cur[2] = "rsc"
    BY <1>1, <1>6, <2>1 DEF StoreFails, Aborted, Ends, Plan, Report, RunStates
  <2>2. CASE run.cur[2] # "rsc"
    BY <1>1, <1>6, <2>2 DEF StoreFails, Walk, Onwards, Plan, RunStates
  <2>3. QED
    BY <2>1, <2>2
<1>7. QED
  BY <1>4, <1>5, <1>6

\* What goes on around a run leaves it as it is, but for a page that moves HEAD.
LEMMA Around ==
    ASSUME TypeOK
    PROVE  /\ OpenForReading =>
                  /\ run'.moved = (run.pc # "idle")
                  /\ UNCHANGED <<run.pc, run.conf, run.mode, Report, run.todo, run.cur, run.sync,
                                 run.push>>
           /\ ForeignPush \/ DeviceChanges \/ Configure \/ UNCHANGED vars =>
                  UNCHANGED <<refs, head, index, work, run>>
<1>1. run \in RunStates
  BY DEF TypeOK
<1>2. OpenForReading =>
          /\ run'.moved = (run.pc # "idle")
          /\ UNCHANGED <<run.pc, run.conf, run.mode, Report, run.todo, run.cur, run.sync, run.push>>
  BY <1>1 DEF OpenForReading, Report, RunStates
<1>3. QED
  BY <1>2 DEF ForeignPush, DeviceChanges, Configure, vars, repo

-----------------------------------------------------------------------------
(* The report of a run *)

LEMMA GrowsStep == TypeOK /\ ReportGrows /\ [Next]_vars => ReportGrows'
<1> SUFFICES ASSUME TypeOK, ReportGrows, [Next]_vars PROVE ReportGrows'
  OBVIOUS
<1>p. run.pc # "done" => run.push = "none"
  BY DEF ReportGrows
<1>f. Fresh => ReportGrows'
  BY DEF Fresh, ReportGrows, Walking, Storing
<1>c. ASSUME NEW pc, NEW sync, Proceeds(pc, sync)
      PROVE  /\ run'.pc = pc /\ run'.sync = sync /\ run'.conf = run.conf /\ run'.mode = run.mode
             /\ run'.outcome = run.outcome /\ run'.todo = run.todo /\ run'.push = run.push
             /\ run'.commits = run.commits /\ run'.cur = run.cur
  BY <1>c DEF Proceeds, Plan, Report
<1>1. CASE StartRun \/ EndRun \/ Killed
  BY <1>1, <1>f, Beginning
<1>2. CASE OpenOrInit
  <2>1. run.pc = "open"
    BY <1>2 DEF OpenOrInit
  <2>2. QED
    <3>1. PICK pc \in {"sync", "walk"} :
              /\ Proceeds(pc, run.sync)
              /\ pc = "sync" <=> run.conf # NoRemote /\ run.mode # "dry run"
      BY <1>2, Proceeding
    <3>2. run.sync = "none" /\ run.push = "none" /\ \A d \in Devices : run.outcome[d] = "none"
      BY <1>p, <2>1 DEF ReportGrows
    <3>3. \A d \in run.todo : d \in Devices
      BY DEF TypeOK, RunStates
    <3>4. QED
      BY <1>c, <3>1, <3>2, <3>3 DEF ReportGrows, Walking, Storing
<1>3. CASE FetchFails \/ SyncKeeps \/ FastForward
  <2>1. run.pc = "sync"
    BY <1>3 DEF FetchFails, SyncKeeps, FastForward
  <2>2. PICK sync \in {"none", "unavailable", "remote branch missing", "up to date",
                       "local ahead"},
             pc \in {"walk", "checkout"} :
            Proceeds(pc, sync) /\ (pc = "walk" => sync # "none")
    BY <1>3, <2>1, Proceeding DEF ReportGrows
  <2>3. QED
    <3>1. run.conf # NoRemote /\ run.push = "none" /\ \A d \in Devices : run.outcome[d] = "none"
      BY <1>p, <2>1 DEF ReportGrows
    <3>2. \A d \in run.todo : d \in Devices
      BY DEF TypeOK, RunStates
    <3>3. QED
      BY <1>c, <2>2, <3>1, <3>2 DEF ReportGrows, Walking, Storing
<1>4. CASE Checkout
  <2>1. run.pc = "checkout"
    BY <1>4 DEF Checkout
  <2>2. QED
    <3>1. run.conf # NoRemote /\ run.push = "none" /\ \A d \in Devices : run.outcome[d] = "none"
      BY <1>p, <2>1 DEF ReportGrows
    <3>2. \A d \in run.todo : d \in Devices
      BY DEF TypeOK, RunStates
    <3>3. QED
      BY <1>4, <1>c, <3>1, <3>2, Proceeding DEF ReportGrows, Walking, Storing
<1>5. CASE Write \/ Stage
  <2>1. run.pc \in Storing
    BY <1>5 DEF Write, Stage, Storing
  <2>2. PICK pc \in Storing : Proceeds(pc, run.sync)
    BY <1>5, Proceeding DEF Storing
  <2>3. QED
    BY <1>p, <2>1, <2>2 DEF Proceeds, Plan, Report, ReportGrows, Walking, Storing
<1>6. ASSUME NEW push, Ends(push), push # "none",
             push = "pushed" => run.conf # NoRemote,
             push = "no new commits" => run.commits = 0 /\ run.sync \notin {"none", "local ahead"}
      PROVE  ReportGrows'
  BY <1>6 DEF Ends, Plan, Report, ReportGrows, Walking, Storing
<1>7. CASE SyncRefuses \/ PushSkipped \/ PushAccepted \/ PushFails
  <2>1. CASE SyncRefuses \/ PushFails
    BY <1>6, <2>1, Ending
  <2>2. CASE PushAccepted
    BY <1>6, <2>2, Ending DEF PushAccepted, Pushing
  <2>3. CASE PushSkipped
    <3>1. run.pc = "walk"
      BY <2>3 DEF PushSkipped
    <3>2. run.mode # "dry run" /\ run.conf # NoRemote => run.sync # "none"
      BY <3>1 DEF ReportGrows, Walking
    <3>3. QED
      BY <1>6, <2>3, <3>2, Ending
  <2>4. QED
    BY <1>7, <2>1, <2>2, <2>3
<1>8. ASSUME NEW d \in Devices, CaptureFails(d) \/ Compare(d) PROVE ReportGrows'
  <2>1. PICK outcome, got : Handles(d, outcome, got)
    BY <1>8, Handling
  <2>2. \A e \in run'.todo : run'.outcome[e] = "none"
    <3>1. \A e \in run.todo : e \in Devices /\ run.outcome[e] = "none"
      BY <2>1 DEF Handles, ReportGrows, Walking, Storing, TypeOK, RunStates
    <3>2. run.outcome = [e \in Devices |-> run.outcome[e]]
      BY DEF TypeOK, RunStates
    <3>3. QED
      BY <2>1, <3>1, <3>2 DEF Handles
  <2>3. QED
    BY <1>p, <2>1, <2>2 DEF Handles, Plan, ReportGrows, Walking, Storing
<1>9. ASSUME NEW d \in Devices, Fold(d) PROVE ReportGrows'
  <2>1. /\ run.pc = "walk" /\ run'.pc = "write"
        /\ UNCHANGED <<Plan, run.outcome, run.commits, run.todo, run.sync, run.push>>
    BY <1>9, Handling
  <2>2. QED
    BY <1>p, <2>1 DEF Plan, ReportGrows, Walking, Storing
<1>10. ASSUME run.pc \in Storing, Onwards,
              \A e \in run.todo : e # run.cur[1] => run'.outcome[e] = run.outcome[e]
       PROVE  ReportGrows'
  <2>1. \A e \in run.todo : e # run.cur[1] => run'.outcome[e] = "none"
    BY <1>10 DEF ReportGrows, Walking
  <2>2. Binary(run.cur[1])[1] = run.cur[1]
    BY DEF Binary
  <2>3. \A e \in run'.todo :
            run'.outcome[e] = "none" \/ (run'.pc \in Storing /\ e = run'.cur[1])
    BY <1>10, <2>1, <2>2 DEF Onwards, Storing
  <2>4. run.push = "none" /\ run'.pc \in {"walk", "write"}
    BY <1>10, <1>p DEF Onwards, Storing
  <2>5. QED
    BY <1>10, <2>3, <2>4 DEF Onwards, Plan, ReportGrows, Walking, Storing
<1>11. CASE Unchanged \/ Commit
  <2>1. run.pc \in Storing
    BY <1>11 DEF Unchanged, Commit, Storing
  <2>2. PICK outcome, commits : Stores(outcome, commits)
    BY <1>11, Storage
  <2>3. \A e \in run.todo : e # run.cur[1] => run'.outcome[e] = run.outcome[e]
    <3>1. \A e \in run.todo : e \in Devices
      BY DEF TypeOK, RunStates
    <3>2. run.outcome = [e \in Devices |-> run.outcome[e]]
      BY DEF TypeOK, RunStates
    <3>3. QED
      BY <2>2, <3>1, <3>2 DEF Stores
  <2>4. QED
    BY <1>10, <2>1, <2>2, <2>3 DEF Stores
<1>12. CASE StoreFails
  <2>1. run.pc \in Storing
    BY <1>12 DEF StoreFails
  <2>2. QED
    BY <1>6, <1>10, <1>12, <2>1, Storage
<1>13. CASE OpenForReading
  BY <1>13, Around DEF Report, ReportGrows
<1>14. CASE ForeignPush \/ DeviceChanges \/ Configure \/ UNCHANGED vars
  BY <1>14, Around DEF ReportGrows
<1>15. QED
  BY <1>1, <1>2, <1>3, <1>4, <1>5, <1>7, <1>8, <1>9, <1>11, <1>12, <1>13, <1>14 DEF Next

\* Only a page moves HEAD during a run.
LEMMA BranchStep == TypeOK /\ OnBranch /\ [Next]_vars => OnBranch'
<1> SUFFICES ASSUME TypeOK, OnBranch, [Next]_vars PROVE OnBranch'
  OBVIOUS
<1> USE DEF repo, Plan
<1>1. CASE StartRun \/ EndRun \/ Killed
  BY <1>1, Beginning DEF Fresh, OnBranch, Walking, Storing
<1>2. CASE OpenOrInit
  BY <1>2, Proceeding DEF OpenOrInit, EnsureBranch, Proceeds, OnBranch
<1>k. ASSUME head' = head, run.pc \in {"sync", "checkout"} \cup Walking, UNCHANGED Plan
      PROVE  OnBranch'
  BY <1>k DEF OnBranch
<1>3. CASE FetchFails \/ SyncKeeps \/ Checkout
  <2>1. run.pc \in {"sync", "checkout"} /\ head' = head
    BY <1>3 DEF FetchFails, SyncKeeps, Checkout
  <2>2. QED
    BY <1>3, <1>k, <2>1, Proceeding DEF Proceeds
<1>4. CASE FastForward
  <2>1. run.pc = "sync" /\ UNCHANGED Plan
    BY <1>4, Proceeding DEF FastForward, Proceeds
  <2>2. head' = BranchOf(run.conf) \/ head' = head
    BY <1>4 DEF FastForward
  <2>3. QED
    BY <1>k, <2>1, <2>2 DEF OnBranch
<1>5. CASE Write \/ Stage
  <2>1. run.pc \in Walking /\ head' = head
    BY <1>5 DEF Write, Stage, Walking, Storing
  <2>2. QED
    BY <1>5, <1>k, <2>1, Proceeding DEF Proceeds
<1>6. CASE SyncRefuses \/ PushSkipped \/ PushAccepted \/ PushFails
  BY <1>6, Ending DEF Ends, OnBranch, Walking, Storing
<1>7. ASSUME NEW d \in Devices, CaptureFails(d) \/ Compare(d) \/ Fold(d) PROVE OnBranch'
  <2>1. run.pc \in Walking /\ head' = head
    BY <1>7 DEF CaptureFails, Compare, Fold, Walking
  <2>2. UNCHANGED Plan
    BY <1>7, Handling DEF Handles
  <2>3. QED
    BY <1>k, <2>1, <2>2
<1>8. CASE Unchanged \/ Commit \/ StoreFails
  <2>1. run.pc \in Walking /\ head' = head
    BY <1>8 DEF Unchanged, Commit, StoreFails, Walking, Storing
  <2>2. UNCHANGED Plan
    BY <1>8, Storage DEF Stores, Onwards, Ends
  <2>3. QED
    BY <1>k, <2>1, <2>2
<1>9. CASE OpenForReading
  BY <1>9, Around DEF OnBranch, Walking, Storing
<1>10. CASE ForeignPush \/ DeviceChanges \/ Configure \/ UNCHANGED vars
  BY <1>10, Around DEF OnBranch
<1>11. QED
  BY <1>1, <1>2, <1>3, <1>4, <1>5, <1>6, <1>7, <1>8, <1>9, <1>10 DEF Next

\* The file at hand has contents, and they are what is committed.
LEMMA FileStep == TypeOK /\ NothingTornStaged /\ FileHeld /\ [Next]_vars => FileHeld'
<1> SUFFICES ASSUME TypeOK, NothingTornStaged, FileHeld, [Next]_vars PROVE FileHeld'
  OBVIOUS
<1>k. run'.pc \notin Storing => FileHeld'
  BY DEF FileHeld, Storing
<1>1. CASE StartRun \/ EndRun \/ Killed
  BY <1>1, <1>k, Beginning DEF Fresh, Storing
<1>2. CASE OpenOrInit \/ FetchFails \/ SyncKeeps \/ FastForward \/ Checkout
  BY <1>2, <1>k, Proceeding DEF Proceeds, Storing
<1>3. CASE SyncRefuses \/ PushSkipped \/ PushAccepted \/ PushFails
  BY <1>3, <1>k, Ending DEF Ends, Storing
<1>4. CASE Write
  BY <1>4, Proceeding DEF Write, Proceeds, Report, FileHeld, Storing
<1>5. CASE Stage
  <2>1. run.cur \in Paths /\ index' = [index EXCEPT ![run.cur] = run.got[run.cur]]
    BY <1>5 DEF Stage, TypeOK, NothingTornStaged, Storing
  <2>2. index'[run.cur] = run.got[run.cur]
    BY <2>1 DEF TypeOK, Tree
  <2>3. QED
    BY <1>5, <2>2, Proceeding DEF Stage, Proceeds, Report, FileHeld, Storing
<1>6. ASSUME NEW d \in Devices, CaptureFails(d) \/ Compare(d) PROVE FileHeld'
  BY <1>6, <1>k, Handling DEF Handles, Storing
<1>7. ASSUME NEW d \in Devices, Fold(d) PROVE FileHeld'
  <2>1. PICK got \in Captured(d) : run'.pc = "write" /\ run'.cur = Text(d) /\ run'.got = got
    BY <1>7, Handling
  <2>2. got[Text(d)] = device[Text(d)] /\ Text(d) \in Paths
    BY PathsOfDevices DEF Captured
  <2>3. device[Text(d)] # Absent
    BY <2>2, BackupRepoAssumption DEF TypeOK
  <2>4. QED
    BY <2>1, <2>2, <2>3 DEF FileHeld
<1>8. CASE Unchanged \/ Commit \/ StoreFails
  <2>1. Onwards \/ run'.pc = "done"
    BY <1>8, Storage DEF Stores, Ends
  <2>2. QED
    BY <1>k, <2>1 DEF Onwards, FileHeld, Storing
<1>9. CASE OpenForReading
  BY <1>9, Around DEF OpenForReading, EnsureBranch, Report, FileHeld
<1>10. CASE ForeignPush \/ DeviceChanges \/ Configure \/ UNCHANGED vars
  BY <1>10, Around DEF FileHeld
<1>11. QED
  BY <1>1, <1>2, <1>3, <1>4, <1>5, <1>6, <1>7, <1>8, <1>9, <1>10 DEF Next

-----------------------------------------------------------------------------
(* What was reported is committed *)

\* A device's captured export is staged, and at the tip of a branch.
Held(d) ==
    /\ run.got[Text(d)] # Absent /\ index[Text(d)] = run.got[Text(d)]
    /\ \E b \in Branches : Tip(refs[b])[Text(d)] = run.got[Text(d)]
Stored(d) == run.outcome[d] \in {"unchanged", "committed"}

LEMMA HeldIs ==
    (ReportedIsCommitted /\ ReportedIsStaged) <=> \A d \in Devices : Stored(d) => Held(d)
BY DEF ReportedIsCommitted, ReportedIsStaged, Held, Stored

LEMMA TextsDiffer ==
    \A d, e \in Devices : d # e => Text(d) # Text(e) /\ Text(d) # Binary(e)
BY DEF Text, Binary

\* What a capture leaves of the other devices.
LEMMA CapturedOthers ==
    ASSUME NEW d \in Devices, NEW got \in Captured(d)
    PROVE  /\ got[Text(d)] = device[Text(d)]
           /\ \A e \in Devices : e # d => got[Text(e)] = run.got[Text(e)]
BY PathsOfDevices, TextsDiffer DEF Captured

LEMMA ReportedStep ==
    /\ TypeOK /\ NothingTornStaged /\ ReportGrows /\ FileHeld
    /\ ReportedIsCommitted /\ ReportedIsStaged /\ [Next]_vars
    => ReportedIsCommitted' /\ ReportedIsStaged'
<1> SUFFICES ASSUME TypeOK, NothingTornStaged, ReportGrows, FileHeld, [Next]_vars,
                    \A d \in Devices : Stored(d) => Held(d),
                    NEW e \in Devices, Stored(e)'
             PROVE  Held(e)'
  BY HeldIs DEF ReportedIsCommitted, ReportedIsStaged, Held, Stored
<1> USE DEF repo, Plan
<1>p. Text(e) \in Paths /\ \A b \in Branches : refs[b] \in Seq(Commits) /\ DOMAIN refs = Branches
  BY PathsOfDevices DEF TypeOK
<1>k. \* What was held is, if the branches are at least filled.
      ASSUME Stored(e), run'.got[Text(e)] = run.got[Text(e)], index'[Text(e)] = index[Text(e)],
             \A b \in Branches : refs'[b] = refs[b] \/ refs[b] = <<>>
      PROVE  Held(e)'
  <2>1. Held(e)
    BY <1>k
  <2>2. PICK b \in Branches : Tip(refs[b])[Text(e)] = run.got[Text(e)]
    BY <2>1 DEF Held
  <2>3. refs[b] # <<>>
    BY <1>p, <2>1, <2>2 DEF Tip, Empty, Held
  <2>4. Tip(refs'[b])[Text(e)] = run'.got[Text(e)]
    BY <1>k, <2>2, <2>3
  <2>5. QED
    BY <1>k, <2>1, <2>4 DEF Held
<1>1. CASE StartRun \/ EndRun \/ Killed
  BY <1>1, Beginning DEF Fresh, Stored
<1>2. CASE OpenOrInit \/ FetchFails \/ SyncKeeps \/ FastForward \/ Checkout
  <2>1. run.outcome[e] = "none"
    BY <1>2 DEF OpenOrInit, FetchFails, SyncKeeps, FastForward, Checkout, ReportGrows
  <2>2. run'.outcome = run.outcome
    BY <1>2, Proceeding DEF Proceeds, Report
  <2>3. QED
    BY <2>1, <2>2 DEF Stored
<1>3. CASE SyncRefuses \/ PushSkipped \/ PushAccepted \/ PushFails
  <2>1. UNCHANGED <<refs, index>>
    BY <1>3 DEF SyncRefuses, PushSkipped, PushAccepted, PushFails
  <2>2. UNCHANGED Report
    BY <1>3, Ending DEF Ends
  <2>3. QED
    BY <1>k, <2>1, <2>2 DEF Report, Stored
<1>4. CASE Write
  <2>1. UNCHANGED <<refs, index>> /\ UNCHANGED Report
    BY <1>4, Proceeding DEF Write, Proceeds
  <2>2. QED
    BY <1>k, <2>1 DEF Report, Stored
<1>5. CASE Stage
  <2>1. run.cur \in Paths /\ index' = [index EXCEPT ![run.cur] = run.got[run.cur]]
    BY <1>5 DEF Stage, TypeOK, NothingTornStaged, Storing
  <2>2. refs' = refs /\ UNCHANGED Report
    BY <1>5, Proceeding DEF Stage, Proceeds
  <2>3. Stored(e)
    BY <2>2 DEF Report, Stored
  <2>4. index[Text(e)] = run.got[Text(e)]
    BY <2>3 DEF Held
  <2>5. index'[Text(e)] = index[Text(e)]
    BY <1>p, <2>1, <2>4 DEF TypeOK, Tree
  <2>6. QED
    BY <1>k, <2>2, <2>3, <2>5 DEF Report
<1>6. ASSUME NEW d \in Devices, CaptureFails(d) PROVE Held(e)'
  <2>1. Handles(d, "failed", run.got) /\ UNCHANGED <<refs, index>>
    BY <1>6, Handling DEF CaptureFails
  <2>2. run.outcome = [f \in Devices |-> run.outcome[f]]
    BY DEF TypeOK, RunStates
  <2>3. run'.outcome[d] = "failed" /\ (e # d => run'.outcome[e] = run.outcome[e])
    BY <2>1, <2>2 DEF Handles
  <2>4. QED
    BY <1>k, <2>1, <2>3 DEF Handles, Stored
<1>7. ASSUME NEW d \in Devices, Compare(d) PROVE Held(e)'
  <2>1. PICK got \in Captured(d), outcome \in {"would change", "unchanged"} :
            /\ Handles(d, outcome, got)
            /\ outcome = "unchanged" => ~Changed(Text(d), device[Text(d)])
    BY <1>7, Handling
  <2>2. UNCHANGED <<refs, index, head>>
    BY <1>7 DEF Compare
  <2>3. run.outcome = [f \in Devices |-> run.outcome[f]]
    BY DEF TypeOK, RunStates
  <2>4. CASE e = d
    <3>1. outcome = "unchanged"
      BY <2>1, <2>3, <2>4 DEF Handles, Stored
    <3>2. /\ index[Text(d)] = device[Text(d)] /\ HeadTree[Text(d)] = device[Text(d)]
          /\ device[Text(d)] # Absent
      BY <1>p, <2>1, <2>4, <3>1, BackupRepoAssumption DEF Changed, Clean, TypeOK
    <3>3. run'.got[Text(d)] = device[Text(d)]
      BY <2>1, CapturedOthers DEF Handles
    <3>4. head \in Branches /\ Tip(refs'[head])[Text(d)] = run'.got[Text(d)]
      BY <2>2, <3>2, <3>3 DEF HeadTree, TypeOK
    <3>5. QED
      BY <2>2, <2>4, <3>2, <3>3, <3>4 DEF Held
  <2>5. CASE e # d
    <3>1. run'.outcome[e] = run.outcome[e]
      BY <2>1, <2>3, <2>5 DEF Handles
    <3>2. run'.got[Text(e)] = run.got[Text(e)]
      BY <2>1, <2>5, CapturedOthers DEF Handles
    <3>3. QED
      BY <1>k, <2>2, <3>1, <3>2 DEF Stored
  <2>6. QED
    BY <2>4, <2>5
<1>8. ASSUME NEW d \in Devices, Fold(d) PROVE Held(e)'
  <2>1. PICK got \in Captured(d) :
            /\ run.pc = "walk" /\ d \in run.todo
            /\ run'.got = got /\ run'.outcome = run.outcome
    BY <1>8, Handling
  <2>2. run.outcome[d] = "none"
    BY <2>1 DEF ReportGrows, Walking, Storing
  <2>3. e # d /\ Stored(e)
    BY <2>1, <2>2 DEF Stored
  <2>4. UNCHANGED <<refs, index>>
    BY <1>8 DEF Fold
  <2>5. QED
    BY <1>k, <2>1, <2>3, <2>4, CapturedOthers
<1>o. \* An outcome is the device's, whose text export is at hand.
      ASSUME NEW outcome, NEW commits, Stores(outcome, commits)
      PROVE  /\ run'.got = run.got
             /\ \/ run'.outcome[e] = run.outcome[e]
                \/ run.cur = Text(e) /\ run'.outcome[e] = outcome
  <2>1. \A p \in Paths : p[2] = "rsc" => p = Text(p[1])
    BY DEF Paths, Text, Binary
  <2>2. run.outcome = [f \in Devices |-> run.outcome[f]]
    BY DEF TypeOK, RunStates
  <2>3. QED
    BY <1>o, <2>1, <2>2 DEF Stores, Onwards
<1>9. CASE Unchanged
  <2>1. Stores("unchanged", run.commits) /\ UNCHANGED <<refs, index, head>>
    BY <1>9, Storage DEF Unchanged
  <2>2. CASE run'.outcome[e] = run.outcome[e]
    BY <1>k, <1>o, <2>1, <2>2 DEF Stored
  <2>3. CASE run.cur = Text(e)
    <3>1. /\ index[Text(e)] = run.got[Text(e)] /\ HeadTree[Text(e)] = run.got[Text(e)]
          /\ run.got[Text(e)] # Absent
      BY <1>9, <2>3 DEF Unchanged, Changed, Clean, FileHeld, Storing
    <3>2. head \in Branches /\ Tip(refs'[head])[Text(e)] = run'.got[Text(e)]
      BY <1>o, <2>1, <3>1 DEF HeadTree, TypeOK
    <3>3. QED
      BY <1>o, <2>1, <3>1, <3>2 DEF Held
  <2>4. QED
    BY <1>o, <2>1, <2>2, <2>3
<1>10. CASE Commit
  <2>1. Stores("committed", run.commits + 1) /\ UNCHANGED <<index, head>>
    BY <1>10, Storage DEF Commit
  <2>2. run'.got = run.got /\ (Stored(e) \/ run.cur = Text(e))
    BY <1>o, <2>1 DEF Stored
  <2>3. index[Text(e)] = run.got[Text(e)] /\ run.got[Text(e)] # Absent
    BY <1>10, <2>2 DEF Commit, FileHeld, Held, Storing
  <2>4. Tip(refs'[head]) = index
    <3> DEFINE commit == [path |-> run.cur, tree |-> index, by |-> "self"]
    <3>1. commit \in Commits /\ commit.tree = index
      BY <1>10 DEF Commit, TypeOK, Commits, Storing
    <3>2. head \in Branches /\ refs' = [refs EXCEPT ![head] = Append(refs[head], commit)]
      BY <1>10 DEF Commit, TypeOK
    <3> HIDE DEF commit
    <3>3. refs'[head] = Append(refs[head], commit)
      BY <1>p, <3>2
    <3>4. refs'[head] # <<>> /\ Last(refs'[head]) = commit
      BY <1>p, <3>1, <3>2, <3>3 DEF Last
    <3>5. QED
      BY <3>1, <3>4 DEF Tip
  <2>5. QED
    BY <2>1, <2>2, <2>3, <2>4 DEF Held, TypeOK
<1>11. CASE StoreFails
  <2>1. UNCHANGED <<refs, index, run.outcome, run.got>>
    BY <1>11, Storage DEF StoreFails, Ends, Onwards, Report
  <2>2. QED
    BY <1>k, <2>1 DEF Stored
<1>12. CASE OpenForReading
  <2>1. index' = index /\ \A b \in Branches : refs'[b] = refs[b] \/ refs[b] = <<>>
    BY <1>12, <1>p DEF OpenForReading, EnsureBranch
  <2>2. QED
    BY <1>12, <1>k, <2>1, Around DEF Report, Stored
<1>13. CASE ForeignPush \/ DeviceChanges \/ Configure \/ UNCHANGED vars
  BY <1>13, <1>k, Around DEF Stored
<1>14. QED
  BY <1>1, <1>2, <1>3, <1>4, <1>5, <1>6, <1>7, <1>8, <1>9, <1>10, <1>11, <1>12, <1>13 DEF Next

-----------------------------------------------------------------------------
(* What was committed is pushed *)

LEMMA CommittedStep ==
    /\ TypeOK /\ NothingTornStaged /\ ReportGrows /\ OnBranch /\ FileHeld /\ CommittedHere
    /\ [Next]_vars
    => CommittedHere'
<1> DEFINE Here(e) == \E i \in DOMAIN refs[BranchOf(run.conf)] :
                          refs[BranchOf(run.conf)][i].tree[Text(e)] = run.got[Text(e)]
<1> SUFFICES ASSUME TypeOK, NothingTornStaged, ReportGrows, OnBranch, FileHeld, CommittedHere,
                    [Next]_vars,
                    ~run'.moved, run'.pc \in Walking, NEW e \in Devices,
                    run'.outcome[e] = "committed"
             PROVE  Here(e)'
  BY DEF CommittedHere
<1> USE DEF repo, Plan
<1>o. run.outcome = [f \in Devices |-> run.outcome[f]]
  BY DEF TypeOK, RunStates
<1>h. ~run.moved /\ run.pc \in Walking /\ run.outcome[e] = "committed" => Here(e)
  BY DEF CommittedHere
<1> HIDE DEF Here
<1>k. ASSUME refs' = refs, UNCHANGED Plan, run.pc \in Walking,
             run'.outcome[e] = run.outcome[e], run'.got[Text(e)] = run.got[Text(e)]
      PROVE  Here(e)'
  <2>1. Here(e)
    BY <1>h, <1>k
  <2>2. BranchOf(run'.conf) = BranchOf(run.conf)
    BY <1>k
  <2>3. QED
    BY <1>k, <2>1, <2>2 DEF Here
<1>1. CASE StartRun \/ EndRun \/ Killed
  BY <1>1, Beginning DEF Fresh, Walking, Storing
<1>2. CASE OpenOrInit \/ FetchFails \/ SyncKeeps \/ FastForward \/ Checkout
  <2>1. run.outcome[e] = "none"
    BY <1>2 DEF OpenOrInit, FetchFails, SyncKeeps, FastForward, Checkout, ReportGrows
  <2>2. run'.outcome = run.outcome
    BY <1>2, Proceeding DEF Proceeds, Report
  <2>3. QED
    BY <2>1, <2>2
<1>3. CASE SyncRefuses \/ PushSkipped \/ PushAccepted \/ PushFails
  BY <1>3, Ending DEF Ends, Walking, Storing
<1>4. CASE Write \/ Stage
  <2>1. refs' = refs /\ run.pc \in Walking
    BY <1>4 DEF Write, Stage, Walking, Storing
  <2>2. UNCHANGED <<Plan, Report>>
    BY <1>4, Proceeding DEF Proceeds
  <2>3. QED
    BY <1>k, <2>1, <2>2 DEF Report
<1>5. ASSUME NEW d \in Devices, CaptureFails(d) \/ Compare(d) PROVE Here(e)'
  <2>1. PICK outcome \in {"failed", "would change", "unchanged"}, got \in Captured(d) \cup {run.got} :
            Handles(d, outcome, got)
    BY <1>5, Handling
  <2>2. e # d /\ run'.outcome[e] = run.outcome[e]
    BY <1>o, <2>1 DEF Handles
  <2>3. got[Text(e)] = run.got[Text(e)]
    BY <2>2, CapturedOthers
  <2>4. refs' = refs
    BY <1>5 DEF CaptureFails, Compare
  <2>5. QED
    BY <1>k, <2>1, <2>2, <2>3, <2>4 DEF Handles, Walking
<1>6. ASSUME NEW d \in Devices, Fold(d) PROVE Here(e)'
  <2>1. PICK got \in Captured(d) :
            /\ run.pc = "walk" /\ d \in run.todo
            /\ run'.got = got /\ run'.outcome = run.outcome /\ UNCHANGED Plan
    BY <1>6, Handling
  <2>2. e # d
    BY <2>1 DEF ReportGrows, Walking, Storing
  <2>3. refs' = refs
    BY <1>6 DEF Fold
  <2>4. QED
    BY <1>k, <2>1, <2>2, <2>3, CapturedOthers DEF Walking
<1>7. CASE Unchanged
  <2>1. Stores("unchanged", run.commits) /\ refs' = refs /\ run.pc \in Walking
    BY <1>7, Storage DEF Unchanged, Walking, Storing
  <2>2. run'.outcome[e] = run.outcome[e]
    BY <1>o, <2>1 DEF Stores
  <2>3. QED
    BY <1>k, <2>1, <2>2 DEF Stores, Onwards
<1>8. CASE Commit
  <2>1. Stores("committed", run.commits + 1) /\ run.pc \in Walking /\ ~run.moved
    BY <1>8, Storage DEF Commit, Walking, Storing, Stores, Onwards
  <2>2. run'.got = run.got /\ BranchOf(run'.conf) = BranchOf(run.conf) /\ head = BranchOf(run.conf)
    BY <2>1 DEF Stores, Onwards, OnBranch
  <2> DEFINE s == refs[head]
             commit == [path |-> run.cur, tree |-> index, by |-> "self"]
  <2>3. /\ s \in Seq(Commits) /\ Len(s) \in Nat /\ DOMAIN s = 1..Len(s)
        /\ commit \in Commits /\ commit.tree = index
        /\ refs' = [refs EXCEPT ![head] = Append(s, commit)]
        /\ head \in Branches /\ DOMAIN refs = Branches
    <3>1. s \in Seq(Commits) /\ DOMAIN refs = Branches /\ head \in Branches
      BY DEF TypeOK
    <3>2. commit \in Commits
      BY <1>8 DEF Commit, TypeOK, Commits, Storing
    <3>3. QED
      BY <1>8, <3>1, <3>2 DEF Commit
  <2> HIDE DEF s, commit
  <2>4. refs'[head] = Append(s, commit)
    BY <2>3
  <2>5. CASE run'.outcome[e] = run.outcome[e]
    <3>1. PICK i \in DOMAIN s : s[i].tree[Text(e)] = run.got[Text(e)]
      BY <1>h, <2>1, <2>2, <2>5 DEF Here, s
    <3>2. i \in DOMAIN Append(s, commit) /\ Append(s, commit)[i] = s[i]
      BY <2>3
    <3>3. QED
      BY <2>2, <2>4, <3>1, <3>2 DEF Here
  <2>6. CASE run.cur = Text(e)
    <3>1. index[Text(e)] = run.got[Text(e)]
      BY <1>8, <2>6 DEF Commit, FileHeld
    <3>2. PICK i \in Nat : i = Len(s) + 1
      BY <2>3
    <3>3. i \in DOMAIN Append(s, commit) /\ Append(s, commit)[i] = commit
      BY <2>3, <3>2
    <3>4. QED
      BY <2>2, <2>3, <2>4, <3>1, <3>3 DEF Here
  <2>7. run'.outcome[e] = run.outcome[e] \/ run.cur = Text(e)
    <3>1. \A p \in Paths : p[2] = "rsc" => p = Text(p[1])
      BY DEF Paths, Text, Binary
    <3>2. QED
      BY <1>o, <2>1, <3>1 DEF Stores
  <2>8. QED
    BY <2>5, <2>6, <2>7
<1>9. CASE StoreFails
  <2>1. refs' = refs /\ run.pc \in Walking
    BY <1>9 DEF StoreFails, Walking
  <2>2. UNCHANGED <<Plan, run.outcome, run.got>>
    BY <1>9, Storage DEF Ends, Onwards, Report
  <2>3. QED
    BY <1>k, <2>1, <2>2
<1>10. CASE OpenForReading
  BY <1>10, Around DEF Walking, Storing
<1>11. CASE ForeignPush \/ DeviceChanges \/ Configure \/ UNCHANGED vars
  BY <1>11, <1>k, Around
<1>12. QED
  BY <1>1, <1>2, <1>3, <1>4, <1>5, <1>6, <1>7, <1>8, <1>9, <1>10, <1>11 DEF Next

\* A commit is added behind those there are.
LEMMA Appended ==
    ASSUME NEW s \in Seq(Commits), NEW c \in Commits
    PROVE  /\ Len(s) \in Nat /\ DOMAIN s = 1..Len(s)
           /\ DOMAIN Append(s, c) = 1..(Len(s) + 1) /\ Len(Append(s, c)) = Len(s) + 1
           /\ Append(s, c)[Len(s) + 1] = c
           /\ \A i \in DOMAIN s : i \in DOMAIN Append(s, c) /\ Append(s, c)[i] = s[i]
OBVIOUS

\* Another machine adds to a branch of the remote.
LEMMA Pushed ==
    ASSUME TypeOK, ForeignPush
    PROVE  \A b \in Branches :
               /\ Len(remote[b]) <= Len(remote'[b])
               /\ \A i \in DOMAIN remote[b] : i \in DOMAIN remote'[b] /\ remote'[b][i] = remote[b][i]
<1>1. PICK b \in Branches, p \in Paths, c \in Contents :
          remote' = [remote EXCEPT ![b] = Append(@,
            [path |-> p, tree |-> [Tip(remote[b]) EXCEPT ![p] = c], by |-> "other"])]
  BY DEF ForeignPush
<1> DEFINE commit == [path |-> p, tree |-> [Tip(remote[b]) EXCEPT ![p] = c], by |-> "other"]
<1>2. commit \in Commits
  BY TipIsTree DEF TypeOK, Tree, Files, Commits
<1>3. remote' = [remote EXCEPT ![b] = Append(remote[b], commit)] /\ DOMAIN remote = Branches
  BY <1>1 DEF TypeOK
<1> HIDE DEF commit
<1>4. \A e \in Branches : remote[e] \in Seq(Commits) /\ remote'[e] = IF e = b THEN Append(remote[b], commit) ELSE remote[e]
  BY <1>3 DEF TypeOK
<1>5. \A s \in Seq(Commits) :
          /\ Len(s) <= Len(Append(s, commit)) /\ Len(s) <= Len(s)
          /\ \A i \in DOMAIN s : i \in DOMAIN Append(s, commit) /\ Append(s, commit)[i] = s[i]
  <2>1. \A n \in Nat : n <= n /\ n <= n + 1
    OBVIOUS
  <2>2. QED
    BY <1>2, <2>1, Appended
<1>6. SUFFICES ASSUME NEW e \in Branches
               PROVE  /\ Len(remote[e]) <= Len(remote'[e])
                      /\ \A i \in DOMAIN remote[e] :
                             i \in DOMAIN remote'[e] /\ remote'[e][i] = remote[e][i]
  OBVIOUS
<1>7. CASE e = b
  <2>1. remote[b] \in Seq(Commits) /\ remote'[b] = Append(remote[b], commit)
    BY <1>4
  <2>2. QED
    BY <1>5, <1>7, <2>1
<1>8. CASE e # b
  <2>1. remote[e] \in Seq(Commits) /\ remote'[e] = remote[e]
    BY <1>4, <1>8
  <2>2. QED
    BY <1>5, <2>1
<1>9. QED
  BY <1>7, <1>8

LEMMA PushedStep ==
    /\ TypeOK /\ ReportGrows /\ CommittedHere /\ PushedIsOnRemote /\ [Next]_vars
    => PushedIsOnRemote'
<1> SUFFICES ASSUME TypeOK, ReportGrows, CommittedHere, PushedIsOnRemote, [Next]_vars,
                    ~run'.moved, run'.push = "pushed", NEW d \in Devices,
                    run'.outcome[d] = "committed"
             PROVE  \E i \in DOMAIN remote'[run'.conf] :
                        remote'[run'.conf][i].tree[Text(d)] = run'.got[Text(d)]
  BY DEF PushedIsOnRemote
<1> USE DEF repo, world, Plan, Report
<1>p. /\ run.pc # "done" => run.push = "none"
      /\ run.push = "pushed" => run.conf \in Branches
  BY DEF ReportGrows, TypeOK, RunStates
<1>k. ASSUME UNCHANGED run,
             run.conf \in Branches =>
                 \A i \in DOMAIN remote[run.conf] :
                     i \in DOMAIN remote'[run.conf] /\ remote'[run.conf][i] = remote[run.conf][i]
      PROVE  \E i \in DOMAIN remote'[run'.conf] :
                 remote'[run'.conf][i].tree[Text(d)] = run'.got[Text(d)]
  <2>1. PICK i \in DOMAIN remote[run.conf] :
            remote[run.conf][i].tree[Text(d)] = run.got[Text(d)]
    BY <1>k DEF PushedIsOnRemote
  <2>2. QED
    BY <1>k, <1>p, <2>1
<1>1. CASE StartRun \/ EndRun \/ Killed
  BY <1>1, Beginning DEF Fresh
<1>2. CASE OpenOrInit \/ FetchFails \/ SyncKeeps \/ FastForward \/ Checkout \/ Write \/ Stage
  <2>1. run.pc # "done"
    BY <1>2 DEF OpenOrInit, FetchFails, SyncKeeps, FastForward, Checkout, Write, Stage
  <2>2. QED
    BY <1>2, <1>p, <2>1, Proceeding DEF Proceeds
<1>3. CASE SyncRefuses \/ PushSkipped \/ PushFails
  BY <1>3, Ending DEF Ends
<1>4. CASE PushAccepted
  <2>1. run.pc = "walk" /\ run.conf \in Branches /\ BranchOf(run.conf) = run.conf
    BY <1>4 DEF PushAccepted, Pushing, BranchOf, TypeOK, RunStates
  <2>2. remote'[run.conf] = refs[run.conf]
    BY <1>4, <2>1 DEF PushAccepted, TypeOK
  <2>3. UNCHANGED <<Plan, Report>>
    BY <1>4, Ending DEF Ends
  <2>4. QED
    BY <2>1, <2>2, <2>3 DEF CommittedHere, Walking
<1>5. ASSUME NEW e \in Devices, CaptureFails(e) \/ Compare(e) \/ Fold(e) PROVE run'.push = "none"
  <2>1. run.pc = "walk"
    BY <1>5 DEF CaptureFails, Compare, Fold
  <2>2. QED
    BY <1>5, <1>p, <2>1, Handling DEF Handles
<1>6. CASE Unchanged \/ Commit \/ StoreFails
  <2>1. run.pc # "done"
    BY <1>6 DEF Unchanged, Commit, StoreFails, Storing
  <2>2. QED
    BY <1>6, <1>p, <2>1, Storage DEF Stores, Onwards, Ends
<1>7. CASE OpenForReading
  BY <1>7, <1>p, Around
<1>8. CASE ForeignPush
  BY <1>8, <1>k, Around, Pushed
<1>9. CASE DeviceChanges \/ Configure \/ UNCHANGED vars
  <2>1. remote' = remote
    BY <1>9 DEF DeviceChanges, Configure, vars
  <2>2. QED
    BY <1>9, <1>k, <2>1, Around
<1>10. QED
  BY <1>1, <1>2, <1>3, <1>4, <1>5, <1>6, <1>7, <1>8, <1>9 DEF Next

\* Of a branch's commits, those that come after a number of them are binary backups.
BinariesAfter(s, n) == \A i \in DOMAIN s : i > n => s[i].path[2] = "backup"

LEMMA AfterAll == \A s \in Seq(Commits) : Len(s) \in Nat /\ BinariesAfter(s, Len(s))
<1> SUFFICES ASSUME NEW s \in Seq(Commits) PROVE Len(s) \in Nat /\ BinariesAfter(s, Len(s))
  OBVIOUS
<1>1. Len(s) \in Nat /\ DOMAIN s = 1..Len(s)
  OBVIOUS
<1>2. \A i \in 1..Len(s) : ~(i > Len(s))
  BY <1>1
<1>3. QED
  BY <1>1, <1>2 DEF BinariesAfter

LEMMA AfterMore ==
    ASSUME NEW s \in Seq(Commits), NEW n \in Nat, NEW m \in Nat, n <= m, BinariesAfter(s, n)
    PROVE  BinariesAfter(s, m)
<1>1. \A i \in DOMAIN s : i \in Nat
  OBVIOUS
<1>2. \A i \in Nat : i > m => i > n
  OBVIOUS
<1>3. QED
  BY <1>1, <1>2 DEF BinariesAfter

LEMMA AfterAppend ==
    ASSUME NEW s \in Seq(Commits), NEW n \in Nat, NEW c \in Commits, c.path[2] = "backup",
           BinariesAfter(s, n)
    PROVE  BinariesAfter(Append(s, c), n)
<1>1. \A i \in DOMAIN Append(s, c) : i = Len(s) + 1 \/ i \in DOMAIN s
  <2>1. \A k \in Nat : \A j \in 1..(k + 1) : j = k + 1 \/ j \in 1..k
    OBVIOUS
  <2>2. QED
    BY <2>1, Appended
<1>2. QED
  BY <1>1, Appended DEF BinariesAfter

\* A file is an export, which counts, or a binary backup, which does not.
LEMMA FileKinds ==
    (\A p \in Paths : p[2] \in {"rsc", "backup"}) /\ \A n \in Nat : n + 1 # 0
BY DEF Paths, Text, Binary

\* What a run that was level with the remote adds, exports apart, is binary backups.
LEMMA LeftStep ==
    TypeOK /\ ReportGrows /\ OnBranch /\ LeftBehind /\ [Next]_vars => LeftBehind'
<1> DEFINE Level == run.pc = "checkout" \/ run.sync \in {"up to date", "fast forwarded"}
           Left == BinariesAfter(refs[run.conf], Len(remote[run.conf]))
<1> SUFFICES ASSUME TypeOK, ReportGrows, OnBranch, LeftBehind, [Next]_vars,
                    ~run'.moved, run'.commits = 0, Level'
             PROVE  Left'
  BY DEF LeftBehind, BinariesAfter
<1> USE DEF repo, world, Plan, Report
<1>b. Level => run.conf \in Branches /\ BranchOf(run.conf) = run.conf
  BY DEF ReportGrows, TypeOK, RunStates, BranchOf
<1>t. /\ refs \in [Branches -> Seq(Commits)] /\ remote \in [Branches -> Seq(Commits)]
      /\ refs' \in [Branches -> Seq(Commits)] /\ remote' \in [Branches -> Seq(Commits)]
  BY TypeStep DEF TypeOK
<1>l. \A b \in Branches : Len(remote[b]) \in Nat /\ Len(remote'[b]) \in Nat
  BY <1>t, AfterAll
<1>h. Level /\ ~run.moved /\ run.commits = 0 => Left
  BY DEF LeftBehind, BinariesAfter
<1>k. \* The branch is as it was, and the remote has no less than it had.
      ASSUME Level, run'.conf = run.conf, ~run.moved, run.commits = 0,
             refs'[run.conf] = refs[run.conf],
             Len(remote[run.conf]) <= Len(remote'[run.conf])
      PROVE  Left'
  <2>1. Left /\ refs[run.conf] \in Seq(Commits)
    BY <1>b, <1>h, <1>k, <1>t
  <2>2. BinariesAfter(refs[run.conf], Len(remote'[run.conf]))
    BY <1>b, <1>k, <1>l, <2>1, AfterMore
  <2>3. QED
    BY <1>k, <2>2
<1>u. \* Nor has either changed.
      ASSUME Level, run'.conf = run.conf, ~run.moved, run.commits = 0,
             refs' = refs, remote' = remote
      PROVE  Left'
  BY <1>h, <1>u
<1>1. CASE StartRun \/ EndRun \/ Killed
  BY <1>1, Beginning DEF Fresh
<1>2. CASE OpenOrInit \/ FetchFails
  <2>1. run'.pc # "checkout" /\ run'.sync \in {"none", "unavailable"}
    BY <1>2, Proceeding DEF OpenOrInit, FetchFails, Proceeds, ReportGrows
  <2>2. QED
    BY <2>1
<1>s. ASSUME run.pc = "sync", ~run.moved, run'.conf = run.conf
      PROVE  run.conf \in Branches /\ head = run.conf /\ BranchOf(run.conf) = run.conf
  BY <1>s DEF ReportGrows, TypeOK, RunStates, BranchOf, OnBranch
<1>e. ASSUME run'.conf \in Branches, refs'[run'.conf] = remote'[run'.conf] PROVE Left'
  BY <1>e, <1>t, AfterAll
<1>3. CASE SyncKeeps
  <2>1. PICK sync \in {"remote branch missing", "up to date", "local ahead"} :
            /\ Proceeds("walk", sync)
            /\ sync = "up to date" => refs[head] = remote[BranchOf(run.conf)]
    BY <1>3, Proceeding
  <2>2. sync = "up to date" /\ run.pc = "sync" /\ ~run.moved /\ run'.conf = run.conf
    BY <1>3, <2>1 DEF SyncKeeps, Proceeds
  <2>3. refs' = refs /\ remote' = remote
    BY <1>3 DEF SyncKeeps
  <2>4. QED
    BY <1>e, <1>s, <2>1, <2>2, <2>3
<1>4. CASE FastForward
  <2>1. run.pc = "sync" /\ ~run.moved /\ run'.conf = run.conf
    BY <1>4, Proceeding DEF FastForward, Proceeds
  <2>2. refs'[run.conf] = remote'[run.conf]
    BY <1>4, <1>s, <1>t, <2>1 DEF FastForward
  <2>3. QED
    BY <1>e, <1>s, <2>1, <2>2
<1>5. CASE Checkout
  <2>1. UNCHANGED <<refs, remote, Plan, Report>> /\ run.pc = "checkout"
    BY <1>5, Proceeding DEF Checkout, Proceeds
  <2>2. QED
    BY <1>u, <2>1
<1>6. CASE Write \/ Stage
  <2>1. UNCHANGED <<refs, remote, Plan, Report>> /\ Level
    BY <1>6, Proceeding DEF Write, Stage, Proceeds
  <2>2. QED
    BY <1>u, <2>1
<1>7. CASE SyncRefuses \/ PushSkipped \/ PushFails
  <2>1. UNCHANGED <<refs, remote, Plan, Report>> /\ Level
    BY <1>7, Ending DEF SyncRefuses, PushSkipped, PushFails, Ends
  <2>2. QED
    BY <1>u, <2>1
<1>8. CASE PushAccepted
  <2>1. Level /\ run'.conf = run.conf
    BY <1>8, Ending DEF Ends
  <2>2. refs'[run.conf] = remote'[run.conf]
    BY <1>8, <1>b, <1>t, <2>1 DEF PushAccepted
  <2>3. QED
    BY <1>b, <1>e, <2>1, <2>2
<1>9. ASSUME NEW d \in Devices, CaptureFails(d) \/ Compare(d) \/ Fold(d)
      PROVE  Left'
  <2>1. UNCHANGED <<refs, remote>>
    BY <1>9 DEF CaptureFails, Compare, Fold
  <2>2. UNCHANGED <<Plan, run.commits>> /\ Level
    BY <1>9, Handling DEF Handles
  <2>3. QED
    BY <1>u, <2>1, <2>2
<1>10. CASE Unchanged \/ StoreFails
  <2>1. UNCHANGED <<refs, remote>>
    BY <1>10 DEF Unchanged, StoreFails
  <2>2. UNCHANGED <<Plan, run.commits>> /\ Level
    BY <1>10, Storage DEF Stores, Onwards, Ends
  <2>3. QED
    BY <1>u, <2>1, <2>2
<1>11. CASE Commit
  <2>1. Stores("committed", run.commits + 1)
    BY <1>11, Storage
  <2>2. Level /\ UNCHANGED Plan /\ run.pc = "commit" /\ remote' = remote
    BY <1>11, <2>1 DEF Stores, Onwards, Commit
  <2>3. run.cur[2] = "backup" /\ run.commits = 0
    <3>1. run.cur \in Paths /\ run.commits \in Nat
      BY <2>1 DEF Stores, TypeOK, RunStates
    <3>2. run.cur[2] \in {"rsc", "backup"}
      BY <3>1, FileKinds
    <3>3. run.commits + 1 # 0
      BY <3>1, FileKinds
    <3>4. QED
      BY <2>1, <3>2, <3>3 DEF Stores
  <2>4. run.conf \in Branches /\ head = run.conf
    BY <1>b, <2>2 DEF OnBranch, Walking, Storing
  <2> DEFINE s == refs[run.conf]
             commit == [path |-> run.cur, tree |-> index, by |-> "self"]
  <2>5. s \in Seq(Commits) /\ commit \in Commits /\ commit.path = run.cur
    BY <1>11, <1>t, <2>4 DEF Commit, TypeOK, Commits, Storing
  <2>6. refs'[run.conf] = Append(s, commit)
    BY <1>11, <1>t, <2>4 DEF Commit
  <2>7. BinariesAfter(s, Len(remote[run.conf]))
    BY <1>h, <2>2, <2>3
  <2> HIDE DEF commit, s
  <2>8. BinariesAfter(Append(s, commit), Len(remote[run.conf]))
    BY <1>l, <2>3, <2>4, <2>5, <2>7, AfterAppend
  <2>9. QED
    BY <2>2, <2>6, <2>8
<1>12. CASE OpenForReading
  <2>1. run.pc = "idle" /\ run'.pc = run.pc /\ run'.sync = run.sync
    BY <1>12, Around
  <2>2. QED
    BY <2>1 DEF ReportGrows
<1>13. CASE ForeignPush
  BY <1>13, <1>b, <1>k, Around, Pushed
<1>14. CASE DeviceChanges \/ Configure \/ UNCHANGED vars
  <2>1. UNCHANGED <<refs, remote, run>>
    BY <1>14 DEF DeviceChanges, Configure, vars
  <2>2. QED
    BY <1>u, <2>1
<1>15. QED
  BY <1>1, <1>2, <1>3, <1>4, <1>5, <1>6, <1>7, <1>8, <1>9, <1>10, <1>11, <1>12, <1>13,
     <1>14 DEF Next

-----------------------------------------------------------------------------
(* The inductive invariant *)

LEMMA InvInit == Init => IInv
<1> SUFFICES ASSUME Init PROVE IInv
  OBVIOUS
<1>1. TypeOK
  BY TypeInit
<1>2. Whole(Empty) /\ WholeHistory(<<>>)
  BY BackupRepoAssumption DEF Whole, WholeHistory, Empty, Files
<1>3. NothingTornStaged
  BY <1>2 DEF Init, Idle, NothingTornStaged
<1>4. /\ run.pc = "idle" /\ run.sync = "none" /\ run.push = "none"
      /\ \A d \in Devices : run.outcome[d] = "none"
  BY DEF Init, Idle
<1>5. ReportGrows /\ OnBranch /\ FileHeld
  BY <1>4 DEF ReportGrows, OnBranch, FileHeld, Walking, Storing
<1>6. ReportedIsCommitted /\ ReportedIsStaged /\ CommittedHere
  BY <1>4 DEF ReportedIsCommitted, ReportedIsStaged, CommittedHere
<1>7. PushedIsOnRemote /\ LeftBehind
  BY <1>4 DEF PushedIsOnRemote, LeftBehind
<1>8. QED
  BY <1>1, <1>3, <1>5, <1>6, <1>7 DEF IInv

LEMMA InvStep == IInv /\ [Next]_vars => IInv'
BY TypeStep, TornStep, GrowsStep, BranchStep, FileStep, ReportedStep, CommittedStep, PushedStep,
   LeftStep DEF IInv

\* No history, here or on the remote, ever has a version that was cut short.
THEOREM NothingTorn == Spec => []NothingTornCommitted
<1>1. IInv => NothingTornCommitted
  BY DEF IInv, NothingTornStaged, NothingTornCommitted, WholeHistory, Whole
<1>2. QED
  BY <1>1, InvInit, InvStep, PTL DEF Spec

\* A device that is reported as unchanged or committed has its export at the tip of
\* a branch.
THEOREM Reported == Spec => []ReportedIsCommitted
<1>1. IInv => ReportedIsCommitted
  BY DEF IInv
<1>2. QED
  BY <1>1, InvInit, InvStep, PTL DEF Spec

\* A push that is reported has taken along every export the run committed.
THEOREM PushedAll == Spec => []PushedIsOnRemote
<1>1. IInv => PushedIsOnRemote
  BY DEF IInv
<1>2. QED
  BY <1>1, InvInit, InvStep, PTL DEF Spec

\* A run that saw the remote and says there is nothing to push leaves binary backups
\* behind and nothing else.
THEOREM LeftBinaries == Spec => []OnlyBinariesLeftBehind
<1>1. IInv => OnlyBinariesLeftBehind
  <2> SUFFICES ASSUME IInv, ~run.moved, run.push = "no new commits",
                      run.sync \notin {"unavailable", "remote branch missing"}
               PROVE  \A i \in DOMAIN refs[run.conf] :
                          i > Len(remote[run.conf]) => refs[run.conf][i].path[2] = "backup"
    BY DEF OnlyBinariesLeftBehind
  <2>1. run.commits = 0 /\ run.sync \notin {"none", "local ahead"}
    BY DEF IInv, ReportGrows
  <2>2. run.sync \in {"up to date", "fast forwarded"}
    BY <2>1 DEF IInv, TypeOK, RunStates
  <2>3. QED
    BY <2>1, <2>2 DEF IInv, LeftBehind
<1>2. QED
  BY <1>1, InvInit, InvStep, PTL DEF Spec

(* Branches only grow *)

\* What a step may do to the branches, here and on the remote.
BranchesGrow ==
    \A b \in Branches :
        /\ run.moved \/ IsPrefix(refs[b], refs'[b])
        /\ IsPrefix(remote[b], remote'[b])

LEMMA GrowStep == IInv /\ [Next]_vars => BranchesGrow
<1> SUFFICES ASSUME IInv, [Next]_vars PROVE BranchesGrow
  OBVIOUS
<1> USE DEF repo, world
<1>t. TypeOK /\ OnBranch /\ run \in RunStates
  BY DEF IInv, TypeOK
<1>p. \A b \in Branches :
        IsPrefix(refs[b], refs[b]) /\ IsPrefix(remote[b], remote[b])
  BY <1>t, PrefixSelf DEF TypeOK
<1>k. UNCHANGED <<refs, remote>> => BranchesGrow
  BY <1>p DEF BranchesGrow
<1>e. ASSUME NEW b \in Branches, EnsureBranch(b), remote' = remote PROVE BranchesGrow
  <2>1. refs[head] \in Seq(Commits) /\ IsPrefix(<<>>, refs[head])
    BY <1>t, PrefixOfEmpty DEF TypeOK
  <2>2. QED
    BY <1>t, <1>p, <1>e, <2>1 DEF EnsureBranch, TypeOK, BranchesGrow
<1>b. BranchOf(run.conf) \in Branches
  BY <1>t, BackupRepoAssumption DEF BranchOf, RunStates
<1>1. CASE OpenOrInit
  BY <1>1, <1>b, <1>e DEF OpenOrInit
<1>2. CASE OpenForReading
  BY <1>2, <1>e, BackupRepoAssumption DEF OpenForReading
<1>3. CASE FastForward
  <2>1. run.moved \/ head = BranchOf(run.conf)
    BY <1>3, <1>t DEF FastForward, OnBranch
  <2>2. IsPrefix(refs[head], remote[BranchOf(run.conf)])
    BY <1>3 DEF FastForward, IsStrictPrefix
  <2>3. QED
    BY <1>3, <1>t, <1>b, <1>p, <2>1, <2>2 DEF FastForward, TypeOK, BranchesGrow
<1>4. CASE Commit
  <2> DEFINE commit == [path |-> run.cur, tree |-> index, by |-> "self"]
  <2>1. commit \in Commits
    BY <1>4, <1>t DEF Commit, TypeOK, Commits, Storing
  <2>2. refs' = [refs EXCEPT ![head] = Append(refs[head], commit)] /\ remote' = remote
    BY <1>4, <1>t DEF Commit, TypeOK
  <2> HIDE DEF commit
  <2>3. IsPrefix(refs[head], Append(refs[head], commit))
    BY <1>t, <2>1, PrefixAppend DEF TypeOK
  <2>4. QED
    BY <1>t, <1>p, <2>2, <2>3 DEF TypeOK, BranchesGrow
<1>5. CASE PushAccepted
  BY <1>5, <1>t, <1>p, <1>b DEF PushAccepted, TypeOK, BranchesGrow
<1>6. CASE ForeignPush
  <2>1. PICK b \in Branches, p \in Paths, c \in Contents :
          remote' = [remote EXCEPT ![b] = Append(@,
            [path |-> p, tree |-> [Tip(remote[b]) EXCEPT ![p] = c], by |-> "other"])]
    BY <1>6 DEF ForeignPush
  <2> DEFINE commit ==
        [path |-> p, tree |-> [Tip(remote[b]) EXCEPT ![p] = c], by |-> "other"]
  <2>2. commit \in Commits
    BY <1>t, TipIsTree DEF TypeOK, Tree, Files, Commits
  <2>3. remote' = [remote EXCEPT ![b] = Append(remote[b], commit)] /\ refs' = refs
    BY <1>6, <1>t, <2>1 DEF ForeignPush, TypeOK
  <2> HIDE DEF commit
  <2>4. IsPrefix(remote[b], Append(remote[b], commit))
    BY <1>t, <2>2, PrefixAppend DEF TypeOK
  <2>5. QED
    BY <1>t, <1>p, <2>3, <2>4 DEF TypeOK, BranchesGrow
<1>7. StartRun \/ FetchFails \/ SyncKeeps \/ Checkout \/ SyncRefuses => UNCHANGED <<refs, remote>>
  BY DEF StartRun, FetchFails, SyncKeeps, Checkout, SyncRefuses
<1>8. \A d \in Devices : CaptureFails(d) \/ Compare(d) \/ Fold(d) => UNCHANGED <<refs, remote>>
  BY DEF CaptureFails, Compare, Fold
<1>9. Unchanged \/ Write \/ Stage \/ StoreFails => UNCHANGED <<refs, remote>>
  BY DEF Unchanged, Write, Stage, StoreFails
<1>10. PushSkipped \/ PushFails \/ EndRun \/ Killed => UNCHANGED <<refs, remote>>
  BY DEF PushSkipped, PushFails, EndRun, Killed
<1>11. DeviceChanges \/ Configure \/ UNCHANGED vars => UNCHANGED <<refs, remote>>
  BY DEF DeviceChanges, Configure, vars
<1>12. QED
  BY <1>k, <1>1, <1>2, <1>3, <1>4, <1>5, <1>6, <1>7, <1>8, <1>9, <1>10, <1>11 DEF Next

\* No run, push or kill drops a commit from a branch, unless a page moved HEAD
\* under the run; and nothing drops one from a branch of the remote.
THEOREM History == Spec => HistoryKept
<1>1. IInv /\ [Next]_vars => [BranchesGrow]_vars
  BY GrowStep
<1>2. QED
  BY <1>1, InvInit, InvStep, PTL DEF Spec, HistoryKept, BranchesGrow
=============================================================================
