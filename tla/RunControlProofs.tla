-------------------------- MODULE RunControlProofs --------------------------
(***************************************************************************)
(* What RunControl guarantees for any number of requests, schedulers and   *)
(* command-line runs, any supply of run ids and any number of faults.      *)
(***************************************************************************)
EXTENDS RunControl, TLAPS

\* The kinds of actor, and what the constants are assumed to be.
LEMMA WhoIsWho ==
    /\ Web \subseteq Actors /\ Clis \subseteq Actors
    /\ Handlers \subseteq Web /\ Tickers \subseteq Web
    /\ Handlers \subseteq Actors
    /\ \A a \in Actors : a \in Web <=> a \notin Clis
    /\ Nil \notin Runs
    /\ NoOne \notin Actors
    /\ MaxFaults \in Nat
BY RunControlAssumption DEF Actors, Web

\* Every action keeps every variable in its type.
LEMMA TypeStep == TypeOK /\ [Next]_vars => TypeOK'
<1> SUFFICES ASSUME TypeOK, [Next]_vars PROVE TypeOK'
  OBVIOUS
<1> USE WhoIsWho DEF TypeOK, Pcs, Verdicts, RowStatus, Free, Claimed
<1>1. ASSUME NEW w \in Web, Claim(w) PROVE TypeOK'
  BY <1>1 DEF Claim
<1>2. ASSUME NEW c \in Clis, CliStart(c) PROVE TypeOK'
  BY <1>2 DEF CliStart
<1>3. ASSUME NEW a \in Actors, Step(a) PROVE TypeOK'
  <2>1. CASE TakeLock(a)
    BY <2>1 DEF TakeLock
  <2>2. CASE StartDenied(a)
    BY <2>2 DEF StartDenied, ClearSlot
  <2>3. CASE OpenRow(a)
    BY <2>3 DEF OpenRow
  <2>4. CASE StartFails(a)
    BY <2>4 DEF StartFails, ClearSlot
  <2>5. CASE Begin(a)
    BY <2>5 DEF Begin
  <2>6. CASE EngineEnds(a)
    BY <2>6 DEF EngineEnds
  <2>7. CASE Record(a)
    BY <2>7 DEF Record
  <2>8. CASE RecordFails(a)
    BY <2>8 DEF RecordFails
  <2>9. CASE Finish(a)
    BY <2>9 DEF Finish
  <2>10. CASE Leave(a)
    BY <2>10 DEF Leave
  <2>11. QED
    BY <1>3, <2>1, <2>2, <2>3, <2>4, <2>5, <2>6, <2>7, <2>8, <2>9, <2>10 DEF Step
<1>4. CASE ServerNotices
  BY <1>4 DEF ServerNotices
<1>5. CASE SessionLost
  BY <1>5 DEF SessionLost, Fault
<1>6. ASSUME NEW h \in Handlers, ClientGone(h) PROVE TypeOK'
  BY <1>6 DEF ClientGone, Fault
<1>7. ASSUME NEW c \in Clis, CliKilled(c) PROVE TypeOK'
  BY <1>7 DEF CliKilled, Fault
<1>8. CASE ServeStops
  <2>1. slot' = Free /\ up' = FALSE /\ abandoned' = FALSE /\ lock' = lock /\ rows' = rows
    BY <1>8 DEF ServeStops
  <2>2. lost' \subseteq Actors /\ faults' \in 0..MaxFaults
    BY <1>8 DEF ServeStops, Fault
  <2>3. pc' \in [Actors -> Pcs] /\ run' \in [Actors -> Runs \cup {Nil}]
    BY <1>8 DEF ServeStops
  <2>4. verdict' \in [Actors -> Verdicts]
    BY <1>8 DEF ServeStops
  <2>5. QED
    BY <2>1, <2>2, <2>3, <2>4
<1>9. CASE ServeStarts
  BY <1>9 DEF ServeStarts
<1>10. CASE UNCHANGED vars
  BY <1>10 DEF vars
<1>11. QED
  BY <1>1, <1>2, <1>3, <1>4, <1>5, <1>6, <1>7, <1>8, <1>9, <1>10 DEF Next

LEMMA TypeInit == Init => TypeOK
<1> SUFFICES ASSUME Init PROVE TypeOK
  OBVIOUS
<1>1. pc \in [Actors -> Pcs] /\ run \in [Actors -> Runs \cup {Nil}]
  BY DEF Init, Pcs
<1>2. verdict \in [Actors -> Verdicts] /\ rows \in [Runs -> RowStatus]
  BY DEF Init, Verdicts, RowStatus
<1>3. /\ up = FALSE /\ abandoned = FALSE /\ slot = Free
      /\ lock = NoOne /\ lost = {} /\ faults = 0
  BY DEF Init
<1>4. slot \in [state : {"free", "busy", "done"}, id : Runs \cup {Nil}, failed : BOOLEAN]
  BY <1>3 DEF Free
<1>5. faults \in 0..MaxFaults
  BY <1>3, WhoIsWho
<1>6. QED
  BY <1>1, <1>2, <1>3, <1>4, <1>5 DEF TypeOK

\* Type correctness: every variable keeps the type TypeOK gives it, through
\* every start, run, crash and restart.
THEOREM TypeCorrect == Spec => []TypeOK
BY TypeInit, TypeStep, PTL DEF Spec

\* Every action preserves the inductive invariant.
LEMMA InvStep == IInv /\ [Next]_vars => IInv'
<1> SUFFICES ASSUME IInv, [Next]_vars PROVE IInv'
  OBVIOUS
<1> TypeOK'
  BY TypeStep DEF IInv
<1> USE WhoIsWho DEF IInv, TypeOK, Pcs, LockPcs, StartPcs, TaskPcs, RunPcs,
        Verdicts, RowStatus, Free, Claimed
<1>1. ASSUME NEW w \in Web, Claim(w) PROVE IInv'
  <2>1. LockHeld'
    BY <1>1 DEF LockHeld, Claim
  <2>2. RunIds'
    BY <1>1 DEF RunIds, Claim
  <2>3. SlotShowsRun'
    BY <1>1 DEF SlotShowsRun, SlotSettled, RunIds, Claim
  <2>4. SlotSettled'
    BY <1>1 DEF SlotSettled, SlotShowsRun, RunIds, Claim
  <2>5. RowsFollow'
    BY <1>1 DEF RowsFollow, RowOpenWhileRunning, RunIds, SlotSettled, Claim
  <2>6. LiveMatchesRow'
    BY <1>1
       DEF LiveMatchesRow, SlotShowsRun, SlotSettled, RunIds, RowsFollow, RowOpenWhileRunning, Claim
  <2>7. QED
    BY <2>1, <2>2, <2>3, <2>4, <2>5, <2>6 DEF IInv
<1>2. ASSUME NEW c \in Clis, CliStart(c) PROVE IInv'
  <2>1. LockHeld'
    BY <1>2 DEF LockHeld, CliStart
  <2>2. RunIds'
    BY <1>2 DEF RunIds, CliStart
  <2>3. SlotShowsRun'
    BY <1>2 DEF SlotShowsRun, SlotSettled, RunIds, CliStart
  <2>4. SlotSettled'
    BY <1>2 DEF SlotSettled, SlotShowsRun, RunIds, CliStart
  <2>5. RowsFollow'
    BY <1>2 DEF RowsFollow, RowOpenWhileRunning, RunIds, SlotSettled, CliStart
  <2>6. LiveMatchesRow'
    BY <1>2
       DEF LiveMatchesRow, SlotShowsRun, SlotSettled, RunIds, RowsFollow, RowOpenWhileRunning, CliStart
  <2>7. QED
    BY <2>1, <2>2, <2>3, <2>4, <2>5, <2>6 DEF IInv
<1>3. ASSUME NEW a \in Actors, TakeLock(a) PROVE IInv'
  <2>1. LockHeld'
    BY <1>3 DEF LockHeld, TakeLock
  <2>2. RunIds'
    BY <1>3 DEF RunIds, TakeLock
  <2>3. SlotShowsRun'
    BY <1>3 DEF SlotShowsRun, SlotSettled, RunIds, TakeLock
  <2>4. SlotSettled'
    BY <1>3 DEF SlotSettled, SlotShowsRun, RunIds, TakeLock
  <2>5. RowsFollow'
    BY <1>3 DEF RowsFollow, RowOpenWhileRunning, RunIds, SlotSettled, TakeLock
  <2>6. LiveMatchesRow'
    BY <1>3
       DEF LiveMatchesRow, SlotShowsRun, SlotSettled, RunIds, RowsFollow, RowOpenWhileRunning, TakeLock
  <2>7. QED
    BY <2>1, <2>2, <2>3, <2>4, <2>5, <2>6 DEF IInv
<1>4. ASSUME NEW a \in Actors, StartDenied(a) PROVE IInv'
  <2>1. LockHeld'
    BY <1>4 DEF LockHeld, StartDenied, ClearSlot
  <2>2. RunIds'
    BY <1>4 DEF RunIds, StartDenied, ClearSlot
  <2>3. SlotShowsRun'
    <3>1. CASE a \in Web
      BY <1>4, <3>1 DEF SlotShowsRun, SlotSettled, RunIds, StartDenied, ClearSlot
    <3>2. CASE a \in Clis
      <4>1. /\ UNCHANGED <<up, slot, abandoned>>
            /\ \A w \in Web : pc'[w] = pc[w] /\ run'[w] = run[w]
        BY <1>4, <3>2 DEF StartDenied, ClearSlot
      <4>2. QED
        BY <4>1 DEF SlotShowsRun, SlotSettled, RunIds
    <3>3. QED
      BY <3>1, <3>2, WhoIsWho
  <2>4. SlotSettled'
    <3>1. CASE a \in Web
      BY <1>4, <3>1 DEF SlotSettled, SlotShowsRun, RunIds, StartDenied, ClearSlot
    <3>2. CASE a \in Clis
      <4>1. /\ UNCHANGED <<up, slot, abandoned>>
            /\ \A w \in Web : pc'[w] = pc[w] /\ run'[w] = run[w]
        BY <1>4, <3>2 DEF StartDenied, ClearSlot
      <4>2. \A r \in Runs : rows'[r] = rows[r]
        BY <1>4 DEF StartDenied, ClearSlot
      <4>3. \A c \in Clis : run'[c] = run[c] \/ run'[c] = Nil
        BY <1>4 DEF StartDenied, ClearSlot
      <4>4. QED
        BY <4>1, <4>2, <4>3 DEF SlotSettled, SlotShowsRun, RunIds
    <3>3. QED
      BY <3>1, <3>2, WhoIsWho
  <2>5. RowsFollow'
    BY <1>4
       DEF RowsFollow, RowOpenWhileRunning, RunIds, SlotSettled, StartDenied, ClearSlot
  <2>6. LiveMatchesRow'
    BY <1>4
       DEF LiveMatchesRow, SlotShowsRun, SlotSettled, RunIds, RowsFollow, RowOpenWhileRunning, StartDenied, ClearSlot
  <2>7. QED
    BY <2>1, <2>2, <2>3, <2>4, <2>5, <2>6 DEF IInv
<1>5. ASSUME NEW a \in Actors, OpenRow(a) PROVE IInv'
  <2>1. LockHeld'
    BY <1>5 DEF LockHeld, OpenRow
  <2>2. RunIds'
    BY <1>5 DEF RunIds, OpenRow
  <2>3. SlotShowsRun'
    BY <1>5 DEF SlotShowsRun, SlotSettled, RunIds, OpenRow
  <2>4. SlotSettled'
    BY <1>5 DEF SlotSettled, SlotShowsRun, RunIds, OpenRow
  <2>5. RowsFollow'
    BY <1>5 DEF RowsFollow, RowOpenWhileRunning, RunIds, SlotSettled, OpenRow
  <2>6. LiveMatchesRow'
    BY <1>5
       DEF LiveMatchesRow, SlotShowsRun, SlotSettled, RunIds, RowsFollow, RowOpenWhileRunning, OpenRow
  <2>7. QED
    BY <2>1, <2>2, <2>3, <2>4, <2>5, <2>6 DEF IInv
<1>6. ASSUME NEW a \in Actors, StartFails(a) PROVE IInv'
  <2>1. LockHeld'
    BY <1>6 DEF LockHeld, StartFails, ClearSlot
  <2>2. RunIds'
    BY <1>6 DEF RunIds, StartFails, ClearSlot
  <2>3. SlotShowsRun'
    <3>1. CASE a \in Web
      BY <1>6, <3>1 DEF SlotShowsRun, SlotSettled, RunIds, StartFails, ClearSlot
    <3>2. CASE a \in Clis
      <4>1. /\ UNCHANGED <<up, slot, abandoned>>
            /\ \A w \in Web : pc'[w] = pc[w] /\ run'[w] = run[w]
        BY <1>6, <3>2 DEF StartFails, ClearSlot
      <4>2. QED
        BY <4>1 DEF SlotShowsRun, SlotSettled, RunIds
    <3>3. QED
      BY <3>1, <3>2, WhoIsWho
  <2>4. SlotSettled'
    <3>1. CASE a \in Web
      BY <1>6, <3>1 DEF SlotSettled, SlotShowsRun, RunIds, StartFails, ClearSlot
    <3>2. CASE a \in Clis
      <4>1. /\ UNCHANGED <<up, slot, abandoned>>
            /\ \A w \in Web : pc'[w] = pc[w] /\ run'[w] = run[w]
        BY <1>6, <3>2 DEF StartFails, ClearSlot
      <4>2. \A r \in Runs : rows'[r] = rows[r]
        BY <1>6 DEF StartFails, ClearSlot
      <4>3. \A c \in Clis : run'[c] = run[c] \/ run'[c] = Nil
        BY <1>6 DEF StartFails, ClearSlot
      <4>4. QED
        BY <4>1, <4>2, <4>3 DEF SlotSettled, SlotShowsRun, RunIds
    <3>3. QED
      BY <3>1, <3>2, WhoIsWho
  <2>5. RowsFollow'
    BY <1>6
       DEF RowsFollow, RowOpenWhileRunning, RunIds, SlotSettled, StartFails, ClearSlot
  <2>6. LiveMatchesRow'
    BY <1>6
       DEF LiveMatchesRow, SlotShowsRun, SlotSettled, RunIds, RowsFollow, RowOpenWhileRunning, StartFails, ClearSlot
  <2>7. QED
    BY <2>1, <2>2, <2>3, <2>4, <2>5, <2>6 DEF IInv
<1>7. ASSUME NEW a \in Actors, Begin(a) PROVE IInv'
  <2>1. LockHeld'
    BY <1>7 DEF LockHeld, Begin
  <2>2. RunIds'
    BY <1>7 DEF RunIds, Begin
  <2>3. SlotShowsRun'
    <3>1. CASE a \in Web
      BY <1>7, <3>1 DEF SlotShowsRun, SlotSettled, RunIds, Begin
    <3>2. CASE a \in Clis
      <4>1. /\ UNCHANGED <<up, slot, abandoned>>
            /\ \A w \in Web : pc'[w] = pc[w] /\ run'[w] = run[w]
        BY <1>7, <3>2 DEF Begin
      <4>2. QED
        BY <4>1 DEF SlotShowsRun, SlotSettled, RunIds
    <3>3. QED
      BY <3>1, <3>2, WhoIsWho
  <2>4. SlotSettled'
    <3>1. CASE a \in Web
      BY <1>7, <3>1 DEF SlotSettled, SlotShowsRun, RunIds, Begin
    <3>2. CASE a \in Clis
      <4>1. /\ UNCHANGED <<up, slot, abandoned>>
            /\ \A w \in Web : pc'[w] = pc[w] /\ run'[w] = run[w]
        BY <1>7, <3>2 DEF Begin
      <4>2. \A r \in Runs : rows'[r] = rows[r]
        BY <1>7 DEF Begin
      <4>3. \A c \in Clis : run'[c] = run[c] \/ run'[c] = Nil
        BY <1>7 DEF Begin
      <4>4. QED
        BY <4>1, <4>2, <4>3 DEF SlotSettled, SlotShowsRun, RunIds
    <3>3. QED
      BY <3>1, <3>2, WhoIsWho
  <2>5. RowsFollow'
    BY <1>7 DEF RowsFollow, RowOpenWhileRunning, RunIds, SlotSettled, Begin
  <2>6. LiveMatchesRow'
    BY <1>7
       DEF LiveMatchesRow, SlotShowsRun, SlotSettled, RunIds, RowsFollow, RowOpenWhileRunning, Begin
  <2>7. QED
    BY <2>1, <2>2, <2>3, <2>4, <2>5, <2>6 DEF IInv
<1>8. ASSUME NEW a \in Actors, EngineEnds(a) PROVE IInv'
  <2>1. LockHeld'
    BY <1>8 DEF LockHeld, EngineEnds
  <2>2. RunIds'
    BY <1>8 DEF RunIds, EngineEnds
  <2>3. SlotShowsRun'
    BY <1>8 DEF SlotShowsRun, SlotSettled, RunIds, EngineEnds
  <2>4. SlotSettled'
    BY <1>8 DEF SlotSettled, SlotShowsRun, RunIds, EngineEnds
  <2>5. RowsFollow'
    BY <1>8 DEF RowsFollow, RowOpenWhileRunning, RunIds, SlotSettled, EngineEnds
  <2>6. LiveMatchesRow'
    BY <1>8
       DEF LiveMatchesRow, SlotShowsRun, SlotSettled, RunIds, RowsFollow, RowOpenWhileRunning, EngineEnds
  <2>7. QED
    BY <2>1, <2>2, <2>3, <2>4, <2>5, <2>6 DEF IInv
<1>9. ASSUME NEW a \in Actors, Record(a) PROVE IInv'
  <2>1. LockHeld'
    BY <1>9 DEF LockHeld, Record
  <2>2. RunIds'
    BY <1>9 DEF RunIds, Record
  <2>3. SlotShowsRun'
    BY <1>9 DEF SlotShowsRun, SlotSettled, RunIds, Record
  <2>4. SlotSettled'
    BY <1>9 DEF SlotSettled, SlotShowsRun, RunIds, Record
  <2>5. RowsFollow'
    BY <1>9 DEF RowsFollow, RowOpenWhileRunning, RunIds, SlotSettled, Record
  <2>6. LiveMatchesRow'
    BY <1>9
       DEF LiveMatchesRow, SlotShowsRun, SlotSettled, RunIds, RowsFollow, RowOpenWhileRunning, Record
  <2>7. QED
    BY <2>1, <2>2, <2>3, <2>4, <2>5, <2>6 DEF IInv
<1>10. ASSUME NEW a \in Actors, RecordFails(a) PROVE IInv'
  <2>1. LockHeld'
    BY <1>10 DEF LockHeld, RecordFails
  <2>2. RunIds'
    BY <1>10 DEF RunIds, RecordFails
  <2>3. SlotShowsRun'
    BY <1>10 DEF SlotShowsRun, SlotSettled, RunIds, RecordFails
  <2>4. SlotSettled'
    BY <1>10 DEF SlotSettled, SlotShowsRun, RunIds, RecordFails
  <2>5. RowsFollow'
    BY <1>10 DEF RowsFollow, RowOpenWhileRunning, RunIds, SlotSettled, RecordFails
  <2>6. LiveMatchesRow'
    BY <1>10
       DEF LiveMatchesRow, SlotShowsRun, SlotSettled, RunIds, RowsFollow, RowOpenWhileRunning, RecordFails
  <2>7. QED
    BY <2>1, <2>2, <2>3, <2>4, <2>5, <2>6 DEF IInv
<1>11. ASSUME NEW a \in Actors, Finish(a) PROVE IInv'
  <2>1. LockHeld'
    BY <1>11 DEF LockHeld, Finish
  <2>2. RunIds'
    BY <1>11 DEF RunIds, Finish
  <2>3. SlotShowsRun'
    <3>1. CASE a \in Web
      BY <1>11, <3>1 DEF SlotShowsRun, SlotSettled, RunIds, Finish
    <3>2. CASE a \in Clis
      <4>1. /\ UNCHANGED <<up, slot, abandoned>>
            /\ \A w \in Web : pc'[w] = pc[w] /\ run'[w] = run[w]
        BY <1>11, <3>2 DEF Finish
      <4>2. QED
        BY <4>1 DEF SlotShowsRun, SlotSettled, RunIds
    <3>3. QED
      BY <3>1, <3>2, WhoIsWho
  <2>4. SlotSettled'
    <3>1. CASE a \in Web
      BY <1>11, <3>1 DEF SlotSettled, SlotShowsRun, RunIds, Finish
    <3>2. CASE a \in Clis
      <4>1. /\ UNCHANGED <<up, slot, abandoned>>
            /\ \A w \in Web : pc'[w] = pc[w] /\ run'[w] = run[w]
        BY <1>11, <3>2 DEF Finish
      <4>2. \A r \in Runs : rows'[r] = rows[r]
        BY <1>11 DEF Finish
      <4>3. \A c \in Clis : run'[c] = run[c] \/ run'[c] = Nil
        BY <1>11 DEF Finish
      <4>4. QED
        BY <4>1, <4>2, <4>3 DEF SlotSettled, SlotShowsRun, RunIds
    <3>3. QED
      BY <3>1, <3>2, WhoIsWho
  <2>5. RowsFollow'
    BY <1>11 DEF RowsFollow, RowOpenWhileRunning, RunIds, SlotSettled, Finish
  <2>6. LiveMatchesRow'
    BY <1>11
       DEF LiveMatchesRow, SlotShowsRun, SlotSettled, RunIds, RowsFollow, RowOpenWhileRunning, Finish
  <2>7. QED
    BY <2>1, <2>2, <2>3, <2>4, <2>5, <2>6 DEF IInv
<1>12. ASSUME NEW a \in Actors, Leave(a) PROVE IInv'
  <2>1. LockHeld'
    BY <1>12 DEF LockHeld, Leave
  <2>2. RunIds'
    BY <1>12 DEF RunIds, Leave
  <2>3. SlotShowsRun'
    BY <1>12 DEF SlotShowsRun, SlotSettled, RunIds, Leave
  <2>4. SlotSettled'
    BY <1>12 DEF SlotSettled, SlotShowsRun, RunIds, Leave
  <2>5. RowsFollow'
    BY <1>12 DEF RowsFollow, RowOpenWhileRunning, RunIds, SlotSettled, Leave
  <2>6. LiveMatchesRow'
    BY <1>12
       DEF LiveMatchesRow, SlotShowsRun, SlotSettled, RunIds, RowsFollow, RowOpenWhileRunning, Leave
  <2>7. QED
    BY <2>1, <2>2, <2>3, <2>4, <2>5, <2>6 DEF IInv
<1>13. ASSUME ServerNotices PROVE IInv'
  <2>1. LockHeld'
    BY <1>13 DEF LockHeld, ServerNotices
  <2>2. RunIds'
    BY <1>13 DEF RunIds, ServerNotices
  <2>3. SlotShowsRun'
    BY <1>13 DEF SlotShowsRun, SlotSettled, RunIds, ServerNotices
  <2>4. SlotSettled'
    BY <1>13 DEF SlotSettled, SlotShowsRun, RunIds, ServerNotices
  <2>5. RowsFollow'
    BY <1>13 DEF RowsFollow, RowOpenWhileRunning, RunIds, SlotSettled, ServerNotices
  <2>6. LiveMatchesRow'
    BY <1>13
       DEF LiveMatchesRow, SlotShowsRun, SlotSettled, RunIds, RowsFollow, RowOpenWhileRunning, ServerNotices
  <2>7. QED
    BY <2>1, <2>2, <2>3, <2>4, <2>5, <2>6 DEF IInv
<1>14. ASSUME SessionLost PROVE IInv'
  <2>1. LockHeld'
    BY <1>14 DEF LockHeld, SessionLost, Fault
  <2>2. RunIds'
    BY <1>14 DEF RunIds, SessionLost, Fault
  <2>3. SlotShowsRun'
    BY <1>14 DEF SlotShowsRun, SlotSettled, RunIds, SessionLost, Fault
  <2>4. SlotSettled'
    BY <1>14 DEF SlotSettled, SlotShowsRun, RunIds, SessionLost, Fault
  <2>5. RowsFollow'
    BY <1>14
       DEF RowsFollow, RowOpenWhileRunning, RunIds, SlotSettled, SessionLost, Fault
  <2>6. LiveMatchesRow'
    BY <1>14
       DEF LiveMatchesRow, SlotShowsRun, SlotSettled, RunIds, RowsFollow, RowOpenWhileRunning, SessionLost, Fault
  <2>7. QED
    BY <2>1, <2>2, <2>3, <2>4, <2>5, <2>6 DEF IInv
<1>15. ASSUME NEW h \in Handlers, ClientGone(h) PROVE IInv'
  <2>1. LockHeld'
    BY <1>15 DEF LockHeld, ClientGone, Fault
  <2>2. RunIds'
    BY <1>15 DEF RunIds, ClientGone, Fault
  <2>3. SlotShowsRun'
    BY <1>15 DEF SlotShowsRun, SlotSettled, RunIds, ClientGone, Fault
  <2>4. SlotSettled'
    BY <1>15 DEF SlotSettled, SlotShowsRun, RunIds, ClientGone, Fault
  <2>5. RowsFollow'
    BY <1>15
       DEF RowsFollow, RowOpenWhileRunning, RunIds, SlotSettled, ClientGone, Fault
  <2>6. LiveMatchesRow'
    BY <1>15
       DEF LiveMatchesRow, SlotShowsRun, SlotSettled, RunIds, RowsFollow, RowOpenWhileRunning, ClientGone, Fault
  <2>7. QED
    BY <2>1, <2>2, <2>3, <2>4, <2>5, <2>6 DEF IInv
<1>16. ASSUME NEW c \in Clis, CliKilled(c) PROVE IInv'
  <2>1. LockHeld'
    BY <1>16 DEF LockHeld, CliKilled, Fault
  <2>2. RunIds'
    BY <1>16 DEF RunIds, CliKilled, Fault
  <2>3. SlotShowsRun'
    BY <1>16 DEF SlotShowsRun, SlotSettled, RunIds, CliKilled, Fault
  <2>4. SlotSettled'
    BY <1>16 DEF SlotSettled, SlotShowsRun, RunIds, CliKilled, Fault
  <2>5. RowsFollow'
    BY <1>16
       DEF RowsFollow, RowOpenWhileRunning, RunIds, SlotSettled, CliKilled, Fault
  <2>6. LiveMatchesRow'
    BY <1>16
       DEF LiveMatchesRow, SlotShowsRun, SlotSettled, RunIds, RowsFollow, RowOpenWhileRunning, CliKilled, Fault
  <2>7. QED
    BY <2>1, <2>2, <2>3, <2>4, <2>5, <2>6 DEF IInv
<1>17. ASSUME ServeStops PROVE IInv'
  <2>1. LockHeld'
    BY <1>17 DEF LockHeld, ServeStops, Fault
  <2>2. RunIds'
    BY <1>17 DEF RunIds, ServeStops, Fault
  <2>3. SlotShowsRun'
    BY <1>17 DEF SlotShowsRun, SlotSettled, RunIds, ServeStops, Fault
  <2>4. SlotSettled'
    BY <1>17 DEF SlotSettled, SlotShowsRun, RunIds, ServeStops, Fault
  <2>5. RowsFollow'
    BY <1>17
       DEF RowsFollow, RowOpenWhileRunning, RunIds, SlotSettled, ServeStops, Fault
  <2>6. LiveMatchesRow'
    BY <1>17
       DEF LiveMatchesRow, SlotShowsRun, SlotSettled, RunIds, RowsFollow, RowOpenWhileRunning, ServeStops, Fault
  <2>7. QED
    BY <2>1, <2>2, <2>3, <2>4, <2>5, <2>6 DEF IInv
<1>18. ASSUME ServeStarts PROVE IInv'
  <2>1. LockHeld'
    BY <1>18 DEF LockHeld, ServeStarts
  <2>2. RunIds'
    BY <1>18 DEF RunIds, ServeStarts
  <2>3. SlotShowsRun'
    BY <1>18 DEF SlotShowsRun, SlotSettled, RunIds, ServeStarts
  <2>4. SlotSettled'
    BY <1>18 DEF SlotSettled, SlotShowsRun, RunIds, ServeStarts
  <2>5. RowsFollow'
    BY <1>18 DEF RowsFollow, RowOpenWhileRunning, RunIds, SlotSettled, ServeStarts
  <2>6. LiveMatchesRow'
    BY <1>18
       DEF LiveMatchesRow, SlotShowsRun, SlotSettled, RunIds, RowsFollow, RowOpenWhileRunning, ServeStarts
  <2>7. QED
    BY <2>1, <2>2, <2>3, <2>4, <2>5, <2>6 DEF IInv
<1>19. ASSUME UNCHANGED vars PROVE IInv'
  <2>1. LockHeld'
    BY <1>19 DEF LockHeld, vars
  <2>2. RunIds'
    BY <1>19 DEF RunIds, vars
  <2>3. SlotShowsRun'
    BY <1>19 DEF SlotShowsRun, SlotSettled, RunIds, vars
  <2>4. SlotSettled'
    BY <1>19 DEF SlotSettled, SlotShowsRun, RunIds, vars
  <2>5. RowsFollow'
    BY <1>19 DEF RowsFollow, RowOpenWhileRunning, RunIds, SlotSettled, vars
  <2>6. LiveMatchesRow'
    BY <1>19
       DEF LiveMatchesRow, SlotShowsRun, SlotSettled, RunIds, RowsFollow, RowOpenWhileRunning, vars
  <2>7. QED
    BY <2>1, <2>2, <2>3, <2>4, <2>5, <2>6 DEF IInv
<1>20. QED
  BY <1>1, <1>2, <1>3, <1>4, <1>5, <1>6, <1>7, <1>8, <1>9, <1>10,
     <1>11, <1>12, <1>13, <1>14, <1>15, <1>16, <1>17, <1>18, <1>19 DEF Next, Step

LEMMA InvInit == Init => IInv
<1> SUFFICES ASSUME Init PROVE IInv
  OBVIOUS
<1>1. TypeOK
  BY TypeInit
<1>2. \A a \in Actors : pc[a] = "idle" /\ run[a] = Nil
  BY DEF Init
<1>3. LockHeld /\ RunIds /\ RowsFollow
  BY <1>2 DEF LockHeld, RunIds, RowsFollow, RowOpenWhileRunning, LockPcs, RunPcs
<1>4. SlotShowsRun /\ SlotSettled /\ LiveMatchesRow
  BY <1>2, WhoIsWho
     DEF Init, SlotShowsRun, SlotSettled, LiveMatchesRow, Free, StartPcs, TaskPcs
<1>5. QED
  BY <1>1, <1>3, <1>4 DEF IInv

LEMMA Invariance == Spec => []IInv
BY InvInit, InvStep, PTL DEF Spec

\* Two runs overlap only after one of them lost the session of its lock: the
\* gate of try_lock_run holds whatever the slot, the crashes and the delayed
\* release do (db/mod.rs, RunLock).
THEOREM Exclusion == Spec => []RunsExclusive
<1>1. IInv => RunsExclusive
  BY DEF IInv, LockHeld, RunsExclusive
<1>2. QED
  BY <1>1, Invariance, PTL

\* The slot always shows the one web run in progress (runner.rs).
THEOREM SlotFaithful == Spec => []SlotShowsRun
<1>1. IInv => SlotShowsRun
  BY DEF IInv
<1>2. QED
  BY <1>1, Invariance, PTL

\* A finished slot says what the database recorded of the run, if it was recorded
\* (runner.rs, execute).
THEOREM SlotMatchesRow == Spec => []LiveMatchesRow
<1>1. IInv => LiveMatchesRow
  BY DEF IInv
<1>2. QED
  BY <1>1, Invariance, PTL

\* No two actors ever work on one run, and nobody but its actor gives a run's row a
\* verdict.
THEOREM RowsOpen == Spec => []RowOpenWhileRunning
<1>1. IInv => RowOpenWhileRunning
  BY DEF IInv, RowsFollow
<1>2. QED
  BY <1>1, Invariance, PTL

\* A row that finish_run or abort_run has closed never changes again.
THEOREM Final == Spec => VerdictsFinal
<1>1. IInv /\ [Next]_vars => [\A r \in Runs : rows[r] \in Verdicts => rows'[r] = rows[r]]_vars
  <2> SUFFICES ASSUME IInv, Next, NEW r \in Runs, rows[r] \in Verdicts
               PROVE  rows'[r] = rows[r]
    OBVIOUS
  <2> USE DEF IInv, TypeOK, Verdicts
  <2>1. ASSUME NEW a \in Actors, OpenRow(a) PROVE rows'[r] = rows[r]
    BY <2>1 DEF OpenRow
  <2>2. ASSUME NEW a \in Actors, Record(a) PROVE rows'[r] = rows[r]
    <3>1. run[a] \in Runs /\ rows[run[a]] \in {"running", "interrupted"}
      BY <2>2 DEF Record, RunIds, RunPcs, RowsFollow, RowOpenWhileRunning
    <3>2. QED
      BY <2>2, <3>1 DEF Record
  <2>3. CASE ServeStarts
    BY <2>3 DEF ServeStarts
  <2>4. CASE UNCHANGED rows
    BY <2>4
  <2>5. QED
    BY <2>1, <2>2, <2>3, <2>4
       DEF Next, Step, Claim, CliStart, TakeLock, StartDenied, StartFails, Begin,
           EngineEnds, RecordFails, Finish, Leave, ServerNotices, SessionLost,
           ClientGone, CliKilled, ServeStops
<1>2. QED
  BY <1>1, Invariance, PTL DEF Spec, VerdictsFinal
=============================================================================
