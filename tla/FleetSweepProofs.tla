-------------------------- MODULE FleetSweepProofs ---------------------------
(***************************************************************************)
(* What FleetSweep guarantees for any fleet and host key policy, any       *)
(* concurrency, and any number of sweeps, deletions, restarts and threads  *)
(* that outlive their timeouts.                                            *)
(***************************************************************************)
EXTENDS FleetSweep, FiniteSetTheorems, FunctionTheorems, SequenceTheorems, TLAPS

-----------------------------------------------------------------------------
(* Types *)

LEMMA Tasked ==
    /\ \A t \in Tasks : t[1] \in Sweeps /\ t[2] \in Devices /\ t = <<t[1], t[2]>>
    /\ \A n \in Sweeps, d \in Devices : <<n, d>> \in Tasks
    /\ \A n, m, d, e : <<n, d>> = <<m, e>> <=> n = m /\ d = e
    /\ \A n, d : <<n, d>>[1] = n /\ <<n, d>>[2] = d
BY DEF Tasks

LEMMA Beginnings ==
    /\ NoTask \in TaskType /\ Unused \in SweepType
    /\ NoTask.stage = "none" /\ NoTask.orphan = FALSE /\ NoTask.seen = {}
    /\ Unused.kind = None /\ Unused.state = "unused" /\ Unused.selected = {}
    /\ Unused.todo = {} /\ Unused.report = <<>> /\ Unused.taken = <<>> /\ Unused.stored = 0
<1>1. <<>> \in Seq(Devices)
  OBVIOUS
<1>2. QED
  BY <1>1 DEF NoTask, TaskType, Unused, SweepType

\* A row that is upserted is a row.
LEMMA UpsertTyped ==
    ASSUME NEW row \in UpdateType \cup {None}, NEW answer \in Answers \cup {None}
    PROVE  Upsert(row, answer) \in UpdateType
<1> DEFINE old == IF row = None THEN [installed |-> None, latest |-> None] ELSE row
<1>1. old.installed \in Versions \cup {None} /\ old.latest \in Versions \cup {None}
  BY DEF UpdateType
<1>2. answer # None => answer.installed \in Versions /\ answer.latest \in Versions
  BY DEF Versions
<1> HIDE DEF old
<1>3. Upsert(row, answer) =
        IF answer = None
        THEN [installed |-> old.installed, latest |-> old.latest, failed |-> TRUE]
        ELSE [installed |-> OrElse(answer.installed, old.installed),
              latest |-> OrElse(answer.latest, old.latest), failed |-> FALSE]
  BY DEF Upsert, old
<1>4. QED
  BY <1>1, <1>2, <1>3 DEF OrElse, UpdateType

LEMMA TypeInit == Init => TypeOK
<1> SUFFICES ASSUME Init PROVE TypeOK
  OBVIOUS
<1>1. sweeps \in [Sweeps -> SweepType] /\ tasks \in [Tasks -> TaskType]
  BY Beginnings DEF Init
<1>2. \A n \in Sweeps :
          sweeps[n].todo \subseteq sweeps[n].selected /\ sweeps[n].stored <= Len(Taken(n))
  BY Beginnings DEF Init, Taken
<1>3. 0 \in 0..MaxEvents /\ Pinned \subseteq Devices
  BY FleetSweepAssumption
<1>4. QED
  BY <1>1, <1>2, <1>3 DEF Init, TypeOK

\* A sweep that is changed on its own keeps the others' types.
LEMMA SweepTyped ==
    ASSUME TypeOK, NEW n \in Sweeps, NEW s \in SweepType,
           s.todo \subseteq s.selected, s.stored <= Len(s.taken),
           sweeps' = [sweeps EXCEPT ![n] = s]
    PROVE  /\ sweeps' \in [Sweeps -> SweepType]
           /\ \A m \in Sweeps :
                  sweeps'[m].todo \subseteq sweeps'[m].selected /\ sweeps'[m].stored <= Len(Taken(m)')
BY DEF TypeOK, Taken

\* What a sweep takes of a device.
Reports(n, d, ok) ==
    [sweeps[n] EXCEPT !.report = Append(@, d),
                      !.taken = IF ok /\ sweeps[n].kind = "monitor" THEN Append(@, d) ELSE @]
LEMMA Delivered ==
    ASSUME TypeOK, NEW n \in Sweeps, NEW d \in Devices, NEW ok \in BOOLEAN,
           NEW answer \in Answers \cup {None}, ok /\ sweeps[n].kind = "check" => answer \in Answers,
           Deliver(n, d, ok, answer)
    PROVE  /\ Reports(n, d, ok) \in SweepType
           /\ sweeps' = [sweeps EXCEPT ![n] = Reports(n, d, ok)]
           /\ Reports(n, d, ok).state = sweeps[n].state
           /\ Reports(n, d, ok).kind = sweeps[n].kind
           /\ Reports(n, d, ok).selected = sweeps[n].selected
           /\ Reports(n, d, ok).todo = sweeps[n].todo
           /\ Reports(n, d, ok).stored = sweeps[n].stored
           /\ Reports(n, d, ok).report = Append(sweeps[n].report, d)
           /\ Len(Reports(n, d, ok).taken) >= Len(sweeps[n].taken)
           /\ sweeps' \in [Sweeps -> SweepType]
           /\ \A m \in Sweeps :
                  sweeps'[m].todo \subseteq sweeps'[m].selected /\ sweeps'[m].stored <= Len(Taken(m)')
           /\ updates' \in [Devices -> UpdateType \cup {None}]
           /\ good' \in [Devices -> GoodType \cup {None}]
<1>1. /\ sweeps[n] \in SweepType /\ sweeps[n].report \in Seq(Devices)
      /\ sweeps[n].taken \in Seq(Devices) /\ sweeps[n].stored \in Nat
      /\ sweeps[n].todo \subseteq sweeps[n].selected
      /\ sweeps[n].stored <= Len(sweeps[n].taken)
  BY DEF TypeOK, SweepType, Taken
<1>2. /\ Append(sweeps[n].report, d) \in Seq(Devices)
      /\ Append(sweeps[n].taken, d) \in Seq(Devices)
      /\ Len(Append(sweeps[n].taken, d)) = Len(sweeps[n].taken) + 1
      /\ Len(sweeps[n].taken) \in Nat
  BY <1>1
<1> DEFINE taken == IF ok /\ sweeps[n].kind = "monitor"
                    THEN Append(sweeps[n].taken, d) ELSE sweeps[n].taken
<1>3. taken \in Seq(Devices) /\ Len(taken) >= Len(sweeps[n].taken) /\ Len(taken) \in Nat
  BY <1>1, <1>2
<1>4. Reports(n, d, ok) = [sweeps[n] EXCEPT !.report = Append(sweeps[n].report, d), !.taken = taken]
  BY DEF Reports
<1> HIDE DEF taken
<1>5. /\ Reports(n, d, ok) \in SweepType
      /\ Reports(n, d, ok).state = sweeps[n].state
      /\ Reports(n, d, ok).kind = sweeps[n].kind
      /\ Reports(n, d, ok).selected = sweeps[n].selected
      /\ Reports(n, d, ok).todo = sweeps[n].todo
      /\ Reports(n, d, ok).stored = sweeps[n].stored
      /\ Reports(n, d, ok).report = Append(sweeps[n].report, d)
      /\ Reports(n, d, ok).taken = taken
  BY <1>1, <1>2, <1>3, <1>4 DEF SweepType
<1>6. sweeps' = [sweeps EXCEPT ![n] = Reports(n, d, ok)]
  BY DEF Deliver, Reports, TypeOK
<1>7. Reports(n, d, ok).stored <= Len(Reports(n, d, ok).taken)
  BY <1>1, <1>3, <1>5
<1>8. /\ sweeps' \in [Sweeps -> SweepType]
      /\ \A m \in Sweeps :
             sweeps'[m].todo \subseteq sweeps'[m].selected /\ sweeps'[m].stored <= Len(Taken(m)')
  BY <1>1, <1>5, <1>6, <1>7, SweepTyped
<1>9. updates' \in [Devices -> UpdateType \cup {None}]
  <2>1. Upsert(updates[d], answer) \in UpdateType
    BY UpsertTyped DEF TypeOK
  <2>2. updates' = updates \/ updates' = [updates EXCEPT ![d] = Upsert(updates[d], answer)]
    BY DEF Deliver
  <2>3. QED
    BY <2>1, <2>2 DEF TypeOK
<1>10. good' \in [Devices -> GoodType \cup {None}]
  <2> DEFINE new == IF ok THEN [answer |-> answer, since |-> FALSE]
                    ELSE IF good[d] = None THEN None ELSE [good[d] EXCEPT !.since = TRUE]
  <2>1. good' = good \/ (sweeps[n].kind = "check" /\ good' = [good EXCEPT ![d] = new])
    BY DEF Deliver
  <2>2. good[d] \in GoodType \cup {None}
    BY DEF TypeOK
  <2>3. sweeps[n].kind = "check" => new \in GoodType \cup {None}
    BY <2>2 DEF GoodType
  <2> HIDE DEF new
  <2>4. QED
    BY <2>1, <2>3 DEF TypeOK
<1>11. QED
  BY <1>3, <1>5, <1>6, <1>8, <1>9, <1>10

-----------------------------------------------------------------------------
(* The order of a report *)

\* A report without duplicates has, put in order, the same devices, each once, and the
\* smaller before the larger (backup.rs run, "Report order follows the config").
THEOREM ReportOrder ==
    ASSUME NEW report \in Seq(Devices),
           \A i, j \in DOMAIN report : report[i] = report[j] => i = j
    PROVE  /\ InOrder(report) \in Seq(Devices) /\ Len(InOrder(report)) = Len(report)
           /\ \A i \in DOMAIN report : \E j \in DOMAIN report : InOrder(report)[i] = report[j]
           /\ \A j \in DOMAIN report : \E i \in DOMAIN report : InOrder(report)[i] = report[j]
           /\ \A i, j \in DOMAIN report : i < j => InOrder(report)[i] < InOrder(report)[j]
<1> DEFINE n == Len(report)
           smaller(d) == {j \in 1..n : report[j] < d}
           rank == [j \in 1..n |-> Cardinality(smaller(report[j]))]
<1>1. /\ n \in Nat /\ DOMAIN report = 1..n
      /\ \A j \in 1..n : report[j] \in Devices /\ report[j] \in Nat
  <2>1. n \in Nat /\ DOMAIN report = 1..n /\ \A j \in 1..n : report[j] \in Devices
    OBVIOUS
  <2>2. Devices \subseteq Nat
    BY FleetSweepAssumption
  <2>3. QED
    BY <2>1, <2>2
<1>2. IsFiniteSet(1..n) /\ Cardinality(1..n) = n
  BY <1>1, FS_Interval
<1>3. /\ IsFiniteSet(0..n - 1) /\ Cardinality(0..n - 1) = n
  BY <1>1, FS_Interval
<1>4. \A d : IsFiniteSet(smaller(d)) /\ Cardinality(smaller(d)) \in Nat
  BY <1>2, FS_Subset, FS_CardinalityType
<1>5. \A i, j \in 1..n : report[i] < report[j] => rank[i] < rank[j]
  <2> SUFFICES ASSUME NEW i \in 1..n, NEW j \in 1..n, report[i] < report[j]
               PROVE  Cardinality(smaller(report[i])) < Cardinality(smaller(report[j]))
    OBVIOUS
  <2>1. smaller(report[i]) \in SUBSET smaller(report[j])
    BY <1>1
  <2>2. i \in smaller(report[j]) /\ i \notin smaller(report[i])
    BY <1>1
  <2> HIDE DEF smaller
  <2>3. /\ Cardinality(smaller(report[i])) <= Cardinality(smaller(report[j]))
        /\ Cardinality(smaller(report[i])) # Cardinality(smaller(report[j]))
    BY <1>4, <2>1, <2>2, FS_Subset
  <2>4. QED
    BY <1>4, <2>3
<1>6. \A j \in 1..n : rank[j] \in 0..n - 1
  <2> SUFFICES ASSUME NEW j \in 1..n PROVE Cardinality(smaller(report[j])) \in 0..n - 1
    OBVIOUS
  <2>1. smaller(report[j]) \in SUBSET ((1..n) \ {j})
    BY <1>1
  <2>2. IsFiniteSet((1..n) \ {j}) /\ Cardinality((1..n) \ {j}) = n - 1
    BY <1>2, FS_RemoveElement
  <2> HIDE DEF smaller
  <2>3. Cardinality(smaller(report[j])) <= n - 1
    BY <2>1, <2>2, FS_Subset
  <2>4. QED
    BY <1>1, <1>4, <2>3
<1>7. rank \in Injection(1..n, 0..n - 1)
  <2>1. rank \in [1..n -> 0..n - 1]
    BY <1>6
  <2> HIDE DEF rank
  <2>2. ASSUME NEW i \in 1..n, NEW j \in 1..n, rank[i] = rank[j] PROVE i = j
    <3>1. rank[i] \in Nat /\ rank[j] \in Nat
      BY <1>6
    <3>2. ~(report[i] < report[j]) /\ ~(report[j] < report[i])
      BY <1>5, <2>2, <3>1
    <3>3. report[i] = report[j]
      BY <1>1, <3>2
    <3>4. QED
      BY <1>1, <3>3
  <2>3. QED
    BY <2>1, <2>2 DEF Injection, IsInjective
<1>8. rank \in Surjection(1..n, 0..n - 1)
  <2> HIDE DEF rank
  <2>1. QED
    BY <1>2, <1>3, <1>7, FS_Injection
<1>9. \A i \in 1..n : \E j \in 1..n : rank[j] = i - 1
  <2> HIDE DEF rank
  <2>1. \A i \in 1..n : i - 1 \in 0..n - 1
    BY <1>1
  <2>2. QED
    BY <1>8, <2>1 DEF Surjection
<1> DEFINE ordered == InOrder(report)
<1>10. ordered = [i \in 1..n |-> CHOOSE d \in Devices :
                      (\E j \in 1..n : report[j] = d) /\ Cardinality(smaller(d)) = i - 1]
  BY <1>1 DEF InOrder
<1>11. \A i \in 1..n : \E j \in 1..n :
           ordered[i] = report[j] /\ rank[j] = i - 1
  <2> SUFFICES ASSUME NEW i \in 1..n
               PROVE  \E j \in 1..n : ordered[i] = report[j] /\ rank[j] = i - 1
    OBVIOUS
  <2>1. PICK k \in 1..n : rank[k] = i - 1
    BY <1>9
  <2>2. report[k] \in Devices /\ Cardinality(smaller(report[k])) = i - 1
    BY <1>1, <2>1
  <2> DEFINE fits(d) == (\E j \in 1..n : report[j] = d) /\ Cardinality(smaller(d)) = i - 1
  <2>3. fits(report[k])
    BY <2>2
  <2>4. ordered[i] = CHOOSE d \in Devices : fits(d)
    BY <1>10
  <2>5. fits(ordered[i])
    <3> HIDE DEF fits, ordered
    <3>1. QED
      BY <2>2, <2>3, <2>4
  <2> HIDE DEF ordered, smaller
  <2>6. QED
    BY <2>5
<1>12. ordered \in [1..n -> Devices] /\ ordered \in Seq(Devices) /\ Len(ordered) = n
  <2>1. ordered \in [1..n -> Devices]
    <3>1. DOMAIN ordered = 1..n /\ ordered = [i \in 1..n |-> ordered[i]]
      BY <1>10
    <3> HIDE DEF ordered, rank
    <3>2. QED
      BY <1>1, <1>11, <3>1
  <2> HIDE DEF ordered
  <2>2. QED
    BY <1>1, <2>1
<1>13. \A j \in 1..n : \E i \in 1..n : ordered[i] = report[j]
  <2> SUFFICES ASSUME NEW j \in 1..n PROVE \E i \in 1..n : ordered[i] = report[j]
    OBVIOUS
  <2> DEFINE i == rank[j] + 1
  <2>1. i \in 1..n /\ rank[j] = i - 1
    <3>1. rank[j] \in 0..n - 1
      BY <1>6
    <3> HIDE DEF rank
    <3>2. QED
      BY <1>1, <3>1
  <2> HIDE DEF rank, ordered, i
  <2>2. PICK k \in 1..n : ordered[i] = report[k] /\ rank[k] = i - 1
    BY <1>11, <2>1
  <2>3. k = j
    BY <1>7, <2>1, <2>2 DEF Injection, IsInjective
  <2>4. QED
    BY <2>1, <2>2, <2>3
<1>14. ASSUME NEW i \in 1..n, NEW j \in 1..n, i < j PROVE ordered[i] < ordered[j]
  <2>1. PICK k \in 1..n : ordered[i] = report[k] /\ rank[k] = i - 1
    BY <1>11
  <2>2. PICK l \in 1..n : ordered[j] = report[l] /\ rank[l] = j - 1
    BY <1>11
  <2> HIDE DEF rank, ordered
  <2>3. rank[k] < rank[l]
    BY <1>1, <1>14, <2>1, <2>2
  <2>4. k # l /\ ~(report[l] < report[k])
    BY <1>5, <1>14, <2>1, <2>2, <2>3
  <2>5. report[k] # report[l]
    BY <1>1, <2>4
  <2>6. QED
    BY <1>1, <2>1, <2>2, <2>4, <2>5
<1> HIDE DEF ordered, rank
<1>15. QED
  BY <1>1, <1>11, <1>12, <1>13, <1>14 DEF ordered

-----------------------------------------------------------------------------
(* Type correctness *)

\* A sweep that begins.
Chosen(kind, selected) ==
    [Unused EXCEPT !.kind = kind, !.state = "sweeping", !.selected = selected, !.todo = selected]
LEMMA ChosenTyped ==
    ASSUME NEW kind \in Kinds, NEW S \in SUBSET Devices
    PROVE  /\ Chosen(kind, S) \in SweepType
           /\ Chosen(kind, S).kind = kind /\ Chosen(kind, S).state = "sweeping"
           /\ Chosen(kind, S).selected = S /\ Chosen(kind, S).todo = S
           /\ Chosen(kind, S).report = <<>> /\ Chosen(kind, S).taken = <<>>
           /\ Chosen(kind, S).stored = 0
<1>1. <<>> \in Seq(Devices)
  OBVIOUS
<1>2. QED
  BY <1>1 DEF Chosen, Unused, SweepType

\* A backup, a poll or a check begins.
Begun(n, kind, S) ==
    /\ sweeps' = [sweeps EXCEPT ![n] = Chosen(kind, S)]
    /\ sweeps[n].state \in {"unused", "loading"}
    /\ IF kind = "check" THEN sweeps[n].state = "loading" ELSE IsNext(n, kind)
    /\ UNCHANGED <<fleet, tasks, known, checks, samples, updates, events, good, settled, torn>>
LEMMA Begins ==
    ASSUME TypeOK, NEW n \in Sweeps, StartBackup(n) \/ StartMonitor(n) \/ LoadCheck(n)
    PROVE  \E kind \in Kinds, S \in SUBSET Devices : Begun(n, kind, S)
<1>1. \A S : S \subseteq fleet => S \in SUBSET Devices
  BY DEF TypeOK
<1>2. CASE StartBackup(n)
  <2>1. PICK S : S \subseteq fleet /\ Select(n, "backup", S)
    BY <1>2 DEF StartBackup
  <2>2. Begun(n, "backup", S)
    BY <1>2, <2>1 DEF StartBackup, IsNext, Select, Begun, Chosen
  <2>3. QED
    BY <1>1, <2>1, <2>2 DEF Kinds
<1>3. CASE StartMonitor(n)
  <2>1. Begun(n, "monitor", fleet \cap Enabled)
    BY <1>3 DEF StartMonitor, IsNext, Select, Begun, Chosen
  <2>2. QED
    BY <1>1, <2>1 DEF Kinds
<1>4. CASE LoadCheck(n)
  <2>1. PICK S : S \subseteq fleet /\ Select(n, "check", S)
    BY <1>4 DEF LoadCheck
  <2>2. Begun(n, "check", S)
    BY <1>4, <2>1 DEF LoadCheck, Select, Begun, Chosen
  <2>3. QED
    BY <1>1, <2>1, <2>2 DEF Kinds
<1>5. QED
  BY <1>2, <1>3, <1>4

\* A thread ends, or its time is over: it is given up, or gone.
Leaves(t) ==
    /\ t \in Tasks /\ Running(t)
    /\ \/ tasks' = [tasks EXCEPT ![t] = NoTask]
       \/ ~tasks[t].orphan /\ tasks' = [tasks EXCEPT ![t].orphan = TRUE]
    /\ tasks'[t].orphan = FALSE => torn' = (torn \/ tasks[t].stage = "writing")
    /\ tasks'[t].orphan => torn' = torn
    /\ Settle
    /\ UNCHANGED <<fleet, known, checks, samples, events>>
LEMMA Leaving ==
    ASSUME TypeOK, NEW t \in Tasks, Timeout(t) \/ \E ok \in BOOLEAN : ThreadEnds(t, ok)
    PROVE  /\ Leaves(t)
           /\ \/ tasks[t].orphan /\ UNCHANGED <<sweeps, updates, good>>
              \/ /\ ~tasks[t].orphan
                 /\ \E ok \in BOOLEAN, answer \in Answers \cup {None} :
                        /\ sweeps[t[1]].kind = "check" => (ok <=> answer \in Answers)
                        /\ Deliver(t[1], t[2], ok, answer)
<1>1. tasks[t] \in TaskType
  BY DEF TypeOK
<1>0. None \notin Answers
  BY NoneAssumption
<1>2. CASE Timeout(t)
  <2>1. Leaves(t)
    BY <1>1, <1>2, Beginnings DEF Timeout, Leaves, TypeOK, TaskType
  <2>2. Deliver(t[1], t[2], FALSE, None) /\ ~tasks[t].orphan
    BY <1>2 DEF Timeout
  <2>3. QED
    BY <1>0, <2>1, <2>2
<1>3. ASSUME NEW ok \in BOOLEAN, ThreadEnds(t, ok)
      PROVE  /\ Leaves(t)
             /\ \/ tasks[t].orphan /\ UNCHANGED <<sweeps, updates, good>>
                \/ /\ ~tasks[t].orphan
                   /\ \E answer \in Answers \cup {None} :
                          /\ sweeps[t[1]].kind = "check" => (ok <=> answer \in Answers)
                          /\ Deliver(t[1], t[2], ok, answer)
  <2>1. Running(t)
    BY <1>3 DEF ThreadEnds, Running, Stages
  <2>2. Leaves(t)
    BY <1>1, <1>3, <2>1, Beginnings DEF ThreadEnds, Leaves, TypeOK
  <2>3. CASE tasks[t].orphan
    BY <1>3, <2>2, <2>3 DEF ThreadEnds
  <2>4. CASE ~tasks[t].orphan
    <3>1. PICK answer \in IF ok /\ sweeps[t[1]].kind = "check" THEN Answers ELSE {None} :
              Deliver(t[1], t[2], ok, answer)
      BY <1>3, <2>4 DEF ThreadEnds
    <3>2. /\ answer \in Answers \cup {None}
          /\ sweeps[t[1]].kind = "check" => (ok <=> answer \in Answers)
      BY <1>0, <3>1
    <3>3. QED
      BY <2>2, <2>4, <3>1, <3>2
  <2>5. QED
    BY <2>3, <2>4
<1>4. QED
  BY <1>2, <1>3

LEMMA TypeStep == TypeOK /\ AllParted /\ [Next]_vars => TypeOK'
<1> SUFFICES ASSUME TypeOK, AllParted, [Next]_vars PROVE TypeOK'
  OBVIOUS
<1>u. UNCHANGED sweeps =>
          /\ sweeps' \in [Sweeps -> SweepType]
          /\ \A m \in Sweeps :
                 sweeps'[m].todo \subseteq sweeps'[m].selected /\ sweeps'[m].stored <= Len(Taken(m)')
  BY DEF TypeOK, Taken
<1>e. Event => events' \in 0..MaxEvents
  BY FleetSweepAssumption DEF Event, TypeOK
<1>h. \* What is settled was known.
      Settle /\ known' \subseteq Devices => settled' \subseteq Devices
  BY DEF Settle, TypeOK
<1>s. \A m \in Sweeps : sweeps[m].todo \subseteq sweeps[m].selected
                        /\ sweeps[m].stored <= Len(sweeps[m].taken) /\ sweeps[m] \in SweepType
  BY DEF TypeOK, Taken
<1>1. ASSUME NEW n \in Sweeps, StartBackup(n) \/ StartMonitor(n) \/ LoadCheck(n) PROVE TypeOK'
  <2>1. PICK kind \in Kinds, S \in SUBSET Devices : Begun(n, kind, S)
    BY <1>1, Begins
  <2>2. Chosen(kind, S).todo \subseteq Chosen(kind, S).selected
        /\ Chosen(kind, S).stored <= Len(Chosen(kind, S).taken)
    BY ChosenTyped
  <2>3. QED
    BY <2>1, <2>2, ChosenTyped, SweepTyped DEF Begun, TypeOK
<1>2. ASSUME NEW n \in Sweeps, StartCheck(n) PROVE TypeOK'
  <2> DEFINE s == [Unused EXCEPT !.kind = "check", !.state = "loading"]
  <2>1. /\ s \in SweepType /\ s.todo = {} /\ s.stored = 0 /\ s.taken = <<>>
    BY Beginnings DEF SweepType, Kinds
  <2>2. sweeps' = [sweeps EXCEPT ![n] = s]
    BY <1>2 DEF StartCheck
  <2> HIDE DEF s
  <2>3. s.stored <= Len(s.taken) /\ s.todo \subseteq s.selected
    BY <2>1
  <2>4. QED
    BY <1>2, <2>1, <2>2, <2>3, SweepTyped DEF StartCheck, TypeOK
<1>v. \* A sweep is over.
      ASSUME NEW n \in Sweeps, Over(n)
      PROVE  /\ sweeps' \in [Sweeps -> SweepType]
             /\ \A m \in Sweeps :
                    sweeps'[m].todo \subseteq sweeps'[m].selected /\ sweeps'[m].stored <= Len(Taken(m)')
  <2> DEFINE s == [sweeps[n] EXCEPT !.state = "over"]
  <2>1. s \in SweepType /\ s.todo = sweeps[n].todo /\ s.selected = sweeps[n].selected
        /\ s.stored = sweeps[n].stored /\ s.taken = sweeps[n].taken
    BY <1>s DEF SweepType
  <2>2. sweeps' = [sweeps EXCEPT ![n] = s]
    BY <1>v DEF Over
  <2> HIDE DEF s
  <2>3. QED
    BY <1>s, <2>1, <2>2, SweepTyped
<1>3. ASSUME NEW n \in Sweeps, LoadFails(n) PROVE TypeOK'
  BY <1>3, <1>v DEF LoadFails, TypeOK
<1>4. ASSUME NEW n \in Sweeps, Spawn(n) PROVE TypeOK'
  <2>1. PICK d \in sweeps[n].todo :
            /\ sweeps' = [sweeps EXCEPT ![n].todo = @ \ {d}]
            /\ tasks' = [tasks EXCEPT ![<<n, d>>] =
                   [NoTask EXCEPT !.stage = IF Policy = "off" THEN "working" ELSE "verifying"]]
    BY <1>4 DEF Spawn
  <2> DEFINE s == [sweeps[n] EXCEPT !.todo = @ \ {d}]
             task == [NoTask EXCEPT !.stage = IF Policy = "off" THEN "working" ELSE "verifying"]
  <2>2. s \in SweepType /\ s.todo \subseteq s.selected
        /\ s.stored = sweeps[n].stored /\ s.taken = sweeps[n].taken
    BY <1>s DEF SweepType
  <2>3. task \in TaskType
    BY DEF NoTask, TaskType, Stages
  <2>4. sweeps' = [sweeps EXCEPT ![n] = s] /\ tasks' = [tasks EXCEPT ![<<n, d>>] = task]
    BY <2>1
  <2> HIDE DEF s, task
  <2>5. tasks' \in [Tasks -> TaskType]
    BY <2>3, <2>4 DEF TypeOK
  <2>6. /\ sweeps' \in [Sweeps -> SweepType]
        /\ \A m \in Sweeps :
               sweeps'[m].todo \subseteq sweeps'[m].selected /\ sweeps'[m].stored <= Len(Taken(m)')
    BY <1>s, <2>2, <2>4, SweepTyped
  <2>7. QED
    BY <1>4, <2>5, <2>6 DEF Spawn, TypeOK
<1>5. ASSUME NEW n \in Sweeps, EndSweep(n) PROVE TypeOK'
  <2>1. /\ sweeps' \in [Sweeps -> SweepType]
        /\ \A m \in Sweeps :
               sweeps'[m].todo \subseteq sweeps'[m].selected /\ sweeps'[m].stored <= Len(Taken(m)')
    <3>1. CASE sweeps' = [sweeps EXCEPT ![n].state = "over", ![n].report = InOrder(@)]
      <4> DEFINE s == [sweeps[n] EXCEPT !.state = "over", !.report = InOrder(@)]
      <4>1. InOrder(sweeps[n].report) \in Seq(Devices)
        BY <1>s, ReportOrder DEF AllParted, Parted, SweepType
      <4>2. s \in SweepType /\ s.todo = sweeps[n].todo /\ s.selected = sweeps[n].selected
            /\ s.stored = sweeps[n].stored /\ s.taken = sweeps[n].taken
        BY <1>s, <4>1 DEF SweepType
      <4>3. sweeps' = [sweeps EXCEPT ![n] = s]
        BY <3>1 DEF TypeOK
      <4> HIDE DEF s
      <4>4. QED
        BY <1>s, <4>2, <4>3, SweepTyped
    <3>2. CASE sweeps' = [sweeps EXCEPT ![n].state = "storing"]
      <4> DEFINE s == [sweeps[n] EXCEPT !.state = "storing"]
      <4>1. s \in SweepType /\ s.todo = sweeps[n].todo /\ s.selected = sweeps[n].selected
            /\ s.stored = sweeps[n].stored /\ s.taken = sweeps[n].taken
        BY <1>s DEF SweepType
      <4>2. sweeps' = [sweeps EXCEPT ![n] = s]
        BY <3>2
      <4> HIDE DEF s
      <4>3. QED
        BY <1>s, <4>1, <4>2, SweepTyped
    <3>3. CASE Over(n)
      BY <1>v, <3>3
    <3>4. QED
      BY <1>5, <3>1, <3>2, <3>3 DEF EndSweep
  <2>2. checks' \in BOOLEAN
    BY <1>5 DEF EndSweep, TypeOK
  <2>3. QED
    BY <1>5, <2>1, <2>2 DEF EndSweep, TypeOK
<1>6. ASSUME NEW n \in Sweeps, InsertSample(n) PROVE TypeOK'
  <2>1. CASE Over(n) /\ UNCHANGED samples
    BY <1>6, <1>v, <2>1 DEF InsertSample, TypeOK
  <2>2. CASE ~(Over(n) /\ UNCHANGED samples)
    <3> DEFINE d == Taken(n)[sweeps[n].stored + 1]
               s == [sweeps[n] EXCEPT !.stored = @ + 1]
    <3>1. /\ sweeps[n].stored < Len(Taken(n)) /\ d \in fleet
          /\ samples' = samples \cup {<<n, d>>}
          /\ sweeps' = [sweeps EXCEPT ![n] = s]
      BY <1>6, <2>2 DEF InsertSample
    <3>2. s \in SweepType /\ s.todo = sweeps[n].todo /\ s.selected = sweeps[n].selected
          /\ s.stored = sweeps[n].stored + 1 /\ s.taken = sweeps[n].taken
      BY <1>s DEF SweepType
    <3>3. sweeps[n].stored + 1 <= Len(sweeps[n].taken)
      <4>1. sweeps[n].stored \in Nat /\ Len(sweeps[n].taken) \in Nat
        BY <1>s DEF SweepType
      <4>2. QED
        BY <3>1, <4>1 DEF Taken
    <3> HIDE DEF s, d
    <3>4. /\ sweeps' \in [Sweeps -> SweepType]
          /\ \A m \in Sweeps :
                 sweeps'[m].todo \subseteq sweeps'[m].selected /\ sweeps'[m].stored <= Len(Taken(m)')
      BY <1>s, <3>1, <3>2, <3>3, SweepTyped
    <3>5. samples' \subseteq Sweeps \X fleet
      BY <3>1 DEF TypeOK
    <3>6. QED
      BY <1>6, <3>4, <3>5 DEF InsertSample, TypeOK
  <2>3. QED
    BY <1>6, <2>1, <2>2 DEF InsertSample
<1>7. ASSUME NEW t \in Tasks, ReadHosts(t) \/ WriteHosts(t) \/ HostsWritten(t) PROVE TypeOK'
  <2>1. tasks[t] \in TaskType /\ t[2] \in Devices /\ known \in SUBSET Devices
    BY Tasked DEF TypeOK
  <2>2. /\ [tasks[t] EXCEPT !.stage = "working"] \in TaskType
        /\ [tasks[t] EXCEPT !.stage = "writing"] \in TaskType
        /\ [tasks[t] EXCEPT !.stage = "pinning", !.seen = known] \in TaskType
        /\ [tasks[t] EXCEPT !.stage = "working", !.seen = {}] \in TaskType
    BY <2>1 DEF TaskType, Stages
  <2>3. tasks' \in [Tasks -> TaskType]
    <3>1. CASE ReadHosts(t)
      BY <2>2, <3>1 DEF ReadHosts, Proceeds, TypeOK
    <3>2. CASE WriteHosts(t)
      BY <2>2, <3>2 DEF WriteHosts, Proceeds, TypeOK
    <3>3. CASE HostsWritten(t)
      BY <2>2, <3>3 DEF HostsWritten, TypeOK
    <3>4. QED
      BY <1>7, <3>1, <3>2, <3>3
  <2>4. known' \subseteq Devices /\ settled' \subseteq Devices /\ torn' \in BOOLEAN
    BY <1>7, <1>h, <2>1 DEF ReadHosts, WriteHosts, HostsWritten, Extended, TaskType, TypeOK
  <2>5. QED
    BY <1>7, <1>u, <2>3, <2>4 DEF ReadHosts, WriteHosts, HostsWritten, TypeOK
<1>8. ASSUME NEW t \in Tasks, Timeout(t) \/ \E ok \in BOOLEAN : ThreadEnds(t, ok) PROVE TypeOK'
  <2>1. Leaves(t)
    BY <1>8, Leaving
  <2>2. /\ sweeps' \in [Sweeps -> SweepType]
        /\ \A m \in Sweeps :
               sweeps'[m].todo \subseteq sweeps'[m].selected /\ sweeps'[m].stored <= Len(Taken(m)')
        /\ updates' \in [Devices -> UpdateType \cup {None}]
        /\ good' \in [Devices -> GoodType \cup {None}]
    <3>1. CASE UNCHANGED <<sweeps, updates, good>>
      BY <1>u, <3>1 DEF TypeOK
    <3>2. CASE ~UNCHANGED <<sweeps, updates, good>>
      <4>1. PICK ok \in BOOLEAN, answer \in Answers \cup {None} :
                /\ sweeps[t[1]].kind = "check" => (ok <=> answer \in Answers)
                /\ Deliver(t[1], t[2], ok, answer)
        BY <1>8, <3>2, Leaving
      <4>2. t[1] \in Sweeps /\ t[2] \in Devices
        BY Tasked
      <4>3. QED
        BY <4>1, <4>2, Delivered
    <3>3. QED
      BY <3>1, <3>2
  <2>3. tasks' \in [Tasks -> TaskType]
    <3>1. [tasks[t] EXCEPT !.orphan = TRUE] \in TaskType
      BY DEF TypeOK, TaskType
    <3>2. \/ tasks' = [tasks EXCEPT ![t] = NoTask]
          \/ tasks' = [tasks EXCEPT ![t] = [tasks[t] EXCEPT !.orphan = TRUE]]
      BY <2>1 DEF Leaves
    <3>3. QED
      BY <3>1, <3>2, Beginnings DEF TypeOK
  <2>4. settled' \subseteq Devices /\ torn' \in BOOLEAN
    <3>1. tasks'[t].orphan \in BOOLEAN
      BY <2>3 DEF TaskType
    <3>2. settled' \subseteq Devices
      BY <1>h, <2>1 DEF Leaves, TypeOK
    <3>3. QED
      BY <2>1, <3>1, <3>2 DEF Leaves, TypeOK
  <2>5. QED
    BY <2>1, <2>2, <2>3, <2>4 DEF Leaves, TypeOK
<1>9. ASSUME NEW d \in Named, DeleteDevice(d) PROVE TypeOK'
  <2>1. \A x \in samples : x[2] # d => x \in Sweeps \X (fleet \ {d})
    BY DEF TypeOK
  <2>2. samples' \subseteq Sweeps \X fleet'
    BY <1>9, <2>1 DEF DeleteDevice
  <2>3. QED
    BY <1>9, <1>e, <1>u, <2>2 DEF DeleteDevice, TypeOK
<1>10. CASE ServerStops
  <2>1. [Unused EXCEPT !.state = "killed"] \in SweepType
        /\ [Unused EXCEPT !.state = "killed"].todo = {}
        /\ [Unused EXCEPT !.state = "killed"].stored <= Len([Unused EXCEPT !.state = "killed"].taken)
    BY Beginnings DEF SweepType
  <2> DEFINE killed == [Unused EXCEPT !.state = "killed"]
  <2> HIDE DEF killed
  <2>2. sweeps' = [n \in Sweeps |-> IF On(n) THEN killed ELSE sweeps[n]]
    BY <1>10 DEF ServerStops, killed
  <2>3. /\ sweeps' \in [Sweeps -> SweepType]
        /\ \A m \in Sweeps :
               sweeps'[m].todo \subseteq sweeps'[m].selected /\ sweeps'[m].stored <= Len(Taken(m)')
    BY <1>s, <2>1, <2>2 DEF Taken, killed
  <2>4. tasks' \in [Tasks -> TaskType]
    BY <1>10, Beginnings DEF ServerStops
  <2>5. QED
    BY <1>10, <1>e, <1>h, <2>3, <2>4 DEF ServerStops, TypeOK
<1>11. CASE UNCHANGED vars
  BY <1>11, <1>u DEF vars, TypeOK
<1>12. QED
  BY <1>1, <1>2, <1>3, <1>4, <1>5, <1>6, <1>7, <1>8, <1>9, <1>10, <1>11 DEF Next, Sweep

-----------------------------------------------------------------------------
(* Kinds, states and the flag *)

\* Nothing that these invariants look at.
Steady ==
    /\ checks' = checks
    /\ \A m \in Sweeps :
        /\ sweeps'[m].kind = sweeps[m].kind /\ sweeps'[m].state = sweeps[m].state
        /\ sweeps'[m].selected = sweeps[m].selected /\ sweeps'[m].stored = sweeps[m].stored

LEMMA ControlSteps ==
    ASSUME TypeOK, [Next]_vars
    PROVE  \/ Steady
           \/ \E n \in Sweeps :
                  \/ StartCheck(n) \/ LoadFails(n) \/ EndSweep(n) \/ InsertSample(n)
                  \/ \E kind \in Kinds, S \in SUBSET Devices : Begun(n, kind, S)
           \/ ServerStops
<1>1. ASSUME NEW n \in Sweeps, Spawn(n) PROVE Steady
  BY <1>1 DEF Spawn, Steady, TypeOK, SweepType
<1>2. ASSUME NEW t \in Tasks, Timeout(t) \/ \E ok \in BOOLEAN : ThreadEnds(t, ok) PROVE Steady
  <2>1. checks' = checks
    BY <1>2, Leaving DEF Leaves
  <2>2. CASE UNCHANGED sweeps
    BY <2>1, <2>2 DEF Steady
  <2>3. CASE ~UNCHANGED sweeps
    <3>1. PICK ok \in BOOLEAN, answer \in Answers \cup {None} :
              /\ sweeps[t[1]].kind = "check" => (ok <=> answer \in Answers)
              /\ Deliver(t[1], t[2], ok, answer)
      BY <1>2, <2>3, Leaving
    <3>2. t[1] \in Sweeps /\ t[2] \in Devices
      BY Tasked
    <3> DEFINE s == Reports(t[1], t[2], ok)
    <3>3. /\ sweeps' = [sweeps EXCEPT ![t[1]] = s] /\ s.kind = sweeps[t[1]].kind
          /\ s.state = sweeps[t[1]].state /\ s.selected = sweeps[t[1]].selected
          /\ s.stored = sweeps[t[1]].stored
      BY <3>1, <3>2, Delivered
    <3> HIDE DEF s
    <3>4. QED
      BY <2>1, <3>3 DEF Steady, TypeOK
  <2>4. QED
    BY <2>2, <2>3
<1>3. ASSUME NEW t \in Tasks, ReadHosts(t) \/ WriteHosts(t) \/ HostsWritten(t) PROVE Steady
  BY <1>3 DEF ReadHosts, WriteHosts, HostsWritten, Steady
<1>4. \A d : DeleteDevice(d) => Steady
  BY DEF DeleteDevice, Steady
<1>5. UNCHANGED vars => Steady
  BY DEF vars, Steady
<1>6. QED
  BY <1>1, <1>2, <1>3, <1>4, <1>5, Begins DEF Next, Sweep

Control == KindsFit /\ OneCheck /\ FlagIsACheck
LEMMA ControlStep == TypeOK /\ Control /\ [Next]_vars => Control'
<1> SUFFICES ASSUME TypeOK, Control, [Next]_vars PROVE Control'
  OBVIOUS
<1> USE DEF Control
<1>n. None \notin Kinds
  BY NoneAssumption
<1>f. \A m \in Sweeps : DOMAIN sweeps = Sweeps /\ sweeps[m] \in SweepType
  BY DEF TypeOK
<1>1. CASE Steady
  <2>1. \A m \in Sweeps : On(m)' <=> On(m)
    BY <1>1 DEF Steady, On
  <2>2. QED
    BY <1>1, <2>1 DEF Steady, KindsFit, OneCheck, FlagIsACheck
<1>2. ASSUME NEW n \in Sweeps, NEW kind \in Kinds, NEW S \in SUBSET Devices, Begun(n, kind, S)
      PROVE  Control'
  <2>1. /\ sweeps'[n].kind = kind /\ sweeps'[n].state = "sweeping" /\ sweeps'[n].stored = 0
        /\ \A m \in Sweeps \ {n} : sweeps'[m] = sweeps[m]
        /\ checks' = checks
    BY <1>2, <1>f, ChosenTyped DEF Begun
  <2>2. On(n)' /\ \A m \in Sweeps \ {n} : On(m)' <=> On(m)
    BY <2>1 DEF On
  <2>3. KindsFit'
    BY <2>1, <2>2 DEF KindsFit
  <2>4. CASE kind = "check"
    <3>1. sweeps[n].kind = "check" /\ On(n)
      BY <1>2, <2>4 DEF Begun, KindsFit, On
    <3>2. OneCheck' /\ FlagIsACheck'
      BY <2>1, <2>2, <2>4, <3>1 DEF OneCheck, FlagIsACheck
    <3>3. QED
      BY <2>3, <3>2
  <2>5. CASE kind # "check"
    <3>1. ~On(n)
      BY <1>2, <2>5 DEF Begun, IsNext, On
    <3>2. OneCheck' /\ FlagIsACheck'
      BY <2>1, <2>2, <2>5, <3>1 DEF OneCheck, FlagIsACheck
    <3>3. QED
      BY <2>3, <3>2
  <2>6. QED
    BY <2>4, <2>5
<1>3. ASSUME NEW n \in Sweeps, StartCheck(n) PROVE Control'
  <2> DEFINE s == [Unused EXCEPT !.kind = "check", !.state = "loading"]
  <2>1. s.kind = "check" /\ s.state = "loading" /\ s.selected = {} /\ s.stored = 0
    BY DEF Unused
  <2>2. sweeps' = [sweeps EXCEPT ![n] = s]
    BY <1>3 DEF StartCheck
  <2> HIDE DEF s
  <2>3. /\ sweeps'[n] = s /\ \A m \in Sweeps \ {n} : sweeps'[m] = sweeps[m]
    BY <1>f, <2>2
  <2>4. On(n)' /\ \A m \in Sweeps \ {n} : On(m)' <=> On(m)
    BY <2>1, <2>3 DEF On
  <2>5. KindsFit'
    BY <2>1, <2>3, <2>4 DEF KindsFit, Kinds
  <2>6. \A m \in Sweeps : sweeps[m].kind = "check" => ~On(m)
    BY <1>3 DEF StartCheck, IsNext
  <2>7. OneCheck'
    BY <2>1, <2>3, <2>4, <2>6 DEF OneCheck
  <2>8. FlagIsACheck'
    BY <1>3, <2>1, <2>3, <2>4 DEF FlagIsACheck, StartCheck
  <2>9. QED
    BY <2>5, <2>7, <2>8
<1>v. \* A sweep is over, and the flag is given back if it was a check.
      ASSUME NEW n \in Sweeps, NEW s, sweeps' = [sweeps EXCEPT ![n] = s],
             s.state = "over", s.kind = sweeps[n].kind,
             On(n), checks' = IF s.kind = "check" THEN FALSE ELSE checks
      PROVE  Control'
  <2>1. sweeps'[n] = s /\ \A m \in Sweeps \ {n} : sweeps'[m] = sweeps[m]
    BY <1>f, <1>v
  <2>2. ~On(n)' /\ \A m \in Sweeps \ {n} : On(m)' <=> On(m)
    BY <1>v, <2>1 DEF On
  <2>3. KindsFit'
    BY <1>v, <2>1, <2>2 DEF KindsFit
  <2>4. OneCheck'
    BY <1>v, <2>1, <2>2 DEF OneCheck
  <2>5. FlagIsACheck'
    <3>1. CASE s.kind = "check"
      BY <1>v, <2>1, <2>2, <3>1 DEF OneCheck, FlagIsACheck
    <3>2. CASE s.kind # "check"
      BY <1>v, <2>1, <2>2, <3>2 DEF FlagIsACheck
    <3>3. QED
      BY <3>1, <3>2
  <2>6. QED
    BY <2>3, <2>4, <2>5
<1>4. ASSUME NEW n \in Sweeps, LoadFails(n) PROVE Control'
  <2> DEFINE s == [sweeps[n] EXCEPT !.state = "over"]
  <2>1. s.state = "over" /\ s.kind = sweeps[n].kind /\ s.kind = "check" /\ On(n)
    BY <1>4, <1>f DEF LoadFails, KindsFit, On, SweepType
  <2>2. sweeps' = [sweeps EXCEPT ![n] = s] /\ checks' = FALSE
    BY <1>4 DEF LoadFails, Over
  <2> HIDE DEF s
  <2>3. QED
    BY <1>v, <2>1, <2>2
<1>5. ASSUME NEW n \in Sweeps, EndSweep(n) PROVE Control'
  <2>1. On(n) /\ sweeps[n].state = "sweeping" /\ sweeps[n].kind \in Kinds /\ sweeps[n].stored = 0
    BY <1>5 DEF EndSweep, Swept, On, KindsFit
  <2>2. CASE /\ sweeps[n].kind = "backup" /\ checks' = checks
             /\ sweeps' = [sweeps EXCEPT ![n].state = "over", ![n].report = InOrder(@)]
    <3> DEFINE s == [sweeps[n] EXCEPT !.state = "over", !.report = InOrder(@)]
    <3>1. s.state = "over" /\ s.kind = "backup"
      BY <1>f, <2>2 DEF SweepType
    <3>2. sweeps' = [sweeps EXCEPT ![n] = s]
      BY <1>f, <2>2
    <3> HIDE DEF s
    <3>3. QED
      BY <1>v, <2>1, <2>2, <3>1, <3>2
  <2>3. CASE /\ sweeps[n].kind = "monitor" /\ checks' = checks
             /\ sweeps' = [sweeps EXCEPT ![n].state = "storing"]
    <3>1. /\ sweeps'[n].kind = "monitor" /\ sweeps'[n].state = "storing"
          /\ \A m \in Sweeps \ {n} : sweeps'[m] = sweeps[m]
      BY <1>f, <2>3 DEF SweepType
    <3>2. On(n)' /\ \A m \in Sweeps \ {n} : On(m)' <=> On(m)
      BY <3>1 DEF On
    <3>3. KindsFit'
      BY <3>1, <3>2 DEF KindsFit, Kinds
    <3>4. OneCheck' /\ FlagIsACheck'
      BY <2>3, <3>1, <3>2 DEF OneCheck, FlagIsACheck
    <3>5. QED
      BY <3>3, <3>4
  <2>4. CASE sweeps[n].kind = "check" /\ Over(n) /\ checks' = FALSE
    <3> DEFINE s == [sweeps[n] EXCEPT !.state = "over"]
    <3>1. s.state = "over" /\ s.kind = "check"
      BY <1>f, <2>4 DEF SweepType
    <3>2. sweeps' = [sweeps EXCEPT ![n] = s]
      BY <2>4 DEF Over
    <3> HIDE DEF s
    <3>3. QED
      BY <1>v, <2>1, <2>4, <3>1, <3>2
  <2>5. QED
    BY <1>5, <2>2, <2>3, <2>4 DEF EndSweep
<1>6. ASSUME NEW n \in Sweeps, InsertSample(n) PROVE Control'
  <2>1. On(n) /\ sweeps[n].kind = "monitor" /\ sweeps[n].state = "storing" /\ checks' = checks
    BY <1>6 DEF InsertSample, On, KindsFit
  <2>2. CASE Over(n)
    <3> DEFINE s == [sweeps[n] EXCEPT !.state = "over"]
    <3>1. s.state = "over" /\ s.kind = "monitor"
      BY <1>f, <2>1 DEF SweepType
    <3>2. sweeps' = [sweeps EXCEPT ![n] = s]
      BY <2>2 DEF Over
    <3> HIDE DEF s
    <3>3. QED
      BY <1>v, <2>1, <3>1, <3>2
  <2>3. CASE sweeps' = [sweeps EXCEPT ![n].stored = @ + 1]
    <3>1. \A m \in Sweeps :
              /\ sweeps'[m].kind = sweeps[m].kind /\ sweeps'[m].state = sweeps[m].state
              /\ sweeps'[m].selected = sweeps[m].selected
              /\ m # n => sweeps'[m] = sweeps[m]
      BY <1>f, <2>3 DEF SweepType
    <3>2. \A m \in Sweeps : On(m)' <=> On(m)
      BY <3>1 DEF On
    <3>3. KindsFit'
      BY <2>1, <3>1, <3>2 DEF KindsFit
    <3>4. OneCheck' /\ FlagIsACheck'
      BY <2>1, <3>1, <3>2 DEF OneCheck, FlagIsACheck
    <3>5. QED
      BY <3>3, <3>4
  <2>4. QED
    BY <1>6, <2>2, <2>3 DEF InsertSample
<1>7. CASE ServerStops
  <2> DEFINE killed == [Unused EXCEPT !.state = "killed"]
  <2>1. killed.state = "killed" /\ killed.stored = 0
    BY DEF Unused
  <2>2. checks' = FALSE /\ sweeps' = [m \in Sweeps |-> IF On(m) THEN killed ELSE sweeps[m]]
    BY <1>7 DEF ServerStops
  <2> HIDE DEF killed
  <2>3. \A m \in Sweeps : ~On(m)'
    BY <2>1, <2>2 DEF On
  <2>4. KindsFit'
    BY <2>1, <2>2, <2>3 DEF KindsFit, On
  <2>5. OneCheck' /\ FlagIsACheck'
    BY <2>2, <2>3 DEF OneCheck, FlagIsACheck
  <2>6. QED
    BY <2>4, <2>5
<1>8. QED
  BY <1>1, <1>2, <1>3, <1>4, <1>5, <1>6, <1>7, ControlSteps

-----------------------------------------------------------------------------
(* Every device once *)

\* The fields of a sweep and the threads that Parted looks at are as they were.
LEMMA PartedSame ==
    ASSUME NEW n \in Sweeps, Parted(n),
           sweeps'[n].selected = sweeps[n].selected, sweeps'[n].todo = sweeps[n].todo,
           sweeps'[n].report = sweeps[n].report,
           sweeps'[n].state # "sweeping" => Awaited(n) = {},
           \A d \in Devices : /\ tasks'[<<n, d>>].orphan = tasks[<<n, d>>].orphan
                              /\ Running(<<n, d>>)' <=> Running(<<n, d>>)
    PROVE  Parted(n)'
<1>1. Awaited(n)' = Awaited(n) /\ Reported(n)' = Reported(n)
  BY DEF Awaited, Reported
<1>2. QED
  BY <1>1 DEF Parted

LEMMA AwaitedFinite ==
    \A n : IsFiniteSet(Awaited(n)) /\ Cardinality(Awaited(n)) \in Nat
<1>1. \A n : Awaited(n) \in SUBSET Devices
  BY DEF Awaited
<1>2. IsFiniteSet(Devices)
  BY FleetSweepAssumption
<1>3. QED
  BY <1>1, <1>2, FS_Subset, FS_CardinalityType

\* A sweep with nothing selected has no thread.
LEMMA Empty ==
    ASSUME NEW n \in Sweeps, TypeOK, Parted(n), sweeps[n].selected = {}
    PROVE  /\ Awaited(n) = {} /\ Reported(n) = {}
           /\ \A d \in Devices : ~tasks[<<n, d>>].orphan /\ ~Running(<<n, d>>)
BY DEF Parted, Awaited

LEMMA PartedStep == TypeOK /\ KindsFit /\ AllParted /\ [Next]_vars => AllParted'
<1> SUFFICES ASSUME TypeOK, KindsFit, AllParted, [Next]_vars PROVE AllParted'
  OBVIOUS
<1>f. \A m \in Sweeps : DOMAIN sweeps = Sweeps /\ sweeps[m] \in SweepType /\ Parted(m)
  BY DEF TypeOK, AllParted
<1>k. \A t \in Tasks : DOMAIN tasks = Tasks /\ tasks[t] \in TaskType
  BY DEF TypeOK
<1>e. Cardinality({}) = 0 /\ Concurrency \in Nat
  BY FS_EmptySet, FleetSweepAssumption
<1>s. \* Nothing it looks at changes.
      ASSUME \A m \in Sweeps :
                 /\ sweeps'[m].selected = sweeps[m].selected /\ sweeps'[m].todo = sweeps[m].todo
                 /\ sweeps'[m].report = sweeps[m].report /\ sweeps'[m].state = sweeps[m].state,
             \A t \in Tasks : /\ tasks'[t].orphan = tasks[t].orphan
                              /\ Running(t)' <=> Running(t)
      PROVE  AllParted'
  <2> SUFFICES ASSUME NEW m \in Sweeps PROVE Parted(m)'
    BY DEF AllParted
  <2>1. \A d \in Devices : <<m, d>> \in Tasks
    BY Tasked
  <2>2. sweeps[m].state # "sweeping" => Awaited(m) = {}
    BY <1>f DEF Parted
  <2>3. QED
    BY <1>f, <1>s, <2>1, <2>2, PartedSame
<1>o. \* Only the sweep n changes, and its threads do not.
      ASSUME NEW n \in Sweeps, NEW s, sweeps' = [sweeps EXCEPT ![n] = s],
             \A t \in Tasks : t[1] # n => tasks'[t] = tasks[t],
             Parted(n)'
      PROVE  AllParted'
  <2> SUFFICES ASSUME NEW m \in Sweeps, m # n PROVE Parted(m)'
    BY <1>o DEF AllParted
  <2>1. sweeps'[m] = sweeps[m]
    BY <1>f, <1>o
  <2>2. \A d \in Devices : tasks'[<<m, d>>] = tasks[<<m, d>>]
    BY <1>o, Tasked
  <2>3. \A d \in Devices : Running(<<m, d>>)' <=> Running(<<m, d>>)
    BY <2>2 DEF Running
  <2>4. sweeps[m].state # "sweeping" => Awaited(m) = {}
    BY <1>f DEF Parted
  <2>5. QED
    BY <1>f, <2>1, <2>2, <2>3, <2>4, PartedSame
<1>b. \* The sweep begins, with nothing reported and no thread.
      ASSUME NEW n \in Sweeps, NEW s, sweeps' = [sweeps EXCEPT ![n] = s], tasks' = tasks,
             s.todo = s.selected, s.report = <<>>, sweeps[n].selected = {}
      PROVE  AllParted'
  <2>1. sweeps'[n] = s
    BY <1>b, <1>f
  <2>2. \A d \in Devices : ~tasks[<<n, d>>].orphan /\ ~Running(<<n, d>>)
    BY <1>b, <1>f, Empty
  <2>3. Awaited(n)' = {} /\ Reported(n)' = {}
    BY <1>b, <2>1, <2>2 DEF Awaited, Reported, Running
  <2>4. Parted(n)'
    BY <1>b, <1>e, <2>1, <2>2, <2>3 DEF Parted
  <2>5. QED
    BY <1>b, <1>o, <2>4
<1>1. ASSUME NEW n \in Sweeps, StartBackup(n) \/ StartMonitor(n) \/ LoadCheck(n) PROVE AllParted'
  <2>1. PICK kind \in Kinds, S \in SUBSET Devices : Begun(n, kind, S)
    BY <1>1, Begins
  <2>2. sweeps[n].selected = {} /\ tasks' = tasks
    BY <2>1 DEF Begun, KindsFit
  <2>3. QED
    <3>1. sweeps' = [sweeps EXCEPT ![n] = Chosen(kind, S)]
      BY <2>1 DEF Begun
    <3>2. /\ Chosen(kind, S).todo = Chosen(kind, S).selected
          /\ Chosen(kind, S).report = <<>>
      BY ChosenTyped
    <3>3. QED
      BY <1>b, <2>2, <3>1, <3>2
<1>2. ASSUME NEW n \in Sweeps, StartCheck(n) PROVE AllParted'
  <2> DEFINE s == [Unused EXCEPT !.kind = "check", !.state = "loading"]
  <2>1. s.todo = s.selected /\ s.report = <<>>
    BY DEF Unused
  <2>2. sweeps' = [sweeps EXCEPT ![n] = s] /\ tasks' = tasks /\ sweeps[n].selected = {}
    BY <1>2 DEF StartCheck, IsNext, KindsFit
  <2> HIDE DEF s
  <2>3. QED
    BY <1>b, <2>1, <2>2
<1>v. \* A sweep without threads is over, or about to store.
      ASSUME NEW n \in Sweeps, NEW s, sweeps' = [sweeps EXCEPT ![n] = s], tasks' = tasks,
             s.todo = sweeps[n].todo, s.selected = sweeps[n].selected,
             s.report = sweeps[n].report, Awaited(n) = {}
      PROVE  AllParted'
  <2>1. sweeps'[n] = s
    BY <1>f, <1>v
  <2>2. \A d \in Devices : Running(<<n, d>>)' <=> Running(<<n, d>>)
    BY <1>v DEF Running
  <2>3. Parted(n)'
    BY <1>f, <1>v, <2>1, <2>2, PartedSame
  <2>4. QED
    BY <1>o, <1>v, <2>3
<1>w. \A n \in Sweeps : Over(n) /\ tasks' = tasks /\ Awaited(n) = {} => AllParted'
  <2> SUFFICES ASSUME NEW n \in Sweeps, Over(n), tasks' = tasks, Awaited(n) = {} PROVE AllParted'
    OBVIOUS
  <2> DEFINE s == [sweeps[n] EXCEPT !.state = "over"]
  <2>1. s.todo = sweeps[n].todo /\ s.selected = sweeps[n].selected /\ s.report = sweeps[n].report
    BY <1>f DEF SweepType
  <2>2. sweeps' = [sweeps EXCEPT ![n] = s]
    BY DEF Over
  <2> HIDE DEF s
  <2>3. QED
    BY <1>v, <2>1, <2>2
<1>3. ASSUME NEW n \in Sweeps, LoadFails(n) PROVE AllParted'
  <2>1. Over(n) /\ tasks' = tasks /\ Awaited(n) = {}
    BY <1>3, <1>f DEF LoadFails, Parted
  <2>2. QED
    BY <1>w, <2>1
<1>4. ASSUME NEW n \in Sweeps, Spawn(n) PROVE AllParted'
  <2> DEFINE task == [NoTask EXCEPT !.stage = IF Policy = "off" THEN "working" ELSE "verifying"]
  <2>1. PICK d \in sweeps[n].todo :
            /\ sweeps' = [sweeps EXCEPT ![n].todo = @ \ {d}]
            /\ tasks' = [tasks EXCEPT ![<<n, d>>] = task]
    BY <1>4 DEF Spawn
  <2>2. task.stage \in Stages /\ task.orphan = FALSE
    BY DEF NoTask, Stages
  <2> HIDE DEF task
  <2>3. /\ sweeps'[n].todo = sweeps[n].todo \ {d} /\ sweeps'[n].selected = sweeps[n].selected
        /\ sweeps'[n].report = sweeps[n].report /\ sweeps'[n].state = "sweeping"
    BY <1>4, <1>f, <2>1 DEF SweepType, Spawn
  <2>4. d \in Devices /\ <<n, d>> \in Tasks
    BY <1>f, <2>1, Tasked DEF SweepType
  <2>5. /\ tasks'[<<n, d>>] = task
        /\ \A e \in Devices \ {d} : tasks'[<<n, e>>] = tasks[<<n, e>>]
    BY <1>k, <2>1, <2>4, Tasked
  <2>6. Awaited(n)' = Awaited(n) \cup {d}
    <3>1. Running(<<n, d>>)' /\ ~tasks'[<<n, d>>].orphan
      BY <2>2, <2>5 DEF Running
    <3>2. \A e \in Devices \ {d} : Running(<<n, e>>)' <=> Running(<<n, e>>)
      BY <2>5 DEF Running
    <3>3. QED
      BY <2>4, <2>5, <3>1, <3>2 DEF Awaited
  <2>7. Reported(n)' = Reported(n)
    BY <2>3 DEF Reported
  <2>8. Cardinality(Awaited(n)') <= Concurrency
    <3>1. Cardinality(Awaited(n)) < Concurrency
      BY <1>4 DEF Spawn
    <3>2. IsFiniteSet(Awaited(n)) /\ Cardinality(Awaited(n)) \in Nat
      BY AwaitedFinite
    <3>3. Cardinality(Awaited(n) \cup {d}) =
              IF d \in Awaited(n) THEN Cardinality(Awaited(n)) ELSE Cardinality(Awaited(n)) + 1
      BY <3>2, FS_AddElement
    <3>4. QED
      BY <1>e, <2>6, <3>1, <3>2, <3>3
  <2>9. \A e \in Devices : tasks'[<<n, e>>].orphan =>
            Running(<<n, e>>)' /\ e \in Reported(n)'
    BY <1>f, <2>2, <2>5, <2>7 DEF Parted, Running
  <2>10. /\ sweeps'[n].selected = sweeps'[n].todo \cup Awaited(n)' \cup Reported(n)'
         /\ sweeps'[n].todo \cap (Awaited(n)' \cup Reported(n)') = {}
         /\ Awaited(n)' \cap Reported(n)' = {}
    BY <1>f, <2>1, <2>3, <2>6, <2>7 DEF Parted
  <2>11. Parted(n)'
    BY <1>f, <2>3, <2>8, <2>9, <2>10 DEF Parted
  <2>12. \A t \in Tasks : t[1] # n => tasks'[t] = tasks[t]
    BY <1>k, <2>1, <2>4
  <2>13. sweeps' = [sweeps EXCEPT ![n] = sweeps'[n]]
    BY <1>f, <2>1
  <2>14. QED
    BY <1>o, <2>11, <2>12, <2>13
<1>5. ASSUME NEW n \in Sweeps, EndSweep(n) PROVE AllParted'
  <2>1. tasks' = tasks /\ Awaited(n) = {}
    BY <1>5 DEF EndSweep, Swept
  <2>2. CASE sweeps' = [sweeps EXCEPT ![n].state = "over", ![n].report = InOrder(@)]
    <3> DEFINE s == [sweeps[n] EXCEPT !.state = "over", !.report = InOrder(@)]
               r == sweeps[n].report
    <3>1. /\ s.todo = sweeps[n].todo /\ s.selected = sweeps[n].selected
          /\ s.report = InOrder(r) /\ s.state = "over"
      BY <1>f DEF SweepType
    <3>2. sweeps' = [sweeps EXCEPT ![n] = s]
      BY <1>f, <2>2
    <3> HIDE DEF s
    <3>3. sweeps'[n] = s
      BY <1>f, <3>2
    <3>4. r \in Seq(Devices) /\ \A i, j \in DOMAIN r : r[i] = r[j] => i = j
      BY <1>f DEF Parted, SweepType
    <3> HIDE DEF r
    <3>5. /\ InOrder(r) \in Seq(Devices) /\ Len(InOrder(r)) = Len(r)
          /\ \A i \in DOMAIN r : \E j \in DOMAIN r : InOrder(r)[i] = r[j]
          /\ \A j \in DOMAIN r : \E i \in DOMAIN r : InOrder(r)[i] = r[j]
          /\ \A i, j \in DOMAIN r : i < j => InOrder(r)[i] < InOrder(r)[j]
      BY <3>4, ReportOrder
    <3>6. DOMAIN InOrder(r) = DOMAIN r /\ DOMAIN r = 1..Len(r) /\ Len(r) \in Nat
          /\ \A i \in DOMAIN r : InOrder(r)[i] \in Devices
      BY <3>4, <3>5
    <3>7. Reported(n)' = Reported(n)
      <4>1. Reported(n)' = {InOrder(r)[i] : i \in DOMAIN r} /\ Reported(n) = {r[i] : i \in DOMAIN r}
        BY <3>1, <3>3, <3>6 DEF Reported, r
      <4>2. \A i \in DOMAIN r : InOrder(r)[i] \in Reported(n) /\ r[i] \in Reported(n)'
        BY <3>5, <4>1
      <4>3. (\A x \in Reported(n)' : x \in Reported(n)) /\ (\A x \in Reported(n) : x \in Reported(n)')
        BY <4>1, <4>2
      <4>4. QED
        BY <4>3
    <3>8. \A i, j \in DOMAIN r : InOrder(r)[i] = InOrder(r)[j] => i = j
      <4>1. \A i \in DOMAIN r : InOrder(r)[i] \in Nat
        BY <3>6, FleetSweepAssumption
      <4>2. \A i, j \in DOMAIN r : i < j => InOrder(r)[i] # InOrder(r)[j]
        <5>1. \A x, y \in Nat : x < y => x # y
          OBVIOUS
        <5>2. QED
          BY <3>5, <4>1, <5>1
      <4>3. \A i, j \in DOMAIN r : i < j \/ j < i \/ i = j
        BY <3>6
      <4>4. QED
        BY <4>2, <4>3
    <3>9. Awaited(n)' = Awaited(n) /\ \A d \in Devices : Running(<<n, d>>)' <=> Running(<<n, d>>)
      BY <2>1 DEF Awaited, Running
    <3>10. Parted(n)'
      <4>1. \A i, j \in DOMAIN sweeps'[n].report :
                sweeps'[n].report[i] = sweeps'[n].report[j] => i = j
        BY <3>1, <3>3, <3>6, <3>8
      <4>2. \A d \in Devices : tasks'[<<n, d>>].orphan =>
                Running(<<n, d>>)' /\ d \in Reported(n)'
        BY <1>f, <2>1, <3>7, <3>9 DEF Parted
      <4>3. Awaited(n)' = {} /\ Cardinality(Awaited(n)') <= Concurrency
        BY <1>e, <2>1, <3>9
      <4>4. Reported(n)' = sweeps[n].selected \ sweeps[n].todo
            /\ sweeps[n].todo \subseteq sweeps[n].selected
        BY <1>f, <2>1, <3>7 DEF Parted
      <4>5. QED
        BY <3>1, <3>3, <4>1, <4>2, <4>3, <4>4 DEF Parted
    <3>11. QED
      BY <1>o, <2>1, <3>2, <3>10
  <2>3. CASE sweeps' = [sweeps EXCEPT ![n].state = "storing"]
    <3> DEFINE s == [sweeps[n] EXCEPT !.state = "storing"]
    <3>1. s.todo = sweeps[n].todo /\ s.selected = sweeps[n].selected /\ s.report = sweeps[n].report
      BY <1>f DEF SweepType
    <3>2. sweeps' = [sweeps EXCEPT ![n] = s]
      BY <2>3
    <3> HIDE DEF s
    <3>3. QED
      BY <1>v, <2>1, <3>1, <3>2
  <2>4. CASE Over(n)
    BY <1>w, <2>1, <2>4
  <2>5. QED
    BY <1>5, <2>2, <2>3, <2>4 DEF EndSweep
<1>6. ASSUME NEW n \in Sweeps, InsertSample(n) PROVE AllParted'
  <2>1. tasks' = tasks /\ Awaited(n) = {}
    BY <1>6, <1>f DEF InsertSample, Parted
  <2>2. CASE Over(n)
    BY <1>w, <2>1, <2>2
  <2>3. CASE sweeps' = [sweeps EXCEPT ![n].stored = @ + 1]
    <3> DEFINE s == [sweeps[n] EXCEPT !.stored = @ + 1]
    <3>1. s.todo = sweeps[n].todo /\ s.selected = sweeps[n].selected /\ s.report = sweeps[n].report
      BY <1>f DEF SweepType
    <3>2. sweeps' = [sweeps EXCEPT ![n] = s]
      BY <2>3
    <3> HIDE DEF s
    <3>3. QED
      BY <1>v, <2>1, <3>1, <3>2
  <2>4. QED
    BY <1>6, <2>2, <2>3 DEF InsertSample
<1>7. ASSUME NEW t \in Tasks, ReadHosts(t) \/ WriteHosts(t) \/ HostsWritten(t) PROVE AllParted'
  <2>1. \A u \in Tasks : tasks'[u].orphan = tasks[u].orphan /\ (Running(u)' <=> Running(u))
    <3>1. CASE ReadHosts(t)
      BY <1>k, <3>1 DEF ReadHosts, Proceeds, TaskType, Running, Stages
    <3>2. CASE WriteHosts(t)
      BY <1>k, <3>2 DEF WriteHosts, Proceeds, TaskType, Running, Stages
    <3>3. CASE HostsWritten(t)
      BY <1>k, <3>3 DEF HostsWritten, TaskType, Running, Stages
    <3>4. QED
      BY <1>7, <3>1, <3>2, <3>3
  <2>2. QED
    BY <1>7, <1>s, <2>1 DEF ReadHosts, WriteHosts, HostsWritten
<1>8. ASSUME NEW t \in Tasks, Timeout(t) \/ \E ok \in BOOLEAN : ThreadEnds(t, ok) PROVE AllParted'
  <2> DEFINE n == t[1]
             d == t[2]
  <2>1. n \in Sweeps /\ d \in Devices /\ t = <<n, d>>
    BY Tasked
  <2>2. Leaves(t)
    BY <1>8, Leaving
  <2>3. \A u \in Tasks \ {t} : tasks'[u] = tasks[u]
    BY <1>k, <2>2 DEF Leaves
  <2>4. /\ tasks'[t].orphan => Running(t)'
        /\ ~(Running(t)' /\ ~tasks'[t].orphan)
    <3>1. CASE tasks' = [tasks EXCEPT ![t] = NoTask]
      BY <1>k, <3>1, Beginnings DEF Running, Stages
    <3>2. CASE tasks' = [tasks EXCEPT ![t].orphan = TRUE]
      BY <1>k, <2>2, <3>2 DEF Running, TaskType, Leaves
    <3>3. QED
      BY <2>2, <3>1, <3>2 DEF Leaves
  <2>5. /\ \A e \in Devices \ {d} : tasks'[<<n, e>>] = tasks[<<n, e>>]
        /\ \A e \in Devices \ {d} : Running(<<n, e>>)' <=> Running(<<n, e>>)
    BY <2>1, <2>3, Tasked DEF Running
  <2>6. Awaited(n)' = Awaited(n) \ {d}
    BY <2>1, <2>4, <2>5 DEF Awaited
  <2>7. \A u \in Tasks : u[1] # n => tasks'[u] = tasks[u]
    BY <2>3
  <2>8. CASE tasks[t].orphan /\ UNCHANGED sweeps
    <3>1. tasks'[t].orphan = FALSE
      BY <1>k, <2>2, <2>8, Beginnings DEF Leaves
    <3>2. d \notin Awaited(n)
      BY <2>1, <2>8 DEF Awaited
    <3>3. Awaited(n)' = Awaited(n) /\ Reported(n)' = Reported(n)
      BY <2>6, <2>8, <3>2 DEF Reported
    <3>4. \A e \in Devices : tasks'[<<n, e>>].orphan => Running(<<n, e>>)' /\ e \in Reported(n)'
      BY <1>f, <2>1, <2>5, <3>1, <3>3 DEF Parted
    <3>5. Parted(n)'
      BY <1>f, <2>1, <2>8, <3>3, <3>4 DEF Parted
    <3>6. sweeps' = [sweeps EXCEPT ![n] = sweeps[n]]
      BY <2>8 DEF TypeOK
    <3>7. QED
      BY <1>o, <2>1, <2>7, <3>5, <3>6
  <2>9. CASE ~tasks[t].orphan /\ ~UNCHANGED sweeps
    <3>1. PICK ok \in BOOLEAN, answer \in Answers \cup {None} :
              /\ sweeps[n].kind = "check" => (ok <=> answer \in Answers)
              /\ Deliver(n, d, ok, answer)
      BY <1>8, <2>9, Leaving
    <3> DEFINE s == Reports(n, d, ok)
    <3>2. /\ sweeps' = [sweeps EXCEPT ![n] = s] /\ s.state = sweeps[n].state
          /\ s.selected = sweeps[n].selected /\ s.todo = sweeps[n].todo
          /\ s.report = Append(sweeps[n].report, d)
      BY <2>1, <3>1, Delivered
    <3> HIDE DEF s
    <3>3. sweeps'[n] = s
      BY <1>f, <2>1, <3>2
    <3>4. d \in Awaited(n)
      BY <2>1, <2>2, <2>9 DEF Awaited, Leaves
    <3> DEFINE r == sweeps[n].report
    <3>5. r \in Seq(Devices)
      BY <1>f, <2>1 DEF SweepType
    <3> HIDE DEF r
    <3>6. /\ DOMAIN Append(r, d) = 1..Len(r) + 1 /\ DOMAIN r = 1..Len(r) /\ Len(r) \in Nat
          /\ \A i \in 1..Len(r) : Append(r, d)[i] = r[i]
          /\ Append(r, d)[Len(r) + 1] = d
      BY <2>1, <3>5
    <3>7. Reported(n)' = Reported(n) \cup {d}
      <4>0. sweeps'[n].report = Append(r, d)
        BY <3>2, <3>3 DEF r
      <4>1. Reported(n)' = {Append(r, d)[i] : i \in 1..Len(r) + 1} /\ Reported(n) = {r[i] : i \in 1..Len(r)}
        <5>1. Reported(n)' = {sweeps'[n].report[i] : i \in DOMAIN sweeps'[n].report}
          BY DEF Reported
        <5>2. Reported(n) = {r[i] : i \in DOMAIN r}
          BY DEF Reported, r
        <5>3. QED
          BY <3>6, <4>0, <5>1, <5>2
      <4>2. 1..Len(r) + 1 = 1..Len(r) \cup {Len(r) + 1}
        BY <3>6
      <4>3. QED
        BY <3>6, <4>1, <4>2
    <3>8. \A i, j \in DOMAIN sweeps'[n].report :
              sweeps'[n].report[i] = sweeps'[n].report[j] => i = j
      <4>1. \A i \in 1..Len(r) : r[i] # d
        BY <1>f, <2>1, <3>4, <3>6 DEF Parted, Reported, r
      <4>2. \A i, j \in 1..Len(r) : r[i] = r[j] => i = j
        BY <1>f, <2>1, <3>6 DEF Parted, r
      <4>3. sweeps'[n].report = Append(r, d)
        BY <3>2, <3>3 DEF r
      <4>4. \A i \in 1..Len(r) + 1 : i \in 1..Len(r) \/ i = Len(r) + 1
        BY <3>6
      <4>5. QED
        BY <3>6, <4>1, <4>2, <4>3, <4>4
    <3>9. \A e \in Devices : tasks'[<<n, e>>].orphan => Running(<<n, e>>)' /\ e \in Reported(n)'
      BY <1>f, <2>1, <2>4, <2>5, <3>7 DEF Parted
    <3>10. Cardinality(Awaited(n)') <= Concurrency
      <4>1. /\ Cardinality(Awaited(n) \ {d}) <= Cardinality(Awaited(n))
            /\ Cardinality(Awaited(n) \ {d}) \in Nat /\ Cardinality(Awaited(n)) \in Nat
        BY AwaitedFinite, FS_Subset, FS_CardinalityType
      <4>2. Cardinality(Awaited(n)) <= Concurrency
        BY <1>f, <2>1 DEF Parted
      <4>3. QED
        BY <1>e, <2>6, <4>1, <4>2
    <3>11. Parted(n)'
      <4>1. /\ sweeps'[n].selected = sweeps'[n].todo \cup Awaited(n)' \cup Reported(n)'
            /\ sweeps'[n].todo \cap (Awaited(n)' \cup Reported(n)') = {}
            /\ Awaited(n)' \cap Reported(n)' = {}
        BY <1>f, <2>1, <2>6, <3>2, <3>3, <3>4, <3>7 DEF Parted
      <4>2. sweeps'[n].state # "sweeping" => Awaited(n)' = {}
        BY <1>f, <2>1, <2>6, <3>2, <3>3 DEF Parted
      <4>3. QED
        BY <3>8, <3>9, <3>10, <4>1, <4>2 DEF Parted
    <3>12. QED
      BY <1>o, <2>1, <2>7, <3>2, <3>11
  <2>10. ~tasks[t].orphan => ~UNCHANGED sweeps
    <3> SUFFICES ASSUME ~tasks[t].orphan PROVE ~UNCHANGED sweeps
      OBVIOUS
    <3>1. PICK ok \in BOOLEAN, answer \in Answers \cup {None} :
              /\ sweeps[n].kind = "check" => (ok <=> answer \in Answers)
              /\ Deliver(n, d, ok, answer)
      BY <1>8, Leaving
    <3>2. /\ sweeps' = [sweeps EXCEPT ![n] = Reports(n, d, ok)]
          /\ Reports(n, d, ok).report = Append(sweeps[n].report, d)
      BY <2>1, <3>1, Delivered
    <3>3. sweeps'[n].report = Append(sweeps[n].report, d)
      BY <1>f, <2>1, <3>2
    <3>4. Len(Append(sweeps[n].report, d)) # Len(sweeps[n].report)
      BY <1>f, <2>1 DEF SweepType
    <3>5. QED
      BY <3>3, <3>4
  <2>11. QED
    BY <1>8, <2>8, <2>9, <2>10, Leaving
<1>9. ASSUME NEW d \in Named, DeleteDevice(d) PROVE AllParted'
  BY <1>9, <1>s DEF DeleteDevice, Running
<1>10. CASE ServerStops
  <2> DEFINE killed == [Unused EXCEPT !.state = "killed"]
  <2>1. killed.state = "killed" /\ killed.selected = {} /\ killed.todo = {} /\ killed.report = <<>>
    BY DEF Unused
  <2>2. /\ sweeps' = [m \in Sweeps |-> IF On(m) THEN killed ELSE sweeps[m]]
        /\ tasks' = [t \in Tasks |-> NoTask]
    BY <1>10 DEF ServerStops
  <2> HIDE DEF killed
  <2>3. \A m \in Sweeps, d \in Devices : ~tasks'[<<m, d>>].orphan /\ ~Running(<<m, d>>)'
    BY <2>2, Tasked, Beginnings DEF Running, Stages
  <2>4. \A m \in Sweeps : Awaited(m)' = {}
    BY <2>3 DEF Awaited
  <2> SUFFICES ASSUME NEW m \in Sweeps PROVE Parted(m)'
    BY DEF AllParted
  <2>5. CASE On(m)
    <3>1. sweeps'[m] = killed
      BY <2>2, <2>5
    <3>2. Reported(m)' = {}
      BY <2>1, <3>1 DEF Reported
    <3>3. QED
      <4>1. \A i, j \in DOMAIN sweeps'[m].report :
                sweeps'[m].report[i] = sweeps'[m].report[j] => i = j
        BY <2>1, <3>1
      <4>2. sweeps'[m].selected = {} /\ sweeps'[m].todo = {} /\ Awaited(m)' = {}
        BY <2>1, <2>4, <3>1
      <4>a. 0 <= Concurrency
        BY <1>e
      <4>b. Cardinality(Awaited(m)') <= Concurrency
        BY <1>e, <4>2, <4>a
      <4>3. QED
        BY <2>3, <3>2, <4>1, <4>2, <4>b DEF Parted
  <2>6. CASE ~On(m)
    <3>1. sweeps'[m] = sweeps[m]
      BY <2>2, <2>6
    <3>2. Reported(m)' = Reported(m) /\ Awaited(m) = {}
      BY <1>f, <2>6, <3>1 DEF Reported, Parted, On
    <3>3. QED
      BY <1>e, <1>f, <2>3, <2>4, <3>1, <3>2 DEF Parted
  <2>7. QED
    BY <2>5, <2>6
<1>11. CASE UNCHANGED vars
  BY <1>11, <1>s DEF vars, Running
<1>12. QED
  BY <1>1, <1>2, <1>3, <1>4, <1>5, <1>6, <1>7, <1>8, <1>9, <1>10, <1>11 DEF Next, Sweep

-----------------------------------------------------------------------------
(* Versions *)

Shown == LastGoodShown /\ RowShown
LEMMA ShownStep == TypeOK /\ Shown /\ [Next]_vars => Shown'
<1> SUFFICES ASSUME TypeOK, Shown, [Next]_vars PROVE Shown'
  OBVIOUS
<1>n. None \notin Answers \cup UpdateType \cup GoodType
  BY NoneAssumption
<1>f. \A d \in Devices : /\ DOMAIN updates = Devices /\ DOMAIN good = Devices
                         /\ updates[d] \in UpdateType \cup {None} /\ good[d] \in GoodType \cup {None}
  BY DEF TypeOK
<1>1. CASE UNCHANGED <<updates, good>>
  BY <1>1 DEF Shown, LastGoodShown, RowShown
<1>o. \* One device's row changes.
      ASSUME NEW d \in Devices, NEW row, NEW last,
             updates' = [updates EXCEPT ![d] = row], good' = [good EXCEPT ![d] = last],
             last # None =>
                 /\ row # None
                 /\ last.answer.installed \in {None, row.installed}
                 /\ last.answer.latest \in {None, row.latest}
                 /\ row.failed = last.since
      PROVE  Shown'
  <2>1. /\ updates'[d] = row /\ good'[d] = last
        /\ \A e \in Devices \ {d} : updates'[e] = updates[e] /\ good'[e] = good[e]
    BY <1>f, <1>o
  <2>2. QED
    BY <1>o, <2>1 DEF Shown, LastGoodShown, RowShown
<1>2. ASSUME NEW n \in Sweeps, NEW d \in Devices, NEW ok \in BOOLEAN,
             NEW answer \in Answers \cup {None},
             sweeps[n].kind = "check" => (ok <=> answer \in Answers),
             Deliver(n, d, ok, answer)
      PROVE  Shown'
  <2> DEFINE row == Upsert(updates[d], answer)
             last == IF ok THEN [answer |-> answer, since |-> FALSE]
                     ELSE IF good[d] = None THEN None ELSE [good[d] EXCEPT !.since = TRUE]
  <2>1. CASE ~(sweeps[n].kind = "check" /\ d \in fleet)
    BY <1>1, <1>2, <2>1 DEF Deliver
  <2>2. CASE sweeps[n].kind = "check" /\ d \in fleet
    <3>1. updates' = [updates EXCEPT ![d] = row] /\ good' = [good EXCEPT ![d] = last]
      BY <1>2, <2>2 DEF Deliver
    <3>2. row # None
      BY <1>f, <1>n, UpsertTyped
    <3>3. ASSUME last # None
          PROVE  /\ last.answer.installed \in {None, row.installed}
                 /\ last.answer.latest \in {None, row.latest}
                 /\ row.failed = last.since
      <4>1. CASE ok
        <5>1. answer # None /\ last.answer = answer /\ last.since = FALSE
          BY <1>2, <1>n, <2>2, <4>1
        <5>2. /\ row.failed = FALSE
              /\ answer.installed # None => row.installed = answer.installed
              /\ answer.latest # None => row.latest = answer.latest
          BY <5>1 DEF Upsert, OrElse
        <5> HIDE DEF last, row
        <5>3. QED
          BY <5>1, <5>2
      <4>2. CASE ~ok
        <5>1. answer = None /\ good[d] # None
          BY <1>2, <2>2, <3>3, <4>2
        <5>2. last.answer = good[d].answer /\ last.since = TRUE
          BY <1>f, <4>2, <5>1 DEF GoodType
        <5>3. updates[d] # None
          BY <5>1 DEF Shown, RowShown
        <5>4. /\ row.failed = TRUE /\ row.installed = updates[d].installed
              /\ row.latest = updates[d].latest
          BY <5>1, <5>3 DEF Upsert
        <5> HIDE DEF last, row
        <5>5. QED
          BY <5>1, <5>2, <5>4 DEF Shown, LastGoodShown
      <4>3. QED
        BY <4>1, <4>2
    <3> HIDE DEF row, last
    <3>4. QED
      BY <1>o, <3>1, <3>2, <3>3
  <2>3. QED
    BY <2>1, <2>2
<1>3. ASSUME NEW t \in Tasks, Timeout(t) \/ \E ok \in BOOLEAN : ThreadEnds(t, ok) PROVE Shown'
  BY <1>1, <1>2, <1>3, Leaving, Tasked
<1>4. ASSUME NEW d \in Named, DeleteDevice(d) PROVE Shown'
  <2>1. d \in Devices
    BY FleetSweepAssumption
  <2>2. QED
    BY <1>4, <1>o, <2>1 DEF DeleteDevice
<1>5. \A n \in Sweeps :
          StartBackup(n) \/ StartMonitor(n) \/ StartCheck(n) \/ Sweep(n) => UNCHANGED <<updates, good>>
  BY DEF StartBackup, StartMonitor, StartCheck, Sweep, Spawn, EndSweep, InsertSample, LoadCheck,
         LoadFails
<1>6. \A t \in Tasks : ReadHosts(t) \/ WriteHosts(t) \/ HostsWritten(t) => UNCHANGED <<updates, good>>
  BY DEF ReadHosts, WriteHosts, HostsWritten
<1>7. ServerStops \/ UNCHANGED vars => UNCHANGED <<updates, good>>
  BY DEF ServerStops, vars
<1>8. QED
  BY <1>1, <1>3, <1>4, <1>5, <1>6, <1>7 DEF Next

-----------------------------------------------------------------------------
(* The known hosts *)

LEMMA HostsStep == TypeOK /\ AllParted /\ HostsKept /\ [Next]_vars => HostsKept'
<1> DEFINE Kept == /\ \A t \in Tasks : Rewriting(t) => settled \subseteq tasks[t].seen
                   /\ (\A t \in Tasks : tasks[t].stage # "writing") => settled \subseteq known
<1> SUFFICES ASSUME TypeOK, AllParted, HostsKept, [Next]_vars, ~torn' PROVE Kept'
  BY DEF HostsKept
<1>k. \A t \in Tasks : DOMAIN tasks = Tasks /\ tasks[t] \in TaskType
  BY DEF TypeOK
<1>h. ~torn => Kept
  BY DEF HostsKept
<1>q. \* A moment at which nobody is about to rewrite.
      settled' = known' /\ (\A t \in Tasks : ~Rewriting(t)') => Kept'
  OBVIOUS
<1>e. Settle => settled' = settled \/ (settled' = known' /\ \A t \in Tasks : ~Rewriting(t)')
  BY DEF Settle
<1>s. \* Threads that are not writing come and go.
      ASSUME ~torn, known' = known,
             settled' = settled \/ (settled' = known' /\ \A t \in Tasks : ~Rewriting(t)'),
             \A t \in Tasks : \/ tasks'[t].stage = tasks[t].stage /\ tasks'[t].seen = tasks[t].seen
                              \/ /\ tasks[t].stage # "writing"
                                 /\ tasks'[t].stage \notin {"pinning", "writing"}
      PROVE  Kept'
  <2>1. CASE settled' = settled
    <3>1. \A t \in Tasks : Rewriting(t)' => Rewriting(t) /\ tasks'[t].seen = tasks[t].seen
      BY <1>s DEF Rewriting
    <3>2. \A t \in Tasks : tasks[t].stage = "writing" => tasks'[t].stage = "writing"
      BY <1>s
    <3>3. QED
      BY <1>h, <1>s, <2>1, <3>1, <3>2
  <2>2. QED
    BY <1>q, <1>s, <2>1
<1>1. ASSUME NEW n \in Sweeps, Spawn(n) PROVE Kept'
  <2>1. PICK d \in sweeps[n].todo :
            tasks' = [tasks EXCEPT ![<<n, d>>] =
                [NoTask EXCEPT !.stage = IF Policy = "off" THEN "working" ELSE "verifying"]]
    BY <1>1 DEF Spawn
  <2>2. d \in Devices /\ <<n, d>> \in Tasks
    <3>1. d \in Devices
      BY <2>1 DEF TypeOK, SweepType
    <3>2. QED
      BY <3>1, Tasked
  <2>3. ~Running(<<n, d>>)
    <3>1. Parted(n)
      BY DEF AllParted
    <3>2. d \notin Awaited(n) /\ d \notin Reported(n)
      BY <2>1, <3>1 DEF Parted
    <3>3. ~tasks[<<n, d>>].orphan
      BY <2>2, <3>1, <3>2 DEF Parted
    <3>4. QED
      BY <2>2, <3>2, <3>3 DEF Awaited
  <2> DEFINE new == [NoTask EXCEPT !.stage = IF Policy = "off" THEN "working" ELSE "verifying"]
  <2>4. new.stage \in {"working", "verifying"}
    BY DEF NoTask
  <2>5. tasks' = [tasks EXCEPT ![<<n, d>>] = new]
    BY <2>1
  <2> HIDE DEF new
  <2>6. \A t \in Tasks : tasks'[t] = IF t = <<n, d>> THEN new ELSE tasks[t]
    BY <1>k, <2>5
  <2>7. ~torn /\ known' = known /\ settled' = settled
    BY <1>1 DEF Spawn
  <2> HIDE DEF Kept
  <2>8. QED
    BY <1>s, <2>2, <2>3, <2>4, <2>6, <2>7 DEF Running, Stages
<1>2. ASSUME NEW t \in Tasks, ReadHosts(t) PROVE Kept'
  <2>0. ~torn
    BY <1>2 DEF ReadHosts, TypeOK
  <2>1. ~torn /\ known' = known /\ settled' = settled /\ Kept
    BY <1>2, <1>h, <2>0 DEF ReadHosts
  <2>2. CASE Proceeds(t, "working")
    <3>1. \A u \in Tasks \ {t} : tasks'[u] = tasks[u]
      BY <1>k, <2>2 DEF Proceeds
    <3>2. tasks'[t].stage = "working" /\ tasks[t].stage = "verifying"
      BY <1>2, <1>k, <2>2 DEF Proceeds, ReadHosts, TaskType
    <3> HIDE DEF Kept
    <3>3. QED
      BY <1>s, <2>1, <3>1, <3>2
  <2>3. CASE /\ tasks' = [tasks EXCEPT ![t].stage = "pinning", ![t].seen = known]
             /\ torn' = (torn \/ \E u \in Tasks : tasks[u].stage = "writing")
    <3>1. settled \subseteq known
      BY <2>1, <2>3
    <3>2. /\ tasks'[t].stage = "pinning" /\ tasks'[t].seen = known
          /\ \A u \in Tasks \ {t} : tasks'[u] = tasks[u]
      BY <1>k, <2>3 DEF TaskType
    <3>3. \A u \in Tasks : Rewriting(u)' => settled' \subseteq tasks'[u].seen
      BY <2>1, <3>1, <3>2 DEF Rewriting
    <3>4. QED
      BY <2>1, <3>1, <3>3
  <2>4. QED
    BY <1>2, <2>2, <2>3 DEF ReadHosts
<1>3. ASSUME NEW t \in Tasks, WriteHosts(t) PROVE Kept'
  <2>1. ~torn /\ settled' = settled /\ Kept /\ Rewriting(t)
    BY <1>3, <1>h DEF WriteHosts, Rewriting
  <2>2. /\ tasks'[t].stage = "writing" /\ tasks'[t].seen = tasks[t].seen
        /\ \A u \in Tasks \ {t} : tasks'[u] = tasks[u]
    BY <1>3, <1>k DEF WriteHosts, Proceeds, TaskType
  <2>3. QED
    BY <2>1, <2>2 DEF Rewriting
<1>4. ASSUME NEW t \in Tasks, HostsWritten(t) PROVE Kept'
  <2>1. ~torn /\ Kept /\ Rewriting(t)
    BY <1>4, <1>h DEF HostsWritten, Rewriting
  <2>2. CASE settled' = settled
    <3>1. settled \subseteq known'
      BY <1>4, <2>1 DEF HostsWritten, Extended
    <3>2. tasks'[t].stage = "working" /\ \A u \in Tasks \ {t} : tasks'[u] = tasks[u]
      BY <1>4, <1>k DEF HostsWritten, TaskType
    <3>3. QED
      BY <2>1, <2>2, <3>1, <3>2 DEF Rewriting
  <2>3. QED
    BY <1>4, <1>e, <1>q, <2>2 DEF HostsWritten
<1>5. ASSUME NEW t \in Tasks, Timeout(t) \/ \E ok \in BOOLEAN : ThreadEnds(t, ok) PROVE Kept'
  <2>1. Leaves(t)
    BY <1>5, Leaving
  <2>2. known' = known
        /\ (settled' = settled \/ (settled' = known' /\ \A u \in Tasks : ~Rewriting(u)'))
    BY <1>e, <2>1 DEF Leaves
  <2>3. CASE tasks' = [tasks EXCEPT ![t] = NoTask]
    <3>1. tasks'[t].stage = "none" /\ tasks'[t].orphan = FALSE
      BY <1>k, <2>3, Beginnings
    <3>2. ~torn /\ tasks[t].stage # "writing"
      BY <2>1, <3>1 DEF Leaves
    <3>3. \A u \in Tasks \ {t} : tasks'[u] = tasks[u]
      BY <1>k, <2>3
    <3> HIDE DEF Kept
    <3>4. QED
      BY <1>s, <2>2, <3>1, <3>2, <3>3
  <2>4. CASE tasks' = [tasks EXCEPT ![t].orphan = TRUE]
    <3>1. \A u \in Tasks : tasks'[u].stage = tasks[u].stage /\ tasks'[u].seen = tasks[u].seen
      BY <1>k, <2>4 DEF TaskType
    <3>2. ~torn
      BY <1>k, <2>1, <2>4 DEF Leaves, TaskType
    <3> HIDE DEF Kept
    <3>3. QED
      BY <1>s, <2>2, <3>1, <3>2
  <2>5. QED
    BY <2>1, <2>3, <2>4 DEF Leaves
<1>6. CASE ServerStops
  <2>1. \A t \in Tasks : tasks'[t].stage = "none"
    BY <1>6, Beginnings DEF ServerStops
  <2>2. ~torn /\ known' = known /\ \A t \in Tasks : tasks[t].stage # "writing"
    BY <1>6 DEF ServerStops
  <2>3. settled' = settled \/ (settled' = known' /\ \A t \in Tasks : ~Rewriting(t)')
    BY <1>6, <1>e DEF ServerStops
  <2> HIDE DEF Kept
  <2>4. QED
    BY <1>s, <2>1, <2>2, <2>3
<1>7. CASE UNCHANGED <<tasks, known, settled, torn>>
  <2> HIDE DEF Kept
  <2>1. QED
    BY <1>7, <1>s
<1>8. ASSUME NEW n \in Sweeps, StartBackup(n) \/ StartMonitor(n) \/ LoadCheck(n)
      PROVE  UNCHANGED <<tasks, known, settled, torn>>
  BY <1>8, Begins DEF Begun
<1>9. ASSUME NEW n \in Sweeps, StartCheck(n) \/ LoadFails(n) \/ EndSweep(n) \/ InsertSample(n)
      PROVE  UNCHANGED <<tasks, known, settled, torn>>
  BY <1>9 DEF StartCheck, LoadFails, EndSweep, InsertSample
<1>10. ASSUME NEW d \in Named, DeleteDevice(d) PROVE UNCHANGED <<tasks, known, settled, torn>>
  BY <1>10 DEF DeleteDevice
<1>11. UNCHANGED vars => UNCHANGED <<tasks, known, settled, torn>>
  BY DEF vars
<1>12. QED
  BY <1>1, <1>2, <1>3, <1>4, <1>5, <1>6, <1>7, <1>8, <1>9, <1>10, <1>11 DEF Next, Sweep

-----------------------------------------------------------------------------
(* The invariant and what follows from it *)

LEMMA Initially == Init => IInv
<1> SUFFICES ASSUME Init PROVE IInv
  OBVIOUS
<1>s. \A n \in Sweeps : sweeps[n] = Unused
  BY DEF Init
<1>t. \A t \in Tasks : tasks[t] = NoTask
  BY DEF Init
<1>d. \A d \in Devices : good[d] = None
  BY DEF Init
<1>1. TypeOK
  BY TypeInit
<1>o. \A n \in Sweeps : ~On(n)
  BY <1>s, Beginnings DEF On
<1>2. KindsFit /\ OneCheck /\ FlagIsACheck
  BY <1>s, <1>o, Beginnings DEF KindsFit, OneCheck, FlagIsACheck, Init
<1>3. AllParted
  <2> SUFFICES ASSUME NEW n \in Sweeps PROVE Parted(n)
    BY DEF AllParted
  <2>1. \A d \in Devices : ~Running(<<n, d>>) /\ ~tasks[<<n, d>>].orphan
    BY <1>t, Tasked, Beginnings DEF Running, Stages
  <2>2. Awaited(n) = {}
    BY <2>1 DEF Awaited
  <2>3. Cardinality({}) = 0 /\ 0 <= Concurrency
    BY FS_EmptySet, FleetSweepAssumption
  <2>4. /\ sweeps[n].report = <<>> /\ DOMAIN sweeps[n].report = {}
        /\ sweeps[n].todo = {} /\ sweeps[n].selected = {}
    BY <1>s, Beginnings
  <2>5. Reported(n) = {}
    BY <2>4 DEF Reported
  <2>6. QED
    BY <2>1, <2>2, <2>3, <2>4, <2>5 DEF Parted
<1>4. LastGoodShown /\ RowShown
  BY <1>d DEF LastGoodShown, RowShown
<1>5. HostsKept
  <2>1. \A t \in Tasks : tasks[t].stage = "none"
    BY <1>t, Beginnings
  <2>2. settled = Pinned /\ known = Pinned
    BY DEF Init
  <2>3. QED
    BY <2>1, <2>2 DEF HostsKept, Rewriting
<1>6. QED
  BY <1>1, <1>2, <1>3, <1>4, <1>5 DEF IInv

LEMMA Invariant == Spec => []IInv
<1>1. Init => IInv
  BY Initially
<1>2. IInv /\ [Next]_vars => IInv'
  BY TypeStep, ControlStep, PartedStep, ShownStep, HostsStep
     DEF IInv, Control, Shown
<1>3. QED
  BY <1>1, <1>2, PTL DEF Spec

\* Every reachable state is of its type: above all, there is no sample of a device
\* that has no row, and no sweep stores more samples than it took.
THEOREM SweepTypeCorrect == Spec => []TypeOK
<1>1. IInv => TypeOK
  BY DEF IInv
<1>2. QED
  BY <1>1, Invariant, PTL

\* The flag of the checks is up exactly while one is in progress.
THEOREM FlagFollowsCheck == Spec => []FlagIsACheck
<1>1. IInv => FlagIsACheck
  BY DEF IInv
<1>2. QED
  BY <1>1, Invariant, PTL

\* What is kept apart can be counted.
LEMMA Counted ==
    ASSUME TypeOK, NEW n \in Sweeps, Parted(n)
    PROVE  Cardinality(sweeps[n].selected) =
               Cardinality(sweeps[n].todo) + Cardinality(Awaited(n)) + Len(sweeps[n].report)
<1> DEFINE k == Len(sweeps[n].report)
<1>1. sweeps[n].report \in Seq(Devices) /\ k \in Nat /\ DOMAIN sweeps[n].report = 1..k
  <2>1. sweeps[n].report \in Seq(Devices)
    BY DEF TypeOK, SweepType
  <2>2. QED
    BY <2>1
<1>2. IsFiniteSet(Reported(n)) /\ Cardinality(Reported(n)) = k
  <2> DEFINE f == [i \in 1..k |-> sweeps[n].report[i]]
  <2>1. \A i, j \in 1..k : f[i] = f[j] => i = j
    BY <1>1 DEF Parted
  <2>2. Reported(n) = {f[i] : i \in 1..k}
    BY <1>1 DEF Reported
  <2> HIDE DEF k
  <2>3. f \in [1..k -> Reported(n)] /\ DOMAIN f = 1..k
    BY <1>1 DEF Reported
  <2> HIDE DEF f
  <2>4. f \in Bijection(1..k, Reported(n))
    BY <2>1, <2>2, <2>3 DEF Bijection, Injection, IsInjective, Surjection
  <2>5. IsFiniteSet(1..k) /\ Cardinality(1..k) = k
    BY <1>1, FS_Interval
  <2>6. QED
    BY <2>4, <2>5, FS_Bijection DEF ExistsBijection
<1> HIDE DEF k
<1>3. IsFiniteSet(sweeps[n].todo) /\ IsFiniteSet(Awaited(n))
  <2>1. sweeps[n].todo \subseteq Devices
    BY DEF TypeOK, SweepType
  <2>2. QED
    BY <2>1, AwaitedFinite, FS_Subset, FleetSweepAssumption
<1>4. /\ IsFiniteSet(Awaited(n) \cup Reported(n))
      /\ Cardinality(Awaited(n) \cup Reported(n)) = Cardinality(Awaited(n)) + k
  <2>1. Cardinality(Awaited(n) \cap Reported(n)) = 0
    BY FS_EmptySet DEF Parted
  <2>2. Cardinality(Awaited(n) \cup Reported(n)) = Cardinality(Awaited(n)) + Cardinality(Reported(n)) - 0
    BY <1>2, <1>3, <2>1, FS_Union
  <2>3. IsFiniteSet(Awaited(n) \cup Reported(n))
    BY <1>2, <1>3, FS_Union
  <2>4. QED
    BY <1>1, <1>2, <2>2, <2>3, AwaitedFinite
<1>5. Cardinality(sweeps[n].todo \cup (Awaited(n) \cup Reported(n))) =
          Cardinality(sweeps[n].todo) + (Cardinality(Awaited(n)) + k)
  <2>1. Cardinality(sweeps[n].todo \cap (Awaited(n) \cup Reported(n))) = 0
    BY FS_EmptySet DEF Parted
  <2>2. Cardinality(sweeps[n].todo \cup (Awaited(n) \cup Reported(n))) =
            Cardinality(sweeps[n].todo) + Cardinality(Awaited(n) \cup Reported(n)) - 0
    BY <1>3, <1>4, <2>1, FS_Union
  <2>3. Cardinality(sweeps[n].todo) \in Nat
    BY <1>3, FS_CardinalityType
  <2>4. QED
    BY <1>1, <1>4, <2>2, <2>3, AwaitedFinite
<1>6. Cardinality(sweeps[n].todo) \in Nat
  BY <1>3, FS_CardinalityType
<1>7. sweeps[n].selected = sweeps[n].todo \cup (Awaited(n) \cup Reported(n))
  BY DEF Parted
<1>8. QED
  BY <1>1, <1>5, <1>6, <1>7, AwaitedFinite DEF k

\* A sweep accounts for each device it selected once, whatever times out and answers
\* late, and has never more sessions than it has permits.
THEOREM OnceEach == Spec => []EachOnce
<1>1. IInv => EachOnce
  <2> SUFFICES ASSUME IInv, NEW n \in Sweeps
               PROVE  /\ Cardinality(Awaited(n)) <= Concurrency
                      /\ sweeps[n].selected = sweeps[n].todo \cup Awaited(n) \cup Reported(n)
                      /\ Cardinality(sweeps[n].selected) =
                          Cardinality(sweeps[n].todo) + Cardinality(Awaited(n)) + Len(sweeps[n].report)
    BY DEF EachOnce
  <2>1. TypeOK /\ Parted(n)
    BY DEF IInv, AllParted
  <2>2. QED
    BY <2>1, Counted DEF Parted
<1>2. QED
  BY <1>1, Invariant, PTL

\* The last good answer of a device stays in its row.
THEOREM LastGood == Spec => []LastGoodShown
<1>1. IInv => LastGoodShown
  BY DEF IInv
<1>2. QED
  BY <1>1, Invariant, PTL

\* Any number of first connections at a time, of any sweeps, whose threads may have
\* been given up, take no key away that was in known_hosts when the first of them read
\* it, unless one reads what another is writing, or a write is cut short.
THEOREM Pins == Spec => []PinsKept
<1>1. IInv => PinsKept
  BY DEF IInv, HostsKept, PinsKept
<1>2. QED
  BY <1>1, Invariant, PTL
=============================================================================
