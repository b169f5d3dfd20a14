--------------------------- MODULE SequenceLemmas ----------------------------
(***************************************************************************)
(* Lemmas that several proofs need and the library does not have: the      *)
(* least and the greatest of a set of numbers, the elements of a finite    *)
(* set in some order, and a sequence of sequences end to end.              *)
(***************************************************************************)
EXTENDS Naturals, FiniteSets, Sequences, SequencesExt, TLAPS, SequenceTheorems,
        FiniteSetTheorems, WellFoundedInduction

-----------------------------------------------------------------------------
(* Least and greatest *)

\* The least of a set of natural numbers, and the greatest of a bounded one.
LEMMA LeastNatural ==
    ASSUME NEW I, I \subseteq Nat, I # {}
    PROVE  \E x \in I : \A y \in I : x <= y
<1> DEFINE R == OpToRel(<, Nat)
<1>1. IsWellFoundedOn(R, Nat)
  BY NatLessThanWellFounded
<1>2. \E x \in I : \A y \in I : ~(<<y, x>> \in R)
  <2> HIDE DEF R
  <2> QED BY <1>1, WFMin
<1>3. PICK x \in I : \A y \in I : ~(<<y, x>> \in R)
  BY <1>2
<1>4. ASSUME NEW y \in I PROVE x <= y
  <2>1. x \in Nat /\ y \in Nat OBVIOUS
  <2>2. <<y, x>> \notin R BY <1>3
  <2>3. y < x => <<y, x>> \in R BY <2>1 DEF OpToRel
  <2> HIDE DEF R
  <2> QED BY <2>1, <2>2, <2>3
<1> QED BY <1>4

\* Min, of a set of natural numbers.
LEMMA MinIs ==
    ASSUME NEW I, I \subseteq Nat, I # {}
    PROVE  Min(I) \in I /\ \A y \in I : Min(I) <= y
BY LeastNatural DEF Min

\* Max, of a bounded one.
LEMMA MaxIs ==
    ASSUME NEW n \in Nat, NEW I, I \subseteq 1..n, I # {}
    PROVE  Max(I) \in I /\ \A y \in I : y <= Max(I)
<1> DEFINE J == {n - x : x \in I}
<1>1. J \subseteq Nat /\ J # {}
  <2>1. PICK x \in I : TRUE
    OBVIOUS
  <2>2. n - x \in J
    BY <2>1
  <2>3. \A y \in I : n - y \in Nat
    OBVIOUS
  <2> QED BY <2>2, <2>3
<1>2. PICK z \in J : \A y \in J : z <= y
  <2> HIDE DEF J
  <2> QED BY <1>1, LeastNatural
<1>3. PICK x \in I : z = n - x
  BY <1>2
<1>4. \A y \in I : y <= x
  <2> TAKE y \in I
  <2>1. n - y \in J OBVIOUS
  <2>2. n - x <= n - y BY <1>2, <1>3, <2>1
  <2>3. x \in Nat /\ y \in Nat OBVIOUS
  <2> QED BY <2>2, <2>3
<1> QED BY <1>4 DEF Max

-----------------------------------------------------------------------------
(* End to end *)

\* How FlattenSeq defines the sequence of what it has after each part.
IsChain(seqs, n, g) ==
    /\ DOMAIN g = 1..n
    /\ \A i \in 1..n : g[i] = IF i = 1 THEN seqs[i] ELSE g[i - 1] \o seqs[i]

\* There is such a chain.
LEMMA ChainExists ==
    ASSUME NEW seqs, NEW n \in Nat
    PROVE  \E g : IsChain(seqs, n, g)
<1> DEFINE Missing == {m \in Nat : ~\E g : IsChain(seqs, m, g)}
<1>1. SUFFICES ASSUME Missing # {} PROVE FALSE
  OBVIOUS
<1>2. PICK m \in Missing : \A y \in Missing : m <= y
  <2>1. Missing \subseteq Nat OBVIOUS
  <2> HIDE DEF Missing
  <2> QED BY <1>1, <2>1, LeastNatural
<1>3. m # 0
  <2>1. IsChain(seqs, 0, [i \in 1..0 |-> 0])
    BY DEF IsChain
  <2> QED BY <2>1, <1>2
<1>4. m \in Nat /\ m - 1 \in Nat /\ m - 1 \notin Missing
  BY <1>2, <1>3
<1>5. PICK g : IsChain(seqs, m - 1, g)
  <2>1. \A x \in Nat : x \notin Missing => \E g : IsChain(seqs, x, g)
    OBVIOUS
  <2> HIDE DEF Missing
  <2> QED BY <2>1, <1>4
<1> DEFINE next == IF m = 1 THEN seqs[m] ELSE g[m - 1] \o seqs[m]
           h == [i \in 1..m |-> IF i = m THEN next ELSE g[i]]
<1>6. DOMAIN h = 1..m /\ h[m] = next /\ \A i \in 1..m - 1 : h[i] = g[i]
  <2> HIDE DEF Missing, next
  <2>1. m \in 1..m /\ \A i \in 1..m - 1 : i \in 1..m /\ i # m
    BY <1>4
  <2> QED BY <2>1
<1>7. \A i \in 1..m : h[i] = IF i = 1 THEN seqs[i] ELSE h[i - 1] \o seqs[i]
  <2> TAKE i \in 1..m
  <2> HIDE DEF h
  <2>1. CASE i = m
    BY <2>1, <1>4, <1>6
  <2>2. CASE i # m
    <3>1. i \in 1..m - 1
      BY <2>2, <1>4
    <3>2. h[i] = g[i] /\ (i # 1 => i - 1 \in 1..m - 1 /\ h[i - 1] = g[i - 1])
      BY <3>1, <1>4, <1>6
    <3> QED BY <3>1, <3>2, <1>5 DEF IsChain
  <2> QED BY <2>1, <2>2
<1>8. IsChain(seqs, m, h)
  <2> HIDE DEF h
  <2> QED BY <1>6, <1>7 DEF IsChain
<1> QED BY <1>8, <1>2

\* Chains of sequences that begin alike begin alike.
LEMMA ChainUnique ==
    ASSUME NEW s, NEW t, NEW m \in Nat, NEW n \in Nat, NEW g, NEW h,
           IsChain(s, m, g), IsChain(t, n, h),
           NEW k \in Nat, k <= m, k <= n, \A i \in 1..k : s[i] = t[i]
    PROVE  \A i \in 1..k : g[i] = h[i]
<1> DEFINE Apart == {i \in 1..k : g[i] # h[i]}
<1>1. SUFFICES ASSUME Apart # {} PROVE FALSE
  OBVIOUS
<1>2. PICK i \in Apart : \A y \in Apart : i <= y
  <2>1. Apart \subseteq Nat OBVIOUS
  <2> HIDE DEF Apart
  <2> QED BY <1>1, <2>1, LeastNatural
<1>3. i \in 1..k /\ i \in 1..m /\ i \in 1..n /\ g[i] # h[i] /\ s[i] = t[i]
  OBVIOUS
<1>4. CASE i = 1
  BY <1>3, <1>4 DEF IsChain
<1>5. CASE i # 1
  <2>1. i - 1 \in 1..k /\ ~(i <= i - 1)
    BY <1>3, <1>5
  <2>2. g[i - 1] = h[i - 1]
    BY <2>1, <1>2
  <2>3. g[i] = g[i - 1] \o s[i] /\ h[i] = h[i - 1] \o t[i]
    BY <1>3, <1>5 DEF IsChain
  <2> QED BY <2>2, <2>3, <1>3
<1> QED BY <1>4, <1>5

\* A chain is one also as a function on its indices.
LEMMA ChainFunction ==
    ASSUME NEW seqs, NEW n \in Nat, NEW g, IsChain(seqs, n, g)
    PROVE  IsChain(seqs, n, [i \in 1..n |-> g[i]])
<1> DEFINE h == [i \in 1..n |-> g[i]]
<1>1. DOMAIN h = 1..n /\ \A i \in 1..n : h[i] = g[i]
  OBVIOUS
<1>2. \A i \in 1..n : i # 1 => i - 1 \in 1..n
  OBVIOUS
<1> HIDE DEF h
<1> QED BY <1>1, <1>2 DEF IsChain

\* FlattenSeq is the last of any chain.
LEMMA FlattenIsChain ==
    ASSUME NEW seqs, NEW n \in Nat \ {0}, Len(seqs) = n, NEW g, IsChain(seqs, n, g)
    PROVE  FlattenSeq(seqs) = g[n]
<1> DEFINE F(f) == [i \in 1..n |-> IF i = 1 THEN seqs[i] ELSE f[i - 1] \o seqs[i]]
           c == CHOOSE f : f = F(f)
<1>1. FlattenSeq(seqs) = c[n]
  BY DEF FlattenSeq
<1> DEFINE h == [i \in 1..n |-> g[i]]
<1>2. IsChain(seqs, n, h)
  BY ChainFunction
<1>3. h = F(h)
  <2>1. \A i \in 1..n : h[i] = F(h)[i]
    BY <1>2 DEF IsChain
  <2>2. h = [i \in 1..n |-> h[i]]
    OBVIOUS
  <2>3. F(h) = [i \in 1..n |-> F(h)[i]]
    OBVIOUS
  <2> HIDE DEF h, F
  <2> QED BY <2>1, <2>2, <2>3
<1>4. c = F(c)
  <2> HIDE DEF h, F
  <2> QED BY <1>3
<1>5. IsChain(seqs, n, c)
  <2>1. DOMAIN F(c) = 1..n /\ \A i \in 1..n : F(c)[i] = IF i = 1 THEN seqs[i] ELSE c[i - 1] \o seqs[i]
    OBVIOUS
  <2> HIDE DEF c, F
  <2> QED BY <1>4, <2>1 DEF IsChain
<1>6. c[n] = g[n]
  <2> HIDE DEF c
  <2>1. n \in Nat /\ n \in 1..n
    OBVIOUS
  <2> QED BY <2>1, <1>5, ChainUnique
<1> QED BY <1>1, <1>6

\* A name for \o that the provers do not see through.
Joined(a, b) == a \o b

\* What two sequences one after the other have at each position.
LEMMA JoinedIs ==
    ASSUME NEW T, NEW s \in Seq(T), NEW t \in Seq(T)
    PROVE  /\ Joined(s, t) \in Seq(T) /\ Len(s) \in Nat /\ Len(t) \in Nat
           /\ Len(Joined(s, t)) = Len(s) + Len(t)
           /\ \A i \in 1..Len(s) : Joined(s, t)[i] = s[i]
           /\ \A i \in Len(s) + 1..Len(s) + Len(t) : Joined(s, t)[i] = t[i - Len(s)]
<1>1. /\ s \o t \in Seq(T) /\ Len(s \o t) = Len(s) + Len(t)
      /\ \A i \in 1..Len(s) + Len(t) : (s \o t)[i] = IF i <= Len(s) THEN s[i] ELSE t[i - Len(s)]
  BY ConcatProperties
<1>2. PICK u : u = s \o t
  OBVIOUS
<1>3. PICK m, n : m = Len(s) /\ n = Len(t)
  OBVIOUS
<1>4. m \in Nat /\ n \in Nat
  BY <1>3, LenProperties
<1>5. \A i \in 1..m + n : u[i] = IF i <= m THEN s[i] ELSE t[i - m]
  BY <1>1, <1>2, <1>3
<1>6. \A i \in 1..m : u[i] = s[i]
  BY <1>4, <1>5
<1>7. \A i \in m + 1..m + n : u[i] = t[i - m]
  BY <1>4, <1>5
<1> QED BY <1>1, <1>2, <1>3, <1>4, <1>6, <1>7 DEF Joined

\* A sequence of length m, and one of length n after it.
IsJoin(u, a, b, m, n) ==
    /\ Len(u) = m + n
    /\ \A i \in 1..m : u[i] = a[i]
    /\ \A i \in m + 1..m + n : u[i] = b[i - m]

\* The same, with the lengths by name.
LEMMA JoinIs ==
    ASSUME NEW T, NEW a \in Seq(T), NEW b \in Seq(T)
    PROVE  /\ Joined(a, b) \in Seq(T) /\ Len(a) \in Nat /\ Len(b) \in Nat
           /\ IsJoin(Joined(a, b), a, b, Len(a), Len(b))
BY JoinedIs DEF IsJoin

\* Three sequences one after the other.
LEMMA JoinedAssociative ==
    ASSUME NEW T, NEW a \in Seq(T), NEW b \in Seq(T), NEW c \in Seq(T)
    PROVE  Joined(a, Joined(b, c)) = Joined(Joined(a, b), c)
BY ConcatAssociative DEF Joined

\* A chain of sequences over a set is made of sequences over it.
LEMMA ChainType ==
    ASSUME NEW T, NEW seqs \in Seq(Seq(T)), NEW g, IsChain(seqs, Len(seqs), g)
    PROVE  \A i \in 1..Len(seqs) : g[i] \in Seq(T)
<1> DEFINE Wrong == {i \in 1..Len(seqs) : g[i] \notin Seq(T)}
<1>1. SUFFICES ASSUME Wrong # {} PROVE FALSE
  OBVIOUS
<1>2. PICK i \in Wrong : \A y \in Wrong : i <= y
  <2>1. Wrong \subseteq Nat
    BY LenProperties
  <2> HIDE DEF Wrong
  <2> QED BY <1>1, <2>1, LeastNatural
<1>3. Len(seqs) \in Nat /\ i \in 1..Len(seqs) /\ seqs[i] \in Seq(T) /\ g[i] \notin Seq(T)
  BY LenProperties, ElementOfSeq
<1>4. CASE i = 1
  BY <1>3, <1>4 DEF IsChain
<1>5. CASE i # 1
  <2>1. i - 1 \in 1..Len(seqs) /\ ~(i <= i - 1)
    BY <1>3, <1>5
  <2>2. g[i - 1] \in Seq(T)
    BY <2>1, <1>2
  <2>3. g[i] = g[i - 1] \o seqs[i]
    BY <1>3, <1>5 DEF IsChain
  <2> QED BY <2>2, <2>3, <1>3, ConcatProperties
<1> QED BY <1>4, <1>5

\* Nothing end to end is nothing.
LEMMA FlattenEmpty ==
    ASSUME NEW seqs, Len(seqs) = 0
    PROVE  FlattenSeq(seqs) = seqs
BY DEF FlattenSeq

\* Sequences over a set end to end are a sequence over it.
LEMMA FlattenType ==
    ASSUME NEW T, NEW seqs \in Seq(Seq(T))
    PROVE  FlattenSeq(seqs) \in Seq(T)
<1>1. CASE seqs = <<>>
  <2>1. Len(seqs) = 0
    BY <1>1, EmptySeq
  <2>2. <<>> \in Seq(T)
    BY EmptySeq
  <2> QED BY <1>1, <2>1, <2>2, FlattenEmpty
<1>2. CASE seqs # <<>>
  <2>1. Len(seqs) \in Nat \ {0}
    BY <1>2, EmptySeq
  <2>2. PICK g : IsChain(seqs, Len(seqs), g)
    BY <2>1, ChainExists
  <2>3. FlattenSeq(seqs) = g[Len(seqs)]
    BY <2>1, <2>2, FlattenIsChain
  <2>4. Len(seqs) \in 1..Len(seqs)
    BY <2>1
  <2> QED BY <2>2, <2>3, <2>4, ChainType
<1> QED BY <1>1, <1>2

\* One more at the end.
LEMMA FlattenLast ==
    ASSUME NEW T, NEW s \in Seq(Seq(T)), NEW t \in Seq(Seq(T)),
           Len(t) = Len(s) + 1, \A i \in 1..Len(s) : t[i] = s[i]
    PROVE  FlattenSeq(t) = FlattenSeq(s) \o t[Len(t)]
<1> DEFINE n == Len(s)
<1>1. n \in Nat /\ n + 1 \in Nat \ {0} /\ n + 1 \in 1..n + 1 /\ t[n + 1] \in Seq(T)
  <2>1. Len(s) \in Nat /\ Len(t) \in 1..Len(t)
    BY LenProperties
  <2> QED BY <2>1, ElementOfSeq
<1>2. PICK g : IsChain(s, n, g)
  BY <1>1, ChainExists
<1>3. CASE n = 0
  <2>1. FlattenSeq(s) = <<>>
    BY <1>3, EmptySeq, FlattenEmpty
  <2>2. PICK h : IsChain(t, n + 1, h)
    BY <1>1, ChainExists
  <2>3. FlattenSeq(t) = h[n + 1]
    BY <1>1, <2>2, FlattenIsChain
  <2>4. h[n + 1] = t[n + 1]
    BY <1>3, <2>2 DEF IsChain
  <2>5. <<>> \o t[n + 1] = t[n + 1]
    BY <1>1, ConcatEmptySeq
  <2> QED BY <2>1, <2>3, <2>4, <2>5
<1>4. CASE n # 0
  <2> DEFINE end == g[n] \o t[n + 1]
             h == [i \in 1..n + 1 |-> IF i <= n THEN g[i] ELSE end]
  <2>1. DOMAIN h = 1..n + 1 /\ h[n + 1] = end /\ \A i \in 1..n : h[i] = g[i]
    <3> HIDE DEF end
    <3>1. \A i \in 1..n : i \in 1..n + 1 /\ i <= n
      BY <1>1
    <3> QED BY <1>1, <3>1
  <2>2. FlattenSeq(s) = g[n]
    BY <1>1, <1>2, <1>4, FlattenIsChain
  <2>3. \A i \in 1..n + 1 : h[i] = IF i = 1 THEN t[i] ELSE h[i - 1] \o t[i]
    <3> TAKE i \in 1..n + 1
    <3> HIDE DEF h
    <3>1. CASE i = n + 1
      <4>1. i - 1 = n /\ n \in 1..n /\ i # 1
        BY <3>1, <1>1, <1>4
      <4> HIDE DEF n
      <4> QED BY <4>1, <3>1, <2>1
    <3>2. CASE i # n + 1
      <4>1. i \in 1..n /\ t[i] = s[i]
        BY <3>2, <1>1
      <4> HIDE DEF n
      <4>2. i # 1 => i - 1 \in 1..n
        BY <4>1, <1>1
      <4>3. h[i] = g[i] /\ (i # 1 => h[i - 1] = g[i - 1])
        BY <4>1, <4>2, <2>1
      <4> QED BY <4>1, <4>3, <1>2 DEF IsChain
    <3> QED BY <3>1, <3>2
  <2>4. IsChain(t, n + 1, h)
    <3> HIDE DEF h
    <3> QED BY <2>1, <2>3 DEF IsChain
  <2> HIDE DEF h
  <2> QED BY <1>1, <2>1, <2>2, <2>4, FlattenIsChain
<1> QED BY <1>3, <1>4

\* One more at the beginning.
LEMMA FlattenFirst ==
    ASSUME NEW T, NEW s \in Seq(Seq(T)), NEW t \in Seq(Seq(T)),
           Len(t) = Len(s) + 1, \A i \in 1..Len(s) : t[i + 1] = s[i]
    PROVE  FlattenSeq(t) = t[1] \o FlattenSeq(s)
<1> DEFINE n == Len(s)
<1>1. n \in Nat /\ n + 1 \in Nat \ {0} /\ n + 1 \in 1..n + 1 /\ t[1] \in Seq(T)
  <2>1. Len(s) \in Nat /\ 1 \in 1..Len(t)
    BY LenProperties
  <2> QED BY <2>1, ElementOfSeq
<1>2. PICK g : IsChain(s, n, g)
  BY <1>1, ChainExists
<1>3. CASE n = 0
  <2>1. FlattenSeq(s) = <<>>
    BY <1>3, EmptySeq, FlattenEmpty
  <2>2. PICK h : IsChain(t, n + 1, h)
    BY <1>1, ChainExists
  <2>3. FlattenSeq(t) = h[n + 1]
    BY <1>1, <2>2, FlattenIsChain
  <2>4. h[n + 1] = t[1]
    BY <1>3, <2>2 DEF IsChain
  <2>5. t[1] \o <<>> = t[1]
    BY <1>1, ConcatEmptySeq
  <2> QED BY <2>1, <2>3, <2>4, <2>5
<1>4. CASE n # 0
  <2> DEFINE After(i) == t[1] \o g[i]
             h == [i \in 1..n + 1 |-> IF i = 1 THEN t[1] ELSE After(i - 1)]
  <2>1. DOMAIN h = 1..n + 1 /\ h[1] = t[1] /\ \A i \in 1..n : h[i + 1] = After(i)
    <3> HIDE DEF After
    <3>1. \A i \in 1..n : i + 1 \in 1..n + 1 /\ i + 1 # 1 /\ (i + 1) - 1 = i
      BY <1>1
    <3> QED BY <1>1, <3>1
  <2>2. FlattenSeq(s) = g[n]
    BY <1>1, <1>2, <1>4, FlattenIsChain
  <2>3. \A i \in 1..n : g[i] \in Seq(T) /\ s[i] \in Seq(T)
    BY <1>2, ChainType, ElementOfSeq
  <2>4. \A i \in 1..n + 1 : h[i] = IF i = 1 THEN t[i] ELSE h[i - 1] \o t[i]
    <3> TAKE i \in 1..n + 1
    <3> HIDE DEF h
    <3>1. CASE i = 1
      BY <3>1, <2>1
    <3>2. CASE i = 2
      <4>1. 1 \in 1..n /\ i = 1 + 1
        BY <3>2, <1>1, <1>4
      <4>2. h[i] = After(1) /\ t[i] = s[1]
        BY <4>1, <2>1
      <4>3. g[1] = s[1]
        BY <4>1, <1>2 DEF IsChain
      <4>4. i # 1 /\ i - 1 = 1
        BY <3>2
      <4> QED BY <4>2, <4>3, <4>4, <2>1
    <3>3. CASE i # 1 /\ i # 2
      <4>1. i - 1 \in 1..n /\ i - 2 \in 1..n /\ i = (i - 1) + 1 /\ i - 1 = (i - 2) + 1
        BY <3>3, <1>1
      <4>2. h[i] = After(i - 1) /\ h[i - 1] = After(i - 2) /\ t[i] = s[i - 1]
        BY <4>1, <2>1
      <4>3. g[i - 1] = g[i - 2] \o s[i - 1]
        <5>1. i - 1 # 1 /\ (i - 1) - 1 = i - 2
          BY <3>3, <4>1
        <5> QED BY <4>1, <5>1, <1>2 DEF IsChain
      <4>4. t[1] \o (g[i - 2] \o s[i - 1]) = (t[1] \o g[i - 2]) \o s[i - 1]
        <5>1. g[i - 2] \in Seq(T) /\ s[i - 1] \in Seq(T) /\ t[1] \in Seq(T)
          BY <4>1, <2>3, <1>1
        <5>2. Joined(t[1], Joined(g[i - 2], s[i - 1])) = Joined(Joined(t[1], g[i - 2]), s[i - 1])
          BY <5>1, JoinedAssociative
        <5> QED BY <5>2 DEF Joined
      <4> QED BY <3>3, <4>2, <4>3, <4>4
    <3> QED BY <3>1, <3>2, <3>3
  <2>5. IsChain(t, n + 1, h)
    <3> HIDE DEF h
    <3> QED BY <2>1, <2>4 DEF IsChain
  <2>6. h[n + 1] = t[1] \o g[n]
    <3> HIDE DEF h
    <3>1. n \in 1..n
      BY <1>1, <1>4
    <3> QED BY <3>1, <2>1
  <2> HIDE DEF h
  <2> QED BY <1>1, <2>2, <2>5, <2>6, FlattenIsChain
<1> QED BY <1>3, <1>4

\* Elements one at a time.
LEMMA FlattenSingletons ==
    ASSUME NEW T, NEW s \in Seq(T), NEW t \in Seq(Seq(T)),
           Len(t) = Len(s), \A i \in 1..Len(s) : t[i] = <<s[i]>>
    PROVE  FlattenSeq(t) = s
<1>1. CASE s = <<>>
  <2>1. Len(t) = 0 /\ t = <<>>
    BY <1>1, EmptySeq
  <2> QED BY <1>1, <2>1, FlattenEmpty
<1>2. CASE s # <<>>
  <2>1. Len(s) \in Nat \ {0} /\ Len(s) \in 1..Len(s)
    <3>1. Len(s) \in Nat \ {0}
      BY <1>2, EmptySeq
    <3> QED BY <3>1
  <2> DEFINE h == [i \in 1..Len(s) |-> SubSeq(s, 1, i)]
  <2>2. \A i \in 1..Len(s) : SubSeq(s, 1, i) = SubSeq(s, 1, i - 1) \o <<s[i]>>
    <3> TAKE i \in 1..Len(s)
    <3>1. 1 \in 1..Len(s) /\ i \in 1..Len(s)
      BY <2>1
    <3> QED BY <3>1, SubSeqRecursiveSecond
  <2>3. \A i \in 1..Len(s) : h[i] = IF i = 1 THEN t[i] ELSE h[i - 1] \o t[i]
    <3> TAKE i \in 1..Len(s)
    <3>1. CASE i = 1
      <4>1. SubSeq(s, 1, 0) = <<>>
        BY SubSeqEmpty
      <4>2. <<>> \o <<s[1]>> = <<s[1]>>
        <5>1. <<s[1]>> \in Seq({s[1]})
          OBVIOUS
        <5> QED BY <5>1, ConcatEmptySeq
      <4>3. i - 1 = 0 BY <3>1
      <4> QED BY <3>1, <4>1, <4>2, <4>3, <2>2
    <3>2. CASE i # 1
      <4>1. i - 1 \in 1..Len(s)
        BY <3>2, <2>1
      <4> QED BY <3>2, <4>1, <2>2
    <3> QED BY <3>1, <3>2
  <2>4. IsChain(t, Len(s), h)
    <3>1. DOMAIN h = 1..Len(s)
      OBVIOUS
    <3> HIDE DEF h
    <3> QED BY <2>3, <3>1 DEF IsChain
  <2>5. FlattenSeq(t) = h[Len(s)]
    <3> HIDE DEF h
    <3> QED BY <2>1, <2>4, FlattenIsChain
  <2>6. h[Len(s)] = s
    BY <2>1, SubSeqFull
  <2> QED BY <1>2, <2>5, <2>6
<1> QED BY <1>1, <1>2

-----------------------------------------------------------------------------
(* The elements of a finite set *)

\* SetToSeq has all elements, each once.
LEMMA SetToSeqIs ==
    ASSUME NEW S, IsFiniteSet(S)
    PROVE  /\ SetToSeq(S) \in Seq(S) /\ Len(SetToSeq(S)) = Cardinality(S)
           /\ {SetToSeq(S)[i] : i \in 1..Cardinality(S)} = S
<1> DEFINE n == Cardinality(S)
           Orders == {f \in [1..n -> S] : IsInjective(f)}
           s == SetToSeq(S)
<1>1. n \in Nat /\ ExistsBijection(1..n, S)
  BY FS_CardinalityType
<1>2. PICK f : f \in Bijection(1..n, S)
  BY <1>1 DEF ExistsBijection
<1>3. f \in [1..n -> S] /\ IsInjective(f)
  BY <1>2 DEF Bijection, Injection, IsInjective
<1>4. s \in [1..n -> S] /\ IsInjective(s)
  BY <1>3 DEF SetToSeq
<1>5. s \in Injection(1..n, S)
  <2> HIDE DEF s, n
  <2> QED BY <1>4 DEF Injection, IsInjective
<1>6. IsFiniteSet(1..n) /\ Cardinality(1..n) = n
  BY <1>1, FS_Interval
<1>7. s \in Surjection(1..n, S)
  BY <1>5, <1>6, FS_Injection
<1> HIDE DEF s
<1>8. s \in Seq(S) /\ Len(s) = n
  BY <1>1, <1>4
<1>9. {s[i] : i \in 1..n} = S
  BY <1>4, <1>7 DEF Surjection
<1> QED BY <1>8, <1>9 DEF s
=============================================================================
