---------------------------- MODULE CaptureProofs ----------------------------
(***************************************************************************)
(* Proofs about Capture, for any names, versions, configurations, tables   *)
(* of accounts and kinds of router, and any number of exports and changes. *)
(*                                                                         *)
(* First what the operators of export.rs do to a text: the line the banner *)
(* starts at, the lines that are passed over, the blank lines that go.     *)
(* From them follows what the three parts of an export are                 *)
(* (PartsOfAnExport), and that the file of a whole one does not depend on  *)
(* the clock (ClockUnseen).                                                *)
(***************************************************************************)
EXTENDS Capture, SequenceLemmas

-----------------------------------------------------------------------------
(* Texts *)

\* A sequence over any set of lines is a text.
LEMMA TextIs ==
    ASSUME NEW S, NEW text \in Seq(S),
           \A i \in 1..Len(text) : text[i].kind \in {"blank", "comment", "live"}
    PROVE  IsText(text)
BY SeqOfRange, LenProperties DEF IsText

LEMMA TextFacts ==
    ASSUME NEW text, IsText(text)
    PROVE  /\ Len(text) \in Nat /\ DOMAIN text = 1..Len(text)
           /\ \A i \in 1..Len(text) : text[i].kind \in {"blank", "comment", "live"}
           /\ text \in Seq(Range(text))
BY LenProperties DEF IsText

LEMMA TextsShare ==
    ASSUME NEW s, NEW t, IsText(s), IsText(t)
    PROVE  \E S : s \in Seq(S) /\ t \in Seq(S)
<1> DEFINE S == Range(s) \cup Range(t)
<1>1. s \in Seq(S)
  BY SeqMonotonic, TextFacts
<1>2. t \in Seq(S)
  BY SeqMonotonic, TextFacts
<1> QED BY <1>1, <1>2

LEMMA TextConcat ==
    ASSUME NEW s, NEW t, IsText(s), IsText(t)
    PROVE  /\ IsText(s \o t) /\ Len(s \o t) = Len(s) + Len(t)
           /\ \A i \in 1..Len(s) : (s \o t)[i] = s[i]
           /\ \A i \in 1..Len(t) : (s \o t)[Len(s) + i] = t[i]
<1>1. PICK S : s \in Seq(S) /\ t \in Seq(S)
  BY TextsShare
<1>2. Len(s) \in Nat /\ Len(t) \in Nat
  BY TextFacts
<1>3. /\ s \o t \in Seq(S) /\ Len(s \o t) = Len(s) + Len(t)
      /\ \A i \in 1..Len(s) + Len(t) :
          (s \o t)[i] = IF i <= Len(s) THEN s[i] ELSE t[i - Len(s)]
  BY <1>1, ConcatProperties
<1>4. \A i \in 1..Len(s) : (s \o t)[i] = s[i]
  BY <1>2, <1>3
<1>5. \A i \in 1..Len(t) : (s \o t)[Len(s) + i] = t[i]
  BY <1>2, <1>3
<1>6. \A i \in 1..Len(s \o t) : (s \o t)[i].kind \in {"blank", "comment", "live"}
  <2> SUFFICES ASSUME NEW i \in 1..Len(s \o t)
               PROVE  (s \o t)[i].kind \in {"blank", "comment", "live"}
    OBVIOUS
  <2>1. CASE i <= Len(s)
    BY <2>1, <1>2, <1>3, TextFacts
  <2>2. CASE i > Len(s)
    <3>1. i - Len(s) \in 1..Len(t) /\ (s \o t)[i] = t[i - Len(s)]
      BY <2>2, <1>2, <1>3
    <3> QED BY <3>1, TextFacts
  <2> QED BY <2>1, <2>2, <1>2
<1> QED BY <1>3, <1>4, <1>5, <1>6, TextIs

LEMMA TextSub ==
    ASSUME NEW text, IsText(text), NEW m \in Nat \ {0}, NEW n \in Nat, n <= Len(text)
    PROVE  /\ IsText(SubSeq(text, m, n))
           /\ Len(SubSeq(text, m, n)) = IF m <= n THEN n - m + 1 ELSE 0
           /\ \A i \in 1..(n - m + 1) : SubSeq(text, m, n)[i] = text[m + i - 1]
<1> DEFINE S == Range(text)
<1> USE TextFacts
<1>1. \A i \in m..n : text[i] \in S
  BY ElementOfSeq
<1>2. /\ SubSeq(text, m, n) \in Seq(S)
      /\ Len(SubSeq(text, m, n)) = IF m <= n THEN n - m + 1 ELSE 0
      /\ \A i \in 1..(n - m + 1) : SubSeq(text, m, n)[i] = text[m + i - 1]
  BY <1>1, SubSeqProperties
<1>3. \A i \in 1..Len(SubSeq(text, m, n)) :
          SubSeq(text, m, n)[i].kind \in {"blank", "comment", "live"}
  BY <1>2
<1> QED BY <1>2, <1>3, TextIs

LEMMA TextFirst ==
    ASSUME NEW text, IsText(text), NEW n \in Nat, n <= Len(text)
    PROVE  /\ IsText(SubSeq(text, 1, n)) /\ Len(SubSeq(text, 1, n)) = n
           /\ \A i \in 1..n : SubSeq(text, 1, n)[i] = text[i]
<1>1. /\ IsText(SubSeq(text, 1, n))
      /\ Len(SubSeq(text, 1, n)) = IF 1 <= n THEN n - 1 + 1 ELSE 0
      /\ \A i \in 1..(n - 1 + 1) : SubSeq(text, 1, n)[i] = text[1 + i - 1]
  BY TextSub
<1> QED BY <1>1

LEMMA TextEqual ==
    ASSUME NEW s, NEW t, IsText(s), IsText(t),
           Len(s) = Len(t), \A i \in 1..Len(s) : s[i] = t[i]
    PROVE  s = t
<1>1. PICK S : s \in Seq(S) /\ t \in Seq(S)
  BY TextsShare
<1> QED BY <1>1, SeqEqual

LEMMA TextWhole ==
    ASSUME NEW text, IsText(text)
    PROVE  SubSeq(text, 1, Len(text)) = text
BY TextFacts, SubSeqFull

LEMMA TextEmpty == IsText(<<>>) /\ Len(<<>>) = 0
<1>1. <<>> \in Seq({}) /\ Len(<<>>) = 0
  BY EmptySeq
<1>2. <<>> \in Seq(Range(<<>>))
  BY <1>1, SeqOfRange
<1>3. DOMAIN <<>> = {}
  OBVIOUS
<1> QED BY <1>1, <1>2, <1>3 DEF IsText

\* A text of one line, and one line more.
LEMMA OneLine ==
    ASSUME NEW line, line.kind \in {"blank", "comment", "live"}
    PROVE  IsText(<<line>>) /\ Len(<<line>>) = 1 /\ <<line>>[1] = line
<1>1. <<line>> \in Seq({line}) /\ Len(<<line>>) = 1 /\ <<line>>[1] = line
  OBVIOUS
<1>2. <<line>> \in Seq(Range(<<line>>))
  BY <1>1, SeqOfRange
<1>3. DOMAIN <<line>> = {1}
  OBVIOUS
<1> QED BY <1>1, <1>2, <1>3 DEF IsText

LEMMA TextAppend ==
    ASSUME NEW text, IsText(text), NEW line, line.kind \in {"blank", "comment", "live"}
    PROVE  /\ IsText(Append(text, line)) /\ Len(Append(text, line)) = Len(text) + 1
           /\ \A i \in 1..Len(text) : Append(text, line)[i] = text[i]
           /\ Append(text, line)[Len(text) + 1] = line
<1> DEFINE S == Range(text) \cup {line}
<1>1. text \in Seq(S)
  BY SeqMonotonic, TextFacts
<1>2. /\ Append(text, line) \in Seq(S) /\ Len(Append(text, line)) = Len(text) + 1
      /\ \A i \in 1..Len(text) : Append(text, line)[i] = text[i]
      /\ Append(text, line)[Len(text) + 1] = line
  BY <1>1, AppendProperties
<1>3. \A i \in 1..Len(Append(text, line)) :
          Append(text, line)[i].kind \in {"blank", "comment", "live"}
  <2> SUFFICES ASSUME NEW i \in 1..Len(text) + 1
               PROVE  Append(text, line)[i].kind \in {"blank", "comment", "live"}
    BY <1>2
  <2>1. i \in 1..Len(text) \/ i = Len(text) + 1
    BY TextFacts
  <2> QED BY <2>1, <1>2, TextFacts
<1> QED BY <1>2, <1>3, TextIs


-----------------------------------------------------------------------------
(* The operators of export.rs *)

\* ensure_trailing_newline takes blank lines from the end, and nothing else.
LEMMA Trims ==
    ASSUME NEW text, IsText(text)
    PROVE  \E k \in 0..Len(text) :
               /\ Trimmed(text) = SubSeq(text, 1, k)
               /\ k > 0 => text[k] # Blank
               /\ \A i \in (k + 1)..Len(text) : text[i] = Blank
<1> DEFINE I == {i \in 1..Len(text) : text[i] # Blank}
           k == IF I # {} THEN Max(I) ELSE 0
<1>1. Trimmed(text) = SubSeq(text, 1, k)
  BY DEF Trimmed, SelectLastInSeq
<1>2. Len(text) \in Nat
  BY TextFacts
<1>3. CASE I = {}
  <2>1. k = 0 /\ \A i \in 1..Len(text) : text[i] = Blank
    BY <1>3
  <2> QED BY <2>1, <1>1, <1>2
<1>4. CASE I # {}
  <2>1. k \in I /\ \A y \in I : y <= k
    BY <1>2, <1>4, MaxIs
  <2>2. \A i \in (k + 1)..Len(text) : text[i] = Blank
    <3> SUFFICES ASSUME NEW i \in (k + 1)..Len(text), text[i] # Blank PROVE FALSE
      OBVIOUS
    <3>1. k \in 1..Len(text)
      BY <2>1
    <3>2. i \in I
      BY <3>1, <1>2
    <3>3. i <= k
      BY <3>2, <2>1
    <3> QED BY <3>1, <3>3, <1>2
  <2>3. k \in 1..Len(text) /\ text[k] # Blank
    BY <2>1
  <2> HIDE DEF k
  <2> QED BY <2>2, <2>3, <1>1, <1>2
<1> QED BY <1>3, <1>4

LEMMA TrimmedText ==
    ASSUME NEW text, IsText(text)
    PROVE  /\ IsText(Trimmed(text))
           /\ Trimmed(text) # <<>> => Trimmed(text)[Len(Trimmed(text))] # Blank
<1>1. PICK k \in 0..Len(text) : /\ Trimmed(text) = SubSeq(text, 1, k)
                                /\ k > 0 => text[k] # Blank
  BY Trims
<1>2. Len(text) \in Nat
  BY TextFacts
<1>3. /\ IsText(Trimmed(text)) /\ Len(Trimmed(text)) = k
      /\ \A i \in 1..k : Trimmed(text)[i] = text[i]
  BY <1>1, <1>2, TextSub
<1>4. CASE k = 0
  BY <1>1, <1>3, <1>4
<1>5. CASE k > 0
  BY <1>1, <1>2, <1>3, <1>5
<1> QED BY <1>1, <1>2, <1>3, <1>4, <1>5

\* The lines that are passed over are the ones before the first live one.
LEMMA LeadingIs ==
    ASSUME NEW text, IsText(text), NEW n \in 0..Len(text),
           \A i \in 1..n : ~IsLive(text[i]),
           n < Len(text) => IsLive(text[n + 1])
    PROVE  Leading(text) = n
<1> DEFINE I == {i \in 1..Len(text) : IsLive(text[i])}
<1>1. Len(text) \in Nat
  BY TextFacts
<1>2. Leading(text) = IF (IF I # {} THEN Min(I) ELSE 0) = 0 THEN Len(text)
                      ELSE (IF I # {} THEN Min(I) ELSE 0) - 1
  BY DEF Leading, SelectInSeq
<1>3. CASE n < Len(text)
  <2>1. n + 1 \in I
    BY <1>1, <1>3
  <2>2. Min(I) \in I /\ \A y \in I : Min(I) <= y
    <3>1. I \subseteq Nat /\ I # {}
      BY <2>1, <1>1
    <3> HIDE DEF I
    <3> QED BY <3>1, MinIs
  <2>3. Min(I) = n + 1
    <3>1. Min(I) \in 1..Len(text) /\ IsLive(text[Min(I)])
      BY <2>2
    <3>2. Min(I) <= n + 1
      BY <2>1, <2>2
    <3>3. ~(Min(I) <= n)
      BY <3>1
    <3> QED BY <3>1, <3>2, <3>3, <1>1
  <2> QED BY <2>1, <2>3, <1>2
<1>4. CASE n = Len(text)
  <2>1. I = {}
    BY <1>4
  <2> QED BY <2>1, <1>2, <1>4
<1> QED BY <1>1, <1>3, <1>4

LEMMA FirstLive ==
    ASSUME NEW text, IsText(text)
    PROVE  \E n \in 0..Len(text) : /\ \A i \in 1..n : ~IsLive(text[i])
                                   /\ n < Len(text) => IsLive(text[n + 1])
<1> DEFINE I == {i \in 1..Len(text) : IsLive(text[i])}
<1>1. Len(text) \in Nat
  BY TextFacts
<1>2. CASE I = {}
  <2>1. \A i \in 1..Len(text) : ~IsLive(text[i])
    BY <1>2
  <2> QED BY <2>1, <1>1
<1>3. CASE I # {}
  <2>1. Min(I) \in I /\ \A y \in I : Min(I) <= y
    <3>1. I \subseteq Nat
      BY <1>1
    <3> HIDE DEF I
    <3> QED BY <3>1, <1>3, MinIs
  <2>2. PICK x \in I : \A y \in I : x <= y
    BY <2>1
  <2>3. x \in 1..Len(text) /\ IsLive(text[x])
    BY <2>2
  <2>4. \A i \in 1..(x - 1) : ~IsLive(text[i])
    <3> SUFFICES ASSUME NEW i \in 1..(x - 1), IsLive(text[i]) PROVE FALSE
      OBVIOUS
    <3>1. i \in I
      BY <2>3, <1>1
    <3>2. x <= i
      BY <3>1, <2>2
    <3> QED BY <3>2, <2>3, <1>1
  <2>5. x - 1 \in 0..Len(text) /\ (x - 1) + 1 = x
    BY <2>3, <1>1
  <2> QED BY <2>3, <2>4, <2>5
<1> QED BY <1>2, <1>3

\* split_at_export_banner: where the banner starts, if there is one.
LEMMA StartIs ==
    ASSUME NEW text, IsText(text), NEW at \in 1..Len(text),
           IsBannerStart(text[at]), \A i \in 1..(at - 1) : ~IsBannerStart(text[i])
    PROVE  BannerAt(text) = at
<1> DEFINE I == {i \in 1..Len(text) : IsBannerStart(text[i])}
<1>1. BannerAt(text) = IF I # {} THEN Min(I) ELSE 0
  BY DEF BannerAt, SelectInSeq
<1>2. at \in I /\ I \subseteq Nat
  OBVIOUS
<1>3. Min(I) \in I /\ \A y \in I : Min(I) <= y
  <2> HIDE DEF I
  <2> QED BY <1>2, MinIs
<1>4. Min(I) = at
  <2>1. Min(I) \in 1..Len(text) /\ IsBannerStart(text[Min(I)])
    BY <1>3
  <2>2. Min(I) <= at
    BY <1>2, <1>3
  <2>3. ~(Min(I) <= at - 1)
    BY <2>1
  <2> QED BY <2>1, <2>2, <2>3
<1> QED BY <1>1, <1>2, <1>4

LEMMA SplitsAt ==
    ASSUME NEW text, NEW at \in Nat, BannerAt(text) = at + 1
    PROVE  /\ Split(text).prefix = SubSeq(text, 1, at)
           /\ Split(text).export = SubSeq(text, at + 1, Len(text))
<1>1. at + 1 # 0 /\ at + 1 - 1 = at
  OBVIOUS
<1>2. Split(text) = [prefix |-> SubSeq(text, 1, at), export |-> SubSeq(text, at + 1, Len(text))]
  BY <1>1 DEF Split
<1> QED BY <1>2

\* A remark is not executed, and neither is a line of the header.
LEMMA Remarks ==
    ASSUME NEW text, IsText(text)
    PROVE  /\ IsText(CommentAsRem(text))
           /\ \A i \in 1..Len(CommentAsRem(text)) : ~IsLive(CommentAsRem(text)[i])
<1> DEFINE L == {Blank} \cup {Comment(<<"REM", text[i].says>>) : i \in 1..Len(text)}
<1>1. Len(text) \in Nat /\ DOMAIN text = 1..Len(text)
  BY TextFacts
<1>2. CommentAsRem(text) \in [1..Len(text) -> L]
  BY <1>1 DEF CommentAsRem
<1>4. \A line \in L : line.kind \in {"blank", "comment"}
  BY DEF Blank, Comment, Line
<1> HIDE DEF L
<1>3. CommentAsRem(text) \in Seq(L) /\ Len(CommentAsRem(text)) = Len(text)
  <2>1. CommentAsRem(text) \in Seq(L)
    BY <1>1, <1>2, SeqDef
  <2>2. DOMAIN CommentAsRem(text) = 1..Len(text)
    BY <1>2
  <2> QED BY <2>1, <2>2, <1>1, LenProperties
<1>5. \A i \in 1..Len(text) : CommentAsRem(text)[i].kind \in {"blank", "comment"}
  BY <1>2, <1>4
<1>6. \A i \in 1..Len(CommentAsRem(text)) :
          CommentAsRem(text)[i].kind \in {"blank", "comment"}
  BY <1>3, <1>5
<1>7. IsText(CommentAsRem(text))
  BY <1>3, <1>6, TextIs
<1> QED BY <1>6, <1>7 DEF IsLive

\* A text of comments only.
Remarked(text) == IsText(text) /\ \A i \in 1..Len(text) : ~IsLive(text[i])

LEMMA CommentKind == \A says : Comment(says).kind = "comment"
BY DEF Comment, Line

LEMMA Commented ==
    ASSUME NEW text, Remarked(text), NEW says
    PROVE  Remarked(Append(text, Comment(says)))
<1>1. Comment(says).kind = "comment"
  BY CommentKind
<1>2. /\ IsText(Append(text, Comment(says)))
      /\ Len(Append(text, Comment(says))) = Len(text) + 1
      /\ \A i \in 1..Len(text) : Append(text, Comment(says))[i] = text[i]
      /\ Append(text, Comment(says))[Len(text) + 1] = Comment(says)
  BY <1>1, TextAppend DEF Remarked
<1>3. Len(text) \in Nat
  BY TextFacts DEF Remarked
<1>4. \A i \in 1..(Len(text) + 1) : ~IsLive(Append(text, Comment(says))[i])
  <2> SUFFICES ASSUME NEW i \in 1..(Len(text) + 1)
               PROVE  ~IsLive(Append(text, Comment(says))[i])
    OBVIOUS
  <2>1. i \in 1..Len(text) \/ i = Len(text) + 1
    BY <1>3
  <2> QED BY <2>1, <1>1, <1>2 DEF Remarked, IsLive
<1> QED BY <1>2, <1>4 DEF Remarked

LEMMA Pushed ==
    ASSUME NEW text, Remarked(text), NEW field, NEW known
    PROVE  Remarked(PushField(text, field, known))
BY Commented DEF PushField

LEMMA RemarkedTogether ==
    ASSUME NEW s, NEW t, Remarked(s), Remarked(t)
    PROVE  Remarked(s \o t)
<1>1. /\ IsText(s \o t) /\ Len(s \o t) = Len(s) + Len(t)
      /\ \A i \in 1..Len(s) : (s \o t)[i] = s[i]
      /\ \A i \in 1..Len(t) : (s \o t)[Len(s) + i] = t[i]
  BY TextConcat DEF Remarked
<1>2. Len(s) \in Nat /\ Len(t) \in Nat
  BY TextFacts DEF Remarked
<1>3. \A i \in 1..Len(s \o t) : ~IsLive((s \o t)[i])
  <2> SUFFICES ASSUME NEW i \in 1..Len(s \o t) PROVE ~IsLive((s \o t)[i])
    OBVIOUS
  <2>1. CASE i <= Len(s)
    BY <2>1, <1>1, <1>2 DEF Remarked
  <2>2. CASE i > Len(s)
    <3>1. PICK j \in 1..Len(t) : i = Len(s) + j
      <4>1. i - Len(s) \in 1..Len(t) /\ i = Len(s) + (i - Len(s))
        BY <2>2, <1>1, <1>2
      <4> QED BY <4>1
    <3> QED BY <3>1, <1>1 DEF Remarked
  <2> QED BY <2>1, <2>2, <1>1, <1>2
<1> QED BY <1>1, <1>3 DEF Remarked

LEMMA TwoComments ==
    ASSUME NEW a, NEW b
    PROVE  Remarked(<<Comment(a), Comment(b)>>)
<1> DEFINE text == <<Comment(a), Comment(b)>>
<1>1. /\ text \in Seq({Comment(a), Comment(b)}) /\ Len(text) = 2 /\ DOMAIN text = {1, 2}
      /\ text[1] = Comment(a) /\ text[2] = Comment(b)
  OBVIOUS
<1> HIDE DEF text
<1>2. text \in Seq(Range(text))
  BY <1>1, SeqOfRange
<1>3. \A i \in {1, 2} : text[i].kind = "comment"
  BY <1>1, CommentKind
<1>4. 1..Len(text) = {1, 2}
  BY <1>1
<1>5. Remarked(text)
  BY <1>1, <1>2, <1>3, <1>4 DEF Remarked, IsText, IsLive
<1> QED BY <1>5 DEF text

LEMMA HeaderRemarks ==
    ASSUME NEW known
    PROVE  Remarked(Header(known))
<1> DEFINE named    == << Comment(<<"captured by DonDude">>), Comment(<<"device">>) >>
           identity == PushField(named, "identity", known)
           model    == PushField(identity, "model", known)
           serial   == PushField(model, "serial number", known)
           software == PushField(serial, "software id", known)
           arch     == PushField(software, "architecture", known)
           version  == PushField(arch, "routeros", known)
           last     == << Comment(<<"command">>), Comment(<<>>) >>
<1>1. Header(known) = version \o last
  BY DEF Header
<1>2. Remarked(named) /\ Remarked(last)
  BY TwoComments
<1> HIDE DEF named, last
<1>3. Remarked(identity)
  BY <1>2, Pushed
<1> HIDE DEF identity
<1>4. Remarked(model)
  BY <1>3, Pushed
<1> HIDE DEF model
<1>5. Remarked(serial)
  BY <1>4, Pushed
<1> HIDE DEF serial
<1>6. Remarked(software)
  BY <1>5, Pushed
<1> HIDE DEF software
<1>7. Remarked(arch)
  BY <1>6, Pushed
<1> HIDE DEF arch
<1>8. Remarked(version)
  BY <1>7, Pushed
<1> HIDE DEF version
<1> QED BY <1>1, <1>2, <1>8, RemarkedTogether

-----------------------------------------------------------------------------
(* What an export consists of *)

LEMMA RouterFacts ==
    ASSUME NEW r \in Routers
    PROVE  /\ IsText(r.accounts) /\ IsText(r.config)
           /\ Len(r.accounts) \in Nat /\ Len(r.config) \in Nat \ {0}
           /\ IsLive(r.config[1])
           /\ \A i \in 1..Len(r.accounts) : ~IsBannerStart(r.accounts[i])
<1>1. r.config \in Configs /\ r.accounts \in Accounts
  BY DEF Routers
<1>2. IsText(r.accounts) /\ IsText(r.config)
  BY <1>1, CaptureAssumption
<1>3. /\ r.config # <<>> /\ r.config[1].kind = "live"
      /\ \A i \in DOMAIN r.accounts : ~IsBannerStart(r.accounts[i])
  BY <1>1, CaptureAssumption
<1>4. Len(r.config) \in Nat \ {0}
  BY <1>2, <1>3, EmptySeq DEF IsText
<1> QED BY <1>2, <1>3, <1>4, TextFacts DEF IsLive

\* The lines of a banner: the first one has the clock, the others do not.
BannerRest(r) ==
    (IF r.kind = "chr" THEN <<>>
     ELSE << Comment(<<"model", Fact(r, "banner", "model")>>),
             Comment(<<"serial number", Fact(r, "banner", "serial number")>>) >>)
BannerHead(r, clock) ==
    << Comment(<<"routeros", Fact(r, "banner", "routeros"), clock>>),
       Comment(<<"software id", Fact(r, "banner", "software id")>>),
       Comment(<<>>) >>

LEMMA BannerHeadIs ==
    ASSUME NEW r, NEW clock
    PROVE  /\ Remarked(BannerHead(r, clock)) /\ Len(BannerHead(r, clock)) = 3
           /\ BannerHead(r, clock)[1] = Comment(<<"routeros", Fact(r, "banner", "routeros"), clock>>)
           /\ BannerHead(r, clock)[2] = Comment(<<"software id", Fact(r, "banner", "software id")>>)
           /\ BannerHead(r, clock)[3] = Comment(<<>>)
<1> DEFINE a == Comment(<<"routeros", Fact(r, "banner", "routeros"), clock>>)
           b == Comment(<<"software id", Fact(r, "banner", "software id")>>)
           c == Comment(<<>>)
           text == <<a, b, c>>
<1>1. BannerHead(r, clock) = text
  BY DEF BannerHead
<1>2. a.kind = "comment" /\ b.kind = "comment" /\ c.kind = "comment"
  BY CommentKind
<1> HIDE DEF a, b, c
<1>3. /\ text \in Seq({a, b, c}) /\ Len(text) = 3 /\ DOMAIN text = {1, 2, 3}
      /\ text[1] = a /\ text[2] = b /\ text[3] = c
  OBVIOUS
<1> HIDE DEF text
<1>4. text \in Seq(Range(text))
  BY <1>3, SeqOfRange
<1>5. \A i \in {1, 2, 3} : text[i].kind = "comment"
  BY <1>2, <1>3
<1>6. 1..Len(text) = {1, 2, 3}
  BY <1>3
<1>7. Remarked(text)
  BY <1>3, <1>4, <1>5, <1>6 DEF Remarked, IsText, IsLive
<1> QED BY <1>1, <1>3, <1>7 DEF a, b, c

LEMMA BannerIs ==
    ASSUME NEW r, r.kind # "bare", NEW clock
    PROVE  /\ Remarked(Banner(r, clock))
           /\ Len(Banner(r, clock)) = 4 + Len(BannerRest(r)) /\ Len(BannerRest(r)) \in Nat
           /\ IsBannerStart(Banner(r, clock)[1])
           /\ \A i \in 1..3 : Banner(r, clock)[i] = BannerHead(r, clock)[i]
           /\ \A i \in 1..(Len(BannerRest(r)) + 1) :
                  Banner(r, clock)[3 + i] = (BannerRest(r) \o <<Blank>>)[i]
<1> DEFINE head == BannerHead(r, clock)
           rest == BannerRest(r)
           tail == rest \o <<Blank>>
<1>1. Remarked(head) /\ Len(head) = 3
  BY BannerHeadIs
<1>2. Remarked(rest)
  <2>1. Remarked(<<>>)
    BY TextEmpty DEF Remarked
  <2>2. CASE r.kind = "chr"
    BY <2>1, <2>2 DEF BannerRest
  <2>3. CASE r.kind # "chr"
    BY <2>3, TwoComments DEF BannerRest
  <2> QED BY <2>2, <2>3
<1>3. Remarked(<<Blank>>) /\ Len(<<Blank>>) = 1
  <2>1. Blank.kind = "blank"
    BY DEF Blank, Line
  <2> QED BY <2>1, OneLine DEF Remarked, IsLive
<1>4. Remarked(tail) /\ Len(tail) = Len(rest) + 1 /\ Len(rest) \in Nat
  BY <1>2, <1>3, RemarkedTogether, TextConcat, TextFacts DEF Remarked
<1>5. Banner(r, clock) = head \o tail
  <2>1. Banner(r, clock) = (head \o rest) \o <<Blank>>
    BY DEF Banner, BannerHead, BannerRest
  <2>2. PICK S1 : head \in Seq(S1) /\ rest \in Seq(S1)
    BY <1>1, <1>2, TextsShare DEF Remarked
  <2>3. rest \in Seq(S1 \cup {Blank}) /\ head \in Seq(S1 \cup {Blank})
    BY <2>2, SeqMonotonic
  <2>4. <<Blank>> \in Seq(S1 \cup {Blank})
    OBVIOUS
  <2> HIDE DEF head, rest
  <2> QED BY <2>1, <2>3, <2>4, ConcatAssociative
<1>6. IsBannerStart(head[1])
  <2>1. head[1] = Comment(<<"routeros", Fact(r, "banner", "routeros"), clock>>)
    BY BannerHeadIs
  <2> HIDE DEF head
  <2> QED BY <2>1 DEF IsBannerStart, Comment, Line
<1> HIDE DEF head, tail
<1>7. Remarked(head \o tail)
  BY <1>1, <1>4, RemarkedTogether
<1>8. /\ Len(head \o tail) = Len(head) + Len(tail)
      /\ \A i \in 1..Len(head) : (head \o tail)[i] = head[i]
      /\ \A i \in 1..Len(tail) : (head \o tail)[Len(head) + i] = tail[i]
  <2>1. IsText(head) /\ IsText(tail)
    BY <1>1, <1>4 DEF Remarked
  <2> QED BY <2>1, TextConcat
<1>9. /\ Remarked(Banner(r, clock)) /\ Len(Banner(r, clock)) = 4 + Len(rest)
      /\ IsBannerStart(Banner(r, clock)[1])
      /\ \A i \in 1..3 : Banner(r, clock)[i] = head[i]
      /\ \A i \in 1..(Len(rest) + 1) : Banner(r, clock)[3 + i] = tail[i]
  BY <1>1, <1>4, <1>5, <1>6, <1>7, <1>8
<1> QED BY <1>4, <1>9 DEF head, tail

LEMMA OutputIs ==
    ASSUME NEW r \in Routers, NEW clock
    PROVE  /\ IsText(Output(r, clock)) /\ IsText(Banner(r, clock))
           /\ Len(Banner(r, clock)) \in Nat
           /\ Len(Output(r, clock)) = Len(r.accounts) + Len(Banner(r, clock)) + Len(r.config)
           /\ \A i \in 1..Len(r.accounts) : Output(r, clock)[i] = r.accounts[i]
           /\ \A i \in 1..Len(Banner(r, clock)) :
                  Output(r, clock)[Len(r.accounts) + i] = Banner(r, clock)[i]
           /\ \A i \in 1..Len(r.config) :
                  Output(r, clock)[Len(r.accounts) + Len(Banner(r, clock)) + i] = r.config[i]
<1> DEFINE a == r.accounts
           b == Banner(r, clock)
           c == r.config
           ab == a \o b
<1>1. IsText(a) /\ IsText(c) /\ Len(a) \in Nat /\ Len(c) \in Nat
  BY RouterFacts
<1>2. IsText(b)
  <2>1. CASE r.kind = "bare"
    BY <2>1, TextEmpty DEF Banner
  <2>2. CASE r.kind # "bare"
    BY <2>2, BannerIs DEF Remarked
  <2> QED BY <2>1, <2>2
<1>3. Output(r, clock) = ab \o c
  BY DEF Output
<1> HIDE DEF a, b, c
<1>4. Len(b) \in Nat
  BY <1>2, TextFacts
<1>5. /\ IsText(ab) /\ Len(ab) = Len(a) + Len(b)
      /\ \A i \in 1..Len(a) : ab[i] = a[i]
      /\ \A i \in 1..Len(b) : ab[Len(a) + i] = b[i]
  BY <1>1, <1>2, TextConcat
<1> HIDE DEF ab
<1>6. /\ IsText(ab \o c) /\ Len(ab \o c) = Len(ab) + Len(c)
      /\ \A i \in 1..Len(ab) : (ab \o c)[i] = ab[i]
      /\ \A i \in 1..Len(c) : (ab \o c)[Len(ab) + i] = c[i]
  <2>1. IsText(ab) /\ IsText(c)
    BY <1>1, <1>5
  <2> QED BY <2>1, TextConcat
<1>7. /\ \A i \in 1..Len(a) : (ab \o c)[i] = a[i]
      /\ \A i \in 1..Len(b) : (ab \o c)[Len(a) + i] = b[i]
  BY <1>1, <1>4, <1>5, <1>6
<1> QED BY <1>2, <1>3, <1>4, <1>5, <1>6, <1>7 DEF a, b, c

LEMMA BannerLine ==
    ASSUME NEW r \in Routers, NEW clock, NEW i \in 1..Len(Banner(r, clock))
    PROVE  Output(r, clock)[Len(r.accounts) + i] = Banner(r, clock)[i]
BY OutputIs

\* What arrives of an export is its first lines.
Arrived(r, clock, l) == SubSeq(Output(r, clock), 1, l)

LEMMA Arrives ==
    ASSUME NEW r \in Routers, NEW clock, NEW l \in 0..Len(Output(r, clock))
    PROVE  /\ IsText(Arrived(r, clock, l))
           /\ Len(Arrived(r, clock, l)) = l
           /\ \A i \in 1..l : Arrived(r, clock, l)[i] = Output(r, clock)[i]
<1>1. IsText(Output(r, clock)) /\ Len(Output(r, clock)) \in Nat
  BY OutputIs, TextFacts
<1>2. l \in Nat /\ l <= Len(Output(r, clock))
  BY <1>1
<1>3. /\ IsText(SubSeq(Output(r, clock), 1, l))
      /\ Len(SubSeq(Output(r, clock), 1, l)) = IF 1 <= l THEN l - 1 + 1 ELSE 0
      /\ \A i \in 1..(l - 1 + 1) : SubSeq(Output(r, clock), 1, l)[i] = Output(r, clock)[1 + i - 1]
  BY <1>1, <1>2, TextSub
<1> QED BY <1>2, <1>3 DEF Arrived

\* The three parts: what comes before the banner is the prints, and what
\* strip_banner leaves is as much of the configuration as arrived.
LEMMA PartsOfAnExport ==
    ASSUME NEW r \in Routers, r.kind # "bare", NEW clock,
           NEW l \in 0..Len(Output(r, clock)), l > Len(r.accounts)
    PROVE  /\ BannerAt(Arrived(r, clock, l)) = Len(r.accounts) + 1
           /\ Split(Arrived(r, clock, l)).prefix = r.accounts
           /\ IsText(Split(Arrived(r, clock, l)).export)
           /\ \A i \in 1..Len(Banner(r, clock)) :
                  i <= l - Len(r.accounts) => Split(Arrived(r, clock, l)).export[i] = Banner(r, clock)[i]
           /\ Leading(Split(Arrived(r, clock, l)).export) =
                  IF l > Len(r.accounts) + Len(Banner(r, clock)) THEN Len(Banner(r, clock))
                  ELSE l - Len(r.accounts)
           /\ \E m \in 0..Len(r.config) :
                  /\ StripBanner(Split(Arrived(r, clock, l)).export) = SubSeq(r.config, 1, m)
                  /\ l = Len(Output(r, clock)) => m = Len(r.config)
<1> DEFINE raw == Arrived(r, clock, l)
           La == Len(r.accounts)
           Lb == Len(Banner(r, clock))
           Lc == Len(r.config)
           Out == Output(r, clock)
           export == SubSeq(raw, La + 1, l)
           E == l - La
<1>1. /\ IsText(raw) /\ Len(raw) = l /\ \A i \in 1..l : raw[i] = Out[i]
  BY Arrives
<1>2. /\ La \in Nat /\ Lc \in Nat \ {0}
      /\ IsText(r.accounts) /\ IsText(r.config) /\ IsLive(r.config[1])
      /\ \A i \in 1..La : ~IsBannerStart(r.accounts[i])
  BY RouterFacts
<1>3. /\ Len(Out) = La + Lb + Lc /\ IsText(Banner(r, clock))
      /\ \A i \in 1..La : Out[i] = r.accounts[i]
      /\ \A i \in 1..Lb : Out[La + i] = Banner(r, clock)[i]
      /\ \A i \in 1..Lc : Out[La + Lb + i] = r.config[i]
  <2>1. IsText(Banner(r, clock))
    BY OutputIs
  <2>2. Len(Out) = La + Lb + Lc
    BY OutputIs
  <2>3. \A i \in 1..La : Out[i] = r.accounts[i]
    BY OutputIs
  <2>4. \A i \in 1..Lb : Out[La + i] = Banner(r, clock)[i]
    BY BannerLine
  <2>5. \A i \in 1..Lc : Out[La + Lb + i] = r.config[i]
    BY OutputIs
  <2> QED BY <2>1, <2>2, <2>3, <2>4, <2>5
<1>4. /\ Lb \in Nat /\ Lb >= 4 /\ \A i \in 1..Lb : ~IsLive(Banner(r, clock)[i])
      /\ IsBannerStart(Banner(r, clock)[1])
  BY BannerIs DEF Remarked
<1>5. l \in Nat /\ l > La /\ l <= La + Lb + Lc /\ E \in Nat /\ E > 0 /\ l = La + E
  <2>1. l \in 0..Len(Out) /\ l > La
    OBVIOUS
  <2>2. La \in Nat /\ Lb \in Nat /\ Lc \in Nat /\ Len(Out) = La + Lb + Lc
    BY <1>2, <1>3, <1>4
  <2>3. E = l - La
    OBVIOUS
  <2> HIDE DEF raw, La, Lb, Lc, Out, E
  <2> QED BY <2>1, <2>2, <2>3
<1> HIDE DEF raw, La, Lb, Lc, Out, E
<1>6. BannerAt(raw) = La + 1
  <2>1. La + 1 \in 1..Len(raw)
    BY <1>1, <1>2, <1>5
  <2>2. IsBannerStart(raw[La + 1])
    <3>1. raw[La + 1] = Out[La + 1]
      BY <2>1, <1>1
    <3>2. Out[La + 1] = Banner(r, clock)[1]
      BY <1>3, <1>4
    <3> QED BY <3>1, <3>2, <1>4
  <2>3. \A i \in 1..((La + 1) - 1) : ~IsBannerStart(raw[i])
    <3>0. (La + 1) - 1 = La
      BY <1>2
    <3> SUFFICES ASSUME NEW i \in 1..La PROVE ~IsBannerStart(raw[i])
      BY <3>0
    <3>1. i \in 1..l
      BY <1>2, <1>5
    <3> QED BY <3>1, <1>1, <1>2, <1>3
  <2> QED BY <2>1, <2>2, <2>3, <1>1, StartIs
<1>7. /\ Split(raw).prefix = SubSeq(raw, 1, La)
      /\ Split(raw).export = export
  <2>1. La + 1 # 0 /\ La + 1 - 1 = La
    BY <1>2
  <2>2. Len(raw) = l
    BY <1>1
  <2>3. /\ Split(raw).prefix = SubSeq(raw, 1, La)
        /\ Split(raw).export = SubSeq(raw, La + 1, Len(raw))
    <3> HIDE DEF export
    <3>1. La \in Nat
      BY <1>2
    <3> QED BY <3>1, <1>6, SplitsAt
  <2> QED BY <2>1, <2>2, <2>3
<1>8. SubSeq(raw, 1, La) = r.accounts
  <2>1. La \in Nat /\ La <= Len(raw) /\ IsText(raw)
    BY <1>1, <1>2, <1>5
  <2>2. /\ IsText(SubSeq(raw, 1, La)) /\ Len(SubSeq(raw, 1, La)) = La
        /\ \A i \in 1..La : SubSeq(raw, 1, La)[i] = raw[i]
    BY <2>1, TextFirst
  <2>3. \A i \in 1..La : SubSeq(raw, 1, La)[i] = r.accounts[i]
    <3> SUFFICES ASSUME NEW i \in 1..La PROVE SubSeq(raw, 1, La)[i] = r.accounts[i]
      OBVIOUS
    <3>1. i \in 1..l
      BY <1>2, <1>5
    <3> QED BY <3>1, <2>2, <1>1, <1>3
  <2>4. Len(r.accounts) = La
    BY DEF La
  <2> QED BY <2>2, <2>3, <2>4, <1>2, TextEqual
<1>9. /\ IsText(export) /\ Len(export) = E
      /\ \A i \in 1..E : export[i] = Out[La + i]
  <2>1. /\ IsText(export)
        /\ Len(export) = IF La + 1 <= l THEN l - (La + 1) + 1 ELSE 0
        /\ \A i \in 1..(l - (La + 1) + 1) : export[i] = raw[(La + 1) + i - 1]
    <3>1. La + 1 \in Nat \ {0} /\ l \in Nat /\ l <= Len(raw)
      BY <1>1, <1>2, <1>5
    <3>2. IsText(raw)
      BY <1>1
    <3> QED BY <3>1, <3>2, TextSub
  <2>2. \A i \in 1..E : export[i] = Out[La + i]
    <3> SUFFICES ASSUME NEW i \in 1..E PROVE export[i] = Out[La + i]
      OBVIOUS
    <3>1. i \in 1..(l - (La + 1) + 1) /\ (La + 1) + i - 1 = La + i /\ La + i \in 1..l
      BY <1>2, <1>5
    <3> HIDE DEF export
    <3> QED BY <3>1, <2>1, <1>1
  <2>3. (IF La + 1 <= l THEN l - (La + 1) + 1 ELSE 0) = E
    BY <1>2, <1>5
  <2> HIDE DEF export
  <2> QED BY <2>1, <2>2, <2>3
<1> HIDE DEF export
<1>10. \A i \in 1..Lb : i <= E => export[i] = Banner(r, clock)[i]
  <2> SUFFICES ASSUME NEW i \in 1..Lb, i <= E PROVE export[i] = Banner(r, clock)[i]
    OBVIOUS
  <2>1. i \in 1..E
    BY <1>4, <1>5
  <2> QED BY <2>1, <1>3, <1>9
<1>11. \A i \in 1..Lc : Lb + i <= E => export[Lb + i] = r.config[i]
  <2> SUFFICES ASSUME NEW i \in 1..Lc, Lb + i <= E PROVE export[Lb + i] = r.config[i]
    OBVIOUS
  <2>1. Lb + i \in 1..E /\ La + (Lb + i) = La + Lb + i
    BY <1>2, <1>4, <1>5
  <2> QED BY <2>1, <1>3, <1>9
<1>12. CASE l > La + Lb
  <2>1. E > Lb
    BY <1>2, <1>4, <1>5, <1>12
  <2>2. Leading(export) = Lb
    <3>1. Lb \in 0..Len(export)
      BY <2>1, <1>4, <1>5, <1>9
    <3>2. \A i \in 1..Lb : ~IsLive(export[i])
      BY <2>1, <1>4, <1>5, <1>10
    <3>3. IsLive(export[Lb + 1])
      <4>1. 1 \in 1..Lc /\ Lb + 1 <= E
        BY <2>1, <1>2, <1>4, <1>5
      <4> QED BY <4>1, <1>2, <1>11
    <3> QED BY <3>1, <3>2, <3>3, <1>9, LeadingIs
  <2>3. E - Lb \in 0..Lc
    BY <2>1, <1>2, <1>4, <1>5
  <2>4. StripBanner(export) = SubSeq(r.config, 1, E - Lb)
    <3> DEFINE s == SubSeq(export, Lb + 1, E)
               t == SubSeq(r.config, 1, E - Lb)
    <3>1. StripBanner(export) = s
      BY <2>2, <1>9 DEF StripBanner
    <3>2. /\ IsText(s) /\ Len(s) = IF Lb + 1 <= E THEN E - (Lb + 1) + 1 ELSE 0
          /\ \A i \in 1..(E - (Lb + 1) + 1) : s[i] = export[(Lb + 1) + i - 1]
      <4>1. Lb + 1 \in Nat \ {0} /\ E \in Nat /\ E <= Len(export)
        BY <1>4, <1>5, <1>9
      <4>2. IsText(export)
        BY <1>9
      <4> QED BY <4>1, <4>2, TextSub
    <3>3. /\ IsText(t) /\ Len(t) = IF 1 <= E - Lb THEN (E - Lb) - 1 + 1 ELSE 0
          /\ \A i \in 1..((E - Lb) - 1 + 1) : t[i] = r.config[1 + i - 1]
      <4>1. E - Lb \in Nat /\ E - Lb <= Len(r.config)
        BY <2>3, <1>2 DEF Lc
      <4>2. IsText(r.config) /\ 1 \in Nat \ {0}
        BY <1>2
      <4> QED BY <4>1, <4>2, TextSub
    <3> HIDE DEF s, t
    <3>4. Len(s) = E - Lb /\ Len(t) = E - Lb
      BY <3>2, <3>3, <2>1, <1>4, <1>5
    <3>5. \A i \in 1..Len(s) : s[i] = t[i]
      <4> SUFFICES ASSUME NEW i \in 1..(E - Lb) PROVE s[i] = t[i]
        BY <3>4
      <4>1. /\ i \in 1..(E - (Lb + 1) + 1) /\ (Lb + 1) + i - 1 = Lb + i
            /\ i \in 1..((E - Lb) - 1 + 1) /\ 1 + i - 1 = i
            /\ i \in 1..Lc /\ Lb + i <= E
        BY <2>1, <2>3, <1>2, <1>4, <1>5
      <4> QED BY <4>1, <3>2, <3>3, <1>11
    <3>6. s = t
      BY <3>2, <3>3, <3>4, <3>5, TextEqual
    <3> QED BY <3>1, <3>6 DEF s, t
  <2>5. l = Len(Out) => E - Lb = Lc
    BY <1>2, <1>3, <1>4, <1>5
  <2> QED BY <2>2, <2>3, <2>4, <2>5, <1>6, <1>7, <1>8, <1>9, <1>10, <1>12 DEF raw, La, Lb, Lc, Out, E
<1>13. CASE ~(l > La + Lb)
  <2>1. E <= Lb
    BY <1>2, <1>4, <1>5, <1>13
  <2>2. Leading(export) = E
    <3>1. \A i \in 1..E : ~IsLive(export[i])
      <4> SUFFICES ASSUME NEW i \in 1..E PROVE ~IsLive(export[i])
        OBVIOUS
      <4>1. i \in 1..Lb /\ i <= E
        BY <2>1, <1>4, <1>5
      <4> QED BY <4>1, <1>4, <1>10
    <3>2. E \in 0..Len(export) /\ ~(E < Len(export))
      BY <1>5, <1>9
    <3> QED BY <3>1, <3>2, <1>9, LeadingIs
  <2>3. StripBanner(export) = SubSeq(r.config, 1, 0)
    <3>1. StripBanner(export) = SubSeq(export, E + 1, E)
      BY <2>2, <1>9 DEF StripBanner
    <3>2. SubSeq(export, E + 1, E) = <<>>
      BY <1>5, SubSeqEmpty
    <3>3. SubSeq(r.config, 1, 0) = <<>>
      BY SubSeqEmpty
    <3> QED BY <3>1, <3>2, <3>3
  <2>4. l # Len(Out)
    BY <1>2, <1>3, <1>4, <1>5, <1>13
  <2>5. 0 \in 0..Lc
    BY <1>2
  <2> QED BY <2>2, <2>3, <2>4, <2>5, <1>6, <1>7, <1>8, <1>9, <1>10, <1>13 DEF raw, La, Lb, Lc, Out, E
<1> QED BY <1>12, <1>13

-----------------------------------------------------------------------------
(* The file of a whole export does not depend on the clock *)

\* Two lines that tell from_export_banner the same.
Alike(a, b) ==
    /\ a.says = <<>> <=> b.says = <<>>
    /\ a.says # <<>> => a.says[1] = b.says[1] /\ a.says[2] = b.says[2]

LEMMA BannersAlike ==
    ASSUME NEW r, r.kind # "bare", NEW c1, NEW c2
    PROVE  /\ Len(Banner(r, c1)) = Len(Banner(r, c2))
           /\ \A i \in 1..Len(Banner(r, c1)) : Alike(Banner(r, c1)[i], Banner(r, c2)[i])
<1> DEFINE n == Len(BannerRest(r))
<1>1. /\ Len(Banner(r, c1)) = 4 + n /\ Len(Banner(r, c2)) = 4 + n /\ n \in Nat
      /\ \A i \in 1..3 : /\ Banner(r, c1)[i] = BannerHead(r, c1)[i]
                         /\ Banner(r, c2)[i] = BannerHead(r, c2)[i]
      /\ \A i \in 1..(n + 1) : Banner(r, c1)[3 + i] = Banner(r, c2)[3 + i]
  BY BannerIs
<1> HIDE DEF n
<1>2. Alike(BannerHead(r, c1)[1], BannerHead(r, c2)[1])
  <2> DEFINE F == Fact(r, "banner", "routeros")
  <2> HIDE DEF F
  <2>1. \A c : Comment(<<"routeros", F, c>>).says = <<"routeros", F, c>>
    BY DEF Comment, Line
  <2>2. \A c : <<"routeros", F, c>> # <<>>
    OBVIOUS
  <2>3. Alike(Comment(<<"routeros", F, c1>>), Comment(<<"routeros", F, c2>>))
    BY <2>1, <2>2 DEF Alike
  <2> QED BY <2>3, BannerHeadIs DEF F
<1>3. /\ BannerHead(r, c1)[2] = BannerHead(r, c2)[2]
      /\ BannerHead(r, c1)[3] = BannerHead(r, c2)[3]
  BY BannerHeadIs
<1>4. \A i \in 1..(4 + n) : Alike(Banner(r, c1)[i], Banner(r, c2)[i])
  <2> SUFFICES ASSUME NEW i \in 1..(4 + n)
               PROVE  Alike(Banner(r, c1)[i], Banner(r, c2)[i])
    OBVIOUS
  <2>1. i = 1 \/ i = 2 \/ i = 3 \/ i > 3
    BY <1>1
  <2>2. CASE i = 1
    BY <2>2, <1>1, <1>2
  <2>3. CASE i = 2 \/ i = 3
    <3>1. Banner(r, c1)[i] = Banner(r, c2)[i]
      BY <2>3, <1>1, <1>3
    <3> QED BY <3>1 DEF Alike
  <2>4. CASE i > 3
    <3>1. i - 3 \in 1..(n + 1) /\ 3 + (i - 3) = i
      BY <2>4, <1>1
    <3>2. Banner(r, c1)[i] = Banner(r, c2)[i]
      BY <3>1, <1>1
    <3> QED BY <3>2 DEF Alike
  <2> QED BY <2>1, <2>2, <2>3, <2>4
<1> QED BY <1>1, <1>4

LEMMA FactsAlike ==
    ASSUME NEW s, NEW t, NEW n \in Nat, Leading(s) = n, Leading(t) = n,
           \A i \in 1..n : Alike(s[i], t[i])
    PROVE  FromBanner(s) = FromBanner(t)
<1> DEFINE S(f) == {i \in {j \in 1..n : s[j].says # <<>>} : s[i].says[1] = f}
           T(f) == {i \in {j \in 1..n : t[j].says # <<>>} : t[i].says[1] = f}
<1>1. \A f : S(f) = T(f)
  BY DEF Alike
<1>2. \A f : S(f) # {} => s[Max(S(f))].says[2] = t[Max(S(f))].says[2]
  <2> SUFFICES ASSUME NEW f, S(f) # {}
               PROVE  s[Max(S(f))].says[2] = t[Max(S(f))].says[2]
    OBVIOUS
  <2>1. S(f) \subseteq 1..n
    OBVIOUS
  <2>2. Max(S(f)) \in S(f)
    <3> HIDE DEF S
    <3> QED BY <2>1, MaxIs
  <2>3. Max(S(f)) \in 1..n /\ s[Max(S(f))].says # <<>>
    <3> DEFINE m == Max(S(f))
    <3> HIDE DEF m
    <3>1. m \in S(f)
      BY <2>2 DEF m
    <3>2. m \in 1..n /\ s[m].says # <<>>
      BY <3>1
    <3> QED BY <3>2 DEF m
  <2> HIDE DEF S
  <2> QED BY <2>3 DEF Alike
<1>3. FromBanner(s) = [f \in Fields |-> IF S(f) = {} THEN None ELSE s[Max(S(f))].says[2]]
  BY Zenon DEF FromBanner
<1>4. FromBanner(t) = [f \in Fields |-> IF T(f) = {} THEN None ELSE t[Max(T(f))].says[2]]
  BY Zenon DEF FromBanner
<1> HIDE DEF S, T
<1>5. \A f : (IF S(f) = {} THEN None ELSE s[Max(S(f))].says[2])
             = (IF T(f) = {} THEN None ELSE t[Max(T(f))].says[2])
  BY <1>1, <1>2
<1> QED BY <1>3, <1>4, <1>5

\* What render gets of a whole export that has a banner.
LEMMA WholeExport ==
    ASSUME NEW r \in Routers, r.kind # "bare", NEW clock
    PROVE  /\ Split(Output(r, clock)).prefix = r.accounts
           /\ StripBanner(Split(Output(r, clock)).export) = r.config
           /\ Leading(Split(Output(r, clock)).export) = Len(Banner(r, clock))
           /\ \A i \in 1..Len(Banner(r, clock)) :
                  Split(Output(r, clock)).export[i] = Banner(r, clock)[i]
<1> DEFINE out == Output(r, clock)
           l   == Len(out)
<1>1. IsText(out) /\ l = Len(r.accounts) + Len(Banner(r, clock)) + Len(r.config)
  BY OutputIs
<1>2. /\ Len(r.accounts) \in Nat /\ Len(r.config) \in Nat \ {0}
      /\ Len(Banner(r, clock)) \in Nat /\ IsText(r.config)
  BY RouterFacts, OutputIs
<1>3. out = Arrived(r, clock, l)
  BY <1>1, TextWhole DEF Arrived
<1>4. /\ l \in 0..l /\ l > Len(r.accounts)
      /\ l > Len(r.accounts) + Len(Banner(r, clock))
      /\ \A i \in 1..Len(Banner(r, clock)) : i <= l - Len(r.accounts)
  <2> DEFINE La == Len(r.accounts)
             Lb == Len(Banner(r, clock))
             Lc == Len(r.config)
  <2>1. La \in Nat /\ Lb \in Nat /\ Lc \in Nat \ {0} /\ l = La + Lb + Lc
    BY <1>1, <1>2
  <2> HIDE DEF l, La, Lb, Lc
  <2>2. l \in 0..l /\ l > La /\ l > La + Lb /\ \A i \in 1..Lb : i <= l - La
    BY <2>1
  <2> QED BY <2>2 DEF La, Lb, Lc
<1>5. /\ Split(out).prefix = r.accounts
      /\ \A i \in 1..Len(Banner(r, clock)) :
             i <= l - Len(r.accounts) => Split(out).export[i] = Banner(r, clock)[i]
      /\ Leading(Split(out).export) =
             IF l > Len(r.accounts) + Len(Banner(r, clock)) THEN Len(Banner(r, clock))
             ELSE l - Len(r.accounts)
      /\ \E m \in 0..Len(r.config) :
             /\ StripBanner(Split(out).export) = SubSeq(r.config, 1, m)
             /\ l = Len(Output(r, clock)) => m = Len(r.config)
  BY <1>3, <1>4, PartsOfAnExport
<1>6. StripBanner(Split(out).export) = SubSeq(r.config, 1, Len(r.config))
  BY <1>5
<1>7. SubSeq(r.config, 1, Len(r.config)) = r.config
  BY <1>2, TextWhole
<1> HIDE DEF l
<1> QED BY <1>4, <1>5, <1>6, <1>7

LEMMA ClockUnseen ==
    ASSUME normalize, NEW r \in Routers, NEW sources, NEW c1, NEW c2
    PROVE  Made(r, sources, c1) = Made(r, sources, c2)
<1>1. CASE r.kind = "bare"
  <2>1. Output(r, c1) = Output(r, c2)
    BY <1>1 DEF Output, Banner
  <2> QED BY <2>1 DEF Made
<1>2. CASE r.kind # "bare"
  <2> DEFINE e1 == Split(Output(r, c1)).export
             e2 == Split(Output(r, c2)).export
             known(e) == MergeFrom(Asked(r, sources), FromBanner(e))
             text(e) == Trimmed(Header(known(e)) \o CommentAsRem(Trimmed(r.accounts)) \o r.config)
  <2>1. /\ Split(Output(r, c1)).prefix = r.accounts /\ StripBanner(e1) = r.config
        /\ Split(Output(r, c2)).prefix = r.accounts /\ StripBanner(e2) = r.config
    BY <1>2, WholeExport
  <2>2. /\ Leading(e1) = Len(Banner(r, c1)) /\ Leading(e2) = Len(Banner(r, c2))
        /\ \A i \in 1..Len(Banner(r, c1)) : e1[i] = Banner(r, c1)[i]
        /\ \A i \in 1..Len(Banner(r, c2)) : e2[i] = Banner(r, c2)[i]
    BY <1>2, WholeExport
  <2>3. Len(Banner(r, c1)) \in Nat
    BY OutputIs
  <2>4. FromBanner(e1) = FromBanner(e2)
    <3> HIDE DEF e1, e2
    <3>1. /\ Leading(e1) = Len(Banner(r, c1)) /\ Leading(e2) = Len(Banner(r, c1))
          /\ \A i \in 1..Len(Banner(r, c1)) : Alike(e1[i], e2[i])
      BY <1>2, <2>2, BannersAlike
    <3> QED BY <2>3, <3>1, FactsAlike
  <2>5. Made(r, sources, c1) = text(e1)
    BY <2>1 DEF Made, Render
  <2>6. Made(r, sources, c2) = text(e2)
    BY <2>1 DEF Made, Render
  <2>7. known(e1) = known(e2)
    BY <2>4
  <2> HIDE DEF known
  <2> QED BY <2>5, <2>6, <2>7
<1> QED BY <1>1, <1>2

-----------------------------------------------------------------------------
(* What the file of an export is *)

LEMMA StrippedText ==
    ASSUME NEW text, IsText(text)
    PROVE  IsText(StripBanner(text))
<1>1. PICK n \in 0..Len(text) : /\ \A i \in 1..n : ~IsLive(text[i])
                                /\ n < Len(text) => IsLive(text[n + 1])
  BY FirstLive
<1>2. Leading(text) = n
  BY <1>1, LeadingIs
<1>3. Len(text) \in Nat
  BY TextFacts
<1>4. n + 1 \in Nat \ {0}
  BY <1>3
<1>5. IsText(SubSeq(text, n + 1, Len(text)))
  BY <1>3, <1>4, TextSub
<1> QED BY <1>2, <1>5 DEF StripBanner

LEMMA SplitText ==
    ASSUME NEW text, IsText(text)
    PROVE  IsText(Split(text).prefix) /\ IsText(StripBanner(Split(text).export))
<1> DEFINE I == {i \in 1..Len(text) : IsBannerStart(text[i])}
<1>1. BannerAt(text) = IF I # {} THEN Min(I) ELSE 0
  BY DEF BannerAt, SelectInSeq
<1>2. Len(text) \in Nat
  BY TextFacts
<1>3. CASE I = {}
  <2>1. BannerAt(text) = 0
    BY <1>1, <1>3
  <2>2. Split(text).prefix = <<>> /\ Split(text).export = text
    BY <2>1 DEF Split
  <2>3. IsText(<<>>) /\ IsText(StripBanner(text))
    BY StrippedText, TextEmpty
  <2> QED BY <2>2, <2>3
<1>4. CASE I # {}
  <2>1. Min(I) \in I
    <3>1. I \subseteq Nat
      BY <1>2
    <3> HIDE DEF I
    <3> QED BY <3>1, <1>4, MinIs
  <2>2. PICK at \in 1..Len(text) : BannerAt(text) = at
    BY <2>1, <1>1, <1>4
  <2>3. PICK n \in Nat : at = n + 1
    <3>1. at - 1 \in Nat /\ at = (at - 1) + 1
      BY <1>2
    <3> QED BY <3>1
  <2>4. /\ Split(text).prefix = SubSeq(text, 1, n)
        /\ Split(text).export = SubSeq(text, n + 1, Len(text))
    BY <2>2, <2>3, SplitsAt
  <2>5. n <= Len(text) /\ n + 1 \in Nat \ {0}
    BY <2>3, <1>2
  <2>6. IsText(SubSeq(text, 1, n))
    BY <2>5, TextFirst
  <2>7. IsText(SubSeq(text, n + 1, Len(text)))
    BY <2>5, <1>2, TextSub
  <2> QED BY <2>4, <2>6, <2>7, StrippedText
<1> QED BY <1>3, <1>4

LEMMA RenderedText ==
    ASSUME NEW r \in Routers, NEW clock, NEW raw \in Prefixes(Output(r, clock)), NEW known
    PROVE  /\ IsText(Render(raw, Split(raw), known))
           /\ Render(raw, Split(raw), known) # <<>> =>
                  Render(raw, Split(raw), known)[Len(Render(raw, Split(raw), known))] # Blank
<1>1. PICK l \in 0..Len(Output(r, clock)) : raw = Arrived(r, clock, l)
  BY DEF Prefixes, Arrived
<1>2. IsText(raw) /\ Len(raw) = l
  BY <1>1, Arrives
<1>3. CASE ~normalize
  <2>1. Render(raw, Split(raw), known) = Trimmed(raw)
    BY <1>3 DEF Render
  <2> QED BY <2>1, <1>2, TrimmedText
<1>4. CASE normalize
  <2> DEFINE prefix == Split(raw).prefix
             rest   == StripBanner(Split(raw).export)
             all    == Header(known) \o CommentAsRem(Trimmed(prefix)) \o rest
  <2>1. Render(raw, Split(raw), known) = Trimmed(all)
    BY <1>4 DEF Render
  <2>2. IsText(prefix) /\ IsText(rest)
    BY <1>2, SplitText
  <2> HIDE DEF prefix, rest
  <2>3. IsText(CommentAsRem(Trimmed(prefix)))
    BY <2>2, TrimmedText, Remarks
  <2>4. IsText(Header(known))
    BY HeaderRemarks DEF Remarked
  <2>5. IsText(all)
    BY <2>2, <2>3, <2>4, TextConcat
  <2> HIDE DEF all
  <2> QED BY <2>1, <2>5, TrimmedText
<1> QED BY <1>3, <1>4

\* After lines that are not executed, a configuration or the first part of one: what
\* the trimmed text executes is of the configuration.
LEMMA Imported ==
    ASSUME NEW h, Remarked(h), NEW config, IsText(config), NEW m \in 0..Len(config),
           NEW text, text = Trimmed(h \o SubSeq(config, 1, m))
    PROVE  \E n \in 0..Len(text) :
               /\ \A i \in 1..n : ~IsLive(text[i])
               /\ IsPrefix(SubSeq(text, n + 1, Len(text)), config)
               /\ m = Len(config) =>
                      \A i \in (Len(text) - n + 1)..Len(config) : ~IsLive(config[i])
<1> DEFINE c == SubSeq(config, 1, m)
           all == h \o c
<1>1. Len(config) \in Nat /\ m \in Nat /\ m <= Len(config)
  BY TextFacts
<1>2. /\ IsText(c) /\ Len(c) = m /\ \A i \in 1..m : c[i] = config[i]
  BY <1>1, TextFirst
<1>3. IsText(h) /\ Len(h) \in Nat /\ \A i \in 1..Len(h) : ~IsLive(h[i])
  BY TextFacts DEF Remarked
<1> HIDE DEF c
<1>4. /\ IsText(all) /\ Len(all) = Len(h) + m
      /\ \A i \in 1..Len(h) : all[i] = h[i]
      /\ \A i \in 1..m : all[Len(h) + i] = c[i]
  BY <1>2, <1>3, TextConcat
<1>5. text = Trimmed(all)
  BY DEF c
<1> HIDE DEF all
<1>6. PICK k \in 0..Len(all) : /\ text = SubSeq(all, 1, k)
                               /\ \A i \in (k + 1)..Len(all) : all[i] = Blank
  BY <1>4, <1>5, Trims
<1>7. k \in Nat /\ k <= Len(h) + m
  BY <1>1, <1>3, <1>4
<1>8. IsText(text) /\ Len(text) = k /\ \A i \in 1..k : text[i] = all[i]
  BY <1>4, <1>6, <1>7, TextFirst
<1>9. ~IsLive(Blank)
  BY DEF Blank, Line, IsLive
<1>10. CASE k <= Len(h)
  <2>1. \A i \in 1..k : ~IsLive(text[i])
    <3> SUFFICES ASSUME NEW i \in 1..k PROVE ~IsLive(text[i])
      OBVIOUS
    <3>1. i \in 1..Len(h)
      BY <1>3, <1>7, <1>10
    <3> QED BY <3>1, <1>3, <1>4, <1>8
  <2>2. IsPrefix(SubSeq(text, k + 1, Len(text)), config)
    <3>1. SubSeq(text, k + 1, Len(text)) = <<>>
      BY <1>7, <1>8, SubSeqEmpty
    <3>2. IsPrefix(<<>>, config)
      <4>1. Len(<<>>) = 0 /\ 0 <= Len(config)
        BY <1>1
      <4>2. SubSeq(<<>>, 1, 0) = <<>> /\ SubSeq(config, 1, 0) = <<>>
        BY SubSeqEmpty
      <4> QED BY <4>1, <4>2 DEF IsPrefix
    <3> QED BY <3>1, <3>2
  <2>3. ASSUME m = Len(config), NEW i \in (Len(text) - k + 1)..Len(config)
        PROVE  ~IsLive(config[i])
    <3>1. i \in 1..m /\ Len(h) + i \in (k + 1)..Len(all)
      BY <2>3, <1>1, <1>3, <1>4, <1>7, <1>8, <1>10
    <3>2. all[Len(h) + i] = config[i]
      BY <3>1, <1>2, <1>4
    <3> QED BY <3>1, <3>2, <1>6, <1>9
  <2>4. k \in 0..Len(text)
    BY <1>7, <1>8
  <2> QED BY <2>1, <2>2, <2>3, <2>4
<1>11. CASE k > Len(h)
  <2> DEFINE j == k - Len(h)
             s == SubSeq(text, Len(h) + 1, Len(text))
  <2>0. j \in 1..m /\ k = Len(h) + j /\ j \in Nat
    BY <1>1, <1>3, <1>7, <1>11
  <2> HIDE DEF j
  <2>1. \A i \in 1..Len(h) : ~IsLive(text[i])
    <3> SUFFICES ASSUME NEW i \in 1..Len(h) PROVE ~IsLive(text[i])
      OBVIOUS
    <3>1. i \in 1..k
      BY <1>3, <1>7, <1>11
    <3> QED BY <3>1, <1>3, <1>4, <1>8
  <2>2. /\ IsText(s) /\ Len(s) = j /\ \A i \in 1..j : s[i] = config[i]
    <3>1. /\ IsText(s)
          /\ Len(s) = IF Len(h) + 1 <= k THEN k - (Len(h) + 1) + 1 ELSE 0
          /\ \A i \in 1..(k - (Len(h) + 1) + 1) : s[i] = text[(Len(h) + 1) + i - 1]
      <4>1. Len(h) + 1 \in Nat \ {0} /\ k \in Nat /\ k <= Len(text)
        BY <1>3, <1>7, <1>8
      <4>2. s = SubSeq(text, Len(h) + 1, k)
        BY <1>8
      <4> HIDE DEF s
      <4> QED BY <4>1, <4>2, <1>8, TextSub
    <3> HIDE DEF s
    <3>2. Len(s) = j
      BY <3>1, <2>0, <1>3
    <3>3. \A i \in 1..j : s[i] = config[i]
      <4> SUFFICES ASSUME NEW i \in 1..j PROVE s[i] = config[i]
        OBVIOUS
      <4>1. /\ i \in 1..(k - (Len(h) + 1) + 1) /\ (Len(h) + 1) + i - 1 = Len(h) + i
            /\ Len(h) + i \in 1..k /\ i \in 1..m
        BY <2>0, <1>1, <1>3
      <4> QED BY <4>1, <3>1, <1>2, <1>4, <1>8
    <3> QED BY <3>1, <3>2, <3>3
  <2>3. IsPrefix(s, config)
    <3>1. j <= Len(config)
      BY <2>0, <1>1
    <3>2. /\ IsText(SubSeq(config, 1, j)) /\ Len(SubSeq(config, 1, j)) = j
          /\ \A i \in 1..j : SubSeq(config, 1, j)[i] = config[i]
      BY <3>1, <2>0, TextFirst
    <3> HIDE DEF s
    <3>3. s = SubSeq(config, 1, j)
      BY <3>2, <2>2, TextEqual
    <3>4. SubSeq(s, 1, j) = s
      BY <2>2, TextWhole
    <3> QED BY <3>1, <3>3, <3>4, <2>2 DEF IsPrefix
  <2>4. ASSUME m = Len(config), NEW i \in (Len(text) - Len(h) + 1)..Len(config)
        PROVE  ~IsLive(config[i])
    <3>1. i \in 1..m /\ Len(h) + i \in (k + 1)..Len(all)
      BY <2>4, <2>0, <1>1, <1>3, <1>4, <1>7, <1>8
    <3>2. all[Len(h) + i] = config[i]
      BY <3>1, <1>2, <1>4
    <3> QED BY <3>1, <3>2, <1>6, <1>9
  <2>5. Len(h) \in 0..Len(text)
    BY <1>3, <1>7, <1>8, <1>11
  <2> QED BY <2>1, <2>3, <2>4, <2>5
<1> QED BY <1>3, <1>7, <1>10, <1>11

-----------------------------------------------------------------------------
(* What has been collected *)

LEMMA Merged ==
    ASSUME NEW x, NEW y, DOMAIN x = Fields
    PROVE  /\ DOMAIN MergeFrom(x, y) = Fields
           /\ \A f \in Fields : MergeFrom(x, y)[f] = IF x[f] = None THEN y[f] ELSE x[f]
           /\ MergeFrom(x, y) = [f \in Fields |-> IF x[f] = None THEN y[f] ELSE x[f]]
BY DEF MergeFrom

\* What is not answered adds nothing.
LEMMA NothingMore ==
    ASSUME NEW x, x = [f \in Fields |-> x[f]]
    PROVE  MergeFrom(x, NoInfo) = x
<1>1. DOMAIN x = Fields
  OBVIOUS
<1>2. MergeFrom(x, NoInfo) = [f \in Fields |-> IF x[f] = None THEN NoInfo[f] ELSE x[f]]
  BY <1>1, Merged
<1>3. \A f \in Fields : (IF x[f] = None THEN NoInfo[f] ELSE x[f]) = x[f]
  BY DEF NoInfo
<1> QED BY <1>2, <1>3

LEMMA MergedWhole ==
    ASSUME NEW x, NEW y, DOMAIN x = Fields
    PROVE  MergeFrom(x, y) = [f \in Fields |-> MergeFrom(x, y)[f]]
BY DEF MergeFrom

\* A print that is answered adds to what the prints before it told.
LEMMA AskedMore ==
    ASSUME NEW r, NEW sources \in SUBSET {"resource", "identity", "routerboard"},
           NEW source \in {"resource", "identity", "routerboard"},
           source \notin sources,
           source \in {"resource", "identity"} => "routerboard" \notin sources,
           source = "resource" => "identity" \notin sources
    PROVE  Asked(r, sources \cup {source}) = MergeFrom(Asked(r, sources), Answer(r, source))
<1> DEFINE Told(S, s) == IF s \in S THEN Answer(r, s) ELSE NoInfo
           A(S) == MergeFrom(NoInfo, Told(S, "resource"))
           B(S) == MergeFrom(A(S), Told(S, "identity"))
           more == sources \cup {source}
<1>1. \A S : Asked(r, S) = MergeFrom(B(S), Told(S, "routerboard"))
  BY DEF Asked
<1>2. DOMAIN NoInfo = Fields
  BY DEF NoInfo
<1>3. \A S : DOMAIN A(S) = Fields
  BY <1>2, Merged
<1>4. \A S : A(S) = [f \in Fields |-> A(S)[f]]
  BY <1>2, MergedWhole
<1>5. \A S : B(S) = [f \in Fields |-> B(S)[f]]
  <2> HIDE DEF A
  <2> QED BY <1>3, MergedWhole
<1>6. CASE source = "routerboard"
  <2>1. Told(more, "resource") = Told(sources, "resource")
        /\ Told(more, "identity") = Told(sources, "identity")
    BY <1>6
  <2>2. B(more) = B(sources)
    <3> HIDE DEF Told, more
    <3> QED BY <2>1
  <2>3. Told(more, "routerboard") = Answer(r, source) /\ Told(sources, "routerboard") = NoInfo
    BY <1>6
  <2> HIDE DEF B, Told, more
  <2>4. Asked(r, sources) = B(sources)
    BY <1>1, <1>5, <2>3, NothingMore
  <2>5. Asked(r, more) = MergeFrom(B(sources), Answer(r, source))
    BY <1>1, <2>2, <2>3
  <2> QED BY <2>4, <2>5 DEF more
<1>7. CASE source = "identity"
  <2>1. /\ Told(more, "resource") = Told(sources, "resource")
        /\ Told(more, "identity") = Answer(r, source) /\ Told(sources, "identity") = NoInfo
        /\ Told(more, "routerboard") = NoInfo /\ Told(sources, "routerboard") = NoInfo
    BY <1>7
  <2>2. A(more) = A(sources)
    <3> HIDE DEF Told, more
    <3> QED BY <2>1
  <2>3. B(sources) = A(sources)
    <3> HIDE DEF Told, more, A
    <3> QED BY <2>1, <1>4, NothingMore
  <2>4. B(more) = MergeFrom(A(sources), Answer(r, source))
    <3> HIDE DEF Told, more, A
    <3> QED BY <2>1, <2>2
  <2> HIDE DEF A, B, Told, more
  <2>5. Asked(r, sources) = A(sources)
    BY <1>1, <1>5, <2>1, <2>3, NothingMore
  <2>6. Asked(r, more) = B(more)
    BY <1>1, <1>5, <2>1, NothingMore
  <2> QED BY <2>4, <2>5, <2>6 DEF more
<1>8. CASE source = "resource"
  <2>1. /\ Told(more, "resource") = Answer(r, source) /\ Told(sources, "resource") = NoInfo
        /\ Told(more, "identity") = NoInfo /\ Told(sources, "identity") = NoInfo
        /\ Told(more, "routerboard") = NoInfo /\ Told(sources, "routerboard") = NoInfo
    BY <1>8
  <2>2. NoInfo = [f \in Fields |-> NoInfo[f]]
    BY DEF NoInfo
  <2>3. A(sources) = NoInfo
    <3> HIDE DEF Told, more
    <3> QED BY <2>1, <2>2, NothingMore
  <2>4. A(more) = MergeFrom(NoInfo, Answer(r, source))
    <3> HIDE DEF Told, more
    <3> QED BY <2>1
  <2>5. B(sources) = A(sources) /\ B(more) = A(more)
    <3> HIDE DEF Told, more, A
    <3> QED BY <2>1, <1>4, NothingMore
  <2> HIDE DEF A, B, Told, more
  <2>6. Asked(r, sources) = B(sources) /\ Asked(r, more) = B(more)
    BY <1>1, <1>5, <2>1, NothingMore
  <2> QED BY <2>3, <2>4, <2>5, <2>6 DEF more
<1> QED BY <1>6, <1>7, <1>8

LEMMA AskedNothing == \A r : Asked(r, {}) = NoInfo
<1>1. NoInfo = [f \in Fields |-> NoInfo[f]]
  BY DEF NoInfo
<1>2. MergeFrom(NoInfo, NoInfo) = NoInfo
  BY <1>1, NothingMore
<1>3. \A r : Asked(r, {}) = MergeFrom(MergeFrom(MergeFrom(NoInfo, NoInfo), NoInfo), NoInfo)
  BY DEF Asked
<1> QED BY <1>2, <1>3

-----------------------------------------------------------------------------
(* The inductive invariant *)

LEMMA Stages ==
    /\ DOMAIN After = {"resource", "identity", "routerboard"}
    /\ After["resource"] = "identity" /\ After["identity"] = "routerboard"
    /\ After["routerboard"] = "export"
BY DEF After

LEMMA CaptureStarts == Init => IInv
<1> SUFFICES ASSUME Init PROVE IInv
  OBVIOUS
<1>1. TypeOK
  <2>1. IsText(<<>>)
    BY TextEmpty
  <2>2. DOMAIN NoInfo = Fields
    BY DEF NoInfo
  <2> QED BY <2>1, <2>2, CaptureAssumption DEF Init, TypeOK
<1>2. Counted /\ Collected /\ FileMade /\ FileIsTheConfig
  BY DEF Init, Counted, Collected, FileMade, FileIsTheConfig
<1> QED BY <1>1, <1>2 DEF IInv

LEMMA CaptureTyped == IInv /\ [Next]_vars => TypeOK'
<1> SUFFICES ASSUME IInv, [Next]_vars PROVE TypeOK'
  OBVIOUS
<1> USE Stages
<1>0. TypeOK
  BY DEF IInv
<1>1. CASE Connect
  <2>1. DOMAIN NoInfo = Fields
    BY DEF NoInfo
  <2> QED BY <1>0, <1>1, <2>1 DEF TypeOK, Connect
<1>2. CASE Ask
  <2>1. stage' \in {"idle", "export"} \cup DOMAIN After
    BY <1>2 DEF Ask
  <2>2. DOMAIN info' = Fields
    <3>1. DOMAIN MergeFrom(info, Answer(router, stage)) = Fields
      BY <1>0, Merged DEF TypeOK
    <3> QED BY <1>0, <1>2, <3>1 DEF TypeOK, Ask
  <2>3. answered' \subseteq DOMAIN After
    BY <1>0, <1>2 DEF TypeOK, Ask
  <2> QED BY <1>0, <1>2, <2>1, <2>2, <2>3 DEF TypeOK, Ask
<1>3. CASE Export
  <2>1. PICK raw \in Prefixes(Output(router, captures)) :
            file' = Render(raw, Split(raw), MergeFrom(info, FromBanner(Split(raw).export)))
    BY <1>3 DEF Export
  <2>2. router \in Routers
    BY <1>0 DEF TypeOK
  <2>3. IsText(file') /\ (file' # <<>> => file'[Len(file')] # Blank)
    BY <2>1, <2>2, RenderedText
  <2>4. /\ stage' = "idle" /\ DOMAIN info' = Fields /\ answered' = {}
        /\ router' = router /\ normalize' = normalize /\ changes' = changes
        /\ captures' = captures + 1
    BY <1>3 DEF Export, Ends, NoInfo
  <2>5. captures' \in 0..MaxCaptures
    BY <1>0, <1>3, <2>4, CaptureAssumption DEF TypeOK, IInv, Counted, Export
  <2> QED BY <1>0, <2>3, <2>4, <2>5 DEF TypeOK
<1>4. CASE Fails
  <2>1. DOMAIN NoInfo = Fields
    BY DEF NoInfo
  <2>2. captures' \in 0..MaxCaptures
    BY <1>0, <1>4, CaptureAssumption DEF TypeOK, IInv, Counted, Fails, Ends
  <2> QED BY <1>0, <1>4, <2>1, <2>2 DEF TypeOK, Fails, Ends
<1>5. CASE RouterChanges
  <2>1. router' \in Routers
    BY <1>0, <1>5 DEF TypeOK, RouterChanges, Routers
  <2>2. changes' \in 0..MaxChanges
    BY <1>0, <1>5, CaptureAssumption DEF TypeOK, RouterChanges
  <2> QED BY <1>0, <1>5, <2>1, <2>2 DEF TypeOK, RouterChanges
<1>6. CASE UNCHANGED vars
  BY <1>0, <1>6 DEF TypeOK, vars
<1> QED BY <1>1, <1>2, <1>3, <1>4, <1>5, <1>6 DEF Next

LEMMA CaptureCounted == IInv /\ [Next]_vars => Counted'
<1> SUFFICES ASSUME IInv, [Next]_vars PROVE Counted'
  OBVIOUS
<1>0. Counted
  BY DEF IInv
<1>1. "idle" \notin DOMAIN After
  BY Stages
<1>2. CASE Connect
  BY <1>2 DEF Connect, Counted
<1>3. CASE Ask
  BY <1>0, <1>1, <1>3 DEF Ask, Counted
<1>4. CASE Export \/ Fails
  BY <1>4 DEF Export, Fails, Ends, Counted
<1>5. CASE RouterChanges
  BY <1>0, <1>5 DEF RouterChanges, Counted
<1>6. CASE UNCHANGED vars
  BY <1>0, <1>6 DEF Counted, vars
<1> QED BY <1>2, <1>3, <1>4, <1>5, <1>6 DEF Next

LEMMA CaptureCollected == IInv /\ [Next]_vars => Collected'
<1> SUFFICES ASSUME IInv, [Next]_vars PROVE Collected'
  OBVIOUS
<1> USE Stages
<1>0. TypeOK /\ Collected
  BY DEF IInv
<1>1. CASE Connect
  <2>1. Asked(router, {}) = NoInfo
    BY AskedNothing
  <2> QED BY <1>1, <2>1 DEF Connect, Collected
<1>2. CASE Ask
  <2> SUFFICES ASSUME began # None PROVE Collected'
    BY <1>2 DEF Ask, Collected
  <2>1. /\ began = router /\ info = Asked(router, answered)
        /\ stage \notin answered
        /\ stage \in {"resource", "identity"} => "routerboard" \notin answered
        /\ stage = "resource" => "identity" \notin answered
    BY <1>0, <1>2 DEF Collected, Ask
  <2>2. /\ stage \in DOMAIN After /\ stage' = After[stage]
        /\ began' = began /\ router' = router
    BY <1>2 DEF Ask
  <2>3. CASE UNCHANGED <<info, answered>>
    BY <2>1, <2>2, <2>3 DEF Collected
  <2>4. CASE info' = MergeFrom(info, Answer(router, stage)) /\ answered' = answered \cup {stage}
    <3>1. answered \in SUBSET {"resource", "identity", "routerboard"}
      BY <1>0 DEF TypeOK
    <3>2. Asked(router, answered \cup {stage}) = MergeFrom(Asked(router, answered), Answer(router, stage))
      BY <2>1, <2>2, <3>1, AskedMore
    <3>3. info' = Asked(router', answered')
      BY <2>1, <2>2, <2>4, <3>2
    <3> QED BY <2>1, <2>2, <2>4, <3>3 DEF Collected
  <2> QED BY <1>2, <2>3, <2>4 DEF Ask
<1>3. CASE Export \/ Fails \/ RouterChanges
  BY <1>3 DEF Export, Fails, Ends, RouterChanges, Collected
<1>4. CASE UNCHANGED vars
  BY <1>0, <1>4 DEF Collected, vars
<1> QED BY <1>1, <1>2, <1>3, <1>4 DEF Next

\* The step that writes the file.
LEMMA Exported ==
    ASSUME TypeOK, Collected, Export
    PROVE  /\ taken'.config = router.config
           /\ router \in Routers
           /\ \E l \in 0..Len(Output(router, captures)) :
                  LET raw == Arrived(router, captures, l)
                  IN  /\ taken'.banner =>
                             router.kind # "bare" /\ l > Len(router.accounts)
                      /\ taken'.whole => l = Len(Output(router, captures))
                      /\ file' = Render(raw, Split(raw), MergeFrom(info, FromBanner(Split(raw).export)))
           /\ taken'.from = began /\ taken'.answered = answered
           /\ taken'.from # None =>
                  began = router /\ info = Asked(router, answered)
<1>1. PICK raw \in Prefixes(Output(router, captures)) :
          /\ file' = Render(raw, Split(raw), MergeFrom(info, FromBanner(Split(raw).export)))
          /\ taken' = [from |-> began,
                       answered |-> answered, config |-> router.config,
                       banner |-> router.kind # "bare" /\ Len(raw) > Len(router.accounts),
                       whole |-> raw = Output(router, captures)]
  BY DEF Export
<1>2. PICK l \in 0..Len(Output(router, captures)) : raw = Arrived(router, captures, l)
  BY DEF Prefixes, Arrived
<1>3. router \in Routers
  BY DEF TypeOK
<1>4. /\ taken'.config = router.config
      /\ taken'.banner => router.kind # "bare" /\ Len(raw) > Len(router.accounts)
      /\ taken'.whole => raw = Output(router, captures)
      /\ taken'.from = began /\ taken'.answered = answered
  BY <1>1
<1>5. /\ taken'.whole => l = Len(Output(router, captures))
      /\ taken'.banner => router.kind # "bare" /\ l > Len(router.accounts)
  <2>1. Len(Arrived(router, captures, l)) = l
    BY <1>3, Arrives
  <2> QED BY <2>1, <1>2, <1>4
<1>6. began # None => began = router /\ info = Asked(router, answered)
  BY DEF Collected
<1> QED BY <1>1, <1>2, <1>3, <1>4, <1>5, <1>6

LEMMA CaptureMade == IInv /\ [Next]_vars => FileMade'
<1> SUFFICES ASSUME IInv, [Next]_vars PROVE FileMade'
  OBVIOUS
<1>0. TypeOK /\ Collected /\ FileMade
  BY DEF IInv
<1>1. CASE Export
  <2> SUFFICES ASSUME taken'.whole, taken'.from # None
               PROVE  /\ taken'.from \in Routers
                      /\ \E clock \in 0..MaxCaptures :
                             (file = Made(taken.from, taken.answered, clock))'
    BY DEF FileMade
  <2>1. PICK l \in 0..Len(Output(router, captures)) :
            /\ l = Len(Output(router, captures))
            /\ file' = Render(Arrived(router, captures, l), Split(Arrived(router, captures, l)),
                              MergeFrom(info, FromBanner(Split(Arrived(router, captures, l)).export)))
    BY <1>0, <1>1, Exported
  <2>2. /\ router \in Routers /\ taken'.from = router /\ taken'.answered = answered
        /\ info = Asked(router, answered)
    BY <1>0, <1>1, Exported
  <2>3. Arrived(router, captures, l) = Output(router, captures)
    <3>1. IsText(Output(router, captures))
      BY <2>2, OutputIs
    <3> QED BY <2>1, <3>1, TextWhole DEF Arrived
  <2>4. file' = Made(router, answered, captures)
    BY <2>1, <2>2, <2>3 DEF Made
  <2>5. captures \in 0..MaxCaptures
    BY <1>0 DEF TypeOK
  <2>6. normalize' = normalize
    BY <1>1 DEF Export
  <2>7. PICK clock \in 0..MaxCaptures : clock = captures
    BY <2>5
  <2>8. file' = Made(router, answered, clock)
    BY <2>4, <2>7
  <2>9. (file = Made(taken.from, taken.answered, clock))'
    BY <2>2, <2>6, <2>8 DEF Made, Render
  <2> QED BY <2>2, <2>9
<1>2. CASE Connect \/ Ask \/ Fails \/ RouterChanges \/ UNCHANGED vars
  <2>1. file' = file /\ taken' = taken /\ normalize' = normalize
    BY <1>2 DEF Connect, Ask, Fails, RouterChanges, vars
  <2> QED BY <1>0, <2>1 DEF FileMade, Made, Render
<1> QED BY <1>1, <1>2 DEF Next

LEMMA CaptureIsConfig == IInv /\ [Next]_vars => FileIsTheConfig'
<1> SUFFICES ASSUME IInv, [Next]_vars PROVE FileIsTheConfig'
  OBVIOUS
<1>0. TypeOK /\ Collected /\ FileIsTheConfig
  BY DEF IInv
<1>1. CASE Export
  <2> SUFFICES ASSUME normalize, taken'.banner
               PROVE  \E n \in 0..Len(file') :
                          /\ \A i \in 1..n : ~IsLive(file'[i])
                          /\ IsPrefix(SubSeq(file', n + 1, Len(file')), taken'.config)
                          /\ taken'.whole =>
                              \A i \in (Len(file') - n + 1)..Len(taken'.config) :
                                  ~IsLive(taken'.config[i])
    <3>1. normalize' = normalize
      BY <1>1 DEF Export
    <3> QED BY <3>1 DEF FileIsTheConfig
  <2>1. PICK l \in 0..Len(Output(router, captures)) :
            /\ router.kind # "bare" /\ l > Len(router.accounts)
            /\ taken'.whole => l = Len(Output(router, captures))
            /\ file' = Render(Arrived(router, captures, l), Split(Arrived(router, captures, l)),
                              MergeFrom(info, FromBanner(Split(Arrived(router, captures, l)).export)))
    BY <1>0, <1>1, Exported
  <2>2. router \in Routers /\ taken'.config = router.config
    BY <1>0, <1>1, Exported
  <2>3. PICK r, clock : r = router /\ clock = captures
    OBVIOUS
  <2>4. r \in Routers /\ l \in 0..Len(Output(r, clock))
    BY <2>2, <2>3
  <2>5. r.kind # "bare" /\ l > Len(r.accounts)
    BY <2>1, <2>3
  <2>6. /\ Split(Arrived(r, clock, l)).prefix = r.accounts
        /\ \E m \in 0..Len(r.config) :
               /\ StripBanner(Split(Arrived(r, clock, l)).export) = SubSeq(r.config, 1, m)
               /\ l = Len(Output(r, clock)) => m = Len(r.config)
    BY <2>4, <2>5, PartsOfAnExport
  <2>7. PICK m \in 0..Len(r.config) :
               /\ StripBanner(Split(Arrived(r, clock, l)).export) = SubSeq(r.config, 1, m)
               /\ l = Len(Output(r, clock)) => m = Len(r.config)
    BY <2>6
  <2> DEFINE h == Header(MergeFrom(info, FromBanner(Split(Arrived(r, clock, l)).export)))
                  \o CommentAsRem(Trimmed(r.accounts))
  <2>8. file' = Trimmed(h \o SubSeq(r.config, 1, m))
    BY <2>1, <2>3, <2>6, <2>7 DEF Render
  <2>9. Remarked(h)
    <3>1. IsText(r.accounts)
      BY <2>4, RouterFacts
    <3>2. Remarked(CommentAsRem(Trimmed(r.accounts)))
      BY <3>1, TrimmedText, Remarks DEF Remarked
    <3> QED BY <3>2, HeaderRemarks, RemarkedTogether
  <2> HIDE DEF h
  <2>10. IsText(r.config)
    BY <2>4, RouterFacts
  <2>11. PICK text, first : text = file' /\ first = h
    OBVIOUS
  <2>12. \E n \in 0..Len(text) :
             /\ \A i \in 1..n : ~IsLive(text[i])
             /\ IsPrefix(SubSeq(text, n + 1, Len(text)), r.config)
             /\ m = Len(r.config) =>
                    \A i \in (Len(text) - n + 1)..Len(r.config) : ~IsLive(r.config[i])
    <3>1. Remarked(first) /\ text = Trimmed(first \o SubSeq(r.config, 1, m))
      BY <2>8, <2>9, <2>11
    <3> QED BY <3>1, <2>10, Imported
  <2>13. /\ text = file' /\ taken'.config = r.config
         /\ taken'.whole => m = Len(r.config)
    BY <2>1, <2>2, <2>3, <2>7, <2>11
  <2> QED BY <2>12, <2>13
<1>2. CASE Connect \/ Ask \/ Fails \/ RouterChanges \/ UNCHANGED vars
  <2>1. file' = file /\ taken' = taken /\ normalize' = normalize
    BY <1>2 DEF Connect, Ask, Fails, RouterChanges, vars
  <2> QED BY <1>0, <2>1 DEF FileIsTheConfig
<1> QED BY <1>1, <1>2 DEF Next

THEOREM CaptureInvariant == Spec => []IInv
<1>1. IInv /\ [Next]_vars => IInv'
  BY CaptureTyped, CaptureCounted, CaptureCollected, CaptureMade, CaptureIsConfig DEF IInv
<1> QED BY CaptureStarts, <1>1, PTL DEF Spec

-----------------------------------------------------------------------------
(* The theorems *)

\* Every state of a conversation is well typed, and a file ends in a line that is not
\* blank: any names, configurations and accounts, any number of exports and changes.
THEOREM CaptureTypeCorrect == Spec => []TypeOK
<1>1. IInv => TypeOK
  BY DEF IInv
<1> QED BY <1>1, CaptureInvariant, PTL

\* What RouterOS executes when a file is imported is of the configuration it was made
\* from, and none of the /user prints (render, split_at_export_banner).
THEOREM FileIsConfig == Spec => []FileIsTheConfig
<1>1. IInv => FileIsTheConfig
  BY DEF IInv
<1> QED BY <1>1, CaptureInvariant, PTL

\* A router that did not change and answered the same prints gives the same file,
\* whatever its clock says (strip_banner, from_export_banner).
THEOREM QuietSameFile == Spec => QuietRouterSameFile
<1> DEFINE Quiet ==
        /\ normalize /\ taken # None /\ taken' # None
        /\ taken.whole /\ taken'.whole
        /\ taken.from # None /\ taken.from = taken'.from
        /\ taken.answered = taken'.answered
        => file' = file
<1>1. IInv /\ [Next]_vars => [Quiet]_vars
  <2> SUFFICES ASSUME IInv, Next,
                      normalize, taken # None, taken' # None,
                      taken.whole, taken'.whole,
                      taken.from # None, taken.from = taken'.from,
                      taken.answered = taken'.answered
               PROVE  file' = file
    OBVIOUS
  <2>0. CASE Connect \/ Ask \/ Fails \/ RouterChanges
    BY <2>0 DEF Connect, Ask, Fails, RouterChanges
  <2>1. CASE Export
    <3>2. TypeOK /\ Collected /\ FileMade
      BY DEF IInv
    <3>3. PICK l \in 0..Len(Output(router, captures)) :
              /\ l = Len(Output(router, captures))
              /\ file' = Render(Arrived(router, captures, l), Split(Arrived(router, captures, l)),
                                MergeFrom(info, FromBanner(Split(Arrived(router, captures, l)).export)))
      BY <2>1, <3>2, Exported
    <3>4. /\ router \in Routers /\ taken'.from = router /\ taken'.answered = answered
          /\ info = Asked(router, answered)
      BY <2>1, <3>2, Exported
    <3>5. Arrived(router, captures, l) = Output(router, captures)
      <4>1. IsText(Output(router, captures))
        BY <3>4, OutputIs
      <4> QED BY <3>3, <4>1, TextWhole DEF Arrived
    <3>6. file' = Made(router, answered, captures)
      BY <3>3, <3>4, <3>5 DEF Made
    <3>7. PICK clock \in 0..MaxCaptures : file = Made(taken.from, taken.answered, clock)
      BY <3>2 DEF FileMade
    <3>8. file = Made(router, answered, clock)
      BY <3>4, <3>7
    <3> QED BY <3>4, <3>6, <3>8, ClockUnseen
  <2> QED BY <2>0, <2>1 DEF Next
<1> QED BY <1>1, CaptureInvariant, PTL DEF Spec, QuietRouterSameFile
=============================================================================
