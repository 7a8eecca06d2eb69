---------------------------- MODULE PolicyProofs ----------------------------
(***************************************************************************)
(* Proofs about PolicyEdits, for every alphabet, set of urgency terms,     *)
(* scale of confidences and pair of floors: its type invariant; that       *)
(* confidence never costs automation; that neither the spelling of a       *)
(* message nor punctuation between its words changes the urgency signals;  *)
(* and that an urgency term always escalates.                              *)
(*                                                                         *)
(* The scan is shown to be made part by part.  NFKC of s \o t is NFKC of   *)
(* t, after NFKC of s given the marks t begins with (ComposedConcat);      *)
(* stripping s \o t is stripping s and stripping t (StrippedConcat); and   *)
(* the words of two texts with a separator between them are the words of   *)
(* each (WordsSeparated).  Every edit then is a change of one part.        *)
(***************************************************************************)
EXTENDS PolicyEdits, SequenceTheorems, WellFoundedInduction, TLAPS

LEMMA CharTypes ==
    /\ Letters \subseteq Chars /\ DOMAIN Compat \subseteq Chars
    /\ Marks \subseteq Chars /\ Tatweel \subseteq Chars
    /\ Separators \subseteq Chars /\ ArabicPunctuation \subseteq Chars
BY DEF Chars

LEMMA PartOfText ==
    ASSUME NEW s \in Seq(Chars), NEW m \in 1..(Len(s) + 1), NEW n \in 0..Len(s)
    PROVE  SubSeq(s, m, n) \in Seq(Chars)
<1>1. \A i \in m..n : s[i] \in Chars
  BY ElementOfSeq, LenProperties
<1> QED  BY <1>1, SubSeqProperties

\* Replacing the characters between two places of a text by a piece.
LEMMA SplicedText ==
    ASSUME NEW s \in Seq(Chars), NEW i \in 0..Len(s), NEW j \in i..Len(s),
           NEW piece \in Seq(Chars)
    PROVE  /\ SubSeq(s, 1, i) \o piece \o SubSeq(s, j + 1, Len(s)) \in Seq(Chars)
           /\ Len(SubSeq(s, 1, i) \o piece \o SubSeq(s, j + 1, Len(s)))
                = Len(s) + Len(piece) - (j - i)
<1> DEFINE left == SubSeq(s, 1, i)
           right == SubSeq(s, j + 1, Len(s))
<1>1. Len(s) \in Nat /\ Len(piece) \in Nat
  BY LenProperties
<1>2. left \in Seq(Chars) /\ right \in Seq(Chars)
  BY <1>1, PartOfText
<1>3. Len(left) = i /\ Len(right) = Len(s) - j
  <2>1. \A k \in 1..i : s[k] \in Chars
    BY <1>1, ElementOfSeq
  <2>2. \A k \in (j + 1)..Len(s) : s[k] \in Chars
    BY <1>1, ElementOfSeq
  <2>3. Len(left) = IF 1 <= i THEN i - 1 + 1 ELSE 0
    BY <1>1, <2>1, SubSeqProperties
  <2>4. Len(right) = IF j + 1 <= Len(s) THEN Len(s) - (j + 1) + 1 ELSE 0
    BY <1>1, <2>2, SubSeqProperties
  <2> HIDE DEF left, right
  <2> QED  BY <1>1, <2>3, <2>4
<1> HIDE DEF left, right
<1>4. left \o piece \in Seq(Chars) /\ Len(left \o piece) = Len(left) + Len(piece)
  BY <1>2, ConcatProperties
<1>5. /\ left \o piece \o right \in Seq(Chars)
      /\ Len(left \o piece \o right) = Len(left \o piece) + Len(right)
  BY <1>2, <1>4, ConcatProperties
<1>6. Len(left \o piece \o right) = Len(s) + Len(piece) - (j - i)
  BY <1>1, <1>3, <1>4, <1>5
<1> QED  BY <1>5, <1>6 DEF left, right

LEMMA EditTypes ==
    ASSUME TypeOK, NEW i \in 0..Len(text), NEW piece \in Seq(Chars), Edit(i, piece)
    PROVE  TypeOK'
<1>1. text \in Seq(Chars) /\ Len(text) \in Nat /\ Len(piece) \in Nat
  BY LenProperties DEF TypeOK
<1>2. text' \in Seq(Chars) /\ Len(text') = Len(text) + Len(piece)
  <2>1. i \in i..Len(text) /\ Len(text) + Len(piece) - (i - i) = Len(text) + Len(piece)
    BY <1>1
  <2> QED  BY <1>1, <2>1, SplicedText DEF Edit, InsertAt
<1>3. Len(text') <= MaxLength
  BY <1>2 DEF Edit
<1> QED  BY <1>2, <1>3 DEF Edit, Reclassify, TypeOK

\* One character is a piece.
LEMMA OneChar == ASSUME NEW c \in Chars PROVE <<c>> \in Seq(Chars)
OBVIOUS

LEMMA RecomposeTypes == ASSUME TypeOK, Recompose PROVE TypeOK'
<1>1. text \in Seq(Chars) /\ Len(text) \in Nat /\ DOMAIN text = 1..Len(text)
      /\ Len(text) <= MaxLength
  BY LenProperties DEF TypeOK
<1>2. text' \in Seq(Chars) /\ Len(text') <= MaxLength
  <2>1. PICK i \in DOMAIN text :
          \/ \E c \in DOMAIN Compat :
                text[i] = Compat[c] /\ text' = [text EXCEPT ![i] = c]
          \/ \E p \in DOMAIN Composition :
                /\ Len(text) < MaxLength
                /\ text' = SubSeq(text, 1, i - 1) \o p \o SubSeq(text, i + 1, Len(text))
    BY DEF Recompose
  <2>2. ASSUME NEW c \in DOMAIN Compat, text' = [text EXCEPT ![i] = c]
        PROVE  text' \in Seq(Chars) /\ Len(text') <= MaxLength
    <3>1. c \in Chars
      BY CharTypes
    <3> QED  BY <1>1, <2>2, <3>1, ExceptSeq
  <2>3. ASSUME NEW p \in DOMAIN Composition, Len(text) < MaxLength,
               text' = SubSeq(text, 1, i - 1) \o p \o SubSeq(text, i + 1, Len(text))
        PROVE  text' \in Seq(Chars) /\ Len(text') <= MaxLength
    <3>1. PICK a \in Letters, m \in Marks : p = <<a, m>>
      BY PolicyAssumption DEF PolicyAssumption
    <3>2. a \in Chars /\ m \in Chars
      BY CharTypes
    <3>3. p \in Seq(Chars) /\ Len(p) = 2
      BY <3>1, <3>2
    <3>4. i - 1 \in 0..Len(text) /\ i \in (i - 1)..Len(text)
      BY <1>1
    <3>5. /\ text' \in Seq(Chars)
          /\ Len(text') = Len(text) + Len(p) - (i - (i - 1))
      BY <1>1, <2>3, <3>3, <3>4, SplicedText
    <3>6. Len(text) + Len(p) - (i - (i - 1)) = Len(text) + 1
      BY <1>1, <3>3, <3>4
    <3>7. Len(text') = Len(text) + 1 /\ Len(text) < MaxLength
      BY <2>3, <3>5, <3>6
    <3> QED  BY <1>1, <3>5, <3>7, EditsAssumption
  <2> QED  BY <2>1, <2>2, <2>3
<1> QED  BY <1>2 DEF Recompose, Reclassify, TypeOK

LEMMA TypeStep == ASSUME TypeOK, [Next]_vars PROVE TypeOK'
<1>1. Len(text) \in 0..Len(text)
  <2>1. Len(text) \in Nat
    BY LenProperties DEF TypeOK
  <2> QED  BY <2>1
<1>2. ASSUME NEW c \in Chars, Write(c) PROVE TypeOK'
  <2>1. <<c>> \in Seq(Chars) /\ Edit(Len(text), <<c>>)
    BY <1>2, OneChar DEF Write
  <2> QED  BY <1>1, <2>1, EditTypes
<1>3. CASE Decorate
  <2>1. PICK i \in 0..Len(text), c \in Marks \cup Tatweel : Edit(i, <<c>>)
    BY <1>3 DEF Decorate
  <2>2. c \in Chars
    BY CharTypes
  <2> QED  BY <2>1, <2>2, OneChar, EditTypes
<1>4. CASE Recompose
  BY <1>4, RecomposeTypes
<1>5. CASE Punctuate(Separators \cup ArabicPunctuation)
  <2>1. PICK i \in 0..Len(text), c \in Chars : Edit(i, <<c>>)
    BY <1>5, CharTypes DEF Punctuate
  <2> QED  BY <2>1, OneChar, EditTypes
<1>6. CASE AddTerm
  <2>1. PICK c \in Separators, term \in UrgencyTerms : Edit(Len(text), <<c>> \o term)
    BY <1>6 DEF AddTerm
  <2>2. <<c>> \in Seq(Chars) /\ term \in Seq(Chars)
    <3>1. term \in Seq(Letters) /\ c \in Chars
      BY PolicyAssumption, CharTypes DEF PolicyAssumption
    <3>2. term \in Seq(Chars)
      BY <3>1, CharTypes, SeqMonotonic
    <3> QED  BY <3>1, <3>2, OneChar
  <2>3. <<c>> \o term \in Seq(Chars)
    BY <2>2, ConcatProperties
  <2> QED  BY <1>1, <2>1, <2>3, EditTypes
<1>7. CASE GrowConfident
  <2>1. confidence' \in 0..MaxConfidence
    BY <1>7, PolicyAssumption DEF GrowConfident, TypeOK
  <2> QED  BY <1>7, <2>1 DEF GrowConfident, TypeOK
<1>8. ASSUME NEW i \in 0..Len(text), Diacritic(i) PROVE TypeOK'
  <2>1. PICK c \in Marks : Edit(i, <<c>>)
    BY <1>8 DEF Diacritic
  <2> QED  BY <2>1, CharTypes, OneChar, EditTypes
<1>9. CASE UNCHANGED vars
  BY <1>9 DEF vars, TypeOK
<1> QED  BY <1>2, <1>3, <1>4, <1>5, <1>6, <1>7, <1>8, <1>9 DEF Next

\* A text stays a text of bounded length under every edit, and the floors
\* keep the order that the validator of PolicyThresholds imposes.
THEOREM TypeCorrect == Spec => []TypeOK
<1>1. Init => TypeOK
  <2> SUFFICES ASSUME Init PROVE TypeOK
    OBVIOUS
  <2>1. text \in Seq(Chars) /\ Len(text) = 0
    BY EmptySeq DEF Init
  <2> QED  BY <2>1, EditsAssumption DEF Init, TypeOK, Thresholds
<1> QED  BY <1>1, TypeStep, PTL DEF Spec
-----------------------------------------------------------------------------
\* The branches of decide are monotonic in the confidence (policy.py:228-247).
LEMMA ActionGrows ==
    ASSUME NEW c \in Int, NEW d \in Int, c <= d, NEW t,
           t.auto_route_floor \in Int, t.reject_floor \in Int
    PROVE  Rank[Action(d, t)] >= Rank[Action(c, t)]
BY DEF Rank, Action

\* More confidence in an unchanged text never means less automation, for
\* every scale of confidences, pair of floors and set of urgency terms.
THEOREM ConfidencePays == Spec => ConfidenceNeverCosts
<1>1. ASSUME TypeOK, GrowConfident
      PROVE  Rank[decision'.action] >= Rank[decision.action]
  <2>1. /\ confidence \in Int /\ confidence' \in Int /\ confidence <= confidence'
        /\ thresholds' = thresholds /\ signals' = signals /\ intent' = intent
        /\ thresholds.auto_route_floor \in Int /\ thresholds.reject_floor \in Int
    BY <1>1 DEF GrowConfident, TypeOK, Floors, signals
  <2>2. CASE signals = {}
    <3>1. /\ decision.action = Action(confidence, thresholds)
          /\ decision'.action = Action(confidence', thresholds)
      BY <2>1, <2>2 DEF decision, Decide, Routing
    <3> QED  BY <2>1, <3>1, ActionGrows
  <2>3. CASE signals # {}
    <3>1. decision'.action = "auto_route" /\ decision.action = "auto_route"
      BY <2>1, <2>3 DEF decision, Decide, Escalation
    <3> QED  BY <3>1 DEF Rank
  <2> QED  BY <2>2, <2>3
<1>2. TypeOK /\ [Next]_vars =>
        [GrowConfident => Rank[decision'.action] >= Rank[decision.action]]_vars
  BY <1>1
<1> QED  BY <1>2, TypeCorrect, PTL DEF Spec, ConfidenceNeverCosts
-----------------------------------------------------------------------------
(* Composition, in a text made of two parts *)

\* The marks a text begins with: they are on the last letter before it.
Leading(t) == MarksOn(t, 0)

OnlyMarksAfter(s, i) == \A m \in (i + 1)..Len(s) : s[m] \in Marks

LEMMA ConcatParts ==
    ASSUME NEW s \in Seq(Chars), NEW t \in Seq(Chars)
    PROVE  /\ s \o t \in Seq(Chars) /\ Len(s \o t) = Len(s) + Len(t)
           /\ Len(s) \in Nat /\ Len(t) \in Nat
           /\ \A k \in 1..Len(s) : (s \o t)[k] = s[k]
           /\ \A k \in 1..Len(t) : (s \o t)[Len(s) + k] = t[k]
BY ConcatProperties, LenProperties

\* No place from i + 1 on, up to k, is anything but a mark, and none before k
\* is of the class of the mark at k.
Reaches(s, i, k) ==
    /\ \A n \in (i + 1)..k : s[n] \in Marks
    /\ \A n \in (i + 1)..(k - 1) : Class[s[n]] # Class[s[k]]

\* Those of the marks that none after place i blocks.
Passing(s, i, marks) ==
    {m \in marks : \A n \in (i + 1)..Len(s) : Class[s[n]] # Class[m]}

LEMMA MarksOnMember ==
    ASSUME NEW s \in Seq(Chars), NEW i \in 0..Len(s), NEW m
    PROVE  m \in MarksOn(s, i) <=> \E k \in (i + 1)..Len(s) : m = s[k] /\ Reaches(s, i, k)
<1>1. Len(s) \in Nat /\ DOMAIN s = 1..Len(s)
  BY LenProperties
<1>2. \A k : (k \in 1..Len(s) /\ k > i) <=> k \in (i + 1)..Len(s)
  BY <1>1
<1> QED  BY <1>1, <1>2 DEF MarksOn, Reaches

LEMMA MarksOnRight ==
    ASSUME NEW s \in Seq(Chars), NEW t \in Seq(Chars), NEW i \in 0..Len(t)
    PROVE  MarksOn(s \o t, Len(s) + i) = MarksOn(t, i)
<1> DEFINE u == s \o t
           l == Len(s)
<1>1. /\ u \in Seq(Chars) /\ Len(u) = l + Len(t)
      /\ l \in Nat /\ Len(t) \in Nat
      /\ \A k \in 1..Len(t) : u[l + k] = t[k]
  BY ConcatParts
<1> HIDE DEF u, l
<1>2. l + i \in 0..Len(u)
  BY <1>1
<1>3. ASSUME NEW k \in (i + 1)..Len(t)
      PROVE  /\ l + k \in (l + i + 1)..Len(u) /\ u[l + k] = t[k]
             /\ Reaches(u, l + i, l + k) <=> Reaches(t, i, k)
  <2>1. l + k \in (l + i + 1)..Len(u) /\ u[l + k] = t[k]
    BY <1>1
  <2>2. \A n \in (i + 1)..k : u[l + n] = t[n]
    BY <1>1
  <2>3. (\A n \in (l + i + 1)..(l + k) : u[n] \in Marks)
          <=> (\A n \in (i + 1)..k : t[n] \in Marks)
    <3>1. ASSUME \A n \in (l + i + 1)..(l + k) : u[n] \in Marks, NEW n \in (i + 1)..k
          PROVE  t[n] \in Marks
      <4>1. l + n \in (l + i + 1)..(l + k)
        BY <1>1
      <4> QED  BY <2>2, <3>1, <4>1
    <3>2. ASSUME \A n \in (i + 1)..k : t[n] \in Marks, NEW n \in (l + i + 1)..(l + k)
          PROVE  u[n] \in Marks
      <4>1. n - l \in (i + 1)..k /\ n = l + (n - l)
        BY <1>1
      <4>2. u[l + (n - l)] = t[n - l]
        BY <2>2, <4>1
      <4> QED  BY <3>2, <4>1, <4>2
    <3> QED  BY <3>1, <3>2
  <2>4. (\A n \in (l + i + 1)..((l + k) - 1) : Class[u[n]] # Class[u[l + k]])
          <=> (\A n \in (i + 1)..(k - 1) : Class[t[n]] # Class[t[k]])
    <3>1. ASSUME \A n \in (l + i + 1)..((l + k) - 1) : Class[u[n]] # Class[u[l + k]],
                 NEW n \in (i + 1)..(k - 1)
          PROVE  Class[t[n]] # Class[t[k]]
      <4>1. l + n \in (l + i + 1)..((l + k) - 1) /\ n \in (i + 1)..k
        BY <1>1
      <4> QED  BY <2>1, <2>2, <3>1, <4>1
    <3>2. ASSUME \A n \in (i + 1)..(k - 1) : Class[t[n]] # Class[t[k]],
                 NEW n \in (l + i + 1)..((l + k) - 1)
          PROVE  Class[u[n]] # Class[u[l + k]]
      <4>1. n - l \in (i + 1)..(k - 1) /\ n - l \in (i + 1)..k /\ n = l + (n - l)
        BY <1>1
      <4>2. u[l + (n - l)] = t[n - l]
        BY <2>2, <4>1
      <4> QED  BY <2>1, <3>2, <4>1, <4>2
    <3> QED  BY <3>1, <3>2
  <2>5. Reaches(u, l + i, l + k) <=>
           /\ \A n \in (l + i + 1)..(l + k) : u[n] \in Marks
           /\ \A n \in (l + i + 1)..((l + k) - 1) : Class[u[n]] # Class[u[l + k]]
    BY Zenon DEF Reaches
  <2>6. Reaches(t, i, k) <=>
           /\ \A n \in (i + 1)..k : t[n] \in Marks
           /\ \A n \in (i + 1)..(k - 1) : Class[t[n]] # Class[t[k]]
    BY Zenon DEF Reaches
  <2> HIDE DEF Reaches
  <2>7. Reaches(u, l + i, l + k) <=> Reaches(t, i, k)
    BY Zenon, <2>3, <2>4, <2>5, <2>6
  <2> QED  BY <2>1, <2>7
<1>4. ASSUME NEW m \in MarksOn(t, i) PROVE m \in MarksOn(u, l + i)
  <2>1. PICK k \in (i + 1)..Len(t) : m = t[k] /\ Reaches(t, i, k)
    BY MarksOnMember
  <2>2. l + k \in (l + i + 1)..Len(u) /\ m = u[l + k] /\ Reaches(u, l + i, l + k)
    BY <1>3, <2>1
  <2> QED  BY <1>1, <1>2, <2>2, MarksOnMember
<1>5. ASSUME NEW m \in MarksOn(u, l + i) PROVE m \in MarksOn(t, i)
  <2>1. PICK k \in (l + i + 1)..Len(u) : m = u[k] /\ Reaches(u, l + i, k)
    BY <1>1, <1>2, MarksOnMember
  <2>2. k - l \in (i + 1)..Len(t) /\ k = l + (k - l)
    BY <1>1
  <2>3. m = t[k - l] /\ Reaches(t, i, k - l)
    <3>1. /\ u[l + (k - l)] = t[k - l]
          /\ Reaches(u, l + i, l + (k - l)) <=> Reaches(t, i, k - l)
      BY <1>3, <2>2
    <3> QED  BY <2>1, <2>2, <3>1
  <2> QED  BY <2>2, <2>3, MarksOnMember
<1> QED  BY <1>4, <1>5 DEF u, l

LEMMA MarksOnLeft ==
    ASSUME NEW s \in Seq(Chars), NEW t \in Seq(Chars), NEW i \in 0..Len(s)
    PROVE  MarksOn(s \o t, i) =
              MarksOn(s, i)
                \cup (IF OnlyMarksAfter(s, i) THEN Passing(s, i, Leading(t)) ELSE {})
<1> DEFINE u == s \o t
           l == Len(s)
<1>1. /\ u \in Seq(Chars) /\ Len(u) = l + Len(t)
      /\ l \in Nat /\ Len(t) \in Nat
      /\ \A k \in 1..l : u[k] = s[k]
      /\ \A k \in 1..Len(t) : u[l + k] = t[k]
  BY ConcatParts
<1>0. l = Len(s)
  OBVIOUS
<1> HIDE DEF u, l
<1>2. i \in 0..Len(u) /\ 0 \in 0..Len(t) /\ i \in 0..l
  BY <1>0, <1>1
<1>3. ASSUME NEW k \in (i + 1)..l
      PROVE  k \in (i + 1)..Len(u) /\ u[k] = s[k] /\ (Reaches(u, i, k) <=> Reaches(s, i, k))
  <2>1. \A n \in (i + 1)..k : u[n] = s[n]
    BY <1>1, <1>2
  <2>2. k \in (i + 1)..Len(u) /\ k \in (i + 1)..k /\ (i + 1)..(k - 1) \subseteq (i + 1)..k
    BY <1>1, <1>2
  <2> QED  BY <2>1, <2>2 DEF Reaches
<1>4. ASSUME NEW k \in 1..Len(t)
      PROVE  /\ l + k \in (i + 1)..Len(u) /\ u[l + k] = t[k]
             /\ Reaches(u, i, l + k) <=>
                  /\ OnlyMarksAfter(s, i) /\ Reaches(t, 0, k)
                  /\ \A n \in (i + 1)..l : Class[s[n]] # Class[t[k]]
  <2>1. l + k \in (i + 1)..Len(u) /\ u[l + k] = t[k]
    BY <1>1, <1>2
  <2>2. ASSUME Reaches(u, i, l + k)
        PROVE  /\ OnlyMarksAfter(s, i) /\ Reaches(t, 0, k)
               /\ \A n \in (i + 1)..l : Class[s[n]] # Class[t[k]]
    <3>1. ASSUME NEW n \in (i + 1)..l
          PROVE  s[n] \in Marks /\ Class[s[n]] # Class[t[k]]
      <4>1. n \in (i + 1)..(l + k) /\ n \in (i + 1)..((l + k) - 1) /\ n \in 1..l
        BY <1>1, <1>2
      <4> QED  BY <1>1, <2>1, <2>2, <4>1 DEF Reaches
    <3>2. ASSUME NEW n \in (0 + 1)..k PROVE t[n] \in Marks
      <4>1. l + n \in (i + 1)..(l + k) /\ n \in 1..Len(t)
        BY <1>1, <1>2
      <4> QED  BY <1>1, <2>2, <4>1 DEF Reaches
    <3>3. ASSUME NEW n \in (0 + 1)..(k - 1) PROVE Class[t[n]] # Class[t[k]]
      <4>1. l + n \in (i + 1)..((l + k) - 1) /\ n \in 1..Len(t)
        BY <1>1, <1>2
      <4>2. Class[u[l + n]] # Class[u[l + k]]
        BY <2>2, <4>1 DEF Reaches
      <4>3. u[l + n] = t[n]
        BY <1>1, <4>1
      <4> QED  BY <2>1, <4>2, <4>3
    <3> QED  BY <1>0, <3>1, <3>2, <3>3 DEF OnlyMarksAfter, Reaches
  <2>3. ASSUME OnlyMarksAfter(s, i), Reaches(t, 0, k),
               \A n \in (i + 1)..l : Class[s[n]] # Class[t[k]]
        PROVE  Reaches(u, i, l + k)
    <3>1. ASSUME NEW n \in (i + 1)..(l + k), n <= l
          PROVE  n \in (i + 1)..l /\ u[n] = s[n]
      BY <1>1, <1>2, <3>1
    <3>2. ASSUME NEW n \in (i + 1)..(l + k), n > l
          PROVE  /\ n - l \in (0 + 1)..k /\ u[n] = t[n - l]
                 /\ n <= (l + k) - 1 => n - l \in (0 + 1)..(k - 1)
      <4>1. n - l \in (0 + 1)..k /\ n - l \in 1..Len(t) /\ n = l + (n - l)
            /\ (n <= (l + k) - 1 => n - l \in (0 + 1)..(k - 1))
        BY <1>1, <3>2
      <4>2. u[l + (n - l)] = t[n - l]
        BY <1>1, <4>1
      <4> QED  BY <4>1, <4>2
    <3>3. \A n \in (i + 1)..(l + k) : n <= l \/ n > l
      BY <1>1
    <3>4. ASSUME NEW n \in (i + 1)..(l + k) PROVE u[n] \in Marks
      <4>1. CASE n <= l
        BY <1>0, <2>3, <3>1, <4>1 DEF OnlyMarksAfter
      <4>2. CASE n > l
        BY <2>3, <3>2, <4>2 DEF Reaches
      <4> QED  BY <3>3, <4>1, <4>2
    <3>5. ASSUME NEW n \in (i + 1)..((l + k) - 1) PROVE Class[u[n]] # Class[u[l + k]]
      <4>1. n \in (i + 1)..(l + k) /\ n <= (l + k) - 1
        BY <1>1, <1>2
      <4>2. CASE n <= l
        BY <2>1, <2>3, <3>1, <4>1, <4>2
      <4>3. CASE n > l
        <5>1. n - l \in (0 + 1)..(k - 1) /\ u[n] = t[n - l]
          BY <3>2, <4>1, <4>3
        <5> QED  BY <2>1, <2>3, <5>1 DEF Reaches
      <4> QED  BY <3>3, <4>1, <4>2, <4>3
    <3> QED  BY <3>4, <3>5 DEF Reaches
  <2> QED  BY <2>1, <2>2, <2>3
<1>5. ASSUME NEW m \in MarksOn(s, i) PROVE m \in MarksOn(u, i)
  <2>1. PICK k \in (i + 1)..l : m = s[k] /\ Reaches(s, i, k)
    BY <1>0, MarksOnMember
  <2>2. k \in (i + 1)..Len(u) /\ m = u[k] /\ Reaches(u, i, k)
    BY <1>3, <2>1
  <2> QED  BY <1>1, <1>2, <2>2, MarksOnMember
<1>6. ASSUME OnlyMarksAfter(s, i), NEW m \in Passing(s, i, Leading(t))
      PROVE  m \in MarksOn(u, i)
  <2>1. m \in MarksOn(t, 0) /\ \A n \in (i + 1)..l : Class[s[n]] # Class[m]
    BY <1>0 DEF Passing, Leading
  <2>2. PICK k \in (0 + 1)..Len(t) : m = t[k] /\ Reaches(t, 0, k)
    BY <1>2, <2>1, MarksOnMember
  <2>3. k \in 1..Len(t)
    BY <1>1
  <2>4. l + k \in (i + 1)..Len(u) /\ m = u[l + k] /\ Reaches(u, i, l + k)
    BY <1>4, <1>6, <2>1, <2>2, <2>3
  <2> QED  BY <1>1, <1>2, <2>4, MarksOnMember
<1>7. ASSUME NEW m \in MarksOn(u, i)
      PROVE  m \in MarksOn(s, i) \/ (OnlyMarksAfter(s, i) /\ m \in Passing(s, i, Leading(t)))
  <2>1. PICK k \in (i + 1)..Len(u) : m = u[k] /\ Reaches(u, i, k)
    BY <1>1, <1>2, MarksOnMember
  <2>2. CASE k <= l
    <3>1. k \in (i + 1)..l
      BY <1>1, <2>2
    <3>2. m = s[k] /\ Reaches(s, i, k)
      BY <1>3, <2>1, <3>1
    <3> QED  BY <1>0, <3>1, <3>2, MarksOnMember
  <2>3. CASE k > l
    <3>1. k - l \in 1..Len(t) /\ k - l \in (0 + 1)..Len(t) /\ k = l + (k - l)
      BY <1>1, <2>3
    <3>2. /\ u[l + (k - l)] = t[k - l]
          /\ Reaches(u, i, l + (k - l)) =>
               /\ OnlyMarksAfter(s, i) /\ Reaches(t, 0, k - l)
               /\ \A n \in (i + 1)..l : Class[s[n]] # Class[t[k - l]]
      BY <1>4, <3>1
    <3>3. /\ m = t[k - l] /\ OnlyMarksAfter(s, i) /\ Reaches(t, 0, k - l)
          /\ \A n \in (i + 1)..l : Class[s[n]] # Class[m]
      BY <2>1, <3>1, <3>2
    <3>4. m \in MarksOn(t, 0)
      BY <1>2, <3>1, <3>3, MarksOnMember
    <3> QED  BY <1>0, <3>3, <3>4 DEF Leading, Passing
  <2>4. k <= l \/ k > l
    BY <1>1
  <2> QED  BY <2>2, <2>3, <2>4
<1> QED  BY <1>5, <1>6, <1>7 DEF u

\* One character before a text.
LEMMA LeadingOfOneMore ==
    ASSUME NEW c \in Chars, NEW t \in Seq(Chars)
    PROVE  /\ Leading(<<c>> \o t) =
                IF c \in Marks THEN {c} \cup Unblocked({c}, Leading(t)) ELSE {}
           /\ MarksOn(<<c>> \o t, 1) = Leading(t)
<1>1. <<c>> \in Seq(Chars) /\ Len(<<c>>) = 1 /\ <<c>>[1] = c
  OBVIOUS
<1>2. MarksOn(<<c>>, 0) = IF c \in Marks THEN {c} ELSE {}
  <2>1. DOMAIN <<c>> = {1} /\ \A k \in {1} : (0 + 1)..k = {1} /\ (0 + 1)..(k - 1) = {}
    OBVIOUS
  <2> QED  BY <1>1, <2>1 DEF MarksOn
<1>3. OnlyMarksAfter(<<c>>, 0) <=> c \in Marks
  BY <1>1 DEF OnlyMarksAfter
<1>4. 0 \in 0..Len(<<c>>) /\ 0 \in 0..Len(t)
  BY LenProperties
<1>5. Passing(<<c>>, 0, Leading(t)) = Unblocked({c}, Leading(t))
  BY <1>1 DEF Passing, Unblocked
<1>6. Leading(<<c>> \o t) =
        MarksOn(<<c>>, 0) \cup
          (IF OnlyMarksAfter(<<c>>, 0) THEN Passing(<<c>>, 0, Leading(t)) ELSE {})
  BY <1>1, <1>4, MarksOnLeft DEF Leading
<1>7. Leading(<<c>> \o t) = IF c \in Marks THEN {c} \cup Unblocked({c}, Leading(t)) ELSE {}
  BY <1>2, <1>3, <1>5, <1>6
<1>8. MarksOn(<<c>> \o t, 1 + 0) = MarksOn(t, 0)
  BY <1>1, <1>4, MarksOnRight
<1> QED  BY <1>7, <1>8 DEF Leading

LEMMA LeadingOfNone == Leading(<<>>) = {}
BY DEF Leading, MarksOn

LEMMA ClassesApart ==
    ASSUME NEW c \in Marks \cup Tatweel \cup Separators
    PROVE  /\ c \notin Letters /\ c \notin DOMAIN Compat
           /\ c \in Separators => c \notin Marks \cup Tatweel
           /\ c \in Tatweel => c \notin Marks
BY ClassesAssumption DEF ClassesAssumption

LEMMA LettersApart ==
    ASSUME NEW c \in Letters \cup DOMAIN Compat
    PROVE  /\ c \in Letters => c \notin DOMAIN Compat
           /\ c \notin Marks \cup Tatweel \cup Separators
BY ClassesAssumption DEF ClassesAssumption

\* Two sets of marks of which the same ones can compose with a letter.
SameComposing(marks, others) ==
    \A p \in DOMAIN Composition : p[2] \in marks <=> p[2] \in others

\* A composition of a letter, decomposed, with the marks on it.
PairsOf(letter, marks) ==
    {p \in DOMAIN Composition :
        /\ p[1] = letter.base
        /\ p[2] \in letter.marks \cup Unblocked(letter.marks, marks)}

First(pairs) ==
    CHOOSE p \in pairs : \A q \in pairs : Class[p[2]] <= Class[q[2]]

Recomposed(letter, marks) ==
    IF PairsOf(letter, marks) = {} THEN letter.base
    ELSE Composition[First(PairsOf(letter, marks))]

LEMMA ComposeAsRecomposed ==
    ASSUME NEW c, NEW marks
    PROVE  Compose(c, marks) = Recomposed(Decomposed(c), marks)
BY DEF Compose, Recomposed, PairsOf, First

LEMMA CompositionTypes ==
    ASSUME NEW p \in DOMAIN Composition
    PROVE  /\ p[1] \in Letters /\ p[2] \in Marks /\ Composition[p] \in Letters
           /\ p = <<p[1], p[2]>> /\ Class[p[2]] \in Nat
<1>1. p \in Letters \X Marks /\ Composition[p] \in Letters
  BY PolicyAssumption DEF PolicyAssumption
<1>2. p[1] \in Letters /\ p[2] \in Marks /\ p = <<p[1], p[2]>>
  BY <1>1
<1> QED  BY <1>1, <1>2, PolicyAssumption DEF PolicyAssumption

LEMMA FirstOfPairs ==
    ASSUME NEW pairs, pairs \subseteq DOMAIN Composition, pairs # {}
    PROVE  First(pairs) \in pairs
<1> DEFINE classes == {Class[p[2]] : p \in pairs}
<1>1. classes \subseteq Nat /\ classes # {}
  BY CompositionTypes
<1> HIDE DEF classes
<1>2. PICK x \in classes : \A y \in classes : ~(<<y, x>> \in OpToRel(<, Nat))
  BY <1>1, WFMin, NatLessThanWellFounded
<1>3. \A y \in classes : x <= y
  <2>1. \A y \in classes : y \in Nat /\ x \in Nat
    BY <1>1
  <2>2. \A y \in classes : ~(y < x)
    BY <1>2, <2>1 DEF OpToRel
  <2> QED  BY <2>1, <2>2
<1>4. PICK p \in pairs : Class[p[2]] = x
  BY DEF classes
<1>5. \A q \in pairs : Class[q[2]] \in classes
  BY DEF classes
<1>6. \A q \in pairs : Class[p[2]] <= Class[q[2]]
  BY <1>3, <1>4, <1>5
<1> QED  BY <1>6 DEF First

LEMMA ComposeSame ==
    ASSUME NEW x, NEW marks, NEW others, SameComposing(marks, others)
    PROVE  Compose(x, marks) = Compose(x, others)
<1>1. PairsOf(Decomposed(x), marks) = PairsOf(Decomposed(x), others)
  BY DEF SameComposing, PairsOf, Unblocked
<1> QED  BY <1>1, ComposeAsRecomposed DEF Recomposed

\* What is no letter stays as it is.
LEMMA ComposePlain ==
    ASSUME NEW c, c \notin Letters, c \notin DOMAIN Compat, NEW marks
    PROVE  Compose(c, marks) = c
<1>1. Fold(c) = c
  BY DEF Fold
<1>2. Decomposed(c) = [base |-> c, marks |-> {}]
  BY <1>1, CompositionTypes DEF Decomposed
<1>3. PairsOf([base |-> c, marks |-> {}], marks) = {}
  BY CompositionTypes DEF PairsOf
<1> QED  BY <1>2, <1>3, ComposeAsRecomposed DEF Recomposed

\* A letter and its presentation form become the same letter.
LEMMA ComposeCompat ==
    ASSUME NEW c \in DOMAIN Compat, NEW marks
    PROVE  Compose(Compat[c], marks) = Compose(c, marks)
<1>1. Compat[c] \in Letters
  BY PolicyAssumption DEF PolicyAssumption
<1>2. Fold(Compat[c]) = Fold(c)
  BY <1>1, LettersApart DEF Fold
<1>3. Decomposed(Compat[c]) = Decomposed(c)
  BY <1>2 DEF Decomposed
<1> QED  BY <1>3, ComposeAsRecomposed

\* What letters are composed of.
LEMMA DecomposedPair ==
    ASSUME NEW p \in DOMAIN Composition
    PROVE  /\ Decomposed(Composition[p]) = [base |-> p[1], marks |-> {p[2]}]
           /\ Decomposed(p[1]) = [base |-> p[1], marks |-> {}]
<1>1. Fold(Composition[p]) = Composition[p] /\ Fold(p[1]) = p[1]
  BY CompositionTypes, LettersApart DEF Fold
<1>2. {q \in DOMAIN Composition : Composition[q] = Composition[p]} = {p}
  BY PolicyAssumption DEF PolicyAssumption
<1>3. {q \in DOMAIN Composition : Composition[q] = p[1]} = {}
  BY PolicyAssumption DEF PolicyAssumption
<1>4. Decomposed(Composition[p]) = [base |-> p[1], marks |-> {p[2]}]
  BY <1>1, <1>2 DEF Decomposed
<1>5. Decomposed(p[1]) = [base |-> p[1], marks |-> {}]
  BY <1>1, <1>3 DEF Decomposed
<1> QED  BY <1>4, <1>5

\* A letter followed by its mark is what the composed letter is.
LEMMA ComposePair ==
    ASSUME NEW p \in DOMAIN Composition, NEW marks
    PROVE  Compose(p[1], {p[2]} \cup Unblocked({p[2]}, marks))
              = Compose(Composition[p], marks)
<1>1. Unblocked({}, {p[2]} \cup Unblocked({p[2]}, marks))
        = {p[2]} \cup Unblocked({p[2]}, marks)
  BY DEF Unblocked
<1>2. PairsOf([base |-> p[1], marks |-> {}], {p[2]} \cup Unblocked({p[2]}, marks))
        = PairsOf([base |-> p[1], marks |-> {p[2]}], marks)
  BY <1>1 DEF PairsOf
<1>3. Recomposed([base |-> p[1], marks |-> {}], {p[2]} \cup Unblocked({p[2]}, marks))
        = Recomposed([base |-> p[1], marks |-> {p[2]}], marks)
  BY <1>2 DEF Recomposed
<1> QED  BY <1>3, DecomposedPair, ComposeAsRecomposed

\* A letter is composed to a letter, and on its own to itself.
LEMMA ComposeLetter ==
    ASSUME NEW x \in Letters \cup DOMAIN Compat, NEW marks
    PROVE  Compose(x, marks) \in Letters
<1>1. Fold(x) \in Letters
  BY PolicyAssumption DEF PolicyAssumption, Fold
<1>2. Decomposed(x).base \in Letters
  BY <1>1, CompositionTypes DEF Decomposed
<1>3. CASE PairsOf(Decomposed(x), marks) = {}
  BY <1>2, <1>3, ComposeAsRecomposed DEF Recomposed
<1>4. CASE PairsOf(Decomposed(x), marks) # {}
  <2>1. First(PairsOf(Decomposed(x), marks)) \in DOMAIN Composition
    BY <1>4, FirstOfPairs DEF PairsOf
  <2> QED  BY <1>4, <2>1, CompositionTypes, ComposeAsRecomposed DEF Recomposed
<1> QED  BY <1>3, <1>4

LEMMA ComposeAlone ==
    ASSUME NEW x \in Letters
    PROVE  Compose(x, {}) = x
<1>1. Fold(x) = x
  BY LettersApart DEF Fold
<1>2. CASE \E p \in DOMAIN Composition : Composition[p] = x
  <2>1. PICK p \in DOMAIN Composition : Composition[p] = x
    BY <1>2
  <2>2. Decomposed(x) = [base |-> p[1], marks |-> {p[2]}]
    BY <2>1, DecomposedPair
  <2>3. PairsOf([base |-> p[1], marks |-> {p[2]}], {}) = {p}
    BY CompositionTypes DEF PairsOf, Unblocked
  <2>4. {p} # {} /\ First({p}) = p
    BY FirstOfPairs
  <2> QED  BY <2>1, <2>2, <2>3, <2>4, ComposeAsRecomposed DEF Recomposed
<1>3. CASE ~\E p \in DOMAIN Composition : Composition[p] = x
  <2>1. Decomposed(x) = [base |-> x, marks |-> {}]
    BY <1>1, <1>3 DEF Decomposed
  <2>2. PairsOf([base |-> x, marks |-> {}], {}) = {}
    BY DEF PairsOf, Unblocked
  <2> QED  BY <2>1, <2>2, ComposeAsRecomposed DEF Recomposed
<1> QED  BY <1>2, <1>3

LEMMA ComposeType ==
    ASSUME NEW x \in Chars, NEW marks
    PROVE  Compose(x, marks) \in Chars
<1>1. CASE x \in Letters \cup DOMAIN Compat
  BY <1>1, CharTypes, ComposeLetter
<1>2. CASE x \notin Letters \cup DOMAIN Compat
  BY <1>2, ComposePlain
<1> QED  BY <1>1, <1>2

LEMMA ComposedAsCompose ==
    ASSUME NEW s
    PROVE  Composed(s) = [k \in DOMAIN s |-> Compose(s[k], MarksOn(s, k))]
BY DEF Composed

LEMMA ComposedType ==
    ASSUME NEW s \in Seq(Chars)
    PROVE  Composed(s) \in Seq(Chars) /\ Len(Composed(s)) = Len(s)
<1>1. Len(s) \in Nat /\ DOMAIN s = 1..Len(s) /\ \A k \in DOMAIN s : s[k] \in Chars
  BY LenProperties, ElementOfSeq
<1>2. \A k \in 1..Len(s) : Compose(s[k], MarksOn(s, k)) \in Chars
  BY <1>1, ComposeType
<1> QED  BY <1>1, <1>2, ComposedAsCompose

\* The marks on place k of a text, when some marks follow the text.
MarksWith(s, k, marks) ==
    MarksOn(s, k) \cup (IF OnlyMarksAfter(s, k) THEN Passing(s, k, marks) ELSE {})

\* What a text becomes when some marks follow it.
Carried(s, marks) == [k \in DOMAIN s |-> Compose(s[k], MarksWith(s, k, marks))]

LEMMA CarriedType ==
    ASSUME NEW s \in Seq(Chars), NEW marks
    PROVE  /\ Carried(s, marks) \in Seq(Chars)
           /\ Len(Carried(s, marks)) = Len(s)
           /\ DOMAIN Carried(s, marks) = 1..Len(s)
<1>1. Len(s) \in Nat /\ DOMAIN s = 1..Len(s) /\ \A k \in DOMAIN s : s[k] \in Chars
  BY LenProperties, ElementOfSeq
<1>2. \A k \in 1..Len(s) : Compose(s[k], MarksWith(s, k, marks)) \in Chars
  BY <1>1, ComposeType
<1> QED  BY <1>1, <1>2 DEF Carried

LEMMA CarriedSame ==
    ASSUME NEW s, NEW marks, NEW others, SameComposing(marks, others)
    PROVE  Carried(s, marks) = Carried(s, others)
<1>1. ASSUME NEW k \in DOMAIN s
      PROVE  Compose(s[k], MarksWith(s, k, marks)) = Compose(s[k], MarksWith(s, k, others))
  <2>1. SameComposing(MarksWith(s, k, marks), MarksWith(s, k, others))
    BY DEF SameComposing, MarksWith, Passing
  <2> QED  BY <2>1, ComposeSame
<1> QED  BY <1>1 DEF Carried

LEMMA CarriedNothing ==
    ASSUME NEW s PROVE Carried(s, {}) = Composed(s)
<1>1. \A k : MarksWith(s, k, {}) = MarksOn(s, k)
  BY DEF MarksWith, Passing
<1> QED  BY <1>1, ComposedAsCompose DEF Carried

\* NFKC of a text in two parts: only the marks the second part begins with
\* reach the first.
LEMMA ComposedConcat ==
    ASSUME NEW s \in Seq(Chars), NEW t \in Seq(Chars)
    PROVE  Composed(s \o t) = Carried(s, Leading(t)) \o Composed(t)
<1> DEFINE u == s \o t
           v == Carried(s, Leading(t))
           w == Composed(t)
<1>1. /\ u \in Seq(Chars) /\ Len(u) = Len(s) + Len(t)
      /\ Len(s) \in Nat /\ Len(t) \in Nat
      /\ \A k \in 1..Len(s) : u[k] = s[k]
      /\ \A k \in 1..Len(t) : u[Len(s) + k] = t[k]
  BY ConcatParts
<1>2. v \in Seq(Chars) /\ Len(v) = Len(s) /\ w \in Seq(Chars) /\ Len(w) = Len(t)
  BY CarriedType, ComposedType
<1>3. /\ v \o w \in Seq(Chars) /\ Len(v \o w) = Len(s) + Len(t)
      /\ \A k \in 1..Len(s) : (v \o w)[k] = v[k]
      /\ \A k \in 1..Len(t) : (v \o w)[Len(s) + k] = w[k]
  <2> HIDE DEF v, w
  <2>1. /\ v \o w \in Seq(Chars) /\ Len(v \o w) = Len(v) + Len(w)
        /\ \A k \in 1..Len(v) : (v \o w)[k] = v[k]
        /\ \A k \in 1..Len(w) : (v \o w)[Len(v) + k] = w[k]
    BY <1>2, ConcatParts
  <2> QED  BY <1>2, <2>1
<1>4. Composed(u) \in Seq(Chars) /\ Len(Composed(u)) = Len(u)
  BY <1>1, ComposedType
<1>5. \A k \in 1..Len(u) : Composed(u)[k] = Compose(u[k], MarksOn(u, k))
  <2> HIDE DEF u
  <2>1. DOMAIN u = 1..Len(u)
    BY <1>1, LenProperties
  <2> QED  BY <2>1, ComposedAsCompose
<1>6. ASSUME NEW k \in 1..Len(s) PROVE Composed(u)[k] = (v \o w)[k]
  <2>1. k \in 1..Len(u) /\ k \in 0..Len(s) /\ DOMAIN s = 1..Len(s)
    BY <1>1, LenProperties
  <2>2. MarksOn(u, k) = MarksWith(s, k, Leading(t))
    BY <2>1, MarksOnLeft DEF MarksWith
  <2>3. v[k] = Compose(s[k], MarksOn(u, k))
    BY <2>1, <2>2 DEF Carried
  <2>4. u[k] = s[k] /\ (v \o w)[k] = v[k]
    BY <1>1, <1>3
  <2> HIDE DEF u, v, w
  <2> QED  BY <1>5, <2>1, <2>3, <2>4
<1>7. ASSUME NEW k \in 1..Len(t) PROVE Composed(u)[Len(s) + k] = (v \o w)[Len(s) + k]
  <2>1. Len(s) + k \in 1..Len(u) /\ k \in 0..Len(t) /\ DOMAIN t = 1..Len(t)
    BY <1>1, LenProperties
  <2>2. MarksOn(u, Len(s) + k) = MarksOn(t, k)
    BY <2>1, MarksOnRight
  <2>3. w[k] = Compose(t[k], MarksOn(t, k))
    BY <2>1, ComposedAsCompose
  <2>4. u[Len(s) + k] = t[k] /\ (v \o w)[Len(s) + k] = w[k]
    BY <1>1, <1>3
  <2> HIDE DEF u, v, w
  <2> QED  BY <1>5, <2>1, <2>2, <2>3, <2>4
<1>8. ASSUME NEW k \in 1..Len(u) PROVE Composed(u)[k] = (v \o w)[k]
  <2> HIDE DEF u, v, w
  <2>1. CASE k <= Len(s)
    <3>1. k \in 1..Len(s)
      BY <1>1, <2>1
    <3> QED  BY <1>6, <3>1
  <2>2. CASE k > Len(s)
    <3>1. k - Len(s) \in 1..Len(t) /\ k = Len(s) + (k - Len(s))
      BY <1>1, <2>2
    <3> QED  BY <1>7, <3>1
  <2>3. k <= Len(s) \/ k > Len(s)
    BY <1>1
  <2> QED  BY <2>1, <2>2, <2>3, Zenon
<1> HIDE DEF u, v, w
<1>9. Composed(u) = v \o w
  BY <1>1, <1>3, <1>4, <1>8, SeqEqual
<1> QED  BY <1>9 DEF u, v, w

LEMMA CarriedOne ==
    ASSUME NEW c \in Chars, NEW marks
    PROVE  Carried(<<c>>, marks) = <<Compose(c, marks)>>
<1>1. DOMAIN <<c>> = {1} /\ <<c>>[1] = c /\ Len(<<c>>) = 1
  OBVIOUS
<1>2. MarksOn(<<c>>, 1) = {}
  BY <1>1 DEF MarksOn
<1>3. OnlyMarksAfter(<<c>>, 1) /\ Passing(<<c>>, 1, marks) = marks
  BY <1>1 DEF OnlyMarksAfter, Passing
<1>4. MarksWith(<<c>>, 1, marks) = marks
  BY <1>2, <1>3 DEF MarksWith
<1>5. Carried(<<c>>, marks) = [k \in {1} |-> Compose(c, marks)]
  BY <1>1, <1>4 DEF Carried
<1> QED  BY <1>5

LEMMA ComposedCons ==
    ASSUME NEW c \in Chars, NEW t \in Seq(Chars)
    PROVE  Composed(<<c>> \o t) = <<Compose(c, Leading(t))>> \o Composed(t)
<1>1. <<c>> \in Seq(Chars)
  OBVIOUS
<1> QED  BY <1>1, ComposedConcat, CarriedOne

\* Induction on the natural numbers, by a least counterexample.
LEMMA NatInd ==
    ASSUME NEW S, 0 \in S, \A n \in Nat : n \in S => n + 1 \in S
    PROVE  \A n \in Nat : n \in S
<1> DEFINE T == {n \in Nat : n \notin S}
<1> SUFFICES ASSUME T # {} PROVE FALSE
  OBVIOUS
<1>1. T \subseteq Nat
  OBVIOUS
<1> HIDE DEF T
<1>2. PICK x \in T : \A y \in T : ~(<<y, x>> \in OpToRel(<, Nat))
  BY <1>1, WFMin, NatLessThanWellFounded
<1>3. \A y \in T : ~(y < x)
  BY <1>1, <1>2 DEF OpToRel
<1>4. x \in Nat /\ x # 0 /\ x \notin S
  BY DEF T
<1>5. x - 1 \in Nat /\ x - 1 < x /\ (x - 1) + 1 = x
  BY <1>4
<1>6. x - 1 \in S
  BY <1>3, <1>5 DEF T
<1> QED  BY <1>4, <1>5, <1>6
-----------------------------------------------------------------------------
(* Stripping, in a text made of two parts *)

Strips(c) == c \in Marks \cup Tatweel

\* What is kept of the first n characters, given what is kept of n - 1.
KeepStep(s, f, n) ==
    IF n = 0 THEN <<>>
    ELSE IF Strips(s[n]) THEN f[n - 1] ELSE Append(f[n - 1], s[n])

Keeps(s, f) == f = [n \in {0} \cup DOMAIN s |-> KeepStep(s, f, n)]

Kept(s) == CHOOSE f : Keeps(s, f)

LEMMA StrippedAsKept == ASSUME NEW s PROVE Stripped(s) = Kept(s)[Len(s)]
BY DEF Stripped, Kept, Keeps, KeepStep, Strips

KeepsUpTo(s, f, n) ==
    /\ f \in [0..n -> Seq(Chars)]
    /\ \A m \in 0..n : f[m] = KeepStep(s, f, m)

LEMMA KeepsMore ==
    ASSUME NEW s \in Seq(Chars), NEW n \in Nat, n + 1 <= Len(s), NEW f, KeepsUpTo(s, f, n)
    PROVE  \E g : KeepsUpTo(s, g, n + 1)
<1> DEFINE g == [m \in 0..(n + 1) |-> IF m <= n THEN f[m] ELSE KeepStep(s, f, n + 1)]
<1>1. Len(s) \in Nat /\ s[n + 1] \in Chars
  BY LenProperties, ElementOfSeq
<1>2. /\ f \in [0..n -> Seq(Chars)] /\ f[n] \in Seq(Chars)
      /\ \A m \in 0..n : f[m] \in Seq(Chars) /\ f[m] = KeepStep(s, f, m)
  BY DEF KeepsUpTo
<1>3. Append(f[n], s[n + 1]) \in Seq(Chars)
  BY <1>1, <1>2, AppendProperties
<1>4. n + 1 # 0 /\ (n + 1) - 1 = n
  OBVIOUS
<1>5. KeepStep(s, f, n + 1) \in Seq(Chars)
  BY <1>2, <1>3, <1>4 DEF KeepStep
<1>6. g \in [0..(n + 1) -> Seq(Chars)]
  BY <1>2, <1>5
<1>7. \A m \in 0..n : g[m] = f[m]
  OBVIOUS
<1>8. g[n + 1] = KeepStep(s, f, n + 1)
  OBVIOUS
<1> HIDE DEF g
<1>9. ASSUME NEW m \in 0..(n + 1) PROVE g[m] = KeepStep(s, g, m)
  <2>1. CASE m = 0
    BY <1>2, <1>7, <2>1 DEF KeepStep
  <2>2. CASE m # 0
    <3>1. m - 1 \in 0..n
      BY <2>2
    <3>2. KeepStep(s, g, m) = KeepStep(s, f, m)
      BY <1>7, <2>2, <3>1 DEF KeepStep
    <3>3. g[m] = KeepStep(s, f, m)
      <4>1. CASE m \in 0..n
        BY <1>2, <1>7, <4>1
      <4>2. CASE m = n + 1
        BY <1>8, <4>2
      <4> QED  BY <4>1, <4>2
    <3> QED  BY <3>2, <3>3
  <2> QED  BY <2>1, <2>2
<1> QED  BY <1>6, <1>9 DEF KeepsUpTo

LEMMA KeptKeeps == ASSUME NEW s \in Seq(Chars) PROVE Keeps(s, Kept(s))
<1> DEFINE S == {n \in Nat : n <= Len(s) => \E f : KeepsUpTo(s, f, n)}
<1>1. Len(s) \in Nat /\ DOMAIN s = 1..Len(s)
  BY LenProperties
<1>2. 0 \in S
  <2>1. <<>> \in Seq(Chars)
    OBVIOUS
  <2>2. KeepsUpTo(s, [m \in 0..0 |-> <<>>], 0)
    BY <2>1 DEF KeepsUpTo, KeepStep
  <2> QED  BY <2>2
<1>3. ASSUME NEW n \in Nat, n \in S PROVE n + 1 \in S
  <2>1. ASSUME n + 1 <= Len(s) PROVE \E f : KeepsUpTo(s, f, n + 1)
    <3>1. n <= Len(s)
      BY <1>1, <2>1
    <3>2. PICK f : KeepsUpTo(s, f, n)
      BY <1>3, <3>1
    <3> QED  BY <2>1, <3>2, KeepsMore
  <2> QED  BY <2>1
<1> HIDE DEF S
<1>4. Len(s) \in S
  BY <1>1, <1>2, <1>3, NatInd
<1>5. PICK f : KeepsUpTo(s, f, Len(s))
  BY <1>1, <1>4 DEF S
<1>6. Keeps(s, f)
  <2>1. 0..Len(s) = {0} \cup DOMAIN s
    BY <1>1
  <2>2. f = [m \in 0..Len(s) |-> f[m]]
    BY <1>5 DEF KeepsUpTo
  <2>3. [m \in 0..Len(s) |-> f[m]] = [m \in 0..Len(s) |-> KeepStep(s, f, m)]
    BY <1>5 DEF KeepsUpTo
  <2> QED  BY <2>1, <2>2, <2>3 DEF Keeps
<1> QED  BY <1>6 DEF Kept

LEMMA KeptAt ==
    ASSUME NEW s \in Seq(Chars)
    PROVE  /\ Kept(s)[0] = <<>>
           /\ \A n \in 1..Len(s) :
                 Kept(s)[n] = IF Strips(s[n]) THEN Kept(s)[n - 1]
                              ELSE Append(Kept(s)[n - 1], s[n])
<1> DEFINE f == Kept(s)
<1>1. DOMAIN s = 1..Len(s) /\ Len(s) \in Nat
  BY LenProperties
<1>2. f = [n \in {0} \cup DOMAIN s |-> KeepStep(s, f, n)]
  BY KeptKeeps DEF Keeps
<1> HIDE DEF f
<1>3. \A n \in {0} \cup DOMAIN s : f[n] = KeepStep(s, f, n)
  BY <1>2
<1>4. f[0] = <<>>
  BY <1>3 DEF KeepStep
<1>5. ASSUME NEW n \in 1..Len(s)
      PROVE  f[n] = IF Strips(s[n]) THEN f[n - 1] ELSE Append(f[n - 1], s[n])
  <2>1. n # 0 /\ n \in {0} \cup DOMAIN s
    BY <1>1
  <2> QED  BY <1>3, <2>1 DEF KeepStep
<1> QED  BY <1>4, <1>5 DEF f

LEMMA KeptType ==
    ASSUME NEW s \in Seq(Chars), NEW n \in 0..Len(s)
    PROVE  Kept(s)[n] \in Seq(Chars)
<1> DEFINE S == {m \in Nat : m <= Len(s) => Kept(s)[m] \in Seq(Chars)}
<1>1. Len(s) \in Nat
  BY LenProperties
<1>2. 0 \in S
  <2>1. <<>> \in Seq(Chars)
    OBVIOUS
  <2> QED  BY <2>1, KeptAt
<1>3. ASSUME NEW m \in Nat, m \in S PROVE m + 1 \in S
  <2>1. ASSUME m + 1 <= Len(s) PROVE Kept(s)[m + 1] \in Seq(Chars)
    <3>1. m + 1 \in 1..Len(s) /\ (m + 1) - 1 = m /\ m <= Len(s)
      BY <1>1, <2>1
    <3>2. Kept(s)[m] \in Seq(Chars) /\ s[m + 1] \in Chars
      BY <1>3, <3>1, ElementOfSeq
    <3>3. Append(Kept(s)[m], s[m + 1]) \in Seq(Chars)
      BY <3>2, AppendProperties
    <3>4. Kept(s)[m + 1] = IF Strips(s[m + 1]) THEN Kept(s)[m]
                           ELSE Append(Kept(s)[m], s[m + 1])
      BY <3>1, KeptAt
    <3> QED  BY <3>2, <3>3, <3>4
  <2> QED  BY <2>1
<1> HIDE DEF S
<1>4. n \in S
  BY <1>1, <1>2, <1>3, NatInd
<1> QED  BY <1>1, <1>4 DEF S

LEMMA StrippedType == ASSUME NEW s \in Seq(Chars) PROVE Stripped(s) \in Seq(Chars)
<1>1. Len(s) \in 0..Len(s)
  BY LenProperties
<1> QED  BY <1>1, KeptType, StrippedAsKept

\* What is kept of a text does not depend on what follows it.
LEMMA KeptOfFirst ==
    ASSUME NEW s \in Seq(Chars), NEW t \in Seq(Chars), NEW n \in 0..Len(s)
    PROVE  Kept(s \o t)[n] = Kept(s)[n]
<1> DEFINE u == s \o t
           S == {m \in Nat : m <= Len(s) => Kept(u)[m] = Kept(s)[m]}
<1>1. /\ u \in Seq(Chars) /\ Len(u) = Len(s) + Len(t)
      /\ Len(s) \in Nat /\ Len(t) \in Nat
      /\ \A k \in 1..Len(s) : u[k] = s[k]
  BY ConcatParts
<1> HIDE DEF u
<1>2. 0 \in S
  BY <1>1, KeptAt
<1>3. ASSUME NEW m \in Nat, m \in S PROVE m + 1 \in S
  <2>1. ASSUME m + 1 <= Len(s) PROVE Kept(u)[m + 1] = Kept(s)[m + 1]
    <3>1. m + 1 \in 1..Len(s) /\ m + 1 \in 1..Len(u) /\ (m + 1) - 1 = m /\ m <= Len(s)
      BY <1>1, <2>1
    <3>2. Kept(u)[m] = Kept(s)[m] /\ u[m + 1] = s[m + 1]
      BY <1>1, <1>3, <3>1
    <3>3. Kept(u)[m + 1] = IF Strips(u[m + 1]) THEN Kept(u)[m]
                           ELSE Append(Kept(u)[m], u[m + 1])
      BY <1>1, <3>1, KeptAt
    <3>4. Kept(s)[m + 1] = IF Strips(s[m + 1]) THEN Kept(s)[m]
                           ELSE Append(Kept(s)[m], s[m + 1])
      BY <3>1, KeptAt
    <3> QED  BY <3>2, <3>3, <3>4
  <2> QED  BY <2>1
<1> HIDE DEF S
<1>4. n \in S
  BY <1>1, <1>2, <1>3, NatInd
<1> QED  BY <1>1, <1>4 DEF S, u

LEMMA KeptOfRest ==
    ASSUME NEW s \in Seq(Chars), NEW t \in Seq(Chars), NEW n \in 0..Len(t)
    PROVE  Kept(s \o t)[Len(s) + n] = Kept(s)[Len(s)] \o Kept(t)[n]
<1> DEFINE u == s \o t
           left == Kept(s)[Len(s)]
           S == {m \in Nat : m <= Len(t) => Kept(u)[Len(s) + m] = left \o Kept(t)[m]}
<1>1. /\ u \in Seq(Chars) /\ Len(u) = Len(s) + Len(t)
      /\ Len(s) \in Nat /\ Len(t) \in Nat
      /\ \A k \in 1..Len(t) : u[Len(s) + k] = t[k]
  BY ConcatParts
<1>2. left \in Seq(Chars) /\ Kept(u)[Len(s)] = left
  BY <1>1, KeptType, KeptOfFirst
<1> HIDE DEF u, left
<1>3. 0 \in S
  <2>1. Kept(t)[0] = <<>> /\ Len(s) + 0 = Len(s)
    BY <1>1, KeptAt
  <2>2. left \o <<>> = left
    BY <1>2, ConcatEmptySeq
  <2> QED  BY <1>2, <2>1, <2>2
<1>4. ASSUME NEW m \in Nat, m \in S PROVE m + 1 \in S
  <2>1. ASSUME m + 1 <= Len(t)
        PROVE  Kept(u)[Len(s) + (m + 1)] = left \o Kept(t)[m + 1]
    <3> DEFINE c == t[m + 1]
               right == Kept(t)[m]
               p == Len(s) + (m + 1)
    <3>1. m + 1 \in 1..Len(t) /\ (m + 1) - 1 = m /\ m \in 0..Len(t)
      BY <1>1, <2>1
    <3>2. p \in 1..Len(u) /\ p - 1 = Len(s) + m
      BY <1>1, <3>1
    <3>3. Kept(u)[Len(s) + m] = left \o right /\ u[p] = c
      BY <1>1, <1>4, <3>1
    <3>4. c \in Chars /\ right \in Seq(Chars)
      BY <3>1, ElementOfSeq, KeptType
    <3>5. Kept(u)[p] = IF Strips(u[p]) THEN Kept(u)[p - 1] ELSE Append(Kept(u)[p - 1], u[p])
      BY <1>1, <3>2, KeptAt
    <3>6. Kept(t)[m + 1] = IF Strips(c) THEN right ELSE Append(right, c)
      BY <3>1, KeptAt
    <3> HIDE DEF p, c, right
    <3>7. Kept(u)[p] = IF Strips(c) THEN left \o right ELSE Append(left \o right, c)
      BY <3>2, <3>3, <3>5
    <3>8. Append(left \o right, c) = left \o Append(right, c)
      <4>1. <<c>> \in Seq(Chars) /\ left \o right \in Seq(Chars)
        BY <1>2, <3>4, ConcatProperties
      <4>2. Append(left \o right, c) = (left \o right) \o <<c>>
        BY <3>4, <4>1, AppendIsConcat
      <4>3. Append(right, c) = right \o <<c>>
        BY <3>4, AppendIsConcat
      <4>4. (left \o right) \o <<c>> = left \o (right \o <<c>>)
        BY <1>2, <3>4, <4>1, ConcatAssociative
      <4> QED  BY <4>2, <4>3, <4>4
    <3>9. Kept(u)[p] = left \o Kept(t)[m + 1]
      BY <3>6, <3>7, <3>8
    <3> QED  BY <3>9 DEF p
  <2> QED  BY <2>1
<1> HIDE DEF S
<1>5. n \in Nat
  BY <1>1
<1>6. n \in S
  BY <1>3, <1>4, <1>5, NatInd
<1>7. Kept(u)[Len(s) + n] = left \o Kept(t)[n]
  BY <1>6 DEF S
<1> QED  BY <1>7 DEF u, left

LEMMA StrippedConcat ==
    ASSUME NEW s \in Seq(Chars), NEW t \in Seq(Chars)
    PROVE  Stripped(s \o t) = Stripped(s) \o Stripped(t)
<1>1. Len(t) \in 0..Len(t) /\ Len(s \o t) = Len(s) + Len(t)
  BY ConcatParts
<1> QED  BY <1>1, KeptOfRest, StrippedAsKept

LEMMA StrippedOne ==
    ASSUME NEW c \in Chars
    PROVE  Stripped(<<c>>) = IF Strips(c) THEN <<>> ELSE <<c>>
<1> DEFINE s == <<c>>
<1>1. s \in Seq(Chars) /\ Len(s) = 1 /\ s[1] = c
  OBVIOUS
<1>2. Stripped(s) = Kept(s)[1]
  BY <1>1, StrippedAsKept
<1> HIDE DEF s
<1>3. Kept(s)[0] = <<>>
  BY <1>1, KeptAt
<1>4. Kept(s)[1] = IF Strips(s[1]) THEN Kept(s)[1 - 1] ELSE Append(Kept(s)[1 - 1], s[1])
  BY <1>1, KeptAt
<1>5. Append(<<>>, c) = <<c>>
  OBVIOUS
<1>6. Kept(s)[1 - 1] = <<>>
  BY <1>3
<1>7. Kept(s)[1] = IF Strips(c) THEN <<>> ELSE <<c>>
  BY <1>1, <1>4, <1>5, <1>6, Zenon
<1> QED  BY <1>2, <1>7 DEF s

LEMMA StrippedCons ==
    ASSUME NEW c \in Chars, NEW t \in Seq(Chars)
    PROVE  Stripped(<<c>> \o t) = IF Strips(c) THEN Stripped(t) ELSE <<c>> \o Stripped(t)
<1>1. <<c>> \in Seq(Chars)
  OBVIOUS
<1>2. <<>> \o Stripped(t) = Stripped(t)
  BY StrippedType, ConcatEmptySeq
<1>3. Stripped(<<c>> \o t) = Stripped(<<c>>) \o Stripped(t)
  BY <1>1, StrippedConcat
<1> QED  BY <1>2, <1>3, StrippedOne

LEMMA StrippedNone == Stripped(<<>>) = <<>>
<1>1. <<>> \in Seq(Chars) /\ Len(<<>>) = 0
  OBVIOUS
<1> QED  BY <1>1, StrippedAsKept, KeptAt
-----------------------------------------------------------------------------
(* The normalised text, in a text made of two parts *)

LEMMA NormaliseType == ASSUME NEW s \in Seq(Chars) PROVE Normalise(s) \in Seq(Chars)
BY ComposedType, StrippedType DEF Normalise

LEMMA NormaliseConcat ==
    ASSUME NEW s \in Seq(Chars), NEW t \in Seq(Chars)
    PROVE  Normalise(s \o t) = Stripped(Carried(s, Leading(t))) \o Normalise(t)
<1>1. Carried(s, Leading(t)) \in Seq(Chars) /\ Composed(t) \in Seq(Chars)
  BY CarriedType, ComposedType
<1>2. Stripped(Carried(s, Leading(t)) \o Composed(t))
        = Stripped(Carried(s, Leading(t))) \o Stripped(Composed(t))
  BY <1>1, StrippedConcat
<1> QED  BY <1>2, ComposedConcat DEF Normalise

\* What changes neither the normalised end of a text nor the marks it begins
\* with changes nothing in the normalised text.
LEMMA NormaliseSame ==
    ASSUME NEW s \in Seq(Chars), NEW t \in Seq(Chars), NEW u \in Seq(Chars),
           SameComposing(Leading(t), Leading(u)), Normalise(t) = Normalise(u)
    PROVE  Normalise(s \o t) = Normalise(s \o u)
<1>1. Carried(s, Leading(t)) = Carried(s, Leading(u))
  BY CarriedSame
<1>2. /\ Normalise(s \o t) = Stripped(Carried(s, Leading(t))) \o Normalise(t)
      /\ Normalise(s \o u) = Stripped(Carried(s, Leading(u))) \o Normalise(u)
  BY NormaliseConcat
<1> QED  BY <1>1, <1>2

LEMMA NormaliseCons ==
    ASSUME NEW c \in Chars, NEW t \in Seq(Chars)
    PROVE  Normalise(<<c>> \o t) =
              LET d == Compose(c, Leading(t))
              IN  IF Strips(d) THEN Normalise(t) ELSE <<d>> \o Normalise(t)
<1>1. Compose(c, Leading(t)) \in Chars /\ Composed(t) \in Seq(Chars)
  BY ComposeType, ComposedType
<1> QED  BY <1>1, ComposedCons, StrippedCons DEF Normalise
-----------------------------------------------------------------------------
(* Orthography *)

LEMMA LeadingNothing ==
    ASSUME NEW t \in Seq(Chars), Len(t) > 0 => t[1] \notin Marks
    PROVE  Leading(t) = {}
<1>1. Len(t) \in Nat /\ 0 \in 0..Len(t)
  BY LenProperties
<1>2. ASSUME NEW m \in MarksOn(t, 0) PROVE FALSE
  <2>1. PICK k \in (0 + 1)..Len(t) : \A n \in (0 + 1)..k : t[n] \in Marks
    BY <1>1, <1>2, MarksOnMember DEF Reaches
  <2>2. 1 \in (0 + 1)..k /\ Len(t) > 0
    BY <1>1
  <2> QED  BY <2>1, <2>2
<1> QED  BY <1>2 DEF Leading

\* A stripped character that changes what composes with no letter.
LEMMA StrippedAdded ==
    ASSUME NEW s \in Seq(Chars), NEW t \in Seq(Chars), NEW c \in Marks \cup Tatweel,
           SameComposing(Leading(<<c>> \o t), Leading(t))
    PROVE  Normalise(s \o (<<c>> \o t)) = Normalise(s \o t)
<1>1. c \in Chars /\ Strips(c)
  BY CharTypes DEF Strips
<1>2. Compose(c, Leading(t)) = c
  BY ClassesApart, ComposePlain
<1>3. Normalise(<<c>> \o t) = Normalise(t)
  BY <1>1, <1>2, NormaliseCons
<1>4. <<c>> \o t \in Seq(Chars)
  BY <1>1, OneChar, ConcatProperties
<1> QED  BY <1>3, <1>4, NormaliseSame

LEMMA MarkAdded ==
    ASSUME NEW s \in Seq(Chars), NEW t \in Seq(Chars), NEW c \in Marks \ Composing,
           \/ Class[c] \notin {Class[m] : m \in Composing}
           \/ Len(t) > 0 => t[1] \notin Marks
    PROVE  Normalise(s \o (<<c>> \o t)) = Normalise(s \o t)
<1>1. Leading(<<c>> \o t) = {c} \cup Unblocked({c}, Leading(t))
  BY CharTypes, LeadingOfOneMore
<1>2. \A p \in DOMAIN Composition : p[2] \in Composing
  BY DEF Composing
<1>3. CASE Class[c] \notin {Class[m] : m \in Composing}
  <2>1. \A m \in Composing : m \in {c} \cup Unblocked({c}, Leading(t)) <=> m \in Leading(t)
    BY <1>3 DEF Unblocked
  <2>2. SameComposing(Leading(<<c>> \o t), Leading(t))
    BY <1>1, <1>2, <2>1 DEF SameComposing
  <2> QED  BY <2>2, StrippedAdded
<1>4. CASE Len(t) > 0 => t[1] \notin Marks
  <2>1. Leading(t) = {}
    BY <1>4, LeadingNothing
  <2>2. SameComposing(Leading(<<c>> \o t), Leading(t))
    BY <1>1, <1>2, <2>1 DEF SameComposing, Unblocked
  <2> QED  BY <2>2, StrippedAdded
<1> QED  BY <1>3, <1>4

LEMMA TatweelAdded ==
    ASSUME NEW s \in Seq(Chars), NEW t \in Seq(Chars), NEW c \in Tatweel,
           Len(t) > 0 => t[1] \notin Marks
    PROVE  Normalise(s \o (<<c>> \o t)) = Normalise(s \o t)
<1>1. Leading(<<c>> \o t) = {} /\ Leading(t) = {}
  BY CharTypes, ClassesApart, LeadingOfOneMore, LeadingNothing
<1>2. SameComposing(Leading(<<c>> \o t), Leading(t))
  BY <1>1 DEF SameComposing
<1> QED  BY <1>2, StrippedAdded

LEMMA FormExchanged ==
    ASSUME NEW s \in Seq(Chars), NEW t \in Seq(Chars), NEW c \in DOMAIN Compat
    PROVE  Normalise(s \o (<<c>> \o t)) = Normalise(s \o (<<Compat[c]>> \o t))
<1> DEFINE x == Compat[c]
<1>1. x \in Letters /\ x \in Chars /\ c \in Chars
  BY CharTypes, PolicyAssumption DEF PolicyAssumption
<1>2. Leading(<<c>> \o t) = {} /\ Leading(<<x>> \o t) = {}
  BY <1>1, LettersApart, LeadingOfOneMore
<1>3. SameComposing(Leading(<<c>> \o t), Leading(<<x>> \o t))
  BY <1>2 DEF SameComposing
<1>4. Compose(c, Leading(t)) = Compose(x, Leading(t))
  BY ComposeCompat
<1>5. Normalise(<<c>> \o t) = Normalise(<<x>> \o t)
  BY <1>1, <1>4, NormaliseCons
<1>6. <<c>> \o t \in Seq(Chars) /\ <<x>> \o t \in Seq(Chars)
  BY <1>1, OneChar, ConcatProperties
<1> QED  BY <1>3, <1>5, <1>6, NormaliseSame

LEMMA TwoChars ==
    ASSUME NEW S, NEW a \in S, NEW h \in S
    PROVE  <<a>> \o <<h>> = <<a, h>>
<1>1. /\ <<a>> \in Seq(S) /\ Len(<<a>>) = 1 /\ <<a>>[1] = a
      /\ <<h>> \in Seq(S) /\ Len(<<h>>) = 1 /\ <<h>>[1] = h
      /\ <<a, h>> \in Seq(S) /\ Len(<<a, h>>) = 2 /\ <<a, h>>[1] = a /\ <<a, h>>[2] = h
  OBVIOUS
<1> DEFINE u == <<a>> \o <<h>>
           v == <<a, h>>
           s == <<a>>
           t == <<h>>
<1> HIDE DEF s, t, v
<1>2. /\ u \in Seq(S) /\ Len(u) = 2 /\ u[1] = s[1] /\ u[2] = t[1]
  <2>1. /\ s \o t \in Seq(S) /\ Len(s \o t) = Len(s) + Len(t)
        /\ \A i \in 1..Len(s) + Len(t) :
              (s \o t)[i] = IF i <= Len(s) THEN s[i] ELSE t[i - Len(s)]
    BY <1>1, ConcatProperties DEF s, t
  <2>2. Len(s) = 1 /\ Len(t) = 1
    BY <1>1 DEF s, t
  <2>3. s \o t = u
    BY DEF s, t
  <2> QED  BY <2>1, <2>2, <2>3
<1> HIDE DEF u
<1>3. /\ v \in Seq(S) /\ Len(v) = 2 /\ v[1] = s[1] /\ v[2] = t[1]
  BY <1>1 DEF v, s, t
<1>4. u = v
  BY <1>2, <1>3, SeqEqual
<1> QED  BY <1>4 DEF u, v

LEMMA LetterDecomposed ==
    ASSUME NEW s \in Seq(Chars), NEW t \in Seq(Chars), NEW p \in DOMAIN Composition
    PROVE  Normalise(s \o (p \o t)) = Normalise(s \o (<<Composition[p]>> \o t))
<1> DEFINE y == Composition[p]
<1>1. PICK a \in Letters, h \in Marks : p = <<a, h>>
  BY PolicyAssumption DEF PolicyAssumption
<1>2. y \in Letters /\ y \in Chars /\ a \in Chars /\ h \in Chars
  BY CharTypes, PolicyAssumption DEF PolicyAssumption
<1>3. ~Strips(y) /\ ~Strips(a) /\ Strips(h) /\ a \notin Marks /\ y \notin Marks
  BY <1>2, LettersApart DEF Strips
<1> DEFINE rest == <<h>> \o t
<1>4. rest \in Seq(Chars) /\ <<y>> \o t \in Seq(Chars)
  BY <1>2, OneChar, ConcatProperties
<1>5. Leading(rest) = {h} \cup Unblocked({h}, Leading(t))
  BY <1>2, LeadingOfOneMore
<1>6. p \o t = <<a>> \o rest
  <2>1. <<a>> \in Seq(Chars) /\ <<h>> \in Seq(Chars)
    BY <1>2, OneChar
  <2>2. <<a>> \o <<h>> = <<a, h>>
    BY <1>2, TwoChars
  <2>3. (<<a>> \o <<h>>) \o t = <<a>> \o (<<h>> \o t)
    BY <2>1, ConcatAssociative
  <2> QED  BY <1>1, <2>2, <2>3
<1>7. Normalise(rest) = Normalise(t)
  <2>1. Compose(h, Leading(t)) = h
    BY ClassesApart, ComposePlain
  <2> QED  BY <1>2, <1>3, <2>1, NormaliseCons
<1> DEFINE d == Compose(y, Leading(t))
<1>8. Compose(a, Leading(rest)) = d
  <2>1. p[1] = a /\ p[2] = h
    BY <1>1
  <2> HIDE DEF rest, d
  <2>2. Compose(p[1], Leading(rest)) = Compose(Composition[p], Leading(t))
    BY <1>5, <2>1, ComposePair
  <2> QED  BY <2>1, <2>2 DEF d, y
<1>9. ~Strips(d)
  BY <1>2, ComposeLetter, LettersApart DEF Strips
<1> HIDE DEF rest, y
<1>10. Normalise(<<a>> \o rest) = <<d>> \o Normalise(t)
  <2>1. Compose(a, Leading(rest)) = d
    BY <1>8
  <2> HIDE DEF d
  <2> QED  BY <1>2, <1>4, <1>7, <1>9, <2>1, NormaliseCons
<1>11. Normalise(<<y>> \o t) = <<d>> \o Normalise(t)
  BY <1>2, <1>9, NormaliseCons
<1> HIDE DEF d
<1>12. Leading(<<a>> \o rest) = {} /\ Leading(<<y>> \o t) = {}
  BY <1>2, <1>3, <1>4, LeadingOfOneMore
<1>13. SameComposing(Leading(<<a>> \o rest), Leading(<<y>> \o t))
  BY <1>12 DEF SameComposing
<1>14. <<a>> \o rest \in Seq(Chars)
  BY <1>2, <1>4, OneChar, ConcatProperties
<1>15. Normalise(<<a>> \o rest) = Normalise(<<y>> \o t)
  BY <1>10, <1>11
<1>16. Normalise(s \o (<<a>> \o rest)) = Normalise(s \o (<<y>> \o t))
  BY <1>4, <1>13, <1>14, <1>15, NormaliseSame
<1> QED  BY <1>6, <1>16 DEF y

LEMMA AtPlace ==
    ASSUME NEW s \in Seq(Chars), NEW i \in 0..Len(s)
    PROVE  /\ SubSeq(s, 1, i) \in Seq(Chars) /\ SubSeq(s, i + 1, Len(s)) \in Seq(Chars)
           /\ s = SubSeq(s, 1, i) \o SubSeq(s, i + 1, Len(s))
<1>1. Len(s) \in Nat
  BY LenProperties
<1>2. /\ SubSeq(s, 1, i) \in Seq(Chars) /\ SubSeq(s, i + 1, Len(s)) \in Seq(Chars)
  BY <1>1, PartOfText
<1>3. 1 \in 1..Len(s) + 1 /\ i \in 1 - 1..Len(s) /\ Len(s) \in i..Len(s)
  BY <1>1
<1>4. SubSeq(s, 1, i) \o SubSeq(s, i + 1, Len(s)) = SubSeq(s, 1, Len(s))
  BY <1>3, ConcatAdjacentSubSeq
<1> QED  BY <1>2, <1>4, SubSeqFull

LEMMA AtChar ==
    ASSUME NEW s \in Seq(Chars), NEW i \in 1..Len(s)
    PROVE  /\ SubSeq(s, 1, i - 1) \in Seq(Chars) /\ SubSeq(s, i + 1, Len(s)) \in Seq(Chars)
           /\ s = SubSeq(s, 1, i - 1) \o (<<s[i]>> \o SubSeq(s, i + 1, Len(s)))
<1>1. Len(s) \in Nat
  BY LenProperties
<1>2. i - 1 \in 0..Len(s) /\ (i - 1) + 1 = i /\ Len(s) \in i..Len(s) /\ i \in 0..Len(s)
  BY <1>1
<1>3. s = SubSeq(s, 1, i - 1) \o SubSeq(s, i, Len(s)) /\ SubSeq(s, 1, i - 1) \in Seq(Chars)
  BY <1>2, AtPlace
<1>4. SubSeq(s, i, Len(s)) = <<s[i]>> \o SubSeq(s, i + 1, Len(s))
  BY <1>2, SubSeqRecursiveFirst
<1>5. SubSeq(s, i + 1, Len(s)) \in Seq(Chars)
  BY <1>2, AtPlace
<1> QED  BY <1>3, <1>4, <1>5

LEMMA CharReplaced ==
    ASSUME NEW s \in Seq(Chars), NEW i \in 1..Len(s), NEW c \in Chars
    PROVE  [s EXCEPT ![i] = c] = SubSeq(s, 1, i - 1) \o (<<c>> \o SubSeq(s, i + 1, Len(s)))
<1> DEFINE w == [s EXCEPT ![i] = c]
<1>1. /\ w \in Seq(Chars) /\ Len(w) = Len(s)
      /\ \A j \in 1..Len(s) : w[j] = IF j = i THEN c ELSE s[j]
  BY ExceptSeq
<1>2. Len(s) \in Nat /\ \A j \in 1..Len(s) : s[j] \in Chars
  BY LenProperties, ElementOfSeq
<1> HIDE DEF w
<1>3. ASSUME NEW m \in Int, NEW n \in Int, 1 <= m, n <= Len(s), i \notin m..n
      PROVE  SubSeq(w, m, n) = SubSeq(s, m, n)
  <2>1. \A j \in m..n : j \in 1..Len(s) /\ w[j] = s[j] /\ s[j] \in Chars
    BY <1>1, <1>2, <1>3
  <2>2. \A j \in m..n : w[j] \in Chars /\ s[j] \in Chars
    BY <2>1
  <2> DEFINE a == SubSeq(w, m, n)
             b == SubSeq(s, m, n)
  <2>3. /\ a \in Seq(Chars) /\ Len(a) = IF m <= n THEN n - m + 1 ELSE 0
        /\ \A j \in 1..n - m + 1 : a[j] = w[m + j - 1]
    BY <2>2, SubSeqProperties
  <2>4. /\ b \in Seq(Chars) /\ Len(b) = IF m <= n THEN n - m + 1 ELSE 0
        /\ \A j \in 1..n - m + 1 : b[j] = s[m + j - 1]
    BY <2>2, SubSeqProperties
  <2> HIDE DEF a, b
  <2>5. Len(a) = Len(b) /\ \A j \in 1..Len(a) : a[j] = b[j]
    <3>1. ASSUME NEW j \in 1..Len(a) PROVE a[j] = b[j]
      <4>1. j \in 1..n - m + 1 /\ m + j - 1 \in m..n
        BY <2>3
      <4> QED  BY <2>1, <2>3, <2>4, <4>1
    <3> QED  BY <2>3, <2>4, <3>1
  <2>6. a = b
    BY <2>3, <2>4, <2>5, SeqEqual
  <2> QED  BY <2>6 DEF a, b
<1>4. /\ i - 1 \in Int /\ i + 1 \in Int /\ 1 \in Int /\ Len(s) \in Int
      /\ 1 <= 1 /\ i - 1 <= Len(s) /\ 1 <= i + 1 /\ Len(s) <= Len(s)
      /\ i \notin 1..(i - 1) /\ i \notin (i + 1)..Len(s)
  BY <1>2
<1>5. SubSeq(w, 1, i - 1) = SubSeq(s, 1, i - 1)
  BY <1>3, <1>4
<1>6. SubSeq(w, i + 1, Len(s)) = SubSeq(s, i + 1, Len(s))
  BY <1>3, <1>4
<1>7. i \in 1..Len(w) /\ w[i] = c
  BY <1>1
<1>8. w = SubSeq(w, 1, i - 1) \o (<<w[i]>> \o SubSeq(w, i + 1, Len(w)))
  BY <1>1, <1>7, AtChar
<1> QED  BY <1>1, <1>5, <1>6, <1>7, <1>8 DEF w

\* An edit puts a piece between two parts of the text.
LEMMA EditParts ==
    ASSUME TypeOK, NEW i \in 0..Len(text), NEW piece \in Seq(Chars), Edit(i, piece)
    PROVE  text' = SubSeq(text, 1, i) \o (piece \o SubSeq(text, i + 1, Len(text)))
<1>1. text \in Seq(Chars)
  BY DEF TypeOK
<1>2. SubSeq(text, 1, i) \in Seq(Chars) /\ SubSeq(text, i + 1, Len(text)) \in Seq(Chars)
  BY <1>1, AtPlace
<1>3. text' = (SubSeq(text, 1, i) \o piece) \o SubSeq(text, i + 1, Len(text))
  BY DEF Edit, InsertAt
<1> DEFINE s == SubSeq(text, 1, i)
           t == SubSeq(text, i + 1, Len(text))
<1> HIDE DEF s, t
<1>4. s \in Seq(Chars) /\ t \in Seq(Chars)
  BY <1>2 DEF s, t
<1>5. (s \o piece) \o t = s \o (piece \o t)
  BY <1>4, ConcatAssociative
<1> QED  BY <1>3, <1>5 DEF s, t

LEMMA RestBegins ==
    ASSUME NEW s \in Seq(Chars), NEW i \in 0..Len(s)
    PROVE  /\ Len(SubSeq(s, i + 1, Len(s))) = Len(s) - i
           /\ i < Len(s) => SubSeq(s, i + 1, Len(s))[1] = s[i + 1]
<1>1. Len(s) \in Nat /\ \A j \in (i + 1)..Len(s) : s[j] \in Chars
  BY LenProperties, ElementOfSeq
<1> DEFINE t == SubSeq(s, i + 1, Len(s))
<1>2. /\ Len(t) = IF i + 1 <= Len(s) THEN Len(s) - (i + 1) + 1 ELSE 0
      /\ \A j \in 1..Len(s) - (i + 1) + 1 : t[j] = s[(i + 1) + j - 1]
  BY <1>1, SubSeqProperties
<1> HIDE DEF t
<1>3. Len(t) = Len(s) - i
  BY <1>1, <1>2
<1>4. ASSUME i < Len(s) PROVE t[1] = s[i + 1]
  <2>1. 1 \in 1..Len(s) - (i + 1) + 1 /\ (i + 1) + 1 - 1 = i + 1
    BY <1>1, <1>4
  <2> QED  BY <1>2, <2>1
<1> QED  BY <1>3, <1>4 DEF t

LEMMA DecorateKeeps ==
    ASSUME TypeOK, Decorate
    PROVE  Normalise(text') = Normalise(text)
<1>1. text \in Seq(Chars) /\ Len(text) \in Nat
  BY LenProperties DEF TypeOK
<1>2. PICK i \in 0..Len(text), c \in Marks \cup Tatweel :
         /\ Edit(i, <<c>>)
         /\ \/ c \in Marks \ Composing /\ Class[c] \notin {Class[m] : m \in Composing}
            \/ c \in Marks \ Composing /\ AfterMarks(i)
            \/ c \in Tatweel /\ AfterMarks(i)
  BY DEF Decorate
<1> DEFINE s == SubSeq(text, 1, i)
           t == SubSeq(text, i + 1, Len(text))
<1>3. text' = s \o (<<c>> \o t)
  <2>1. <<c>> \in Seq(Chars)
    BY CharTypes, OneChar
  <2> QED  BY <1>2, <2>1, EditParts
<1>4. s \in Seq(Chars) /\ t \in Seq(Chars) /\ text = s \o t
  BY <1>1, AtPlace
<1>5. AfterMarks(i) => (Len(t) > 0 => t[1] \notin Marks)
  <2>1. Len(t) = Len(text) - i /\ (i < Len(text) => t[1] = text[i + 1])
    BY <1>1, RestBegins
  <2> HIDE DEF t
  <2> QED  BY <1>1, <2>1 DEF AfterMarks
<1> HIDE DEF s, t
<1>6. Normalise(s \o (<<c>> \o t)) = Normalise(s \o t)
  <2>1. CASE c \in Marks \ Composing /\ Class[c] \notin {Class[m] : m \in Composing}
    BY <1>4, <2>1, MarkAdded
  <2>2. CASE c \in Marks \ Composing /\ AfterMarks(i)
    BY <1>4, <1>5, <2>2, MarkAdded
  <2>3. CASE c \in Tatweel /\ AfterMarks(i)
    BY <1>4, <1>5, <2>3, TatweelAdded
  <2> QED  BY <1>2, <2>1, <2>2, <2>3
<1> QED  BY <1>3, <1>4, <1>6

LEMMA RecomposeKeeps ==
    ASSUME TypeOK, Recompose
    PROVE  Normalise(text') = Normalise(text)
<1>1. text \in Seq(Chars) /\ DOMAIN text = 1..Len(text)
  BY LenProperties DEF TypeOK
<1>2. PICK i \in 1..Len(text) :
         \/ \E c \in DOMAIN Compat :
               text[i] = Compat[c] /\ text' = [text EXCEPT ![i] = c]
         \/ \E p \in DOMAIN Composition :
               /\ text[i] = Composition[p]
               /\ text' = SubSeq(text, 1, i - 1) \o p \o SubSeq(text, i + 1, Len(text))
  BY <1>1 DEF Recompose
<1> DEFINE s == SubSeq(text, 1, i - 1)
           t == SubSeq(text, i + 1, Len(text))
<1>3. s \in Seq(Chars) /\ t \in Seq(Chars) /\ text = s \o (<<text[i]>> \o t)
  BY <1>1, AtChar
<1>4. ASSUME NEW c \in DOMAIN Compat, text[i] = Compat[c], text' = [text EXCEPT ![i] = c]
      PROVE  Normalise(text') = Normalise(text)
  <2>1. c \in Chars
    BY CharTypes
  <2>2. text' = s \o (<<c>> \o t)
    BY <1>1, <1>4, <2>1, CharReplaced
  <2> HIDE DEF s, t
  <2>3. Normalise(s \o (<<c>> \o t)) = Normalise(s \o (<<Compat[c]>> \o t))
    BY <1>3, FormExchanged
  <2> QED  BY <1>3, <1>4, <2>2, <2>3
<1>5. ASSUME NEW p \in DOMAIN Composition, text[i] = Composition[p], text' = s \o p \o t
      PROVE  Normalise(text') = Normalise(text)
  <2>1. PICK a \in Letters, m \in Marks : p = <<a, m>>
    BY PolicyAssumption DEF PolicyAssumption
  <2>2. a \in Chars /\ m \in Chars
    BY CharTypes
  <2>3. p \in Seq(Chars)
    BY <2>1, <2>2
  <2> HIDE DEF s, t
  <2>4. text' = s \o (p \o t)
    BY <1>3, <1>5, <2>3, ConcatAssociative
  <2>5. Normalise(s \o (p \o t)) = Normalise(s \o (<<Composition[p]>> \o t))
    BY <1>3, LetterDecomposed
  <2> QED  BY <1>3, <1>5, <2>4, <2>5
<1> QED  BY <1>2, <1>4, <1>5

\* The spelling of a message hides no urgency term and makes none up.
THEOREM SpellingHidesNothing == Spec => OrthographyInvariance
<1>1. ASSUME TypeOK, Decorate \/ Recompose
      PROVE  Signals(text') = Signals(text)
  <2>1. Normalise(text') = Normalise(text)
    BY <1>1, DecorateKeeps, RecomposeKeeps
  <2> QED  BY <2>1 DEF Signals
<1>2. TypeOK /\ [Next]_vars =>
        [Decorate \/ Recompose => Signals(text') = Signals(text)]_vars
  BY <1>1
<1> QED  BY <1>2, TypeCorrect, PTL DEF Spec, OrthographyInvariance
-----------------------------------------------------------------------------
(* Words *)

IsRun(s, i, j) ==
    /\ i <= j
    /\ \A k \in i..j : ~IsSeparator(s[k])
    /\ i > 1 => IsSeparator(s[i - 1])
    /\ j < Len(s) => IsSeparator(s[j + 1])

LEMMA WordsMember ==
    ASSUME NEW s \in Seq(Chars), NEW w
    PROVE  w \in Words(s) <=>
              \E i, j \in 1..Len(s) : IsRun(s, i, j) /\ w = SubSeq(s, i, j)
<1>1. DOMAIN s = 1..Len(s)
  BY LenProperties
<1>2. ASSUME w \in Words(s)
      PROVE  \E i, j \in 1..Len(s) : IsRun(s, i, j) /\ w = SubSeq(s, i, j)
  <2>1. PICK ij \in (1..Len(s)) \X (1..Len(s)) :
           IsRun(s, ij[1], ij[2]) /\ w = SubSeq(s, ij[1], ij[2])
    BY <1>1, <1>2 DEF Words, IsRun
  <2>2. ij[1] \in 1..Len(s) /\ ij[2] \in 1..Len(s)
    OBVIOUS
  <2> QED  BY <2>1, <2>2
<1>3. ASSUME NEW i \in 1..Len(s), NEW j \in 1..Len(s), IsRun(s, i, j), w = SubSeq(s, i, j)
      PROVE  w \in Words(s)
  <2> DEFINE ij == <<i, j>>
  <2>1. /\ ij \in (DOMAIN s) \X (DOMAIN s) /\ ij[1] = i /\ ij[2] = j
    BY <1>1
  <2> HIDE DEF ij
  <2>2. IsRun(s, ij[1], ij[2]) /\ w = SubSeq(s, ij[1], ij[2])
    BY <1>3, <2>1
  <2> QED  BY <2>1, <2>2 DEF Words, IsRun
<1> QED  BY <1>2, <1>3

LEMMA NoWords == Words(<<>>) = {}
<1>1. DOMAIN <<>> = {}
  OBVIOUS
<1> QED  BY <1>1 DEF Words

\* Two texts with a separator between them.
LEMMA SeparatedParts ==
    ASSUME NEW s \in Seq(Chars), NEW t \in Seq(Chars), NEW c \in Chars
    PROVE  LET u == s \o (<<c>> \o t)
               p == Len(s) + 1
           IN  /\ u \in Seq(Chars) /\ Len(u) = p + Len(t)
               /\ Len(s) \in Nat /\ Len(t) \in Nat
               /\ u[p] = c
               /\ \A k \in 1..Len(s) : u[k] = s[k]
               /\ \A k \in 1..Len(t) : u[p + k] = t[k]
<1> DEFINE v == <<c>> \o t
           u == s \o v
           p == Len(s) + 1
           one == <<c>>
<1>1. one \in Seq(Chars) /\ Len(one) = 1 /\ one[1] = c
  OBVIOUS
<1>2. /\ one \o t \in Seq(Chars) /\ Len(one \o t) = Len(one) + Len(t)
      /\ Len(t) \in Nat
      /\ \A k \in 1..Len(one) : (one \o t)[k] = one[k]
      /\ \A k \in 1..Len(t) : (one \o t)[Len(one) + k] = t[k]
  <2> HIDE DEF one
  <2> QED  BY <1>1, ConcatParts
<1> HIDE DEF one
<1>3. v = one \o t
  BY DEF one
<1> HIDE DEF v
<1>4. /\ v \in Seq(Chars) /\ Len(v) = 1 + Len(t) /\ v[1] = c
      /\ \A k \in 1..Len(t) : v[1 + k] = t[k]
  BY <1>1, <1>2, <1>3
<1>5. /\ u \in Seq(Chars) /\ Len(u) = Len(s) + Len(v) /\ Len(s) \in Nat
      /\ \A k \in 1..Len(s) : u[k] = s[k]
      /\ \A k \in 1..Len(v) : u[Len(s) + k] = v[k]
  BY <1>4, ConcatParts
<1> HIDE DEF u
<1>6. 1 \in 1..Len(v)
  BY <1>2, <1>4
<1>7. u[p] = c
  BY <1>4, <1>5, <1>6
<1>8. ASSUME NEW k \in 1..Len(t) PROVE u[p + k] = t[k]
  <2>1. 1 + k \in 1..Len(v) /\ Len(s) + (1 + k) = p + k
    BY <1>2, <1>4, <1>5
  <2>2. u[Len(s) + (1 + k)] = v[1 + k]
    BY <1>5, <2>1
  <2> QED  BY <1>4, <2>1, <2>2
<1>9. Len(u) = p + Len(t)
  BY <1>2, <1>4, <1>5
<1> QED  BY <1>2, <1>5, <1>7, <1>8, <1>9 DEF u, v

\* The words on each side of a separator are the words of the whole.
LEMMA WordsSeparated ==
    ASSUME NEW s \in Seq(Chars), NEW t \in Seq(Chars), NEW c \in Separators
    PROVE  Words(s \o (<<c>> \o t)) = Words(s) \cup Words(t)
<1> DEFINE u == s \o (<<c>> \o t)
           p == Len(s) + 1
<1>1. /\ u \in Seq(Chars) /\ Len(u) = p + Len(t)
      /\ Len(s) \in Nat /\ Len(t) \in Nat
      /\ u[p] = c
      /\ \A k \in 1..Len(s) : u[k] = s[k]
      /\ \A k \in 1..Len(t) : u[p + k] = t[k]
  BY CharTypes, SeparatedParts
<1>2. IsSeparator(u[p])
  BY <1>1 DEF IsSeparator
<1>3. ASSUME NEW i \in 1..Len(s), NEW j \in 1..Len(s)
      PROVE  SubSeq(u, i, j) = SubSeq(s, i, j)
  <2>1. <<c>> \o t \in Seq(Chars)
    BY CharTypes, OneChar, ConcatProperties
  <2> QED  BY <2>1, SubSeqOfConcat1
<1>4. ASSUME NEW i \in 1..Len(t), NEW j \in 1..Len(t)
      PROVE  SubSeq(u, p + i, p + j) = SubSeq(t, i, j)
  <2> DEFINE v == s \o <<c>>
  <2>1. <<c>> \in Seq(Chars) /\ Len(<<c>>) = 1
    BY CharTypes, OneChar
  <2>2. v \in Seq(Chars) /\ Len(v) = p
    BY <2>1, ConcatProperties
  <2>3. u = v \o t
    BY <2>1, ConcatAssociative
  <2> HIDE DEF u, v
  <2>4. /\ p + i \in Len(v) + 1..Len(v) + Len(t) /\ p + j \in Len(v) + 1..Len(v) + Len(t)
        /\ (p + i) - Len(v) = i /\ (p + j) - Len(v) = j
    BY <1>1, <2>2
  <2>5. SubSeq(v \o t, p + i, p + j) = SubSeq(t, (p + i) - Len(v), (p + j) - Len(v))
    BY <2>2, <2>4, SubSeqOfConcat2
  <2> QED  BY <2>3, <2>4, <2>5
<1> HIDE DEF u
<1>5. ASSUME NEW i \in 1..Len(s), NEW j \in 1..Len(s)
      PROVE  IsRun(u, i, j) <=> IsRun(s, i, j)
  <2>1. /\ \A k \in i..j : u[k] = s[k]
        /\ i > 1 => u[i - 1] = s[i - 1]
        /\ j < Len(s) => u[j + 1] = s[j + 1]
        /\ j = Len(s) => j + 1 = p
        /\ j <= Len(s) /\ j < Len(u)
    <3>1. Len(s) \in Nat /\ Len(t) \in Nat /\ Len(u) = Len(s) + 1 + Len(t)
      BY <1>1
    <3>2. /\ \A k \in i..j : k \in 1..Len(s)
          /\ i > 1 => i - 1 \in 1..Len(s)
          /\ j < Len(s) => j + 1 \in 1..Len(s)
          /\ j = Len(s) => j + 1 = p
          /\ j <= Len(s) /\ j < Len(u)
      BY <3>1
    <3>3. \A k \in i..j : u[k] = s[k]
      BY <1>1, <3>2
    <3>4. i > 1 => u[i - 1] = s[i - 1]
      BY <1>1, <3>2
    <3>5. j < Len(s) => u[j + 1] = s[j + 1]
      BY <1>1, <3>2
    <3> QED  BY <3>2, <3>3, <3>4, <3>5
  <2>2. (j < Len(u) => IsSeparator(u[j + 1])) <=> (j < Len(s) => IsSeparator(s[j + 1]))
    <3>1. CASE j < Len(s)
      BY <2>1, <3>1
    <3>2. CASE j = Len(s)
      BY <1>2, <2>1, <3>2
    <3> QED  BY <1>1, <2>1, <3>1, <3>2
  <2>3. (i > 1 => IsSeparator(u[i - 1])) <=> (i > 1 => IsSeparator(s[i - 1]))
    BY <2>1
  <2>4. (\A k \in i..j : ~IsSeparator(u[k])) <=> (\A k \in i..j : ~IsSeparator(s[k]))
    BY <2>1
  <2> QED  BY <2>2, <2>3, <2>4 DEF IsRun
<1>6. ASSUME NEW i \in 1..Len(t), NEW j \in 1..Len(t)
      PROVE  IsRun(u, p + i, p + j) <=> IsRun(t, i, j)
  <2>1. (p + i <= p + j) <=> (i <= j)
    BY <1>1
  <2>2. (\A k \in (p + i)..(p + j) : ~IsSeparator(u[k]))
          <=> (\A k \in i..j : ~IsSeparator(t[k]))
    <3>1. ASSUME NEW k \in (p + i)..(p + j)
          PROVE  k - p \in i..j /\ k - p \in 1..Len(t) /\ u[k] = t[k - p]
      <4>1. k - p \in i..j /\ k - p \in 1..Len(t) /\ p + (k - p) = k
        BY <1>1
      <4>2. u[p + (k - p)] = t[k - p]
        BY <1>1, <4>1
      <4> QED  BY <4>1, <4>2
    <3>2. ASSUME NEW k \in i..j
          PROVE  p + k \in (p + i)..(p + j) /\ u[p + k] = t[k]
      <4>1. k \in 1..Len(t) /\ p + k \in (p + i)..(p + j)
        BY <1>1
      <4>2. u[p + k] = t[k]
        BY <1>1, <4>1
      <4> QED  BY <4>1, <4>2
    <3> QED  BY <3>1, <3>2
  <2>3. (p + i > 1 => IsSeparator(u[(p + i) - 1])) <=> (i > 1 => IsSeparator(t[i - 1]))
    <3>1. CASE i = 1
      <4>1. (p + i) - 1 = p
        BY <1>1, <3>1
      <4> QED  BY <1>2, <3>1, <4>1
    <3>2. CASE i > 1
      <4>1. i - 1 \in 1..Len(t) /\ (p + i) - 1 = p + (i - 1) /\ p + i > 1
        BY <1>1, <3>2
      <4>2. u[p + (i - 1)] = t[i - 1]
        BY <1>1, <4>1
      <4> QED  BY <3>2, <4>1, <4>2
    <3> QED  BY <3>1, <3>2
  <2>4. (p + j < Len(u) => IsSeparator(u[(p + j) + 1]))
          <=> (j < Len(t) => IsSeparator(t[j + 1]))
    <3>1. (p + j < Len(u)) <=> (j < Len(t))
      BY <1>1
    <3>2. ASSUME j < Len(t) PROVE u[(p + j) + 1] = t[j + 1]
      <4>1. j + 1 \in 1..Len(t) /\ (p + j) + 1 = p + (j + 1)
        BY <1>1, <3>2
      <4>2. u[p + (j + 1)] = t[j + 1]
        BY <1>1, <4>1
      <4> QED  BY <4>1, <4>2
    <3> QED  BY <3>1, <3>2
  <2> QED  BY <2>1, <2>2, <2>3, <2>4 DEF IsRun
<1>7. ASSUME NEW w \in Words(s) PROVE w \in Words(u)
  <2>1. PICK i \in 1..Len(s), j \in 1..Len(s) : IsRun(s, i, j) /\ w = SubSeq(s, i, j)
    BY WordsMember
  <2>2. i \in 1..Len(u) /\ j \in 1..Len(u)
    BY <1>1
  <2>3. IsRun(u, i, j) /\ w = SubSeq(u, i, j)
    BY <1>3, <1>5, <2>1
  <2> QED  BY <1>1, <2>2, <2>3, WordsMember
<1>8. ASSUME NEW w \in Words(t) PROVE w \in Words(u)
  <2>1. PICK i \in 1..Len(t), j \in 1..Len(t) : IsRun(t, i, j) /\ w = SubSeq(t, i, j)
    BY WordsMember
  <2>2. p + i \in 1..Len(u) /\ p + j \in 1..Len(u)
    BY <1>1
  <2>3. IsRun(u, p + i, p + j) /\ w = SubSeq(u, p + i, p + j)
    BY <1>4, <1>6, <2>1
  <2> QED  BY <1>1, <2>2, <2>3, WordsMember
<1>9. ASSUME NEW w \in Words(u) PROVE w \in Words(s) \cup Words(t)
  <2>1. PICK i \in 1..Len(u), j \in 1..Len(u) : IsRun(u, i, j) /\ w = SubSeq(u, i, j)
    BY <1>1, <1>9, WordsMember
  <2>2. i <= j /\ p \notin i..j
    BY <1>2, <2>1 DEF IsRun
  <2>3. CASE j < p
    <3>1. i \in 1..Len(s) /\ j \in 1..Len(s)
      BY <1>1, <2>2, <2>3
    <3>2. IsRun(s, i, j) /\ w = SubSeq(s, i, j)
      BY <1>3, <1>5, <2>1, <3>1
    <3> QED  BY <3>1, <3>2, WordsMember
  <2>4. CASE i > p
    <3>1. /\ i - p \in 1..Len(t) /\ j - p \in 1..Len(t)
          /\ p + (i - p) = i /\ p + (j - p) = j
      BY <1>1, <2>2, <2>4
    <3>2. IsRun(u, p + (i - p), p + (j - p)) /\ w = SubSeq(u, p + (i - p), p + (j - p))
      BY <2>1, <3>1
    <3>3. IsRun(t, i - p, j - p) /\ w = SubSeq(t, i - p, j - p)
      BY <1>4, <1>6, <3>1, <3>2
    <3> QED  BY <3>1, <3>3, WordsMember
  <2> QED  BY <1>1, <2>2, <2>3, <2>4
<1> QED  BY <1>7, <1>8, <1>9 DEF u
-----------------------------------------------------------------------------
(* Punctuation *)

LEMMA NormaliseNone == Normalise(<<>>) = <<>>
<1>1. <<>> \in Seq(Chars) /\ Len(<<>>) = 0
  OBVIOUS
<1>2. Composed(<<>>) \in Seq(Chars) /\ Len(Composed(<<>>)) = 0
  BY <1>1, ComposedType
<1>3. Composed(<<>>) = <<>>
  BY <1>2, EmptySeq
<1> QED  BY <1>3, StrippedNone DEF Normalise

\* A separator stops the marks after it and stays where it is.
LEMMA NormaliseSeparated ==
    ASSUME NEW s \in Seq(Chars), NEW t \in Seq(Chars), NEW c \in Separators
    PROVE  Normalise(s \o (<<c>> \o t)) = Normalise(s) \o (<<c>> \o Normalise(t))
<1> DEFINE v == <<c>> \o t
<1>1. c \in Chars /\ ~Strips(c) /\ c \notin Marks
  BY CharTypes, ClassesApart DEF Strips
<1>2. v \in Seq(Chars)
  BY <1>1, OneChar, ConcatProperties
<1>3. Leading(v) = {}
  BY <1>1, LeadingOfOneMore
<1>4. Compose(c, Leading(t)) = c
  BY ClassesApart, ComposePlain
<1>5. Normalise(v) = <<c>> \o Normalise(t)
  BY <1>1, <1>4, NormaliseCons
<1> HIDE DEF v
<1>6. Normalise(s \o v) = Stripped(Carried(s, {})) \o Normalise(v)
  BY <1>2, <1>3, NormaliseConcat
<1>7. Normalise(s) = Stripped(Carried(s, {}))
  BY CarriedNothing DEF Normalise
<1> QED  BY <1>5, <1>6, <1>7 DEF v

WordsOf(s) == Words(Normalise(s))

LEMMA WordsOfSeparated ==
    ASSUME NEW s \in Seq(Chars), NEW t \in Seq(Chars), NEW c \in Separators
    PROVE  WordsOf(s \o (<<c>> \o t)) = WordsOf(s) \cup WordsOf(t)
<1>1. Normalise(s) \in Seq(Chars) /\ Normalise(t) \in Seq(Chars)
  BY NormaliseType
<1>2. Words(Normalise(s) \o (<<c>> \o Normalise(t)))
        = Words(Normalise(s)) \cup Words(Normalise(t))
  BY <1>1, WordsSeparated
<1> QED  BY <1>2, NormaliseSeparated DEF WordsOf

LEMMA WordsOfNone == WordsOf(<<>>) = {}
BY NormaliseNone, NoWords DEF WordsOf

\* At a boundary the text is two texts to the scan, with or without one more
\* separator.
LEMMA WordsAtBoundary ==
    ASSUME NEW s \in Seq(Chars), NEW t \in Seq(Chars),
           (s # <<>> /\ t # <<>>) => s[Len(s)] \in Separators \/ t[1] \in Separators
    PROVE  WordsOf(s \o t) = WordsOf(s) \cup WordsOf(t)
<1>1. Len(s) \in Nat /\ Len(t) \in Nat /\ <<>> \in Seq(Chars)
  BY LenProperties, EmptySeq
<1>2. CASE s = <<>>
  BY <1>2, WordsOfNone, ConcatEmptySeq
<1>3. CASE t = <<>>
  BY <1>3, WordsOfNone, ConcatEmptySeq
<1>4. CASE s # <<>> /\ t[1] \in Separators /\ t # <<>>
  <2> DEFINE d == t[1]
             rest == SubSeq(t, 1 + 1, Len(t))
             none == SubSeq(t, 1, 1 - 1)
  <2>1. 1 \in 1..Len(t)
    BY <1>1, <1>4, EmptySeq
  <2>2. rest \in Seq(Chars) /\ t = none \o (<<d>> \o rest)
    BY <2>1, AtChar
  <2>3. none = <<>>
    BY SubSeqEmpty
  <2> HIDE DEF none, rest
  <2>4. <<d>> \o rest \in Seq(Chars)
    BY <1>4, <2>2, CharTypes, OneChar, ConcatProperties
  <2>5. <<>> \o (<<d>> \o rest) = <<d>> \o rest
    BY <2>4, ConcatEmptySeq
  <2>6. t = <<d>> \o rest
    BY <2>2, <2>3, <2>5
  <2>7. WordsOf(<<>> \o (<<d>> \o rest)) = WordsOf(<<>>) \cup WordsOf(rest)
    BY <1>1, <1>4, <2>2, WordsOfSeparated
  <2>8. WordsOf(t) = WordsOf(rest)
    BY <2>5, <2>6, <2>7, WordsOfNone
  <2>9. WordsOf(s \o (<<d>> \o rest)) = WordsOf(s) \cup WordsOf(rest)
    BY <1>4, <2>2, WordsOfSeparated
  <2> QED  BY <2>6, <2>8, <2>9
<1>5. CASE s # <<>> /\ s[Len(s)] \in Separators
  <2> DEFINE n == Len(s)
             d == s[n]
             first == SubSeq(s, 1, n - 1)
             none == SubSeq(s, n + 1, n)
  <2>1. n \in 1..Len(s)
    BY <1>1, <1>5, EmptySeq
  <2>2. first \in Seq(Chars) /\ s = first \o (<<d>> \o none)
    BY <2>1, AtChar
  <2>3. none = <<>>
    BY <1>1, SubSeqEmpty
  <2> HIDE DEF none, first, n
  <2>4. d \in Separators /\ <<d>> \in Seq(Chars)
    BY <1>5, CharTypes, OneChar DEF n
  <2> HIDE DEF d
  <2>5. <<d>> \o <<>> = <<d>>
    BY <2>4, ConcatEmptySeq
  <2>6. WordsOf(first \o (<<d>> \o <<>>)) = WordsOf(first) \cup WordsOf(<<>>)
    BY <1>1, <2>2, <2>4, WordsOfSeparated
  <2>7. WordsOf(s) = WordsOf(first)
    BY <2>2, <2>3, <2>6, WordsOfNone
  <2>8. s \o t = first \o (<<d>> \o t)
    <3>1. s = first \o <<d>>
      BY <2>2, <2>3, <2>5
    <3>2. (first \o <<d>>) \o t = first \o (<<d>> \o t)
      BY <2>2, <2>4, ConcatAssociative
    <3> QED  BY <3>1, <3>2
  <2>9. WordsOf(first \o (<<d>> \o t)) = WordsOf(first) \cup WordsOf(t)
    BY <2>2, <2>4, WordsOfSeparated
  <2> QED  BY <2>7, <2>8, <2>9
<1> QED  BY <1>2, <1>3, <1>4, <1>5

LEMMA LastOfFirst ==
    ASSUME NEW s \in Seq(Chars), NEW i \in 1..Len(s)
    PROVE  SubSeq(s, 1, i)[Len(SubSeq(s, 1, i))] = s[i]
<1>1. Len(s) \in Nat /\ \A j \in 1..i : s[j] \in Chars
  BY LenProperties, ElementOfSeq
<1> DEFINE t == SubSeq(s, 1, i)
<1>2. /\ Len(t) = IF 1 <= i THEN i - 1 + 1 ELSE 0
      /\ \A j \in 1..i - 1 + 1 : t[j] = s[1 + j - 1]
  BY <1>1, SubSeqProperties
<1> HIDE DEF t
<1>3. Len(t) = i /\ i \in 1..i - 1 + 1 /\ 1 + i - 1 = i
  BY <1>1, <1>2
<1> QED  BY <1>2, <1>3 DEF t

LEMMA PunctuateKeeps ==
    ASSUME TypeOK, Punctuate(Separators)
    PROVE  WordsOf(text') = WordsOf(text)
<1>1. text \in Seq(Chars) /\ DOMAIN text = 1..Len(text) /\ Len(text) \in Nat
  BY LenProperties DEF TypeOK
<1>2. PICK i \in 0..Len(text), c \in Separators : Boundary(i) /\ Edit(i, <<c>>)
  BY DEF Punctuate
<1> DEFINE s == SubSeq(text, 1, i)
           t == SubSeq(text, i + 1, Len(text))
<1>3. s \in Seq(Chars) /\ t \in Seq(Chars) /\ text = s \o t
  BY <1>1, AtPlace
<1>4. text' = s \o (<<c>> \o t)
  <2>1. <<c>> \in Seq(Chars)
    BY CharTypes, OneChar
  <2> QED  BY <1>2, <2>1, EditParts
<1>5. ASSUME s # <<>>, t # <<>>
      PROVE  s[Len(s)] \in Separators \/ t[1] \in Separators
  <2>1. i # 0
    <3>1. i = 0 => s = <<>>
      BY SubSeqEmpty
    <3> QED  BY <1>5, <3>1
  <2>2. i # Len(text)
    <3>1. i = Len(text) => t = <<>>
      BY <1>1, SubSeqEmpty
    <3> QED  BY <1>5, <3>1
  <2>3. i \in 1..Len(text) /\ i < Len(text) /\ {i, i + 1} \subseteq DOMAIN text
    <3>1. i \in 1..Len(text) /\ i + 1 \in 1..Len(text) /\ i < Len(text)
      <4> HIDE DEF s, t
      <4>1. i \in Nat /\ Len(text) \in Nat /\ i <= Len(text)
        BY <1>1
      <4> QED  BY <2>1, <2>2, <4>1
    <3> QED  BY <1>1, <3>1
  <2>4. text[i] \in Separators \/ text[i + 1] \in Separators
    BY <1>2, <2>3 DEF Boundary
  <2>5. s[Len(s)] = text[i]
    BY <1>1, <2>3, LastOfFirst
  <2>6. t[1] = text[i + 1]
    BY <1>1, <2>3, RestBegins
  <2> QED  BY <2>4, <2>5, <2>6
<1> HIDE DEF s, t
<1>6. WordsOf(s \o t) = WordsOf(s) \cup WordsOf(t)
  BY <1>3, <1>5, WordsAtBoundary
<1>7. WordsOf(s \o (<<c>> \o t)) = WordsOf(s) \cup WordsOf(t)
  BY <1>3, WordsOfSeparated
<1> QED  BY <1>3, <1>4, <1>6, <1>7

LEMMA SignalsOfWords ==
    ASSUME NEW s PROVE Signals(s) = {term \in UrgencyTerms : term \in WordsOf(s)}
BY DEF Signals, WordsOf

\* Punctuation outside the Arabic block, put between words, hides no urgency
\* term and makes none up.
THEOREM PunctuationHidesNothing == Spec => PunctuationInvariance
<1>1. ASSUME TypeOK, Punctuate(Separators)
      PROVE  Signals(text') = Signals(text)
  BY <1>1, PunctuateKeeps, SignalsOfWords
<1>2. TypeOK /\ [Next]_vars =>
        [Punctuate(Separators) => Signals(text') = Signals(text)]_vars
  BY <1>1
<1> QED  BY <1>2, TypeCorrect, PTL DEF Spec, PunctuationInvariance
-----------------------------------------------------------------------------
(* An urgency term of its own *)

LEMMA TermType ==
    ASSUME NEW term \in UrgencyTerms
    PROVE  term \in Seq(Letters) /\ term \in Seq(Chars) /\ term # <<>>
<1>1. term \in Seq(Letters) /\ term # <<>>
  BY PolicyAssumption DEF PolicyAssumption
<1> QED  BY <1>1, CharTypes, SeqMonotonic

LEMMA TermStaysComposed ==
    ASSUME NEW term \in UrgencyTerms PROVE Composed(term) = term
<1>1. term \in Seq(Letters) /\ term \in Seq(Chars) /\ Len(term) \in Nat
      /\ DOMAIN term = 1..Len(term)
  BY TermType, LenProperties
<1>2. \A k \in 1..Len(term) : term[k] \in Letters /\ term[k] \notin Marks
  BY <1>1, ElementOfSeq, LettersApart
<1>3. ASSUME NEW k \in 1..Len(term) PROVE Compose(term[k], MarksOn(term, k)) = term[k]
  <2>1. MarksOn(term, k) = {}
    <3>1. ASSUME NEW m \in MarksOn(term, k) PROVE FALSE
      <4>1. k \in 0..Len(term)
        BY <1>1
      <4>2. PICK j \in (k + 1)..Len(term) : \A n \in (k + 1)..j : term[n] \in Marks
        BY <1>1, <3>1, <4>1, MarksOnMember DEF Reaches
      <4>3. k + 1 \in (k + 1)..j /\ k + 1 \in 1..Len(term)
        BY <1>1
      <4> QED  BY <1>2, <4>2, <4>3
    <3> QED  BY <3>1
  <2> QED  BY <1>2, <2>1, ComposeAlone
<1>4. Composed(term) = [k \in 1..Len(term) |-> term[k]]
  BY <1>1, <1>3, ComposedAsCompose
<1>5. term = [k \in 1..Len(term) |-> term[k]]
  BY <1>1, LenProperties
<1> QED  BY <1>4, <1>5

LEMMA NothingStripped ==
    ASSUME NEW s \in Seq(Chars), \A k \in 1..Len(s) : ~Strips(s[k])
    PROVE  Stripped(s) = s
<1> DEFINE S == {m \in Nat : m <= Len(s) => Kept(s)[m] = SubSeq(s, 1, m)}
<1>1. Len(s) \in Nat
  BY LenProperties
<1>2. 0 \in S
  <2>1. SubSeq(s, 1, 0) = <<>>
    BY SubSeqEmpty
  <2> QED  BY <2>1, KeptAt
<1>3. ASSUME NEW m \in Nat, m \in S PROVE m + 1 \in S
  <2>1. ASSUME m + 1 <= Len(s) PROVE Kept(s)[m + 1] = SubSeq(s, 1, m + 1)
    <3>1. /\ m + 1 \in 1..Len(s) /\ (m + 1) - 1 = m /\ m <= Len(s)
          /\ m + 1 \in 1..Len(s) /\ 1 \in 1..Len(s) /\ m \in 0..Len(s)
      BY <1>1, <2>1
    <3>2. Kept(s)[m] = SubSeq(s, 1, m)
      BY <1>3, <3>1
    <3>3. Kept(s)[m + 1] = Append(Kept(s)[m], s[m + 1])
      BY <3>1, KeptAt
    <3>4. SubSeq(s, 1, m) \in Seq(Chars) /\ s[m + 1] \in Chars
      BY <3>1, AtPlace, ElementOfSeq
    <3>5. Append(SubSeq(s, 1, m), s[m + 1]) = SubSeq(s, 1, m) \o <<s[m + 1]>>
      BY <3>4, AppendIsConcat
    <3>6. m + 1 \in 1..Len(s) /\ m + 1 \in 1..Len(s) /\ 1 \in 1..Len(s)
      BY <3>1
    <3>7. SubSeq(s, 1, m + 1) = SubSeq(s, 1, (m + 1) - 1) \o <<s[m + 1]>>
      BY <3>1, SubSeqRecursiveSecond
    <3> QED  BY <3>1, <3>2, <3>3, <3>5, <3>7
  <2> QED  BY <2>1
<1> HIDE DEF S
<1>4. Len(s) \in S
  BY <1>1, <1>2, <1>3, NatInd
<1>5. Kept(s)[Len(s)] = SubSeq(s, 1, Len(s))
  BY <1>1, <1>4 DEF S
<1> QED  BY <1>5, StrippedAsKept, SubSeqFull

LEMMA TermIsWord ==
    ASSUME NEW term \in UrgencyTerms PROVE term \in WordsOf(term)
<1>1. term \in Seq(Chars) /\ Len(term) \in Nat /\ term # <<>>
  BY TermType, LenProperties
<1>2. \A k \in 1..Len(term) : term[k] \in Letters
  BY TermType, ElementOfSeq
<1>3. \A k \in 1..Len(term) : ~Strips(term[k]) /\ ~IsSeparator(term[k])
  BY <1>2, LettersApart DEF Strips, IsSeparator
<1>4. Normalise(term) = term
  BY <1>1, <1>3, TermStaysComposed, NothingStripped DEF Normalise
<1>5. 1 \in 1..Len(term) /\ Len(term) \in 1..Len(term)
  BY <1>1, EmptySeq
<1>6. IsRun(term, 1, Len(term)) /\ term = SubSeq(term, 1, Len(term))
  BY <1>1, <1>3, <1>5, SubSeqFull DEF IsRun
<1> QED  BY <1>1, <1>4, <1>5, <1>6, WordsMember DEF WordsOf

\* An urgency term written as a word of its own loses no signal, is a signal
\* itself, and escalates whatever the model makes of the text.
THEOREM UrgencyEscalates == Spec => UrgencyOnlyRises
<1>1. ASSUME TypeOK, AddTerm
      PROVE  /\ Signals(text) \subseteq Signals(text')
             /\ decision' = [action |-> "auto_route", department |-> SafetyDepartment,
                             priority |-> "urgent"]
  <2>1. text \in Seq(Chars) /\ Len(text) \in 0..Len(text)
    <3>1. text \in Seq(Chars) /\ Len(text) \in Nat
      BY <1>1, LenProperties DEF TypeOK
    <3> QED  BY <3>1
  <2>2. PICK c \in Separators, term \in UrgencyTerms : Edit(Len(text), <<c>> \o term)
    BY <1>1 DEF AddTerm
  <2>3. <<c>> \in Seq(Chars) /\ term \in Seq(Chars)
    BY CharTypes, OneChar, TermType
  <2> DEFINE piece == <<c>> \o term
  <2>4. piece \in Seq(Chars)
    BY <2>3, ConcatProperties
  <2>5. text' = text \o (<<c>> \o term)
    <3>1. text' = SubSeq(text, 1, Len(text))
                    \o (piece \o SubSeq(text, Len(text) + 1, Len(text)))
      BY <1>1, <2>1, <2>2, <2>4, EditParts
    <3>2. SubSeq(text, 1, Len(text)) = text
      BY <2>1, SubSeqFull
    <3>3. SubSeq(text, Len(text) + 1, Len(text)) = <<>>
      BY <2>1, SubSeqEmpty
    <3> HIDE DEF piece
    <3>4. piece \o <<>> = piece
      BY <2>4, ConcatEmptySeq
    <3>5. text' = text \o piece
      BY <3>1, <3>2, <3>3, <3>4
    <3> QED  BY <3>5 DEF piece
  <2>6. WordsOf(text \o (<<c>> \o term)) = WordsOf(text) \cup WordsOf(term)
    BY <2>1, <2>3, WordsOfSeparated
  <2>7. Signals(text) \subseteq Signals(text') /\ term \in Signals(text')
    BY <2>5, <2>6, SignalsOfWords, TermIsWord
  <2>8. signals' # {}
    BY <2>7 DEF signals
  <2>9. decision' = Escalation
    BY <2>8 DEF decision, Decide
  <2> QED  BY <2>7, <2>9 DEF Escalation
<1>2. TypeOK /\ [Next]_vars =>
        [AddTerm =>
          /\ Signals(text) \subseteq Signals(text')
          /\ decision' = [action |-> "auto_route", department |-> SafetyDepartment,
                          priority |-> "urgent"]]_vars
  BY <1>1
<1> QED  BY <1>2, TypeCorrect, PTL DEF Spec, UrgencyOnlyRises
=============================================================================
