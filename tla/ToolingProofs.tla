--------------------------- MODULE ToolingProofs ---------------------------
(***************************************************************************)
(* What holds of the tools that are run by hand, for any corpus, models,   *)
(* thresholds, labels, pools and shares.                                   *)
(*                                                                         *)
(* Regenerating the golden file: a suite that is green and skipped nothing *)
(* has compared with decisions that were printed.  The invariant follows   *)
(* the decisions backwards: what is in a file was in a diff once, and what *)
(* a run is about to write either was there before, as it stood in the     *)
(* file that the run compared with, or is in the diff that it prints.      *)
(*                                                                         *)
(* Generating the data set: sorted, by_label, shuffle and the two cuts     *)
(* lose and repeat nothing, which makes the split a partition that every   *)
(* label has a part of; and a run is replayed by any other run on the same *)
(* tape, so that what is whole on disk is what every run writes.           *)
(***************************************************************************)
EXTENDS Golden, Training, SequenceTheorems, FiniteSetTheorems,
        WellFoundedInduction, TLAPS

(* Regenerating the golden file *)

Tables == UNION {[S -> Decisions] : S \in SUBSET Texts}

Runs == [at : {"prompt", "write"}, header : Headers, yes : BOOLEAN, fresh : Tables,
         thresholds : Thresholds, diff : SUBSET Texts]

Sources ==
    model \in Models \cup {NoModel} /\ cases \in SUBSET Texts /\ pinned \in Thresholds

Kinds ==
    /\ golden \in Files \cup {Missing, Broken}
    /\ committed \in Files \cup {Missing}
    /\ script \in Runs \cup {NotRunning}

Known == shown \in SUBSET (Texts \X Decisions)

Vouched(g) == Readable(g) =>
    \A x \in DOMAIN g.decisions : <<x, g.decisions[x]>> \in shown

\* What the run has computed and does not show, or no longer.
Backed ==
    /\ script.at = "prompt" => script.diff \subseteq DOMAIN script.fresh
    /\ script.at = "prompt" => \A x \in DOMAIN script.fresh \ script.diff :
                                  <<x, script.fresh[x]>> \in shown
    /\ script.at = "write" => \A x \in DOMAIN script.fresh :
                                  <<x, script.fresh[x]>> \in shown

IInv ==
    /\ Sources /\ Kinds /\ Known
    /\ Vouched(golden) /\ Vouched(committed) /\ Backed

-----------------------------------------------------------------------------
(* Data *)

LEMMA TablesAre ==
    ASSUME NEW f \in Tables
    PROVE  /\ DOMAIN f \in SUBSET Texts
           /\ \A x \in DOMAIN f : f[x] \in Decisions
  BY DEF Tables

LEMMA ComputeIsTable ==
    ASSUME Sources, model # NoModel PROVE Compute \in Tables
<1>1. ASSUME NEW x \in cases PROVE Decide(pinned, x) \in Decisions
  BY GoldenAssumption DEF Decide, Sources
<1>2. Compute \in [cases -> Decisions]
  BY <1>1 DEF Compute
<1> QED
  BY <1>2 DEF Tables, Sources

LEMMA FilesAre ==
    Files = [decisions : Tables, header : Headers, thresholds : Thresholds]
  BY DEF Files, Tables

\* More shown pairs vouch for more.
LEMMA VouchedGrows ==
    ASSUME NEW g, Vouched(g), shown \subseteq shown'
    PROVE  Vouched(g)'
  BY DEF Vouched, Readable, Missing, Broken

LEMMA InitEstablishes == Init => IInv
<1> SUFFICES ASSUME Init PROVE IInv
  OBVIOUS
<1>1. Sources /\ Kinds /\ Known
  BY DEF Init, Sources, Kinds, Known
<1>2. Vouched(golden) /\ Vouched(committed)
  BY DEF Init, Vouched, Readable
<1>3. Backed
  BY DEF Init, Backed, NotRunning
<1> QED
  BY <1>1, <1>2, <1>3 DEF IInv

-----------------------------------------------------------------------------
(* The actions *)

LEMMA StartKeeps ==
    ASSUME IInv, NEW header \in Headers, NEW yes \in BOOLEAN, Start(header, yes)
    PROVE  IInv'
<1> DEFINE diff == Changes(Compute, Previous)
<1>1. /\ golden # Broken /\ model # NoModel
      /\ script' = [at |-> "prompt", header |-> header, yes |-> yes,
                    fresh |-> Compute, thresholds |-> pinned, diff |-> diff]
      /\ UNCHANGED <<model, cases, pinned, golden, committed, shown>>
  BY DEF Start, sources
<1>2. Compute \in Tables
  BY <1>1, ComputeIsTable DEF IInv
<1>3. diff \in SUBSET Texts
  BY <1>2, TablesAre DEF Changes
<1>4. Sources' /\ Known'
  BY <1>1 DEF IInv, Sources, Known
<1>5. Kinds'
  BY <1>1, <1>2, <1>3 DEF IInv, Kinds, Runs, Sources
<1>6. Vouched(golden)' /\ Vouched(committed)'
  BY <1>1 DEF IInv, Vouched
<1>7. Backed'
  <2>2. ASSUME NEW x \in DOMAIN Compute \ diff
        PROVE  <<x, Compute[x]>> \in shown
    <3>1. x \in DOMAIN Previous /\ Previous[x] = Compute[x]
      BY DEF Changes
    <3>2. golden # Missing
      BY <3>1 DEF Previous, Nothing
    <3>3. Readable(golden) /\ Previous = golden.decisions
      BY <1>1, <3>2 DEF Readable, Previous
    <3> QED
      BY <3>1, <3>3 DEF IInv, Vouched
  <2>1. diff \subseteq DOMAIN Compute
    BY DEF Changes
  <2> HIDE DEF diff
  <2>3. script'.at = "prompt" /\ script'.fresh = Compute /\ script'.diff = diff
    BY <1>1
  <2> QED
    BY <1>1, <2>1, <2>2, <2>3 DEF Backed
<1> QED
  BY <1>4, <1>5, <1>6, <1>7 DEF IInv

LEMMA TruncateKeeps == ASSUME IInv, Accept \/ Proceed PROVE IInv'
<1> DEFINE printed == {<<x, script.fresh[x]>> : x \in script.diff}
<1>1. /\ script.at = "prompt" /\ script' = [script EXCEPT !.at = "write"]
      /\ shown' = shown \cup printed /\ golden' = Broken
      /\ UNCHANGED <<model, cases, pinned, committed>>
  BY DEF Accept, Proceed, Truncate, sources
<1>2. script \in Runs
  BY <1>1 DEF IInv, Kinds, NotRunning
<1>3. script'.at = "write" /\ script'.fresh = script.fresh /\ script' \in Runs
  BY <1>1, <1>2 DEF Runs
<1>4. Sources' /\ Kinds'
  BY <1>1, <1>3 DEF IInv, Sources, Kinds
<1>5. /\ script.fresh \in Tables /\ script.diff \subseteq DOMAIN script.fresh
      /\ \A x \in DOMAIN script.fresh \ script.diff :
            <<x, script.fresh[x]>> \in shown
  BY <1>1, <1>2 DEF IInv, Backed, Runs
<1>6. printed \in SUBSET (Texts \X Decisions)
  BY <1>5, TablesAre
<1>7. Known'
  BY <1>1, <1>6 DEF IInv, Known
<1>8. Vouched(golden)' /\ Vouched(committed)'
  <2>1. Vouched(golden)'
    BY <1>1 DEF Vouched, Readable
  <2>2. Vouched(committed)'
    BY <1>1 DEF IInv, Vouched, Readable
  <2> QED
    BY <2>1, <2>2
<1>9. Backed'
  <2>1. ASSUME NEW x \in DOMAIN script.fresh
        PROVE  <<x, script.fresh[x]>> \in shown'
    BY <1>1, <1>5
  <2> HIDE DEF printed
  <2> QED
    BY <1>3, <2>1 DEF Backed
<1> QED
  BY <1>4, <1>7, <1>8, <1>9 DEF IInv

LEMMA WriteKeeps == ASSUME IInv, Write PROVE IInv'
<1> DEFINE file == [decisions |-> script.fresh, header |-> script.header,
                    thresholds |-> script.thresholds]
<1>1. /\ script.at = "write" /\ golden' = file /\ script' = NotRunning
      /\ UNCHANGED <<model, cases, pinned, committed, shown>>
  BY DEF Write, sources
<1>2. script \in Runs
  BY <1>1 DEF IInv, Kinds, NotRunning
<1>3. file \in Files
  BY <1>2, FilesAre DEF Runs
<1>4. Sources' /\ Known'
  BY <1>1 DEF IInv, Sources, Known
<1>5. Kinds'
  BY <1>1, <1>3 DEF IInv, Kinds
<1>6. \A x \in DOMAIN script.fresh : <<x, script.fresh[x]>> \in shown
  BY <1>1 DEF IInv, Backed
<1>7. file.decisions = script.fresh
  OBVIOUS
<1> HIDE DEF file
<1>8. Vouched(golden)' /\ Vouched(committed)'
  BY <1>1, <1>6, <1>7 DEF IInv, Vouched, Readable
<1>9. Backed'
  BY <1>1 DEF Backed, NotRunning
<1> QED
  BY <1>4, <1>5, <1>8, <1>9 DEF IInv

LEMMA AbortKeeps == ASSUME IInv, Abort PROVE IInv'
<1>1. /\ script' = NotRunning
      /\ UNCHANGED <<model, cases, pinned, golden, committed, shown>>
  BY DEF Abort, sources
<1>2. Sources' /\ Known' /\ Kinds'
  BY <1>1 DEF IInv, Sources, Known, Kinds
<1>3. Vouched(golden)' /\ Vouched(committed)'
  BY <1>1 DEF IInv, Vouched, Readable
<1>4. Backed'
  BY <1>1 DEF Backed, NotRunning
<1> QED
  BY <1>2, <1>3, <1>4 DEF IInv

LEMMA OthersKeep ==
    ASSUME IInv, Edit \/ Discard \/ Commit \/ Checkout \/ UNCHANGED vars PROVE IInv'
<1>1. UNCHANGED <<script, shown>>
  BY DEF Edit, Discard, Commit, Checkout, vars
<1>2. golden' \in {golden, committed, Missing} /\ committed' \in {golden, committed}
  BY DEF Edit, Discard, Commit, Checkout, vars
<1>3. committed' # Broken
  <2>1. committed # Broken
    BY DEF IInv, Kinds, Missing, Broken, Files
  <2> QED
    BY <2>1 DEF Edit, Discard, Commit, Checkout, vars
<1>4. Sources'
  BY DEF IInv, Sources, Edit, Discard, Commit, Checkout, vars, sources
<1>5. Kinds'
  BY <1>1, <1>2, <1>3 DEF IInv, Kinds
<1>6. Known' /\ Vouched(golden)' /\ Vouched(committed)' /\ Backed'
  BY <1>1, <1>2 DEF IInv, Known, Vouched, Readable, Backed
<1> QED
  BY <1>4, <1>5, <1>6 DEF IInv

LEMMA Invariance == Spec => []IInv
<1>1. ASSUME IInv, [Next]_vars PROVE IInv'
  BY <1>1, StartKeeps, TruncateKeeps, WriteKeeps, AbortKeeps, OthersKeep DEF Next
<1> QED
  BY <1>1, InitEstablishes, PTL DEF Spec

-----------------------------------------------------------------------------

\* The files and the run keep their types; a broken file is never committed.
THEOREM TypeCorrect == Spec => []TypeOK
<1>1. IInv => TypeOK
  BY FilesAre DEF IInv, Sources, Kinds, Known, Runs, NotRunning, TypeOK
<1> QED
  BY <1>1, Invariance, PTL

\* When the suite is green and skipped nothing, each decision of the service
\* on the corpus was printed in the diff of a run before it got into the file.
THEOREM GreenWasShown == Spec => []GreenMeansShown
<1>1. ASSUME IInv, Green, ~Skipped, NEW x \in cases
      PROVE  <<x, Decide(golden.thresholds, x)>> \in shown
  <2>1. /\ Readable(golden) /\ DOMAIN golden.decisions = cases
        /\ Decide(golden.thresholds, x) = golden.decisions[x]
    BY <1>1 DEF Green, Skipped, CoversCases, MatchesReference
  <2> QED
    BY <1>1, <2>1 DEF IInv, Vouched
<1>2. IInv => GreenMeansShown
  BY <1>1 DEF GreenMeansShown
<1> QED
  BY <1>2, Invariance, PTL
-----------------------------------------------------------------------------
(* Generating the data set: lists of a set *)

IsList(s, S) == ToSet(s) = S /\ \A i, j \in DOMAIN s : s[i] = s[j] => i = j

\* Induction on the natural numbers, by a least counterexample.
LEMMA NatInd ==
    ASSUME NEW S, 0 \in S, \A n \in Nat : n \in S => n + 1 \in S
    PROVE  \A n \in Nat : n \in S
<1> DEFINE T == {n \in Nat : n \notin S}
<1> SUFFICES ASSUME T # {} PROVE FALSE
  OBVIOUS
<1>1. T \subseteq Nat
  OBVIOUS
<1> HIDE DEF T
<1>2. PICK x \in T : \A y \in T : ~(<<y, x>> \in OpToRel(<, Nat))
  BY <1>1, WFMin, NatLessThanWellFounded
<1>3. \A y \in T : ~(y < x)
  BY <1>1, <1>2 DEF OpToRel
<1>4. x \in Nat /\ x # 0 /\ x \notin S
  BY DEF T
<1>5. x - 1 \in Nat /\ x - 1 < x /\ (x - 1) + 1 = x
  BY <1>4
<1>6. x - 1 \in S
  BY <1>3, <1>5 DEF T
<1> QED  BY <1>4, <1>5, <1>6

\* += joins what the two lists have.
LEMMA ToSetConcat ==
    ASSUME NEW S, NEW s \in Seq(S), NEW t \in Seq(S)
    PROVE  s \o t \in Seq(S) /\ ToSet(s \o t) = ToSet(s) \cup ToSet(t)
<1> DEFINE u == s \o t
<1>1. /\ u \in Seq(S) /\ Len(u) = Len(s) + Len(t)
      /\ Len(s) \in Nat /\ Len(t) \in Nat
      /\ DOMAIN u = 1..Len(u) /\ DOMAIN s = 1..Len(s) /\ DOMAIN t = 1..Len(t)
      /\ \A i \in 1..Len(s) + Len(t) : u[i] = IF i <= Len(s) THEN s[i] ELSE t[i - Len(s)]
  BY ConcatProperties, LenProperties
<1> HIDE DEF u
<1>2. ASSUME NEW x \in ToSet(s) PROVE x \in ToSet(u)
  <2>1. PICK i \in 1..Len(s) : x = s[i]
    BY <1>1 DEF ToSet
  <2>2. i \in 1..Len(u) /\ u[i] = s[i]
    BY <1>1
  <2> QED  BY <1>1, <2>1, <2>2 DEF ToSet
<1>3. ASSUME NEW x \in ToSet(t) PROVE x \in ToSet(u)
  <2>1. PICK i \in 1..Len(t) : x = t[i]
    BY <1>1 DEF ToSet
  <2>2. Len(s) + i \in 1..Len(u) /\ ~(Len(s) + i <= Len(s)) /\ (Len(s) + i) - Len(s) = i
    BY <1>1
  <2>3. u[Len(s) + i] = t[i]
    BY <1>1, <2>2
  <2> QED  BY <1>1, <2>1, <2>2, <2>3 DEF ToSet
<1>4. ASSUME NEW x \in ToSet(u) PROVE x \in ToSet(s) \cup ToSet(t)
  <2>1. PICK i \in 1..Len(u) : x = u[i]
    BY <1>1 DEF ToSet
  <2>2. CASE i <= Len(s)
    <3>1. i \in 1..Len(s) /\ u[i] = s[i]
      BY <1>1, <2>2
    <3> QED  BY <1>1, <2>1, <3>1 DEF ToSet
  <2>3. CASE i > Len(s)
    <3>1. i - Len(s) \in 1..Len(t)
      BY <1>1, <2>3
    <3>2. u[i] = t[i - Len(s)]
      BY <1>1, <2>3
    <3> QED  BY <1>1, <2>1, <3>1, <3>2 DEF ToSet
  <2> QED  BY <1>1, <2>2, <2>3
<1> QED  BY <1>1, <1>2, <1>3, <1>4 DEF u

\* A slice has the rows of its positions.
LEMMA ToSetPart ==
    ASSUME NEW S, NEW s \in Seq(S), NEW i \in Nat \ {0}, NEW j \in 0..Len(s)
    PROVE  SubSeq(s, i, j) \in Seq(S) /\ ToSet(SubSeq(s, i, j)) = {s[k] : k \in i..j}
<1>1. Len(s) \in Nat /\ \A k \in i..j : s[k] \in S
  BY LenProperties, ElementOfSeq
<1> DEFINE u == SubSeq(s, i, j)
<1>2. /\ u \in Seq(S) /\ Len(u) = IF i <= j THEN j - i + 1 ELSE 0
      /\ \A k \in 1..j - i + 1 : u[k] = s[i + k - 1]
  BY <1>1, SubSeqProperties
<1> HIDE DEF u
<1>3. DOMAIN u = 1..(j - i + 1)
  BY <1>1, <1>2, LenProperties
<1>4. ASSUME NEW k \in 1..(j - i + 1) PROVE u[k] \in {s[m] : m \in i..j}
  <2>1. i + k - 1 \in i..j
    BY <1>1
  <2> QED  BY <1>2, <2>1
<1>5. ASSUME NEW m \in i..j PROVE s[m] \in ToSet(u)
  <2>1. m - i + 1 \in 1..(j - i + 1) /\ i + (m - i + 1) - 1 = m
    BY <1>1
  <2>2. u[m - i + 1] = s[m]
    BY <1>2, <2>1
  <2> QED  BY <1>3, <2>1, <2>2 DEF ToSet
<1>6. ToSet(u) = {s[k] : k \in i..j}
  BY <1>3, <1>4, <1>5 DEF ToSet
<1> QED  BY <1>2, <1>6 DEF u

\* shuffle loses and repeats nothing.
LEMMA RotateKeeps ==
    ASSUME NEW S, NEW s \in Seq(S), NEW k \in 0..(Orders(s) - 1)
    PROVE  /\ Rotate(s, k) \in Seq(S) /\ Len(Rotate(s, k)) = Len(s)
           /\ ToSet(Rotate(s, k)) = ToSet(s)
           /\ \A T : IsList(s, T) => IsList(Rotate(s, k), T)
<1> DEFINE n == Len(s)
           Turn(i) == IF i + k <= n THEN i + k ELSE i + k - n
           r == Rotate(s, k)
<1>1. n \in Nat /\ DOMAIN s = 1..n /\ \A i \in 1..n : s[i] \in S
  BY LenProperties, ElementOfSeq
<1>2. k \in Nat /\ (n # 0 => k < n)
  <2>1. CASE s = <<>>
    BY <2>1 DEF Orders
  <2>2. CASE s # <<>>
    BY <1>1, <2>2 DEF Orders
  <2> QED  BY <2>1, <2>2
<1>3. \A i \in 1..n : Turn(i) \in 1..n
  BY <1>1, <1>2
<1>4. \A i, j \in 1..n : Turn(i) = Turn(j) => i = j
  BY <1>1, <1>2
<1>5. \A j \in 1..n : \E i \in 1..n : Turn(i) = j
  <2>1. ASSUME NEW j \in 1..n PROVE \E i \in 1..n : Turn(i) = j
    <3>1. CASE j > k
      <4>1. j - k \in 1..n /\ Turn(j - k) = j
        BY <1>1, <1>2, <3>1
      <4> QED  BY <4>1
    <3>2. CASE ~(j > k)
      <4>1. j - k + n \in 1..n /\ Turn(j - k + n) = j
        BY <1>1, <1>2, <3>2
      <4> QED  BY <4>1
    <3> QED  BY <3>1, <3>2
  <2> QED  BY <2>1
<1>6. r = [i \in 1..n |-> s[Turn(i)]]
  BY <1>1 DEF Rotate
<1> HIDE DEF Turn, r
<1>7. r \in Seq(S) /\ Len(r) = n /\ DOMAIN r = 1..n /\ \A i \in 1..n : r[i] = s[Turn(i)]
  BY <1>1, <1>3, <1>6
<1>8. ToSet(r) = ToSet(s)
  <2>1. ToSet(s) = {s[i] : i \in 1..n} /\ ToSet(r) = {s[Turn(i)] : i \in 1..n}
    BY <1>1, <1>7 DEF ToSet
  <2> QED  BY <1>3, <1>5, <2>1
<1>9. ASSUME NEW T, IsList(s, T) PROVE IsList(r, T)
  <2>1. \A i, j \in 1..n : s[i] = s[j] => i = j
    BY <1>1, <1>9 DEF IsList
  <2>2. \A i, j \in 1..n : r[i] = r[j] => i = j
    BY <1>3, <1>4, <1>7, <2>1
  <2> QED  BY <1>7, <1>8, <1>9, <2>2 DEF IsList
<1> QED  BY <1>7, <1>8, <1>9 DEF r

Pairs == Nat \X Nat

\* Tuples are totally ordered.
LEMMA BeforeOrders ==
    /\ \A x \in Pairs : ~Before(x, x)
    /\ \A x, y, z \in Pairs : Before(x, y) /\ Before(y, z) => Before(x, z)
    /\ \A x, y \in Pairs : x # y => Before(x, y) \/ Before(y, x)
BY DEF Before, Pairs

\* sorted() gives every pair of a set one place.
LEMMA SortedIsList ==
    ASSUME NEW S \in SUBSET Pairs, IsFiniteSet(S)
    PROVE  Sorted(S) \in Seq(Pairs) /\ IsList(Sorted(S), S)
<1> DEFINE n == Cardinality(S)
           Below(x) == {y \in S : Before(y, x)}
           Rank(x) == Cardinality(Below(x))
           s == Sorted(S)
<1>1. s = [i \in 1..n |-> CHOOSE x \in S : Rank(x) = i - 1]
  BY DEF Sorted
<1>2. n \in Nat
  BY FS_CardinalityType
<1>3. \A x \in S : Below(x) \subseteq S /\ x \notin Below(x)
  BY BeforeOrders
<1>4. \A x, y \in S : Before(x, y) =>
         Below(x) \subseteq Below(y) /\ x \in Below(y) /\ x \notin Below(x)
  BY BeforeOrders
<1>5. \A x, y \in S : x # y => Before(x, y) \/ Before(y, x)
  BY BeforeOrders
<1> HIDE DEF Below, s
<1>6. \A x \in S : IsFiniteSet(Below(x)) /\ Rank(x) \in Nat /\ Rank(x) < n
  <2> TAKE x \in S
  <2>1. Below(x) \in SUBSET S /\ Below(x) # S
    BY <1>3
  <2>2. IsFiniteSet(Below(x)) /\ Rank(x) <= n /\ Rank(x) # n
    BY <2>1, FS_Subset
  <2>3. Rank(x) \in Nat
    BY <2>2, FS_CardinalityType
  <2> HIDE DEF Rank, n
  <2> QED  BY <1>2, <2>2, <2>3
<1>7. \A x, y \in S : Before(x, y) => Rank(x) < Rank(y)
  <2> SUFFICES ASSUME NEW x \in S, NEW y \in S, Before(x, y) PROVE Rank(x) < Rank(y)
    OBVIOUS
  <2>1. Below(x) \in SUBSET Below(y) /\ Below(x) # Below(y) /\ IsFiniteSet(Below(y))
    BY <1>4, <1>6
  <2>2. Rank(x) <= Rank(y) /\ Rank(x) # Rank(y)
    BY <2>1, FS_Subset
  <2>3. Rank(x) \in Nat /\ Rank(y) \in Nat
    BY <1>6
  <2> HIDE DEF Rank
  <2> QED  BY <2>2, <2>3
<1> HIDE DEF Rank
<1>8. \A x, y \in S : Rank(x) = Rank(y) => x = y
  BY <1>5, <1>6, <1>7
<1>9. \A i \in 0..(n - 1) : \E x \in S : Rank(x) = i
  <2> DEFINE r == [x \in S |-> Rank(x)]
             T == 0..(n - 1)
  <2>1. IsFiniteSet(T) /\ Cardinality(T) = n
    <3>1. 0 \in Int /\ n - 1 \in Int
      BY <1>2
    <3>2. IsFiniteSet(T) /\ Cardinality(T) = IF 0 > n - 1 THEN 0 ELSE (n - 1) - 0 + 1
      BY <3>1, FS_Interval
    <3> HIDE DEF T, n
    <3> QED  BY <1>2, <3>2
  <2>2. r \in [S -> T]
    BY <1>2, <1>6
  <2>3. r \in Injection(S, T)
    BY <1>8, <2>2 DEF Injection, IsInjective
  <2> HIDE DEF r
  <2>4. r \in Surjection(S, T)
    BY <2>1, <2>3, FS_Injection
  <2>5. \A i \in T : \E x \in S : r[x] = i
    BY <2>4 DEF Surjection
  <2> QED  BY <2>5 DEF r
<1>10. \A i \in 1..n : i - 1 \in 0..(n - 1)
  BY <1>2
<1>11. \A i \in 1..n : s[i] \in S /\ Rank(s[i]) = i - 1
  BY <1>1, <1>9, <1>10
<1>12. \A x \in S : Rank(x) + 1 \in 1..n /\ s[Rank(x) + 1] = x
  <2> TAKE x \in S
  <2>1. Rank(x) + 1 \in 1..n /\ (Rank(x) + 1) - 1 = Rank(x)
    BY <1>2, <1>6
  <2> QED  BY <1>8, <1>11, <2>1
<1>13. s \in Seq(Pairs) /\ DOMAIN s = 1..n
  <2>1. \A i \in 1..n : s[i] \in Pairs
    BY <1>11
  <2>2. DOMAIN s = 1..n /\ s = [i \in 1..n |-> s[i]]
    BY <1>1
  <2> HIDE DEF n
  <2>3. s \in [1..n -> Pairs]
    BY <2>1, <2>2
  <2> QED  BY <1>2, <2>2, <2>3
<1>14. ToSet(s) = S
  BY <1>11, <1>12, <1>13 DEF ToSet
<1>15. \A i, j \in 1..n : s[i] = s[j] => i = j
  <2> SUFFICES ASSUME NEW i \in 1..n, NEW j \in 1..n, s[i] = s[j] PROVE i = j
    OBVIOUS
  <2>1. i - 1 = j - 1
    BY <1>11
  <2> QED  BY <2>1
<1> QED  BY <1>13, <1>14, <1>15 DEF IsList, s

\* The length of a list of a set is its number of elements.
LEMMA LengthCounts ==
    ASSUME NEW S, NEW T, NEW s \in Seq(T), IsList(s, S)
    PROVE  IsFiniteSet(S) /\ Cardinality(S) = Len(s)
<1>1. Len(s) \in Nat /\ DOMAIN s = 1..Len(s) /\ s \in [1..Len(s) -> S]
  <2>1. Len(s) \in Nat /\ DOMAIN s = 1..Len(s) /\ s = [i \in 1..Len(s) |-> s[i]]
    BY LenProperties
  <2>2. \A i \in DOMAIN s : s[i] \in S
    BY DEF IsList, ToSet
  <2> QED  BY <2>1, <2>2
<1>2. s \in Bijection(1..Len(s), S)
  <2>1. \A i, j \in 1..Len(s) : s[i] = s[j] => i = j
    BY <1>1 DEF IsList
  <2>2. \A x \in S : \E i \in 1..Len(s) : s[i] = x
    BY <1>1 DEF IsList, ToSet
  <2> QED  BY <1>1, <2>1, <2>2 DEF Bijection, Injection, Surjection, IsInjective
<1>3. ExistsBijection(1..Len(s), S)
  BY <1>2 DEF ExistsBijection
<1>4. IsFiniteSet(S)
  BY <1>1, <1>3, FS_NatBijection
<1> QED  BY <1>1, <1>3, <1>4, FS_CountingElements
-----------------------------------------------------------------------------
(* by_label, and the three slices *)

\* The rows of label l among the first n of a list, given those among n - 1.
MineStep(l, s, f, n) ==
    IF n = 0 THEN <<>>
    ELSE IF s[n][2] = l THEN Append(f[n - 1], s[n]) ELSE f[n - 1]

MineIs(l, s, f) == f = [n \in 0..Len(s) |-> MineStep(l, s, f, n)]

Mine(l, s) == CHOOSE f : MineIs(l, s, f)

\* RowsOf by the name of the function that it is defined with.
LEMMA RowsOfAsMine == ASSUME NEW l, NEW s PROVE RowsOf(l, s) = Mine(l, s)[Len(s)]
BY DEF RowsOf, Mine, MineIs, MineStep

MineUpTo(l, s, f, n) ==
    /\ f \in [0..n -> Seq(Pairs)]
    /\ \A m \in 0..n : f[m] = MineStep(l, s, f, m)

\* The function can be continued by a row...
LEMMA MineMore ==
    ASSUME NEW l, NEW s \in Seq(Pairs), NEW n \in Nat, n + 1 <= Len(s),
           NEW f, MineUpTo(l, s, f, n)
    PROVE  \E g : MineUpTo(l, s, g, n + 1)
<1> DEFINE g == [m \in 0..(n + 1) |-> IF m <= n THEN f[m] ELSE MineStep(l, s, f, n + 1)]
<1>1. Len(s) \in Nat /\ s[n + 1] \in Pairs
  BY LenProperties, ElementOfSeq
<1>2. /\ f[n] \in Seq(Pairs)
      /\ \A m \in 0..n : f[m] \in Seq(Pairs) /\ f[m] = MineStep(l, s, f, m)
  BY DEF MineUpTo
<1>3. Append(f[n], s[n + 1]) \in Seq(Pairs)
  BY <1>1, <1>2, AppendProperties
<1>4. n + 1 # 0 /\ (n + 1) - 1 = n
  OBVIOUS
<1>5. MineStep(l, s, f, n + 1) \in Seq(Pairs)
  BY <1>2, <1>3, <1>4 DEF MineStep
<1>6. g \in [0..(n + 1) -> Seq(Pairs)]
  BY <1>2, <1>5
<1>7. \A m \in 0..n : g[m] = f[m]
  OBVIOUS
<1>8. g[n + 1] = MineStep(l, s, f, n + 1)
  OBVIOUS
<1> HIDE DEF g
<1>9. ASSUME NEW m \in 0..(n + 1) PROVE g[m] = MineStep(l, s, g, m)
  <2>1. CASE m = 0
    BY <1>2, <1>7, <2>1 DEF MineStep
  <2>2. CASE m # 0
    <3>1. m - 1 \in 0..n
      BY <2>2
    <3>2. MineStep(l, s, g, m) = MineStep(l, s, f, m)
      BY <1>7, <2>2, <3>1 DEF MineStep
    <3>3. g[m] = MineStep(l, s, f, m)
      <4>1. CASE m \in 0..n
        BY <1>2, <1>7, <4>1
      <4>2. CASE m = n + 1
        BY <1>8, <4>2
      <4> QED  BY <4>1, <4>2
    <3> QED  BY <3>2, <3>3
  <2> QED  BY <2>1, <2>2
<1> QED  BY <1>6, <1>9 DEF MineUpTo

\* ... so it exists, as far as the list goes.
LEMMA MineExists == ASSUME NEW l, NEW s \in Seq(Pairs) PROVE MineIs(l, s, Mine(l, s))
<1> DEFINE S == {n \in Nat : n <= Len(s) => \E f : MineUpTo(l, s, f, n)}
<1>1. Len(s) \in Nat
  BY LenProperties
<1>2. 0 \in S
  <2>1. <<>> \in Seq(Pairs)
    OBVIOUS
  <2>2. MineUpTo(l, s, [m \in 0..0 |-> <<>>], 0)
    BY <2>1 DEF MineUpTo, MineStep
  <2> QED  BY <2>2
<1>3. ASSUME NEW n \in Nat, n \in S PROVE n + 1 \in S
  <2>1. ASSUME n + 1 <= Len(s) PROVE \E f : MineUpTo(l, s, f, n + 1)
    <3>1. n <= Len(s)
      BY <1>1, <2>1
    <3>2. PICK f : MineUpTo(l, s, f, n)
      BY <1>3, <3>1
    <3> QED  BY <2>1, <3>2, MineMore
  <2> QED  BY <2>1
<1> HIDE DEF S
<1>4. Len(s) \in S
  BY <1>1, <1>2, <1>3, NatInd
<1>5. PICK f : MineUpTo(l, s, f, Len(s))
  BY <1>1, <1>4 DEF S
<1>6. f = [m \in 0..Len(s) |-> f[m]]
  BY <1>5 DEF MineUpTo
<1>7. [m \in 0..Len(s) |-> f[m]] = [m \in 0..Len(s) |-> MineStep(l, s, f, m)]
  BY <1>5 DEF MineUpTo
<1>8. MineIs(l, s, f)
  BY <1>6, <1>7 DEF MineIs
<1> QED  BY <1>8 DEF Mine

LEMMA MineAt ==
    ASSUME NEW l, NEW s \in Seq(Pairs), NEW n \in 0..Len(s)
    PROVE  Mine(l, s)[n] = MineStep(l, s, Mine(l, s), n)
<1> DEFINE f == Mine(l, s)
<1>1. f = [m \in 0..Len(s) |-> MineStep(l, s, f, m)]
  BY MineExists DEF MineIs
<1> HIDE DEF f
<1>2. f[n] = MineStep(l, s, f, n)
  BY <1>1
<1> QED  BY <1>2 DEF f

\* A row joins a list that does not have it.
LEMMA AppendToList ==
    ASSUME NEW S, NEW s \in Seq(S), NEW T, IsList(s, T), NEW x \in S, x \notin T
    PROVE  Append(s, x) \in Seq(S) /\ IsList(Append(s, x), T \cup {x})
<1> DEFINE u == Append(s, x)
<1>1. /\ u \in Seq(S) /\ Len(u) = Len(s) + 1 /\ Len(s) \in Nat
      /\ \A i \in 1..Len(s) : u[i] = s[i]
      /\ u[Len(s) + 1] = x
      /\ DOMAIN s = 1..Len(s) /\ DOMAIN u = 1..Len(u)
  BY AppendProperties, LenProperties
<1> HIDE DEF u
<1>2. DOMAIN u = 1..Len(s) \cup {Len(s) + 1}
  BY <1>1
<1>3. /\ \A i \in 1..Len(s) : s[i] \in T
      /\ \A y \in T : \E i \in 1..Len(s) : s[i] = y
      /\ \A i, j \in 1..Len(s) : s[i] = s[j] => i = j
  BY <1>1 DEF IsList, ToSet
<1>4. ToSet(u) = T \cup {x}
  <2>1. ToSet(u) = {u[i] : i \in 1..Len(s)} \cup {x}
    BY <1>1, <1>2 DEF ToSet
  <2>2. {u[i] : i \in 1..Len(s)} = {s[i] : i \in 1..Len(s)}
    BY <1>1
  <2>3. {s[i] : i \in 1..Len(s)} = T
    BY <1>3
  <2> QED  BY <2>1, <2>2, <2>3
<1>5. \A i, j \in DOMAIN u : u[i] = u[j] => i = j
  BY <1>1, <1>2, <1>3, Zenon
<1> QED  BY <1>1, <1>4, <1>5 DEF IsList, u

First(l, s, n) == {s[i] : i \in {j \in 1..n : s[j][2] = l}}

\* by_label[l] lists the rows of label l.
LEMMA RowsOfIsList ==
    ASSUME NEW l, NEW S, NEW s \in Seq(Pairs), IsList(s, S)
    PROVE  RowsOf(l, s) \in Seq(Pairs) /\ IsList(RowsOf(l, s), {x \in S : x[2] = l})
<1> DEFINE f == Mine(l, s)
           N == {n \in Nat : n <= Len(s) =>
                    f[n] \in Seq(Pairs) /\ IsList(f[n], First(l, s, n))}
<1>1. /\ Len(s) \in Nat /\ DOMAIN s = 1..Len(s)
      /\ \A i \in 1..Len(s) : s[i] \in Pairs
      /\ \A i, j \in 1..Len(s) : s[i] = s[j] => i = j
  BY LenProperties, ElementOfSeq DEF IsList
<1>2. \A n \in 0..Len(s) : f[n] = MineStep(l, s, f, n)
  BY MineAt
<1> HIDE DEF f
<1>3. 0 \in N
  <2>1. f[0] = <<>>
    BY <1>1, <1>2 DEF MineStep
  <2>2. First(l, s, 0) = {} /\ <<>> \in Seq(Pairs) /\ IsList(<<>>, {})
    BY DEF First, IsList, ToSet
  <2> QED  BY <2>1, <2>2
<1>4. ASSUME NEW n \in Nat, n \in N PROVE n + 1 \in N
  <2> SUFFICES ASSUME n + 1 <= Len(s)
               PROVE  f[n + 1] \in Seq(Pairs) /\ IsList(f[n + 1], First(l, s, n + 1))
    OBVIOUS
  <2>1. /\ n + 1 \in 0..Len(s) /\ n + 1 \in 1..Len(s) /\ n + 1 # 0
        /\ (n + 1) - 1 = n /\ n <= Len(s)
    BY <1>1
  <2>2. f[n] \in Seq(Pairs) /\ IsList(f[n], First(l, s, n))
    BY <1>4, <2>1
  <2>3. f[n + 1] = IF s[n + 1][2] = l THEN Append(f[n], s[n + 1]) ELSE f[n]
    BY <1>2, <2>1 DEF MineStep
  <2>4. 1..(n + 1) = 1..n \cup {n + 1} /\ n + 1 \notin 1..n /\ 1..n \subseteq 1..Len(s)
    BY <2>1
  <2>5. CASE s[n + 1][2] = l
    <3>1. First(l, s, n + 1) = First(l, s, n) \cup {s[n + 1]}
      BY <2>4, <2>5 DEF First
    <3>2. s[n + 1] \notin First(l, s, n)
      BY <1>1, <2>1, <2>4 DEF First
    <3>3. s[n + 1] \in Pairs
      BY <1>1, <2>1
    <3>4. Append(f[n], s[n + 1]) \in Seq(Pairs)
          /\ IsList(Append(f[n], s[n + 1]), First(l, s, n) \cup {s[n + 1]})
      BY <2>2, <3>2, <3>3, AppendToList
    <3> QED  BY <2>3, <2>5, <3>1, <3>4
  <2>6. CASE s[n + 1][2] # l
    <3>1. First(l, s, n + 1) = First(l, s, n)
      BY <2>4, <2>6 DEF First
    <3> QED  BY <2>2, <2>3, <2>6, <3>1
  <2> QED  BY <2>5, <2>6
<1> HIDE DEF N
<1>5. Len(s) \in N
  BY <1>1, <1>3, <1>4, NatInd
<1>6. First(l, s, Len(s)) = {x \in S : x[2] = l}
  BY <1>1 DEF First, IsList, ToSet
<1>7. f[Len(s)] \in Seq(Pairs) /\ IsList(f[Len(s)], First(l, s, Len(s)))
  BY <1>1, <1>5 DEF N
<1> QED  BY <1>6, <1>7, RowsOfAsMine DEF f

\* The two shares fit, and a label with two rows has one to train on.
LEMMA ShareBounds ==
    /\ \A n \in Nat : /\ Share(n, TrainShare) \in Nat /\ Share(n, ValShare) \in Nat
                      /\ Share(n, TrainShare) + Share(n, ValShare) <= n
    /\ \A n \in Nat : n >= 2 => Share(n, TrainShare) >= 1
<1>1. \A n, a, b \in Nat : a + b <= 100 => (n * a) \div 100 + (n * b) \div 100 <= n
  OBVIOUS
<1>2. \A n, a \in Nat : a >= 50 /\ a <= 100 /\ n >= 2 => (n * a) \div 100 >= 1
  OBVIOUS
<1>3. \A n, a \in Nat : (n * a) \div 100 \in Nat
  OBVIOUS
<1>4. /\ TrainShare \in Nat /\ ValShare \in Nat /\ TrainShare + ValShare <= 100
      /\ TrainShare >= 50 /\ TrainShare <= 100
  BY TrainingAssumption DEF TrainingAssumption
<1> QED  BY <1>1, <1>2, <1>3, <1>4, Zenon DEF Share

\* Every pair of a set is in one of the three lists.
Partition(part, T) ==
    /\ UNION {ToSet(part[f]) : f \in Names} = T
    /\ \A f, g \in Names : f # g => ToSet(part[f]) \cap ToSet(part[g]) = {}

\* The two cuts leave a partition.
LEMMA SliceParts ==
    ASSUME NEW S, NEW T, NEW s \in Seq(S), IsList(s, T),
           NEW n \in Nat, NEW m \in Nat, n + m <= Len(s)
    PROVE  /\ \A f \in Names : Slice(s, n, m)[f] \in Seq(S)
           /\ Partition(Slice(s, n, m), T)
           /\ n >= 1 => ToSet(Slice(s, n, m)["train"]) # {}
<1> DEFINE part == Slice(s, n, m)
           I == [train |-> 1..n, val |-> (n + 1)..(n + m), test |-> (n + m + 1)..Len(s)]
<1>1. Len(s) \in Nat /\ DOMAIN s = 1..Len(s)
  BY LenProperties
<1>2. T = {s[k] : k \in 1..Len(s)} /\ \A i, j \in 1..Len(s) : s[i] = s[j] => i = j
  BY <1>1 DEF IsList, ToSet
<1>3. part["train"] \in Seq(S) /\ ToSet(part["train"]) = {s[k] : k \in 1..n}
  <2>1. 1 \in Nat \ {0} /\ n \in 0..Len(s)
    BY <1>1
  <2> QED  BY <2>1, ToSetPart DEF Slice
<1>4. part["val"] \in Seq(S) /\ ToSet(part["val"]) = {s[k] : k \in (n + 1)..(n + m)}
  <2>1. n + 1 \in Nat \ {0} /\ n + m \in 0..Len(s)
    BY <1>1
  <2> QED  BY <2>1, ToSetPart DEF Slice
<1>5. part["test"] \in Seq(S) /\ ToSet(part["test"]) = {s[k] : k \in (n + m + 1)..Len(s)}
  <2>1. n + m + 1 \in Nat \ {0} /\ Len(s) \in 0..Len(s)
    BY <1>1
  <2> QED  BY <2>1, ToSetPart DEF Slice
<1> HIDE DEF part
<1>cuts. /\ I["train"] = 1..n /\ I["val"] = (n + 1)..(n + m)
      /\ I["test"] = (n + m + 1)..Len(s)
  OBVIOUS
<1> HIDE DEF I
<1>6. \A f \in Names : part[f] \in Seq(S) /\ ToSet(part[f]) = {s[k] : k \in I[f]}
  BY <1>3, <1>4, <1>5, <1>cuts DEF Names
<1>7. /\ UNION {I[f] : f \in Names} = 1..Len(s)
      /\ \A f, g \in Names : f # g => I[f] \cap I[g] = {}
      /\ n >= 1 => 1 \in I["train"]
  <2>2. UNION {I[f] : f \in Names} = I["train"] \cup I["val"] \cup I["test"]
    BY DEF Names
  <2>3. 1..n \cup (n + 1)..(n + m) \cup (n + m + 1)..Len(s) = 1..Len(s)
    BY <1>1
  <2>4. /\ I["train"] \cap I["val"] = {} /\ I["train"] \cap I["test"] = {}
        /\ I["val"] \cap I["test"] = {}
    BY <1>1, <1>cuts
  <2>5. \A f, g \in Names : f # g => I[f] \cap I[g] = {}
    BY <2>4 DEF Names
  <2> QED  BY <1>cuts, <2>2, <2>3, <2>5
<1>8. UNION {ToSet(part[f]) : f \in Names} = T
  <2>1. \A f \in Names : I[f] \subseteq 1..Len(s)
    BY <1>7
  <2>2. ASSUME NEW f \in Names PROVE ToSet(part[f]) \subseteq T
    <3>1. ToSet(part[f]) = {s[i] : i \in I[f]} /\ I[f] \subseteq 1..Len(s)
      BY <1>6, <2>1
    <3>2. T = {s[k] : k \in 1..Len(s)}
      BY <1>2
    <3> QED  BY <3>1, <3>2, Zenon
  <2>3. ASSUME NEW k \in 1..Len(s) PROVE \E f \in Names : s[k] \in ToSet(part[f])
    <3>1. PICK f \in Names : k \in I[f]
      BY <1>7
    <3>2. ToSet(part[f]) = {s[i] : i \in I[f]}
      BY <1>6
    <3> QED  BY <3>1, <3>2
  <2> QED  BY <1>2, <2>2, <2>3
<1>9. ASSUME NEW f \in Names, NEW g \in Names, f # g
      PROVE  ToSet(part[f]) \cap ToSet(part[g]) = {}
  <2>1. I[f] \subseteq 1..Len(s) /\ I[g] \subseteq 1..Len(s) /\ I[f] \cap I[g] = {}
    BY <1>7, <1>9
  <2>2. ASSUME NEW x, x \in ToSet(part[f]), x \in ToSet(part[g]) PROVE FALSE
    <3>1. PICK i \in I[f], j \in I[g] : x = s[i] /\ x = s[j]
      BY <1>6, <2>2
    <3> QED  BY <1>2, <2>1, <3>1
  <2> QED  BY <2>2
<1>10. n >= 1 => ToSet(part["train"]) # {}
  <2>1. ToSet(part["train"]) = {s[k] : k \in I["train"]}
    BY <1>6 DEF Names
  <2> QED  BY <1>7, <2>1
<1>11. Partition(part, T)
  BY <1>8, <1>9 DEF Partition
<1> QED  BY <1>6, <1>10, <1>11 DEF part
-----------------------------------------------------------------------------
(* The invariant of a run *)

Turns == PerLabel * Tries

Steps == {"idle", "generate", "split", "fit", "done"} \cup Names

Lists == Seq(Pairs)

OfFirst(m) == {x \in examples : x[2] \in {Labels[i] : i \in 1..m}}

SplitUpTo(m) ==
    /\ Partition(split, OfFirst(m))
    /\ \A i \in 1..m : Cardinality({x \in examples : x[2] = Labels[i]}) >= 2 =>
          \E x \in ToSet(split["train"]) : x[2] = Labels[i]

Wrote(s, f) == s \in (CASE f = "train" -> {"val", "test", "fit", "done"}
                        [] f = "val" -> {"test", "fit", "done"}
                        [] OTHER -> {"fit", "done"})

Kept ==
    /\ step \in Steps /\ label \in 1..Len(Labels)
    /\ attempts \in 0..Turns /\ count \in 0..PerLabel
    /\ examples \in SUBSET Pairs /\ IsFiniteSet(examples)
    /\ \A x \in examples : x[2] \in Domain /\ x[1] < PoolOf[x[2]]
    /\ rows \in Lists /\ split \in [Names -> Lists]
    /\ files \in [Names -> Lists \cup {Absent, Torn}]
    /\ artifact \subseteq Domain
    /\ tape \in Seq(Nat) /\ position \in 0..Len(tape)

AtRest == step = "idle" =>
    label = 1 /\ attempts = 0 /\ count = 0 /\ examples = {} /\ rows = <<>> /\ position = 0

Budget ==
    /\ step = "generate" => position <= (label - 1) * Turns + attempts
    /\ step = "split" => position <= Len(Labels) * Turns + label - 1
    /\ step = "train" => position <= Len(Labels) * Turns + Len(Labels)
    /\ step = "val" => position <= Len(Labels) * Turns + Len(Labels) + 1
    /\ step = "test" => position <= Len(Labels) * Turns + Len(Labels) + 2
    /\ step \in {"fit", "done"} => position <= Len(Labels) * Turns + Len(Labels) + 3

Listed == step \notin {"idle", "generate"} => IsList(rows, examples)

Parted ==
    /\ step \in {"idle", "generate"} => split = Fresh
    /\ step = "split" => SplitUpTo(label - 1)
    /\ step \in Names \cup {"fit", "done"} => SplitUpTo(Len(Labels))

OnDisk == \A f \in Names : Wrote(step, f) =>
    files[f] \in Lists /\ ToSet(files[f]) = ToSet(split[f])

RunInv == Kept /\ AtRest /\ Budget /\ Listed /\ Parted /\ OnDisk

\* The constants are what the proofs need them to be.
LEMMA Counts ==
    /\ Len(Labels) \in Nat \ {0} /\ DOMAIN Labels = 1..Len(Labels)
    /\ Turns \in Nat
    /\ \A i \in 1..Len(Labels) : Labels[i] \in Domain /\ Labels[i] \in Nat
    /\ \A l \in Domain : PoolOf[l] \in Nat \ {0}
<1>1. Labels \in Seq(Nat) /\ Labels # <<>>
  BY TrainingAssumption DEF TrainingAssumption
<1>2. Len(Labels) \in Nat \ {0} /\ DOMAIN Labels = 1..Len(Labels)
  BY <1>1, EmptySeq, LenProperties
<1>3. \A i \in 1..Len(Labels) : Labels[i] \in Domain /\ Labels[i] \in Nat
  BY <1>1, <1>2, ElementOfSeq DEF Domain, ToSet
<1>4. \A l \in Domain : PoolOf[l] \in Nat \ {0}
  BY TrainingAssumption DEF TrainingAssumption, Domain
<1>5. Turns \in Nat
  BY TrainingAssumption DEF TrainingAssumption, Turns
<1> QED  BY <1>2, <1>3, <1>4, <1>5

\* The turns of one label more.
LEMMA QuotaStep == \A m \in Int : (m + 1) * Turns = m * Turns + Turns /\ m * Turns \in Int
<1>1. \A m, b \in Int : (m + 1) * b = m * b + b /\ m * b \in Int
  OBVIOUS
<1> QED  BY <1>1, Counts

\* shuffle leaves one order at least.
LEMMA OrdersPositive == ASSUME NEW S, NEW s \in Seq(S) PROVE Orders(s) \in Nat \ {0}
BY LenProperties DEF Orders

\* What a draw gives is on the tape, whether it was there before or not.
LEMMA Drawn ==
    ASSUME tape \in Seq(Nat), position \in 0..Len(tape),
           NEW n \in Nat \ {0}, NEW v \in 0..(n - 1), Draw(v, n)
    PROVE  /\ tape' \in Seq(Nat) /\ position' = position + 1 /\ position' \in 0..Len(tape')
           /\ tape' = tape \/ \E d \in Nat : tape' = Append(tape, d)
           /\ v = tape'[position + 1] % n
<1>1. Len(tape) \in Nat /\ position' = position + 1
  BY LenProperties DEF Draw
<1>2. CASE position < Len(tape)
  <2>1. v = tape[position + 1] % n /\ tape' = tape
    BY <1>2 DEF Draw
  <2> QED  BY <1>1, <1>2, <2>1
<1>3. CASE ~(position < Len(tape))
  <2>1. tape' = Append(tape, v) /\ v \in Nat
    BY <1>3 DEF Draw
  <2>2. /\ tape' \in Seq(Nat) /\ Len(tape') = Len(tape) + 1 /\ tape'[Len(tape) + 1] = v
    BY <2>1, AppendProperties
  <2>3. position = Len(tape)
    BY <1>1, <1>3
  <2>4. v % n = v
    <3>1. \A a \in Nat \ {0} : \A b \in 0..(a - 1) : b % a = b
      OBVIOUS
    <3> QED  BY <3>1
  <2> QED  BY <1>1, <2>1, <2>2, <2>3, <2>4
<1> QED  BY <1>2, <1>3

\* Nothing has happened in the first state.
LEMMA FirstState == ASSUME TrainInit PROVE RunInv
<1> USE DEF TrainInit
<1>1. Kept
  <2>1. IsFiniteSet({}) /\ <<>> \in Lists /\ <<>> \in Seq(Nat) /\ Len(<<>>) = 0
    BY FS_EmptySet DEF Lists
  <2>2. Fresh \in [Names -> Lists]
    BY <2>1 DEF Fresh
  <2>3. 1 \in 1..Len(Labels) /\ 0 \in 0..Turns /\ 0 \in 0..PerLabel
    BY Counts, TrainingAssumption DEF TrainingAssumption
  <2> QED  BY <2>1, <2>2, <2>3 DEF Kept, Steps
<1>2. AtRest /\ Budget /\ Listed /\ Parted /\ OnDisk
  BY DEF AtRest, Budget, Listed, Parted, OnDisk, Wrote, Names
<1> QED  BY <1>1, <1>2 DEF RunInv
-----------------------------------------------------------------------------
(* Every step keeps it *)

USE DEF Lists

\* The slices of a label are lists of rows, and so is what they are added to.
LEMMA SplitKept ==
    ASSUME RunInv, SplitLabel
    PROVE  split' \in [Names -> Lists] /\ tape' \in Seq(Nat) /\ position' \in 0..Len(tape')
<1> DEFINE mine == RowsOf(Current, rows)
           n == Len(mine)
<1>1. Kept /\ IsList(rows, examples)
  BY DEF RunInv, Listed, SplitLabel
<1>2. mine \in Lists /\ IsList(mine, {x \in examples : x[2] = Current})
  BY <1>1, RowsOfIsList DEF Kept
<1>3. PICK v \in 0..(Orders(mine) - 1) :
        /\ Draw(v, Orders(mine))
        /\ split' = [f \in Names |->
              split[f] \o
                 Slice(Rotate(mine, v), Share(n, TrainShare), Share(n, ValShare))[f]]
  BY DEF SplitLabel
<1> DEFINE turned == Rotate(mine, v)
           part == Slice(turned, Share(n, TrainShare), Share(n, ValShare))
<1>4. turned \in Lists /\ IsList(turned, {x \in examples : x[2] = Current}) /\ Len(turned) = n
  BY <1>2, RotateKeeps
<1>5. n \in Nat
  BY <1>2, LenProperties
<1>6. /\ Share(n, TrainShare) \in Nat /\ Share(n, ValShare) \in Nat
      /\ Share(n, TrainShare) + Share(n, ValShare) <= Len(turned)
  BY <1>4, <1>5, ShareBounds
<1>7. \A f \in Names : part[f] \in Lists
  <2> HIDE DEF turned, n, mine
  <2> QED  BY <1>4, <1>6, SliceParts
<1>8. \A f \in Names : split[f] \o part[f] \in Lists
  BY <1>1, <1>7, ToSetConcat DEF Kept
<1>9. split' \in [Names -> Lists]
  BY <1>3, <1>8
<1>10. tape' \in Seq(Nat) /\ position' \in 0..Len(tape')
  <2>1. Orders(mine) \in Nat \ {0}
    BY <1>2, OrdersPositive
  <2> QED  BY <1>1, <1>3, <2>1, Drawn DEF Kept
<1> QED  BY <1>9, <1>10

\* What split does to the rows of one label.
LEMMA SplitAdds ==
    ASSUME RunInv, SplitLabel
    PROVE  \E part : 
           /\ \A f \in Names : ToSet(split'[f]) = ToSet(split[f]) \cup ToSet(part[f])
           /\ Partition(part, {x \in examples : x[2] = Current})
           /\ Cardinality({x \in examples : x[2] = Current}) >= 2 => ToSet(part["train"]) # {}
<1> DEFINE mine == RowsOf(Current, rows)
           n == Len(mine)
           M == {x \in examples : x[2] = Current}
<1>1. Kept /\ IsList(rows, examples)
  BY DEF RunInv, Listed, SplitLabel
<1>2. mine \in Lists /\ IsList(mine, M)
  BY <1>1, RowsOfIsList DEF Kept
<1>3. PICK v \in 0..(Orders(mine) - 1) :
        split' = [f \in Names |->
              split[f] \o
                 Slice(Rotate(mine, v), Share(n, TrainShare), Share(n, ValShare))[f]]
  BY DEF SplitLabel
<1> DEFINE turned == Rotate(mine, v)
           part == Slice(turned, Share(n, TrainShare), Share(n, ValShare))
<1>4. turned \in Lists /\ IsList(turned, M) /\ Len(turned) = n
  BY <1>2, RotateKeeps
<1>5. n \in Nat /\ Cardinality(M) = n
  BY <1>2, LenProperties, LengthCounts
<1>6. /\ Share(n, TrainShare) \in Nat /\ Share(n, ValShare) \in Nat
      /\ Share(n, TrainShare) + Share(n, ValShare) <= Len(turned)
      /\ n >= 2 => Share(n, TrainShare) >= 1
  BY <1>4, <1>5, ShareBounds
<1>7. /\ \A f \in Names : part[f] \in Lists
      /\ Partition(part, M)
      /\ Share(n, TrainShare) >= 1 => ToSet(part["train"]) # {}
  <2> DEFINE a == Share(n, TrainShare)
             b == Share(n, ValShare)
  <2>1. a \in Nat /\ b \in Nat /\ a + b <= Len(turned)
    BY <1>6
  <2> HIDE DEF turned, n, mine, M, a, b
  <2>2. /\ \A f \in Names : Slice(turned, a, b)[f] \in Lists
        /\ Partition(Slice(turned, a, b), M)
        /\ a >= 1 => ToSet(Slice(turned, a, b)["train"]) # {}
    BY <1>4, <2>1, SliceParts
  <2> QED  BY <2>2 DEF a, b
<1>8. \A f \in Names : ToSet(split[f] \o part[f]) = ToSet(split[f]) \cup ToSet(part[f])
  BY <1>1, <1>7, ToSetConcat DEF Kept
<1>9. \A f \in Names : ToSet(split'[f]) = ToSet(split[f]) \cup ToSet(part[f])
  <2>1. \A f \in Names : split'[f] = split[f] \o part[f]
    BY <1>3
  <2> QED  BY <1>8, <2>1
<1>10. Cardinality(M) >= 2 => ToSet(part["train"]) # {}
  BY <1>5, <1>6, <1>7
<1> HIDE DEF part
<1> QED  BY <1>7, <1>9, <1>10

\* A file is written with the rows that split has given it.
LEMMA WriteKept ==
    ASSUME RunInv, WriteFile
    PROVE  /\ files' \in [Names -> Lists \cup {Absent, Torn}]
           /\ tape' \in Seq(Nat) /\ position' \in 0..Len(tape')
           /\ files'[step] \in Lists /\ ToSet(files'[step]) = ToSet(split[step])
<1>1. Kept /\ step \in Names
  BY DEF RunInv, WriteFile
<1>2. split[step] \in Lists
  BY <1>1 DEF Kept
<1>3. PICK v \in 0..(Orders(split[step]) - 1) :
        /\ Draw(v, Orders(split[step]))
        /\ files' = [files EXCEPT ![step] = Rotate(split[step], v)]
  BY DEF WriteFile
<1>4. /\ Rotate(split[step], v) \in Lists
      /\ ToSet(Rotate(split[step], v)) = ToSet(split[step])
  BY <1>2, RotateKeeps
<1>5. tape' \in Seq(Nat) /\ position' \in 0..Len(tape')
  <2>1. Orders(split[step]) \in Nat \ {0}
    BY <1>2, OrdersPositive
  <2> QED  BY <1>1, <1>3, <2>1, Drawn DEF Kept
<1>6. files' \in [Names -> Lists \cup {Absent, Torn}] /\ files'[step] = Rotate(split[step], v)
  BY <1>1, <1>3, <1>4 DEF Kept
<1> QED  BY <1>4, <1>5, <1>6

\* A turn of the while loop, by the number that it draws.
LEMMA TryDraws ==
    ASSUME RunInv, Try
    PROVE  \E v \in Nat :
           /\ v < PoolOf[Current] /\ Current \in Domain
           /\ examples' = examples \cup {<<v, Current>>}
           /\ count' = IF <<v, Current>> \in examples THEN count ELSE count + 1
           /\ v = tape'[position + 1] % PoolOf[Current]
           /\ tape' \in Seq(Nat) /\ position' = position + 1 /\ position' \in 0..Len(tape')
           /\ tape' = tape \/ \E d \in Nat : tape' = Append(tape, d)
<1>1. Kept /\ Current \in Domain /\ PoolOf[Current] \in Nat \ {0}
  BY Counts DEF RunInv, Kept, Current
<1>2. PICK v \in 0..(PoolOf[Current] - 1) :
        /\ Draw(v, PoolOf[Current])
        /\ examples' = examples \cup {<<v, Current>>}
        /\ count' = IF <<v, Current>> \in examples THEN count ELSE count + 1
  BY DEF Try
<1>3. v \in Nat /\ v < PoolOf[Current]
  BY <1>1
<1>4. /\ tape' \in Seq(Nat) /\ position' = position + 1 /\ position' \in 0..Len(tape')
      /\ tape' = tape \/ \E d \in Nat : tape' = Append(tape, d)
      /\ v = tape'[position + 1] % PoolOf[Current]
  BY <1>1, <1>2, Drawn DEF Kept
<1> QED  BY <1>1, <1>2, <1>3, <1>4

\* Every step keeps the kinds of the state.
LEMMA KeptStep == ASSUME RunInv, [TrainNext]_trainVars PROVE Kept'
<1>1. Kept /\ PerLabel \in Nat /\ Turns \in Nat /\ Len(Labels) \in Nat \ {0}
  BY Counts, TrainingAssumption DEF RunInv, TrainingAssumption
<1>2. CASE Begin
  BY <1>1, <1>2 DEF Begin, Kept, Steps, locals, disk, rng
<1>3. CASE Try
  <2>1. PICK v \in Nat :
           /\ v < PoolOf[Current] /\ Current \in Domain
           /\ examples' = examples \cup {<<v, Current>>}
           /\ count' = IF <<v, Current>> \in examples THEN count ELSE count + 1
           /\ tape' \in Seq(Nat) /\ position' \in 0..Len(tape')
    BY <1>3, TryDraws
  <2>2. attempts' \in 0..Turns /\ count' \in 0..PerLabel
    BY <1>1, <1>3, <2>1 DEF Try, More, Kept, Turns
  <2>3. examples' \in SUBSET Pairs /\ IsFiniteSet(examples')
    <3>1. Current \in Nat
      BY <1>1, Counts DEF Kept, Current
    <3>2. <<v, Current>> \in Pairs
      BY <3>1 DEF Pairs
    <3>3. examples \in SUBSET Pairs /\ IsFiniteSet(examples)
      BY <1>1 DEF Kept
    <3>4. IsFiniteSet(examples \cup {<<v, Current>>})
      BY <3>3, FS_AddElement
    <3> QED  BY <2>1, <3>2, <3>3, <3>4
  <2>4. \A x \in examples' : x[2] \in Domain /\ x[1] < PoolOf[x[2]]
    BY <1>1, <2>1 DEF Kept
  <2> QED  BY <1>1, <1>3, <2>1, <2>2, <2>3, <2>4 DEF Try, Kept, disk
<1>4. CASE NextLabel
  BY <1>1, <1>4 DEF NextLabel, Kept, disk, rng
<1>5. CASE List
  <2>1. rows' \in Lists
    BY <1>1, <1>5, SortedIsList DEF List, Kept
  <2> QED  BY <1>1, <1>5, <2>1 DEF List, Kept, Steps, disk, rng
<1>6. CASE SplitLabel
  <2>1. split' \in [Names -> Lists] /\ tape' \in Seq(Nat) /\ position' \in 0..Len(tape')
    BY <1>6, SplitKept
  <2>2. label' \in 1..Len(Labels) /\ step' \in Steps
    <3>1. /\ step = "split"
          /\ IF label < Len(Labels) THEN label' = label + 1 /\ step' = step
             ELSE label' = 1 /\ step' = "train"
      BY <1>6 DEF SplitLabel
    <3>2. label \in 1..Len(Labels)
      BY <1>1 DEF Kept
    <3>3. {"split", "train"} \subseteq Steps
      BY DEF Steps, Names
    <3> QED  BY <1>1, <3>1, <3>2, <3>3
  <2> QED  BY <1>1, <1>6, <2>1, <2>2 DEF SplitLabel, Kept, disk
<1>7. CASE OpenFile
  BY <1>1, <1>7 DEF OpenFile, Kept, locals, rng
<1>8. CASE WriteFile
  <2>1. /\ files' \in [Names -> Lists \cup {Absent, Torn}]
        /\ tape' \in Seq(Nat) /\ position' \in 0..Len(tape')
    BY <1>8, WriteKept
  <2>2. step' \in Steps
    BY <1>8 DEF WriteFile, Steps, Names
  <2> QED  BY <1>1, <1>8, <2>1, <2>2 DEF WriteFile, Kept, locals
<1>9. CASE Fit
  <2>1. /\ ToSet(files["train"]) = ToSet(split["train"])
        /\ ToSet(split["train"]) \subseteq examples
    BY <1>9 DEF Fit, RunInv, OnDisk, Parted, Wrote, Names, SplitUpTo, Partition, OfFirst
  <2>2. artifact' \subseteq Domain
    BY <1>1, <1>9, <2>1 DEF Fit, Kept
  <2> QED  BY <1>1, <1>9, <2>2 DEF Fit, Kept, Steps, locals, rng
<1>10. CASE Reset
  <2>1. IsFiniteSet({}) /\ Fresh \in [Names -> Lists] /\ <<>> \in Lists
    BY FS_EmptySet DEF Fresh
  <2>2. 0 \in 0..Len(tape)
    BY <1>1, LenProperties DEF Kept
  <2> QED  BY <1>1, <1>10, <2>1, <2>2 DEF Reset, Kept, Steps, disk
<1>11. CASE UNCHANGED trainVars
  BY <1>1, <1>11 DEF trainVars, Kept, locals, disk, rng
<1> QED  BY <1>2, <1>3, <1>4, <1>5, <1>6, <1>7, <1>8, <1>9, <1>10, <1>11
     DEF TrainNext, Finish, Crash

\* A run that has ended leaves nothing in memory.
LEMMA RestStep == ASSUME RunInv, [TrainNext]_trainVars PROVE AtRest'
<1>1. AtRest
  BY DEF RunInv
<1>2. CASE Begin \/ Try \/ NextLabel \/ List \/ SplitLabel \/ OpenFile \/ WriteFile \/ Fit
  <2>1. step' # "idle"
    BY <1>2 DEF Begin, Try, NextLabel, List, SplitLabel, OpenFile, WriteFile, Fit, Names
  <2> QED  BY <2>1 DEF AtRest
<1>3. CASE Reset
  BY <1>3 DEF Reset, AtRest
<1>4. CASE UNCHANGED trainVars
  BY <1>1, <1>4 DEF trainVars, AtRest, locals, rng
<1> QED  BY <1>2, <1>3, <1>4 DEF TrainNext, Finish, Crash

\* Every turn makes one draw at most.
LEMMA OneDraw ==
    ASSUME RunInv, [TrainNext]_trainVars
    PROVE  /\ Try \/ SplitLabel \/ WriteFile => position' = position + 1
           /\ Begin \/ NextLabel \/ List \/ OpenFile \/ Fit => position' = position
<1>1. Try \/ SplitLabel \/ WriteFile => position' = position + 1
  BY DEF Try, SplitLabel, WriteFile, Draw
<1>2. Begin \/ NextLabel \/ List \/ OpenFile \/ Fit => position' = position
  BY DEF Begin, NextLabel, List, OpenFile, Fit, rng
<1> QED  BY <1>1, <1>2

\* No step makes more draws than its phase allows.
LEMMA BudgetStep == ASSUME RunInv, [TrainNext]_trainVars PROVE Budget'
<1> DEFINE n == Len(Labels)
           quota(m) == m * Turns
           full == quota(n)
<1>1. Kept /\ AtRest /\ Budget
  BY DEF RunInv
<1>2. /\ n \in Nat \ {0} /\ Turns \in Nat /\ label \in 1..n
      /\ attempts \in 0..Turns /\ position \in Int
  BY <1>1, Counts, LenProperties DEF Kept
<1>3. /\ quota(label) = quota(label - 1) + Turns /\ quota(label) \in Int
      /\ quota(label - 1) \in Int /\ quota(n) \in Int
  <2>1. label - 1 \in Int /\ (label - 1) + 1 = label /\ n \in Int /\ label \in Int
    BY <1>2
  <2> QED  BY <2>1, QuotaStep
<1>4. quota(1 - 1) = 0
  <2>1. \A b \in Int : 0 * b = 0
    OBVIOUS
  <2> QED  BY <1>2, <2>1
<1>5. /\ step = "generate" => position <= quota(label - 1) + attempts
      /\ step = "split" => position <= full + label - 1
      /\ step = "train" => position <= full + n
      /\ step = "val" => position <= full + n + 1
      /\ step = "test" => position <= full + n + 2
      /\ step \in {"fit", "done"} => position <= full + n + 3
  BY <1>1 DEF Budget
<1>6. SUFFICES
      /\ step' = "generate" => position' <= quota(label' - 1) + attempts'
      /\ step' = "split" => position' <= full + label' - 1
      /\ step' = "train" => position' <= full + n
      /\ step' = "val" => position' <= full + n + 1
      /\ step' = "test" => position' <= full + n + 2
      /\ step' \in {"fit", "done"} => position' <= full + n + 3
  BY DEF Budget
<1> HIDE DEF quota, n
<1>7. CASE Begin
  <2>1. step' = "generate" /\ label' = 1 /\ attempts' = 0 /\ position' = 0
    BY <1>1, <1>7 DEF Begin, AtRest, locals, rng
  <2> QED  BY <1>4, <2>1
<1>8. CASE Try
  <2>1. /\ step' = "generate" /\ step = "generate" /\ label' = label
        /\ attempts' = attempts + 1 /\ position' = position + 1
    BY <1>8, OneDraw DEF Try
  <2> QED  BY <1>2, <1>3, <1>5, <2>1
<1>9. CASE NextLabel
  <2>1. /\ step' = "generate" /\ step = "generate" /\ label' = label + 1
        /\ attempts' = 0 /\ position' = position
    BY <1>9, OneDraw DEF NextLabel
  <2>2. (label + 1) - 1 = label /\ position <= quota(label)
    BY <1>2, <1>3, <1>5, <2>1
  <2> QED  BY <1>2, <1>3, <2>1, <2>2
<1>10. CASE List
  <2>1. /\ step' = "split" /\ step = "generate" /\ label' = 1 /\ label = n
        /\ position' = position
    BY <1>10, OneDraw DEF List, n
  <2> QED  BY <1>2, <1>3, <1>5, <2>1
<1>11. CASE SplitLabel
  <2>1. /\ step = "split" /\ position' = position + 1
        /\ IF label < n THEN label' = label + 1 /\ step' = step
           ELSE label' = 1 /\ step' = "train"
    BY <1>11, OneDraw DEF SplitLabel, n
  <2> QED  BY <1>2, <1>3, <1>5, <2>1
<1>12. CASE OpenFile
  <2>1. /\ step \in Names /\ step' = step /\ position' = position /\ label' = label
        /\ attempts' = attempts
    BY <1>12, OneDraw DEF OpenFile, locals
  <2> QED  BY <1>5, <2>1 DEF Names
<1>13. CASE WriteFile
  <2>1. /\ position' = position + 1
        /\ \/ step = "train" /\ step' = "val"
           \/ step = "val" /\ step' = "test"
           \/ step = "test" /\ step' = "fit"
    BY <1>13, OneDraw DEF WriteFile, Names
  <2> QED  BY <1>2, <1>3, <1>5, <2>1
<1>14. CASE Fit
  <2>1. step = "fit" /\ step' = "done" /\ position' = position
    BY <1>14, OneDraw DEF Fit
  <2> QED  BY <1>5, <2>1
<1>15. CASE Reset
  BY <1>15 DEF Reset
<1>16. CASE UNCHANGED trainVars
  BY <1>5, <1>16 DEF trainVars, locals, rng
<1> QED  BY <1>7, <1>8, <1>9, <1>10, <1>11, <1>12, <1>13, <1>14, <1>15, <1>16
     DEF TrainNext, Finish, Crash

\* The list stays a list of the examples.
LEMMA ListedStep == ASSUME RunInv, [TrainNext]_trainVars PROVE Listed'
<1>1. Kept /\ Listed
  BY DEF RunInv
<1>2. CASE Begin \/ Try \/ NextLabel \/ Reset
  <2>1. step' \in {"idle", "generate"}
    BY <1>2 DEF Begin, Try, NextLabel, Reset
  <2> QED  BY <2>1 DEF Listed
<1>3. CASE List
  <2>1. IsList(rows', examples) /\ examples' = examples
    BY <1>1, <1>3, SortedIsList DEF List, Kept
  <2> QED  BY <2>1 DEF Listed, IsList
<1>4. CASE SplitLabel \/ OpenFile \/ WriteFile \/ Fit
  <2>1. step \notin {"idle", "generate"} /\ rows' = rows /\ examples' = examples
    BY <1>4 DEF SplitLabel, OpenFile, WriteFile, Fit, locals, Names
  <2> QED  BY <1>1, <2>1 DEF Listed, IsList
<1>5. CASE UNCHANGED trainVars
  <2>1. step' = step /\ rows' = rows /\ examples' = examples
    BY <1>5 DEF trainVars, locals
  <2> QED  BY <1>1, <2>1 DEF Listed, IsList
<1> QED  BY <1>2, <1>3, <1>4, <1>5 DEF TrainNext, Finish, Crash

\* Partitions of disjoint sets join, file by file.
LEMMA PartitionsJoin ==
    ASSUME NEW old, NEW part, NEW new, NEW A, NEW B, A \cap B = {},
           Partition(old, A), Partition(part, B),
           \A f \in Names : ToSet(new[f]) = ToSet(old[f]) \cup ToSet(part[f])
    PROVE  Partition(new, A \cup B)
<1>1. \A f \in Names : ToSet(old[f]) \subseteq A /\ ToSet(part[f]) \subseteq B
  BY DEF Partition
<1>2. UNION {ToSet(new[f]) : f \in Names} = A \cup B
  <2>1. ASSUME NEW x \in A \cup B PROVE \E f \in Names : x \in ToSet(new[f])
    BY DEF Partition
  <2> QED  BY <1>1, <2>1
<1>3. ASSUME NEW f \in Names, NEW g \in Names, f # g
      PROVE  ToSet(new[f]) \cap ToSet(new[g]) = {}
  <2>1. /\ ToSet(old[f]) \cap ToSet(old[g]) = {} /\ ToSet(part[f]) \cap ToSet(part[g]) = {}
    BY <1>3 DEF Partition
  <2> QED  BY <1>1, <2>1
<1> QED  BY <1>2, <1>3 DEF Partition

\* Labels are distinct, so the rows of one label are nobody else's.
LEMMA OneLabelMore ==
    ASSUME NEW m \in 1..Len(Labels)
    PROVE  /\ OfFirst(m) = OfFirst(m - 1) \cup {x \in examples : x[2] = Labels[m]}
           /\ OfFirst(m - 1) \cap {x \in examples : x[2] = Labels[m]} = {}
<1>1. 1..m = 1..(m - 1) \cup {m} /\ m \notin 1..(m - 1) /\ 1..m \subseteq 1..Len(Labels)
  BY Counts
<1>2. \A i, j \in 1..Len(Labels) : Labels[i] = Labels[j] => i = j
  BY Counts, TrainingAssumption DEF TrainingAssumption
<1>3. {Labels[i] : i \in 1..m} = {Labels[i] : i \in 1..(m - 1)} \cup {Labels[m]}
  BY <1>1
<1>4. Labels[m] \notin {Labels[i] : i \in 1..(m - 1)}
  BY <1>1, <1>2
<1> QED  BY <1>3, <1>4 DEF OfFirst

\* The rows of one label more are split.
LEMMA SplitGrows ==
    ASSUME RunInv, SplitLabel, NEW m, m = label
    PROVE  SplitUpTo(m)'
<1> DEFINE M == {x \in examples : x[2] = Labels[m]}
<1>1. /\ Kept /\ SplitUpTo(m - 1) /\ m \in 1..Len(Labels) /\ examples' = examples
      /\ Current = Labels[m]
  BY DEF RunInv, Kept, Parted, SplitLabel, Current
<1>2. PICK part :
           /\ \A f \in Names : ToSet(split'[f]) = ToSet(split[f]) \cup ToSet(part[f])
           /\ Partition(part, M)
           /\ Cardinality(M) >= 2 => ToSet(part["train"]) # {}
  BY <1>1, SplitAdds
<1>3. OfFirst(m) = OfFirst(m - 1) \cup M /\ OfFirst(m - 1) \cap M = {}
  BY <1>1, OneLabelMore
<1>4. Partition(split, OfFirst(m - 1))
  BY <1>1 DEF SplitUpTo
<1>5. Partition(split', OfFirst(m))
  <2> HIDE DEF M
  <2> QED  BY <1>2, <1>3, <1>4, PartitionsJoin
<1>6. ASSUME NEW i \in 1..m, Cardinality({x \in examples : x[2] = Labels[i]}) >= 2
      PROVE  \E x \in ToSet(split'["train"]) : x[2] = Labels[i]
  <2>0. ToSet(split'["train"]) = ToSet(split["train"]) \cup ToSet(part["train"])
    BY <1>2 DEF Names
  <2>1. CASE i = m
    <3>1. PICK x : x \in ToSet(part["train"])
      BY <1>2, <1>6, <2>1
    <3>2. x \in M
      BY <1>2, <3>1 DEF Partition, Names
    <3> QED  BY <2>0, <2>1, <3>1, <3>2
  <2>2. CASE i # m
    <3>1. i \in 1..(m - 1)
      BY <1>1, <2>2
    <3>2. \E x \in ToSet(split["train"]) : x[2] = Labels[i]
      BY <1>1, <1>6, <3>1 DEF SplitUpTo
    <3> QED  BY <2>0, <3>2
  <2> QED  BY <2>1, <2>2
<1>7. OfFirst(m)' = OfFirst(m)
  BY <1>1 DEF OfFirst
<1>8. Partition(split, OfFirst(m))'
  BY <1>5, <1>7 DEF Partition
<1> QED  BY <1>1, <1>6, <1>8 DEF SplitUpTo

\* Who changes neither the slices nor the examples changes no split.
LEMMA SplitStays ==
    ASSUME split' = split, examples' = examples, NEW m, SplitUpTo(m)
    PROVE  SplitUpTo(m)'
BY DEF SplitUpTo, Partition, OfFirst

\* Every step keeps what the slices are a partition of.
LEMMA PartedStep == ASSUME RunInv, [TrainNext]_trainVars PROVE Parted'
<1>1. Kept /\ AtRest /\ Parted
  BY DEF RunInv
<1>2. CASE Begin \/ Try \/ NextLabel
  <2>1. split = Fresh /\ split' = split /\ step' = "generate"
    BY <1>1, <1>2 DEF Begin, Try, NextLabel, Parted, locals
  <2> QED  BY <2>1 DEF Parted, Fresh, Names
<1>3. CASE List
  <2>1. split' = Fresh /\ step' = "split" /\ label' = 1
    BY <1>1, <1>3 DEF List, Parted
  <2>2. 1..0 = {} /\ 1 - 1 = 0
    OBVIOUS
  <2>3. ASSUME NEW f \in Names PROVE ToSet(split'[f]) = {}
    BY <2>1 DEF Fresh, ToSet
  <2>4. OfFirst(0)' = {}
    BY <2>2 DEF OfFirst
  <2>5. Partition(split, OfFirst(0))'
    BY <2>3, <2>4 DEF Partition
  <2>6. SplitUpTo(0)'
    BY <2>2, <2>5 DEF SplitUpTo
  <2> QED  BY <2>1, <2>2, <2>6 DEF Parted, Names
<1>4. CASE SplitLabel
  <2>1. PICK m : m = label
    OBVIOUS
  <2>2. SplitUpTo(m)'
    BY <1>4, <2>1, SplitGrows
  <2>3. m \in 1..Len(Labels) /\ Len(Labels) \in Nat
    BY <1>1, <2>1, Counts DEF Kept
  <2>4. CASE label < Len(Labels)
    <3>1. label' = m + 1 /\ step' = "split" /\ (m + 1) - 1 = m
      BY <1>4, <2>1, <2>3, <2>4 DEF SplitLabel
    <3> QED  BY <2>2, <3>1 DEF Parted, Names
  <2>5. CASE ~(label < Len(Labels))
    <3>1. step' = "train" /\ m = Len(Labels)
      BY <1>4, <2>1, <2>3, <2>5 DEF SplitLabel
    <3> QED  BY <2>2, <3>1 DEF Parted, Names
  <2> QED  BY <2>4, <2>5
<1>5. CASE OpenFile \/ WriteFile \/ Fit
  <2>1. /\ split' = split /\ examples' = examples
        /\ step \in Names \cup {"fit"} /\ step' \in Names \cup {"fit", "done"}
    BY <1>5 DEF OpenFile, WriteFile, Fit, locals, Names
  <2>2. SplitUpTo(Len(Labels))
    BY <1>1, <2>1 DEF Parted
  <2>3. SplitUpTo(Len(Labels))'
    BY <2>1, <2>2, SplitStays
  <2> QED  BY <2>1, <2>3 DEF Parted, Names
<1>6. CASE Reset
  BY <1>6 DEF Reset, Parted, Fresh, Names
<1>7. CASE UNCHANGED trainVars
  <2>1. split' = split /\ examples' = examples /\ step' = step /\ label' = label
    BY <1>7 DEF trainVars, locals
  <2>2. SplitUpTo(label - 1) => SplitUpTo(label - 1)'
    BY <2>1 DEF SplitUpTo, Partition, OfFirst
  <2>3. SplitUpTo(Len(Labels)) => SplitUpTo(Len(Labels))'
    BY <2>1, SplitStays
  <2> QED  BY <1>1, <2>1, <2>2, <2>3 DEF Parted, Fresh
<1> QED  BY <1>2, <1>3, <1>4, <1>5, <1>6, <1>7 DEF TrainNext, Finish, Crash

\* A file that is written has the rows of its slice.
LEMMA OnDiskStep == ASSUME RunInv, [TrainNext]_trainVars PROVE OnDisk'
<1>1. Kept /\ OnDisk
  BY DEF RunInv
<1>2. CASE Begin \/ Try \/ NextLabel \/ List \/ SplitLabel \/ Reset
  <2>1. step' \in {"idle", "generate", "split", "train"}
    BY <1>2 DEF Begin, Try, NextLabel, List, SplitLabel, Reset
  <2>2. \A f \in Names : ~Wrote(step', f)
    BY <2>1 DEF Wrote, Names
  <2> QED  BY <2>2 DEF OnDisk, Wrote
<1>3. CASE OpenFile
  <2>1. /\ step \in Names /\ step' = step /\ split' = split
        /\ files' = [files EXCEPT ![step] = Torn]
    BY <1>3 DEF OpenFile, locals
  <2>2. ASSUME NEW f \in Names, Wrote(step, f) PROVE files'[f] = files[f]
    BY <1>1, <2>1, <2>2 DEF Kept, Wrote, Names
  <2>3. \A f \in Names : Wrote(step, f) =>
           files'[f] \in Lists /\ ToSet(files'[f]) = ToSet(split'[f])
    BY <1>1, <2>1, <2>2 DEF OnDisk
  <2> QED  BY <2>1, <2>3 DEF OnDisk, Wrote
<1>4. CASE WriteFile
  <2>1. /\ step \in Names /\ split' = split
        /\ step' = CASE step = "train" -> "val" [] step = "val" -> "test"
                     [] OTHER -> "fit"
    BY <1>4 DEF WriteFile, locals
  <2>2. files'[step] \in Lists /\ ToSet(files'[step]) = ToSet(split[step])
    BY <1>4, WriteKept
  <2>3. ASSUME NEW f \in Names, f # step PROVE files'[f] = files[f]
    BY <1>1, <1>4, <2>3 DEF Kept, WriteFile
  <2>4. ASSUME NEW f \in Names, Wrote(step', f) PROVE f = step \/ Wrote(step, f)
    BY <2>1, <2>4 DEF Wrote, Names
  <2>5. ASSUME NEW f \in Names, Wrote(step', f)
        PROVE  files'[f] \in Lists /\ ToSet(files'[f]) = ToSet(split'[f])
    BY <1>1, <2>1, <2>2, <2>3, <2>4, <2>5 DEF OnDisk
  <2> QED  BY <2>5 DEF OnDisk, Wrote
<1>5. CASE Fit
  <2>1. step = "fit" /\ step' = "done" /\ split' = split /\ files' = files
    BY <1>5 DEF Fit, locals
  <2> QED  BY <1>1, <2>1 DEF OnDisk, Wrote, Names
<1>6. CASE UNCHANGED trainVars
  <2>1. step' = step /\ split' = split /\ files' = files
    BY <1>6 DEF trainVars, locals, disk
  <2> QED  BY <1>1, <2>1 DEF OnDisk, Wrote
<1> QED  BY <1>2, <1>3, <1>4, <1>5, <1>6 DEF TrainNext, Finish, Crash

\* In every reachable state the run is where its draws and its lists say.
THEOREM RunInvariant == TrainSpec => []RunInv
<1>1. TrainInit => RunInv
  BY FirstState
<1>2. RunInv /\ [TrainNext]_trainVars => RunInv'
  BY KeptStep, RestStep, BudgetStep, ListedStep, PartedStep, OnDiskStep DEF RunInv
<1> QED  BY <1>1, <1>2, PTL DEF TrainSpec

\* Every variable of the generator and the trainer keeps its kind, and the
\* artifact knows only labels.
THEOREM TrainTypeCorrect == TrainSpec => []TrainTypeOK
<1>1. RunInv => TrainTypeOK
  <2> SUFFICES ASSUME RunInv PROVE TrainTypeOK
    OBVIOUS
  <2>1. label \in DOMAIN Labels /\ attempts \in Nat
    BY Counts DEF RunInv, Kept
  <2> QED  BY <2>1 DEF RunInv, Kept, TrainTypeOK, Steps
<1> QED  BY <1>1, RunInvariant, PTL

\* However small its pools, a run makes a bounded number of draws.
THEOREM EveryRunIsBounded == TrainSpec => []WorkIsBounded
<1>1. RunInv => WorkIsBounded
  <2> SUFFICES ASSUME RunInv PROVE WorkIsBounded
    OBVIOUS
  <2> DEFINE n == Len(Labels)
             quota == n * Turns
             before == (label - 1) * Turns
  <2>1. Kept /\ AtRest /\ Budget /\ n \in Nat \ {0} /\ Turns \in Nat
    BY Counts DEF RunInv
  <2>2. position \in Nat /\ label \in 1..n /\ attempts \in 0..Turns
    BY <2>1, LenProperties DEF Kept
  <2>3. quota \in Nat /\ before + Turns <= quota
    <3>1. \A a, b, c \in Nat : a * c \in Nat /\ (a <= b => a * c <= b * c)
      OBVIOUS
    <3>2. before + Turns = label * Turns
      <4>1. label - 1 \in Int /\ (label - 1) + 1 = label
        BY <2>2
      <4> QED  BY <4>1, QuotaStep
    <3>3. label \in Nat /\ n \in Nat /\ label <= n
      BY <2>1, <2>2
    <3> QED  BY <2>1, <3>1, <3>2, <3>3, Zenon
  <2>4. n * (Turns + 1) + 3 = quota + n + 3
    <3>1. \A a, b \in Nat : a * (b + 1) + 3 = a * b + a + 3
      OBVIOUS
    <3> QED  BY <2>1, <3>1
  <2>5. before \in Int
    BY <2>2, QuotaStep
  <2>6. /\ step = "idle" => position = 0
        /\ step = "generate" => position <= before + attempts
        /\ step = "split" => position <= quota + label - 1
        /\ step = "train" => position <= quota + n
        /\ step = "val" => position <= quota + n + 1
        /\ step = "test" => position <= quota + n + 2
        /\ step \in {"fit", "done"} => position <= quota + n + 3
    BY <2>1 DEF AtRest, Budget
  <2>7. step \in Steps
    BY <2>1 DEF Kept
  <2> HIDE DEF n, quota, before
  <2>8. position <= quota + n + 3
    BY <2>1, <2>2, <2>3, <2>5, <2>6, <2>7 DEF Steps, Names
  <2> QED  BY <2>4, <2>8 DEF WorkIsBounded, Turns, n
<1> QED  BY <1>1, RunInvariant, PTL

\* What train_model reads is a partition of what was generated.
THEOREM SplitLosesNothing == TrainSpec => []SplitIsPartition
<1>1. RunInv => SplitIsPartition
  <2> SUFFICES ASSUME RunInv, step = "fit"
               PROVE  Partition(files, examples)
    BY DEF SplitIsPartition, Partition, Written
  <2>1. \A f \in Names : ToSet(files[f]) = ToSet(split[f])
    BY DEF RunInv, OnDisk, Wrote, Names
  <2>2. Partition(split, OfFirst(Len(Labels)))
    BY DEF RunInv, Parted, SplitUpTo
  <2>3. OfFirst(Len(Labels)) = examples
    <3>1. \A x \in examples : x[2] \in Domain
      BY DEF RunInv, Kept
    <3>2. Domain = {Labels[i] : i \in 1..Len(Labels)}
      BY Counts DEF Domain, ToSet
    <3> QED  BY <3>1, <3>2 DEF OfFirst
  <2> QED  BY <2>1, <2>2, <2>3 DEF Partition
<1> QED  BY <1>1, RunInvariant, PTL

\* A label with two examples reaches the artifact.
THEOREM EveryLabelIsTrained == TrainSpec => []LabelsReachTheModel
<1>1. RunInv => LabelsReachTheModel
  <2> SUFFICES ASSUME RunInv, step = "fit", NEW l \in Domain,
                      Cardinality({x \in examples : x[2] = l}) >= 2
               PROVE  \E x \in Written("train") : x[2] = l
    BY DEF LabelsReachTheModel
  <2>1. ToSet(files["train"]) = ToSet(split["train"])
    BY DEF RunInv, OnDisk, Wrote, Names
  <2>2. PICK i \in 1..Len(Labels) : l = Labels[i]
    BY Counts DEF Domain, ToSet
  <2>3. SplitUpTo(Len(Labels))
    BY DEF RunInv, Parted
  <2>4. \E x \in ToSet(split["train"]) : x[2] = l
    BY <2>2, <2>3 DEF SplitUpTo
  <2> QED  BY <2>1, <2>4 DEF Written
<1> QED  BY <1>1, RunInvariant, PTL
-----------------------------------------------------------------------------
(* A run, replayed on the tape *)

\* What a run has in memory, and the files that it has written.
Local(s, l, a, c, e, r, p, n, o) ==
    [step |-> s, label |-> l, attempts |-> a, count |-> c, examples |-> e, rows |-> r,
     split |-> p, position |-> n, out |-> o]

Opening == Local("generate", 1, 0, 0, {}, <<>>, Fresh, 0, [f \in Names |-> Absent])

Now(o) == Local(step, label, attempts, count, examples, rows, split, position, o)

Turned(L, t) ==
    LET x == <<t[L.position + 1] % PoolOf[Labels[L.label]], Labels[L.label]>>
    IN  Local(L.step, L.label, L.attempts + 1,
              IF x \in L.examples THEN L.count ELSE L.count + 1,
              L.examples \cup {x}, L.rows, L.split, L.position + 1, L.out)

Parts(L, t) ==
    LET mine == RowsOf(Labels[L.label], L.rows)
        part == Slice(Rotate(mine, t[L.position + 1] % Orders(mine)),
                      Share(Len(mine), TrainShare), Share(Len(mine), ValShare))
    IN  Local(IF L.label < Len(Labels) THEN L.step ELSE "train",
              IF L.label < Len(Labels) THEN L.label + 1 ELSE 1,
              L.attempts, L.count, L.examples, L.rows,
              [f \in Names |-> L.split[f] \o part[f]], L.position + 1, L.out)

Writes(L, t) ==
    LET s == L.split[L.step]
    IN  Local(CASE L.step = "train" -> "val" [] L.step = "val" -> "test" [] OTHER -> "fit",
              L.label, L.attempts, L.count, L.examples, L.rows, L.split, L.position + 1,
              [f \in Names |-> IF f = L.step
                               THEN Rotate(s, t[L.position + 1] % Orders(s))
                               ELSE L.out[f]])

GoesOn(L) == L.count < PerLabel /\ L.attempts < PerLabel * Tries

\* What a run does next, when nothing stops it.
After(L, t) ==
    IF L.step = "generate"
    THEN IF GoesOn(L) THEN Turned(L, t)
         ELSE IF L.label < Len(Labels)
         THEN Local(L.step, L.label + 1, 0, 0, L.examples, L.rows, L.split, L.position, L.out)
         ELSE Local("split", 1, L.attempts, L.count, L.examples, Sorted(L.examples),
                    L.split, L.position, L.out)
    ELSE IF L.step = "split" THEN Parts(L, t)
    ELSE IF L.step \in Names THEN Writes(L, t)
    ELSE L

IsReplay(t, g, n) ==
    /\ g[0] = Opening
    /\ \A i \in 0..n : g[i].position \in 0..Len(t)
    /\ \A i \in 0..n : i < n => g[i + 1] = After(g[i], t)

Reached(t, L) == \E n \in Nat : \E g : IsReplay(t, g, n) /\ g[n] = L

\* A run begins everywhere in the same way...
LEMMA ReachedFirst == ASSUME NEW t \in Seq(Nat) PROVE Reached(t, Opening)
<1>1. IsReplay(t, [i \in 0..0 |-> Opening], 0)
  BY LenProperties DEF IsReplay, Opening, Local
<1> QED  BY <1>1 DEF Reached

\* ... and goes on as the tape tells it.
LEMMA ReachedNext ==
    ASSUME NEW t, NEW L, Reached(t, L), After(L, t).position \in 0..Len(t)
    PROVE  Reached(t, After(L, t))
<1>n. PICK n \in Nat : \E g : IsReplay(t, g, n) /\ g[n] = L
  BY DEF Reached
<1>1. PICK g : IsReplay(t, g, n) /\ g[n] = L
  BY <1>n
<1> DEFINE M == After(L, t)
           h == [i \in 0..(n + 1) |-> IF i <= n THEN g[i] ELSE M]
<1>2. (\A i \in 0..n : h[i] = g[i]) /\ h[n + 1] = M
  OBVIOUS
<1>3. M.position \in 0..Len(t)
  OBVIOUS
<1> HIDE DEF h
<1>4. h[0] = Opening
  BY <1>1, <1>2 DEF IsReplay
<1>5. ASSUME NEW i \in 0..(n + 1) PROVE h[i].position \in 0..Len(t)
  <2> HIDE DEF M
  <2> QED  BY <1>1, <1>2, <1>3 DEF IsReplay
<1>6. ASSUME NEW i \in 0..(n + 1), i < n + 1 PROVE h[i + 1] = After(h[i], t)
  <2>1. i \in 0..n /\ h[i] = g[i]
    BY <1>2, <1>6
  <2>2. CASE i < n
    <3>1. i + 1 \in 0..n /\ h[i + 1] = g[i + 1]
      BY <1>2, <2>1, <2>2
    <3>2. g[i + 1] = After(g[i], t)
      BY <1>1, <2>1, <2>2 DEF IsReplay
    <3> QED  BY <2>1, <3>1, <3>2
  <2>3. CASE i = n
    BY <1>1, <1>2, <2>1, <2>3
  <2> QED  BY <2>1, <2>2, <2>3
<1>7. IsReplay(t, h, n + 1)
  BY <1>4, <1>5, <1>6 DEF IsReplay
<1>8. n + 1 \in Nat
  OBVIOUS
<1> QED  BY <1>2, <1>7, <1>8 DEF Reached

\* A run does not see what is on the tape beyond the draws that it makes.
LEMMA AfterSame ==
    ASSUME NEW t \in Seq(Nat), NEW d \in Nat, NEW L,
           L.position \in 0..Len(t), After(L, t).position \in 0..Len(t)
    PROVE  After(L, Append(t, d)) = After(L, t)
<1> DEFINE u == Append(t, d)
<1>1. Len(t) \in Nat /\ \A i \in 1..Len(t) : u[i] = t[i]
  BY AppendProperties, LenProperties
<1> HIDE DEF u
<1>2. CASE L.position < Len(t)
  <2>1. u[L.position + 1] = t[L.position + 1]
    BY <1>1, <1>2
  <2>2. /\ Turned(L, u) = Turned(L, t) /\ Parts(L, u) = Parts(L, t)
        /\ Writes(L, u) = Writes(L, t)
    BY <2>1 DEF Turned, Parts, Writes
  <2> QED  BY <2>2 DEF After, u
<1>3. CASE ~(L.position < Len(t))
  <2>1. L.position + 1 \notin 0..Len(t)
    BY <1>1, <1>3
  <2>2. /\ Turned(L, t).position = L.position + 1
        /\ Parts(L, t).position = L.position + 1
        /\ Writes(L, t).position = L.position + 1
    BY DEF Turned, Parts, Writes, Local
  <2>3. /\ ~(L.step = "generate" /\ GoesOn(L)) /\ L.step # "split" /\ L.step \notin Names
    BY <2>1, <2>2 DEF After, Names
  <2> QED  BY <2>3 DEF After
<1> QED  BY <1>2, <1>3

\* More draws take back nothing that was reached.
LEMMA ReachedStays ==
    ASSUME NEW t \in Seq(Nat), NEW d \in Nat, NEW L, Reached(t, L)
    PROVE  Reached(Append(t, d), L)
<1> DEFINE u == Append(t, d)
<1>n. PICK n \in Nat : \E g : IsReplay(t, g, n) /\ g[n] = L
  BY DEF Reached
<1>1. PICK g : IsReplay(t, g, n) /\ g[n] = L
  BY <1>n
<1>2. Len(t) \in Nat /\ Len(u) = Len(t) + 1
  BY AppendProperties, LenProperties
<1>3. \A i \in 0..n : g[i].position \in 0..Len(t)
  BY <1>1 DEF IsReplay
<1>4. ASSUME NEW i \in 0..n, i < n PROVE g[i + 1] = After(g[i], u)
  <2>1. i + 1 \in 0..n /\ g[i + 1] = After(g[i], t)
    BY <1>1, <1>4 DEF IsReplay
  <2>2. g[i].position \in 0..Len(t) /\ After(g[i], t).position \in 0..Len(t)
    BY <1>3, <2>1
  <2>3. After(g[i], Append(t, d)) = After(g[i], t)
    BY <2>2, AfterSame
  <2> QED  BY <2>1, <2>3
<1> HIDE DEF u
<1>5. \A i \in 0..n : g[i].position \in 0..Len(u)
  <2>1. \A k \in 0..Len(t) : k \in 0..Len(u)
    BY <1>2
  <2> QED  BY <1>3, <2>1
<1>6. IsReplay(u, g, n)
  BY <1>1, <1>4, <1>5 DEF IsReplay
<1> QED  BY <1>1, <1>6 DEF Reached, u

\* A run writes a file once.
LEMMA AfterKeeps ==
    ASSUME NEW t, NEW L, NEW f \in Names, Wrote(L.step, f)
    PROVE  Wrote(After(L, t).step, f) /\ After(L, t).out[f] = L.out[f]
<1>1. L.step \in {"val", "test", "fit", "done"} /\ f # L.step
  BY DEF Wrote, Names
<1>2. CASE L.step \in Names
  <2>1. After(L, t) = Writes(L, t)
    BY <1>1, <1>2 DEF After
  <2>2. Writes(L, t).out[f] = L.out[f]
    BY <1>1 DEF Writes, Local
  <2>3. Writes(L, t).step =
           CASE L.step = "train" -> "val" [] L.step = "val" -> "test" [] OTHER -> "fit"
    BY DEF Writes, Local
  <2>4. Wrote(Writes(L, t).step, f)
    BY <1>1, <1>2, <2>3 DEF Wrote, Names
  <2> QED  BY <2>1, <2>2, <2>4
<1>3. CASE L.step \notin Names
  BY <1>1, <1>3 DEF After
<1> QED  BY <1>2, <1>3

\* Two replays on one tape are one.
LEMMA ReplaysAgree ==
    ASSUME NEW t, NEW g, NEW h, NEW n \in Nat, NEW m \in Nat,
           IsReplay(t, g, n), IsReplay(t, h, m),
           NEW k \in Nat, k <= n, k <= m
    PROVE  g[k] = h[k]
<1> DEFINE S == {i \in Nat : i <= n /\ i <= m => g[i] = h[i]}
<1>1. 0 \in S
  BY DEF IsReplay
<1>2. ASSUME NEW i \in Nat, i \in S PROVE i + 1 \in S
  <2>1. ASSUME i + 1 <= n, i + 1 <= m PROVE g[i + 1] = h[i + 1]
    <3>1. i \in 0..n /\ i < n /\ i \in 0..m /\ i < m /\ g[i] = h[i]
      BY <1>2, <2>1
    <3>2. g[i + 1] = After(g[i], t) /\ h[i + 1] = After(h[i], t)
      BY <3>1 DEF IsReplay
    <3> QED  BY <3>1, <3>2
  <2> QED  BY <2>1
<1> HIDE DEF S
<1>3. k \in S
  BY <1>1, <1>2, NatInd
<1> QED  BY <1>3 DEF S

\* What a replay has written it does not write again.
LEMMA ReplayKeeps ==
    ASSUME NEW t, NEW g, NEW n \in Nat, IsReplay(t, g, n), NEW k \in 0..n,
           NEW f \in Names, Wrote(g[k].step, f)
    PROVE  g[n].out[f] = g[k].out[f]
<1> DEFINE Same(i) == Wrote(g[i].step, f) /\ g[i].out[f] = g[k].out[f]
           S == {i \in Nat : k + i <= n => Same(k + i)}
<1>1. 0 \in S
  <2>1. k + 0 = k
    OBVIOUS
  <2> QED  BY <2>1
<1>2. ASSUME NEW i \in Nat, i \in S PROVE i + 1 \in S
  <2>1. ASSUME k + (i + 1) <= n PROVE Same(k + (i + 1))
    <3>1. k + i \in 0..n /\ k + i < n /\ k + (i + 1) = (k + i) + 1 /\ k + i <= n
      BY <2>1
    <3>2. Same(k + i)
      BY <1>2, <3>1
    <3>3. g[k + i + 1] = After(g[k + i], t)
      BY <3>1 DEF IsReplay
    <3>4. Wrote(After(g[k + i], t).step, f) /\ After(g[k + i], t).out[f] = g[k + i].out[f]
      BY <3>2, AfterKeeps
    <3> QED  BY <3>1, <3>2, <3>3, <3>4
  <2> HIDE DEF Same
  <2> QED  BY <2>1
<1> HIDE DEF S
<1>3. n - k \in S
  <2>1. n - k \in Nat
    OBVIOUS
  <2> QED  BY <1>1, <1>2, <2>1, NatInd
<1>4. k + (n - k) = n
  OBVIOUS
<1>5. Same(n)
  <2> HIDE DEF Same
  <2> QED  BY <1>3, <1>4 DEF S
<1> QED  BY <1>5

\* One seed, one output.
LEMMA OneOutput ==
    ASSUME NEW t, NEW L, NEW M, Reached(t, L), Reached(t, M),
           NEW f \in Names, Wrote(L.step, f), Wrote(M.step, f)
    PROVE  L.out[f] = M.out[f]
<1>n. PICK n \in Nat : \E g : IsReplay(t, g, n) /\ g[n] = L
  BY DEF Reached
<1>1. PICK g : IsReplay(t, g, n) /\ g[n] = L
  BY <1>n
<1>m. PICK m \in Nat : \E h : IsReplay(t, h, m) /\ h[m] = M
  BY DEF Reached
<1>2. PICK h : IsReplay(t, h, m) /\ h[m] = M
  BY <1>m
<1>3. CASE n <= m
  <2>1. g[n] = h[n]
    BY <1>1, <1>2, <1>3, ReplaysAgree
  <2>2. h[m].out[f] = h[n].out[f]
    <3>1. n \in 0..m /\ Wrote(h[n].step, f)
      BY <1>1, <1>3, <2>1
    <3> QED  BY <1>2, <3>1, ReplayKeeps
  <2> QED  BY <1>1, <1>2, <2>1, <2>2
<1>4. CASE m <= n
  <2>1. g[m] = h[m]
    BY <1>1, <1>2, <1>4, ReplaysAgree
  <2>2. g[n].out[f] = g[m].out[f]
    <3>1. m \in 0..n /\ Wrote(g[m].step, f)
      BY <1>2, <1>4, <2>1
    <3> QED  BY <1>1, <3>1, ReplayKeeps
  <2> QED  BY <1>1, <1>2, <2>1, <2>2
<1> QED  BY <1>3, <1>4
-----------------------------------------------------------------------------
(* The files are those of a replay *)

\* What a run has done, some run on the tape does; a file that is whole was
\* written by one, and so was all that a full run has left.
OnTape == step \notin {"idle", "done"} =>
    \E o : Reached(tape, Now(o)) /\ \A f \in Names : Wrote(step, f) => files[f] = o[f]

WholeFiles == \A f \in Names : files[f] \notin {Absent, Torn} =>
    \E L : Reached(tape, L) /\ Wrote(L.step, f) /\ files[f] = L.out[f]

FullRuns ==
    /\ \A w \in outputs : \E L :
          Reached(tape, L) /\ L.step = "fit" /\ \A f \in Names : w[f] = L.out[f]
    /\ outputs # {} => \A f \in Names : files[f] # Absent

Replayed == OnTape /\ WholeFiles /\ FullRuns

\* A file that was never written, or is torn, is no list of rows.
LEMMA NotAList == Absent \notin Lists /\ Torn \notin Lists /\ Torn # Absent
<1>1. Absent = <<<<-1, -1>>>> /\ Torn = <<<<-2, -2>>>>
  BY DEF Absent, Torn
<1>2. ASSUME NEW s \in Lists, NEW i \in Int, s = <<<<i, i>>>> PROVE i \in Nat
  <2>1. s[1] \in Pairs
    BY <1>2, ElementOfSeq
  <2>2. s[1] = <<i, i>>
    BY <1>2
  <2> QED  BY <2>1, <2>2 DEF Pairs
<1>3. Absent \notin Lists
  BY <1>1, <1>2
<1>4. Torn \notin Lists
  BY <1>1, <1>2
<1>5. Torn # Absent
  <2>1. Torn[1][1] = -2 /\ Absent[1][1] = -1
    BY <1>1
  <2> QED  BY <2>1
<1> QED  BY <1>3, <1>4, <1>5

\* What is reached stays so in every step that draws.
LEMMA Carried ==
    ASSUME tape \in Seq(Nat), tape' = tape \/ \E d \in Nat : tape' = Append(tape, d),
           NEW L, Reached(tape, L)
    PROVE  Reached(tape', L)
BY ReachedStays

\* A step that leaves the files alone.
LEMMA FilesStay ==
    ASSUME Kept, WholeFiles, FullRuns, files' = files, outputs' = outputs,
           tape' = tape \/ \E d \in Nat : tape' = Append(tape, d)
    PROVE  WholeFiles' /\ FullRuns'
<1>1. \A L : Reached(tape, L) => Reached(tape', L)
  BY Carried DEF Kept
<1> HIDE DEF Reached
<1>2. WholeFiles'
  BY <1>1 DEF WholeFiles
<1>3. FullRuns'
  BY <1>1 DEF FullRuns
<1> QED  BY <1>2, <1>3

\* A step of a run that writes no file.
LEMMA RunGoesOn ==
    ASSUME Kept, OnTape, Kept', step \notin {"idle", "done"}, files' = files,
           \A f \in Names : Wrote(step', f) => Wrote(step, f),
           tape' = tape \/ \E d \in Nat : tape' = Append(tape, d),
           \A o : Now(o)' = After(Now(o), tape')
    PROVE  OnTape'
<1>1. PICK o : Reached(tape, Now(o)) /\ \A f \in Names : Wrote(step, f) => files[f] = o[f]
  BY DEF OnTape
<1>2. Reached(tape', Now(o))
  BY <1>1, Carried DEF Kept
<1>3. Now(o)' = After(Now(o), tape') /\ (Now(o)').position \in 0..Len(tape')
  BY DEF Now, Local, Kept
<1>4. Reached(tape', After(Now(o), tape'))
  BY <1>2, <1>3, ReachedNext
<1>5. Reached(tape, Now(o))'
  BY <1>3, <1>4
<1>6. \A f \in Names : Wrote(step', f) => files'[f] = o[f]
  BY <1>1
<1> QED  BY <1>5, <1>6 DEF OnTape

\* A turn of the while loop is the one that the tape tells.
LEMMA TryReplays ==
    ASSUME RunInv, Try, NEW o PROVE Now(o)' = After(Now(o), tape')
<1>1. PICK v \in Nat :
           /\ examples' = examples \cup {<<v, Current>>}
           /\ count' = IF <<v, Current>> \in examples THEN count ELSE count + 1
           /\ v = tape'[position + 1] % PoolOf[Current]
           /\ position' = position + 1
  BY TryDraws
<1>2. /\ step = "generate" /\ step' = step /\ label' = label /\ attempts' = attempts + 1
      /\ rows' = rows /\ split' = split /\ count < PerLabel /\ attempts < PerLabel * Tries
  BY DEF Try, More
<1>3. After(Now(o), tape') = Turned(Now(o), tape')
  BY <1>2 DEF After, GoesOn, Now, Local
<1>4. Turned(Now(o), tape') = Now(o)'
  BY <1>1, <1>2 DEF Turned, Now, Local, Current
<1> QED  BY <1>3, <1>4

\* The rows of a label are split as the tape tells.
LEMMA SplitReplays ==
    ASSUME RunInv, SplitLabel, NEW o PROVE Now(o)' = After(Now(o), tape')
<1> DEFINE mine == RowsOf(Current, rows)
<1>1. Kept /\ IsList(rows, examples)
  BY DEF RunInv, Listed, SplitLabel
<1>2. Orders(mine) \in Nat \ {0}
  BY <1>1, RowsOfIsList, OrdersPositive DEF Kept
<1>3. PICK v \in 0..(Orders(mine) - 1) :
        /\ Draw(v, Orders(mine))
        /\ split' = [f \in Names |-> split[f] \o
              Slice(Rotate(mine, v), Share(Len(mine), TrainShare),
                    Share(Len(mine), ValShare))[f]]
  BY DEF SplitLabel
<1>4. v = tape'[position + 1] % Orders(mine) /\ position' = position + 1
  BY <1>1, <1>2, <1>3, Drawn DEF Kept
<1>5. /\ step = "split" /\ attempts' = attempts /\ count' = count
      /\ examples' = examples /\ rows' = rows
      /\ label' = IF label < Len(Labels) THEN label + 1 ELSE 1
      /\ step' = IF label < Len(Labels) THEN step ELSE "train"
  BY DEF SplitLabel
<1>6. After(Now(o), tape') = Parts(Now(o), tape')
  BY <1>5 DEF After, Now, Local
<1>7. Parts(Now(o), tape') = Now(o)'
  BY <1>3, <1>4, <1>5 DEF Parts, Now, Local, Current
<1> QED  BY <1>6, <1>7


\* write_csv, by the number that the shuffle before it draws.
LEMMA WriteDraws ==
    ASSUME RunInv, WriteFile
    PROVE  /\ tape' = tape \/ \E d \in Nat : tape' = Append(tape, d)
           /\ position' = position + 1
           /\ files' = [files EXCEPT ![step] =
                 Rotate(split[step], tape'[position + 1] % Orders(split[step]))]
<1>1. Kept /\ step \in Names
  BY DEF RunInv, WriteFile
<1>2. Orders(split[step]) \in Nat \ {0}
  BY <1>1, OrdersPositive DEF Kept
<1>3. PICK v \in 0..(Orders(split[step]) - 1) :
        /\ Draw(v, Orders(split[step]))
        /\ files' = [files EXCEPT ![step] = Rotate(split[step], v)]
  BY DEF WriteFile
<1>4. /\ v = tape'[position + 1] % Orders(split[step]) /\ position' = position + 1
      /\ tape' = tape \/ \E d \in Nat : tape' = Append(tape, d)
  BY <1>1, <1>2, <1>3, Drawn DEF Kept
<1> QED  BY <1>3, <1>4

\* A file that is written is the one that the tape determines.
LEMMA WriteReplays ==
    ASSUME RunInv, Kept', OnTape, WriteFile
    PROVE  \E o : /\ Reached(tape, Now(o))'
                  /\ \A f \in Names : Wrote(step', f) => files'[f] = o[f]
<1>1. Kept /\ step \in Names
  BY DEF RunInv, WriteFile
<1>2. PICK q : Reached(tape, Now(q)) /\ \A f \in Names : Wrote(step, f) => files[f] = q[f]
  BY <1>1 DEF OnTape, Names
<1> DEFINE turned == Rotate(split[step], tape'[position + 1] % Orders(split[step]))
<1>3. PICK o : o = [f \in Names |-> IF f = step THEN turned ELSE q[f]]
  OBVIOUS
<1>4. /\ tape' = tape \/ \E d \in Nat : tape' = Append(tape, d)
      /\ position' = position + 1 /\ files' = [files EXCEPT ![step] = turned]
  BY WriteDraws
<1> HIDE DEF turned
<1>5. /\ label' = label /\ attempts' = attempts /\ count' = count
      /\ examples' = examples /\ rows' = rows /\ split' = split
      /\ step' = CASE step = "train" -> "val" [] step = "val" -> "test" [] OTHER -> "fit"
  BY DEF WriteFile, locals
<1>6. After(Now(q), tape') = Now(o)'
  <2>1. After(Now(q), tape') = Writes(Now(q), tape')
    BY <1>1 DEF After, Now, Local, Names
  <2>2. Writes(Now(q), tape') = Now(o)'
    BY <1>3, <1>4, <1>5 DEF Writes, Now, Local, turned
  <2> QED  BY <2>1, <2>2
<1>7. Reached(tape', Now(q))
  BY <1>1, <1>2, <1>4, Carried DEF Kept
<1>8. (Now(o)').position \in 0..Len(tape')
  BY DEF Now, Local, Kept
<1>9. Reached(tape, Now(o))'
  <2>1. Reached(tape', After(Now(q), tape'))
    BY <1>6, <1>7, <1>8, ReachedNext
  <2> QED  BY <1>6, <2>1
<1>10. ASSUME NEW f \in Names, Wrote(step', f) PROVE files'[f] = o[f]
  <2>1. f = step \/ (f # step /\ Wrote(step, f))
    BY <1>1, <1>5, <1>10 DEF Wrote, Names
  <2>2. files'[f] = IF f = step THEN turned ELSE files[f]
    BY <1>1, <1>4 DEF Kept
  <2> QED  BY <1>2, <1>3, <2>1, <2>2
<1> QED  BY <1>9, <1>10

\* Every step keeps what the disk owes to the tape.
LEMMA ReplayStep ==
    ASSUME RunInv, RunInv', Replayed, [TrainNext]_trainVars
    PROVE  Replayed'
<1>1. Kept /\ Kept' /\ AtRest /\ OnTape /\ WholeFiles /\ FullRuns
  BY DEF RunInv, Replayed
<1>2. CASE Begin
  <2>1. PICK o : o = [f \in Names |-> Absent]
    OBVIOUS
  <2>2. Now(o)' = Opening
    BY <1>1, <1>2, <2>1 DEF Begin, Now, Opening, Local, AtRest, locals, rng, RunInv, Parted
  <2>3. Reached(tape, Now(o))'
    BY <1>1, <2>2, ReachedFirst DEF Kept
  <2>4. \A f \in Names : ~Wrote(step', f)
    BY <1>2 DEF Begin, Wrote, Names
  <2>5. OnTape'
    BY <2>3, <2>4 DEF OnTape
  <2>6. files' = files /\ outputs' = outputs /\ tape' = tape
    BY <1>2 DEF Begin, disk, rng
  <2> QED  BY <1>1, <2>5, <2>6, FilesStay DEF Replayed
<1>3. CASE Try
  <2>1. /\ files' = files /\ outputs' = outputs /\ step = "generate" /\ step' = step
        /\ tape' = tape \/ \E d \in Nat : tape' = Append(tape, d)
    BY <1>3, TryDraws DEF Try, disk
  <2>2. \A o : Now(o)' = After(Now(o), tape')
    BY <1>3, TryReplays
  <2>3. OnTape'
    BY <1>1, <2>1, <2>2, RunGoesOn
  <2> QED  BY <1>1, <2>1, <2>3, FilesStay DEF Replayed
<1>4. CASE NextLabel
  <2>1. /\ files' = files /\ outputs' = outputs /\ step = "generate" /\ step' = step
        /\ tape' = tape
    BY <1>4 DEF NextLabel, disk, rng
  <2>2. \A o : Now(o)' = After(Now(o), tape')
    BY <1>4 DEF NextLabel, More, After, GoesOn, Now, Local, rng
  <2>3. OnTape'
    BY <1>1, <2>1, <2>2, RunGoesOn
  <2> QED  BY <1>1, <2>1, <2>3, FilesStay DEF Replayed
<1>5. CASE List
  <2>1. /\ files' = files /\ outputs' = outputs /\ step = "generate" /\ step' = "split"
        /\ tape' = tape /\ \A f \in Names : ~Wrote(step', f)
    BY <1>5 DEF List, disk, rng, Wrote, Names
  <2>2. \A o : Now(o)' = After(Now(o), tape')
    <3>1. label = Len(Labels) /\ ~(label < Len(Labels))
      BY <1>5, Counts DEF List
    <3> QED  BY <1>5, <3>1 DEF List, More, After, GoesOn, Now, Local, rng
  <2>3. OnTape'
    BY <1>1, <2>1, <2>2, RunGoesOn
  <2> QED  BY <1>1, <2>1, <2>3, FilesStay DEF Replayed
<1>6. CASE SplitLabel
  <2>1. /\ files' = files /\ outputs' = outputs /\ step = "split" /\ step' \in {"split", "train"}
    BY <1>6 DEF SplitLabel, disk
  <2>2. \A f \in Names : ~Wrote(step', f)
    BY <2>1 DEF Wrote, Names
  <2>3. tape' = tape \/ \E d \in Nat : tape' = Append(tape, d)
    <3>1. Orders(RowsOf(Current, rows)) \in Nat \ {0} /\ IsList(rows, examples)
      BY <1>1, <1>6, RowsOfIsList, OrdersPositive DEF Kept, RunInv, Listed, SplitLabel
    <3>2. PICK v \in 0..(Orders(RowsOf(Current, rows)) - 1) :
             Draw(v, Orders(RowsOf(Current, rows)))
      BY <1>6 DEF SplitLabel
    <3> QED  BY <1>1, <3>1, <3>2, Drawn DEF Kept
  <2>4. \A o : Now(o)' = After(Now(o), tape')
    BY <1>6, SplitReplays
  <2>5. OnTape'
    BY <1>1, <2>1, <2>2, <2>3, <2>4, RunGoesOn
  <2> QED  BY <1>1, <2>1, <2>3, <2>5, FilesStay DEF Replayed
<1>7. CASE OpenFile
  <2>1. /\ step \in Names /\ step' = step /\ tape' = tape /\ outputs' = outputs
        /\ \A o : Now(o)' = Now(o)
        /\ files' = [files EXCEPT ![step] = Torn]
    BY <1>7 DEF OpenFile, Now, Local, locals, rng
  <2>2. \A f \in Names : files'[f] = IF f = step THEN Torn ELSE files[f]
    BY <1>1, <2>1 DEF Kept
  <2>3. \A f \in Names : Wrote(step, f) => f # step
    BY <2>1 DEF Wrote, Names
  <2>4. OnTape'
    <3>1. PICK o : Reached(tape, Now(o))
                   /\ \A f \in Names : Wrote(step, f) => files[f] = o[f]
      BY <1>1, <2>1 DEF OnTape, Names
    <3>2. Reached(tape, Now(o))'
      BY <2>1, <3>1
    <3>3. \A f \in Names : Wrote(step', f) => files'[f] = o[f]
      BY <2>1, <2>2, <2>3, <3>1
    <3> QED  BY <3>2, <3>3 DEF OnTape
  <2> HIDE DEF Reached
  <2>5. WholeFiles'
    BY <1>1, <2>1, <2>2 DEF WholeFiles
  <2>6. FullRuns'
    BY <1>1, <2>1, <2>2, NotAList DEF FullRuns
  <2> QED  BY <2>4, <2>5, <2>6 DEF Replayed
<1>8. CASE WriteFile
  <2>1. PICK o : /\ Reached(tape, Now(o))'
                 /\ \A f \in Names : Wrote(step', f) => files'[f] = o[f]
    BY <1>1, <1>8, WriteReplays
  <2>2. OnTape'
    BY <2>1 DEF OnTape
  <2>3. PICK L : L = Now(o)'
    OBVIOUS
  <2>4. Reached(tape', L) /\ L.step = step' /\ L.out = o
    BY <2>1, <2>3 DEF Now, Local
  <2>5. /\ step \in Names /\ files'[step] \in Lists
        /\ outputs' = IF step = "test" THEN outputs \cup {files'} ELSE outputs
        /\ step' = CASE step = "train" -> "val" [] step = "val" -> "test" [] OTHER -> "fit"
    BY <1>8, WriteKept DEF WriteFile
  <2>6. \A M : Reached(tape, M) => Reached(tape', M)
    BY <1>1, <1>8, WriteDraws, Carried DEF Kept
  <2>7. \A f \in Names : f # step => files'[f] = files[f]
    BY <1>1, <1>8, WriteDraws DEF Kept
  <2>8. Wrote(step', step)
    BY <2>5 DEF Wrote, Names
  <2> HIDE DEF Reached
  <2>9. WholeFiles'
    <3> SUFFICES ASSUME NEW f \in Names, files'[f] \notin {Absent, Torn}
                 PROVE  \E M : Reached(tape', M) /\ Wrote(M.step, f) /\ files'[f] = M.out[f]
      BY DEF WholeFiles
    <3>1. CASE f = step
      BY <2>1, <2>4, <2>8, <3>1
    <3>2. CASE f # step
      BY <1>1, <2>6, <2>7, <3>2 DEF WholeFiles
    <3> QED  BY <3>1, <3>2
  <2>10. ASSUME NEW w \in outputs'
         PROVE  \E M : Reached(tape', M) /\ M.step = "fit" /\ \A f \in Names : w[f] = M.out[f]
    <3>1. CASE w \in outputs
      BY <1>1, <2>6, <3>1 DEF FullRuns
    <3>2. CASE w \notin outputs
      <4>1. step = "test" /\ w = files'
        BY <2>5, <3>2
      <4>2. step' = "fit" /\ \A f \in Names : Wrote(step', f)
        BY <2>5, <4>1 DEF Wrote, Names
      <4> QED  BY <2>1, <2>4, <4>1, <4>2
    <3> QED  BY <3>1, <3>2
  <2>11. ASSUME outputs' # {}, NEW f \in Names PROVE files'[f] # Absent
    <3>1. CASE f = step
      BY <2>5, <3>1, NotAList
    <3>2. CASE f # step /\ outputs # {}
      BY <1>1, <2>7, <3>2 DEF FullRuns
    <3>3. CASE f # step /\ outputs = {}
      <4>1. step = "test" /\ Wrote(step, f)
        BY <2>5, <2>11, <3>3 DEF Wrote, Names
      <4>2. files[f] \in Lists
        BY <4>1 DEF RunInv, OnDisk
      <4> QED  BY <2>7, <3>3, <4>2, NotAList
    <3> QED  BY <3>1, <3>2, <3>3
  <2>12. FullRuns'
    BY <2>10, <2>11 DEF FullRuns
  <2> QED  BY <2>2, <2>9, <2>12 DEF Replayed
<1>9. CASE Fit
  <2>1. /\ step = "fit" /\ step' = "done" /\ files' = files /\ outputs' = outputs /\ tape' = tape
    BY <1>9 DEF Fit, rng
  <2>2. OnTape'
    BY <2>1 DEF OnTape
  <2> QED  BY <1>1, <2>1, <2>2, FilesStay DEF Replayed
<1>10. CASE Reset
  <2>1. step' = "idle" /\ files' = files /\ outputs' = outputs /\ tape' = tape
    BY <1>10 DEF Reset, disk
  <2>2. OnTape'
    BY <2>1 DEF OnTape
  <2> QED  BY <1>1, <2>1, <2>2, FilesStay DEF Replayed
<1>11. CASE UNCHANGED trainVars
  <2>1. /\ step' = step /\ files' = files /\ outputs' = outputs /\ tape' = tape
        /\ \A o : Now(o)' = Now(o)
    BY <1>11 DEF trainVars, disk, rng, locals, Now, Local
  <2>2. OnTape'
    BY <1>1, <2>1 DEF OnTape
  <2> QED  BY <1>1, <2>1, <2>2, FilesStay DEF Replayed
<1> QED  BY <1>2, <1>3, <1>4, <1>5, <1>6, <1>7, <1>8, <1>9, <1>10, <1>11
     DEF TrainNext, Finish, Crash

\* Whatever is whole on disk, a run on the tape writes.
THEOREM RunsAreReplayed == TrainSpec => []Replayed
<1>1. TrainInit => Replayed
  BY DEF TrainInit, Replayed, OnTape, WholeFiles, FullRuns
<1>2. RunInv /\ RunInv' /\ Replayed /\ [TrainNext]_trainVars => Replayed'
  BY ReplayStep
<1> QED  BY <1>1, <1>2, RunInvariant, PTL DEF TrainSpec

\* Re-running on the same seed reproduces every file, whatever died in between.
THEOREM SeedFixesFiles == TrainSpec => []FilesNeverChange
<1>1. Replayed => FilesNeverChange
  <2> SUFFICES ASSUME Replayed, NEW w \in outputs, NEW f \in Names, files[f] # Torn
               PROVE  files[f] = w[f]
    BY DEF FilesNeverChange
  <2>1. files[f] # Absent
    BY DEF Replayed, FullRuns
  <2>2. PICK L : Reached(tape, L) /\ Wrote(L.step, f) /\ files[f] = L.out[f]
    BY <2>1 DEF Replayed, WholeFiles
  <2>3. PICK M : Reached(tape, M) /\ M.step = "fit" /\ w[f] = M.out[f]
    BY DEF Replayed, FullRuns
  <2>4. Wrote(M.step, f)
    BY <2>3 DEF Wrote, Names
  <2> QED  BY <2>2, <2>3, <2>4, OneOutput
<1> QED  BY <1>1, RunsAreReplayed, PTL
=============================================================================
