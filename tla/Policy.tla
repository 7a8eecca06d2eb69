------------------------------- MODULE Policy -------------------------------
(***************************************************************************)
(* The triage policy (domain/policy.py): the urgency scan of a text and    *)
(* the decision taken on it, as operators.                                 *)
(*                                                                         *)
(* A text is a sequence of characters that the scan tells apart only by    *)
(* their class: letters, some of which are composed of another letter and  *)
(* a mark (a ya and a hamza; an alef and any of three marks); letters in a *)
(* presentation form, which NFKC folds to the letter; combining marks,     *)
(* each with its canonical combining class; tatweel, and what else         *)
(* _DIACRITICS removes that is no combining mark; Arabic punctuation       *)
(* (inside the block U+0600-U+06FF, which _NON_WORD keeps); and            *)
(* separators, everything that _NON_WORD replaces by a space.              *)
(* Confidences and floors are integers, as on a scale of hundredths.       *)
(***************************************************************************)
EXTENDS Integers, Sequences, FiniteSets

CONSTANTS
    Letters,
    Compat,             \* a presentation form -> the letter it folds to
    Marks,              \* combining marks, all of them in _DIACRITICS
    Class,              \* mark -> its canonical combining class
    Composition,        \* <<letter, mark>> -> the letter composed of them
    Tatweel,            \* tatweel, alone or with a mark; the stripped signs
                        \* of class 0
    ArabicPunctuation,
    Separators, Blank,  \* spaces, and the punctuation that is neither in the
                        \* Arabic block nor in \w, as the underscore is
    UrgencyTerms,       \* words: sequences of letters
    Intents, Departments, SafetyDepartment,
    DepartmentByIntent,
    MaxConfidence       \* 1.0 on the integer scale

\* A composed letter is composed in one way only, and of a letter that is
\* not composed itself; so it takes in no further mark.
ASSUME PolicyAssumption ==
    /\ UrgencyTerms \subseteq Seq(Letters) \ {<<>>}
    /\ Compat \in [DOMAIN Compat -> Letters]
    /\ Class \in [Marks -> Nat \ {0}]
    /\ DOMAIN Composition \subseteq Letters \X Marks
    /\ Composition \in [DOMAIN Composition -> Letters]
    /\ \A p, q \in DOMAIN Composition :
          /\ Composition[p] = Composition[q] => p = q
          /\ Composition[p] # q[1]
    /\ Blank \in Separators
    /\ SafetyDepartment \in Departments
    /\ DepartmentByIntent \in [Intents -> Departments \ {SafetyDepartment}]
    /\ MaxConfidence \in Nat

\* The classes of characters have no character in common.
ASSUME ClassesAssumption ==
    /\ Letters \cap DOMAIN Compat = {}
    /\ (Letters \cup DOMAIN Compat) \cap (Marks \cup Tatweel \cup Separators) = {}
    /\ Marks \cap (Tatweel \cup Separators) = {}
    /\ Tatweel \cap Separators = {}
    /\ ArabicPunctuation
          \cap (Letters \cup DOMAIN Compat \cup Marks \cup Tatweel \cup Separators) = {}

Chars ==
    Letters \cup DOMAIN Compat \cup Marks \cup Tatweel
        \cup ArabicPunctuation \cup Separators
-----------------------------------------------------------------------------
(* The urgency scan *)

\* unicodedata.normalize("NFKC", ...) folds every presentation form and
\* decomposes every letter, puts the marks on each letter in the order of
\* their classes, and composes again.  (The marks that are left over stay
\* behind in the model; Stripped removes them.)
Fold(c) == IF c \in DOMAIN Compat THEN Compat[c] ELSE c

\* The letter a composed letter is made of, and its mark.
Decomposed(c) ==
    LET pairs == {p \in DOMAIN Composition : Composition[p] = Fold(c)}
    IN  IF pairs = {} THEN [base |-> Fold(c), marks |-> {}]
        ELSE LET q == CHOOSE p \in pairs : TRUE IN [base |-> q[1], marks |-> {q[2]}]

\* The marks of others that no mark of these keeps from the letter: a mark
\* is blocked by an earlier one of its own class.
Unblocked(these, others) ==
    {m \in others : \A n \in these : Class[m] # Class[n]}

\* The marks after place i that reach the letter there.
MarksOn(text, i) ==
    {text[j] : j \in {k \in DOMAIN text :
        /\ k > i /\ \A m \in (i + 1)..k : text[m] \in Marks
        /\ \A m \in (i + 1)..(k - 1) : Class[text[m]] # Class[text[k]]}}

\* Of the marks that reach a letter, its own included, the first in
\* canonical order that composes with it does.
Compose(c, marks) ==
    LET letter == Decomposed(c)
        reaching == letter.marks \cup Unblocked(letter.marks, marks)
        pairs == {p \in DOMAIN Composition : p[1] = letter.base /\ p[2] \in reaching}
    IN  IF pairs = {} THEN letter.base
        ELSE Composition[CHOOSE p \in pairs :
                            \A q \in pairs : Class[p[2]] <= Class[q[2]]]

Composed(text) == [i \in DOMAIN text |-> Compose(text[i], MarksOn(text, i))]

\* _DIACRITICS.sub("", ...), from left to right.
Stripped(text) ==
    LET kept[n \in {0} \cup DOMAIN text] ==
          IF n = 0 THEN <<>>
          ELSE LET c == text[n] IN
               IF c \in Marks \cup Tatweel THEN kept[n - 1]
               ELSE Append(kept[n - 1], c)
    IN  kept[Len(text)]

\* Mutant: diacritics are stripped before the text is composed.
NormaliseStripFirst(text) == Composed(Stripped(text))

\* normalise, up to the replacement of separators by single spaces, which
\* Words takes for granted.
Normalise(text) == Stripped(Composed(text))

\* Mutant: split() at spaces of a text whose punctuation was left in place.
IsSeparatorBlank(c) == c = Blank

\* What str.split() splits the normalised text at.
IsSeparator(c) == c \in Separators

\* The maximal runs of characters that separate no words.
Words(text) ==
    {SubSeq(text, ij[1], ij[2]) :
        ij \in {ab \in (DOMAIN text) \X (DOMAIN text) :
                  /\ ab[1] <= ab[2]
                  /\ \A k \in ab[1]..ab[2] : ~IsSeparator(text[k])
                  /\ ab[1] > 1 => IsSeparator(text[ab[1] - 1])
                  /\ ab[2] < Len(text) => IsSeparator(text[ab[2] + 1])}}

\* detect_urgency: the text is normalised once, and then split.
Signals(text) ==
    {term \in UrgencyTerms :
        \E normalised \in {Normalise(text)} : term \in Words(normalised)}
-----------------------------------------------------------------------------
(* The decision *)

Floors ==
    [auto_route_floor : 0..MaxConfidence, reject_floor : 0..MaxConfidence]

\* Mutant: no validator.
ThresholdsUnvalidated == Floors

\* PolicyThresholds: a pair that its validator lets through.
Thresholds == {t \in Floors : t.reject_floor <= t.auto_route_floor}

\* Mutant: the comparison with reject_floor is the wrong way round.
ActionInverted(confidence, t) ==
    IF confidence >= t.auto_route_floor THEN "auto_route"
    ELSE IF confidence <= t.reject_floor THEN "human_review"
    ELSE "reject"

Action(confidence, t) ==
    IF confidence >= t.auto_route_floor THEN "auto_route"
    ELSE IF confidence >= t.reject_floor THEN "human_review"
    ELSE "reject"

Escalation ==
    [action |-> "auto_route", department |-> SafetyDepartment, priority |-> "urgent"]

Routing(intent, confidence, t) ==
    [action |-> Action(confidence, t),
     department |-> DepartmentByIntent[intent],
     priority |-> "normal"]

\* Mutant: a message the model has no idea about is rejected first.
DecideRejectFirst(signals, intent, confidence, t) ==
    IF Action(confidence, t) # "reject" /\ signals # {}
    THEN Escalation
    ELSE Routing(intent, confidence, t)

\* decide.
Decide(signals, intent, confidence, t) ==
    IF signals # {} THEN Escalation ELSE Routing(intent, confidence, t)
=============================================================================
