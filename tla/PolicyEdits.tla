---------------------------- MODULE PolicyEdits ----------------------------
(***************************************************************************)
(* A message that is edited over and over, as the behavioural tests edit   *)
(* theirs once (tests/behavioural/test_invariance.py, test_directional.py),*)
(* and the decision the policy takes on each version of it.  The model     *)
(* reads the raw text, so any edit of it may change the intent and the     *)
(* confidence in any way.                                                  *)
(***************************************************************************)
EXTENDS Policy

CONSTANTS MaxLength       \* bound on the length of the text

ASSUME EditsAssumption == MaxLength \in Nat

VARIABLES text, intent, confidence, thresholds

vars == <<text, intent, confidence, thresholds>>

signals == Signals(text)
decision == Decide(signals, intent, confidence, thresholds)

InsertAt(s, i, piece) == SubSeq(s, 1, i) \o piece \o SubSeq(s, i + 1, Len(s))

\* The model's opinion of the edited text.
Reclassify ==
    /\ intent' \in Intents
    /\ confidence' \in 0..MaxConfidence
    /\ UNCHANGED thresholds

Edit(i, piece) ==
    /\ Len(text) + Len(piece) <= MaxLength
    /\ text' = InsertAt(text, i, piece)
    /\ Reclassify

\* A place between two words, before the first or after the last.
Boundary(i) ==
    {i, i + 1} \subseteq DOMAIN text =>
        text[i] \in Separators \/ text[i + 1] \in Separators

Write(c) == Edit(Len(text), <<c>>)

\* The marks some letter composes with.
Composing == {p[2] : p \in DOMAIN Composition}

\* A diacritic anywhere.
Diacritic(i) == \E c \in Marks \ Composing : Edit(i, <<c>>)

\* A place that is not between a letter and a mark on it.
AfterMarks(i) == i < Len(text) => text[i + 1] \notin Marks

\* Decoration that changes no letter: what stands after the marks, and a
\* diacritic anywhere if it is of another class than the marks that compose.
Decorate ==
    \E i \in 0..Len(text) :
        \/ \E c \in Marks \ Composing :
              Class[c] \notin {Class[m] : m \in Composing} /\ Edit(i, <<c>>)
        \/ AfterMarks(i) /\ \E c \in (Marks \ Composing) \cup Tatweel : Edit(i, <<c>>)

\* The same letter in its presentation form, or decomposed.
Recompose ==
    \E i \in DOMAIN text :
        \/ /\ \E c \in DOMAIN Compat :
                 text[i] = Compat[c] /\ text' = [text EXCEPT ![i] = c]
           /\ Reclassify
        \/ \E p \in DOMAIN Composition :
              /\ text[i] = Composition[p]
              /\ Len(text) < MaxLength
              /\ text' = SubSeq(text, 1, i - 1) \o p \o SubSeq(text, i + 1, Len(text))
              /\ Reclassify

Punctuate(marks) ==
    \E i \in 0..Len(text) : \E c \in marks : Boundary(i) /\ Edit(i, <<c>>)

\* An urgency term as a word of its own.
AddTerm ==
    \E c \in Separators : \E term \in UrgencyTerms :
        Edit(Len(text), <<c>> \o term)

\* The model grows more confident of the same text.
GrowConfident ==
    /\ confidence' \in confidence..MaxConfidence
    /\ UNCHANGED <<text, intent, thresholds>>

Init ==
    /\ text = <<>>
    /\ intent \in Intents
    /\ confidence \in 0..MaxConfidence
    /\ thresholds \in Thresholds

Next ==
    \/ \E c \in Chars : Write(c)
    \/ \E i \in 0..Len(text) : Diacritic(i)
    \/ Decorate \/ Recompose \/ Punctuate(Separators \cup ArabicPunctuation)
    \/ AddTerm \/ GrowConfident

Spec == Init /\ [][Next]_vars
-----------------------------------------------------------------------------
(* Properties *)

Rank == [reject |-> 0, human_review |-> 1, auto_route |-> 2]

TypeOK ==
    /\ text \in Seq(Chars) /\ Len(text) <= MaxLength
    /\ intent \in Intents
    /\ confidence \in 0..MaxConfidence
    /\ thresholds \in Floors
    /\ thresholds.reject_floor <= thresholds.auto_route_floor

\* Diacritics, tatweel, presentation forms and decomposed letters hide no
\* urgency term and make none up (normalise, policy.py:149-159), as long as
\* no diacritic is put between a letter and a mark of the same combining
\* class: NFKC has to run before the marks are stripped.
OrthographyInvariance ==
    [][Decorate \/ Recompose => Signals(text') = Signals(text)]_vars

\* Diacritics are "presentational [...] the urgency scan must see them as the
\* same word too" (policy.py:79-83), wherever they stand.
\* Refuted by MCPolicyBlocked.cfg: a sign above between a letter and its
\* hamza keeps the two apart for NFKC, and then both marks are stripped.
DiacriticsAreTransparent ==
    [][(\E i \in 0..Len(text) : Diacritic(i)) => Signals(text') = Signals(text)]_vars

\* Neither does punctuation between words (policy.py:159,
\* test_invariance.py:51-56), unless _NON_WORD keeps it: what is in the Arabic
\* block, and the underscore, which is in \w.
PunctuationInvariance ==
    [][Punctuate(Separators) => Signals(text') = Signals(text)]_vars

\* "Punctuation cannot defeat it" (README.md:282), the Arabic comma, question
\* mark and semicolon included. Refuted by MCPolicyArabic.cfg.
ArabicPunctuationInvariance ==
    [][Punctuate(ArabicPunctuation) => Signals(text') = Signals(text)]_vars

\* Adding an urgency term loses no signal and sends the message to the safety
\* team at once, whatever the model makes of the longer text: it "can never
\* turn an actionable message into a rejection" (policy.py:189-191), and the
\* model never chooses the department of an escalation (policy.py:199-211).
UrgencyOnlyRises ==
    [][AddTerm =>
          /\ Signals(text) \subseteq Signals(text')
          /\ decision' = [action |-> "auto_route", department |-> SafetyDepartment,
                          priority |-> "urgent"]]_vars

\* More confidence never means less automation (policy.py:228-247,
\* test_directional.py:119).
ConfidenceNeverCosts ==
    [][GrowConfident => Rank[decision'.action] >= Rank[decision.action]]_vars
=============================================================================
