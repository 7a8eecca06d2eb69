------------------------------ MODULE Training ------------------------------
(***************************************************************************)
(* train/generate_dataset.py and train/train_model.py, run again and again *)
(* as `make train` runs them, with crashes.                                *)
(*                                                                         *)
(* random.Random(SEED) is a tape that is unknown but the same in every     *)
(* run: a draw that no run has made yet is anything, one that some run has *)
(* made is read from the tape.  A set is iterated in an order that differs *)
(* from process to process, as the hashes of strings do.  The texts that   *)
(* compose can make of a label's cores are numbered; of the orders that    *)
(* shuffle may leave, the model takes the rotations.  The generator goes   *)
(* through the labels in the order of split; in the code its order is that *)
(* of INTENTS, as fixed from run to run.                                   *)
(***************************************************************************)
EXTENDS Integers, FiniteSets, SequencesExt

CONSTANTS Labels,             \* LABELS in sorted order, a sequence of numbers
          PoolOf,             \* label -> how many texts it can compose
          PerLabel, Tries,    \* PER_LABEL; the attempts allowed for each
          TrainShare, ValShare,        \* in per cent; the rest is for the test
          MaxRuns             \* bound on the runs

\* Every share is a part of the rows, and training has half of them or more.
ASSUME TrainingAssumption ==
    /\ Labels \in Seq(Nat) \ {<<>>}
    /\ \A i, j \in DOMAIN Labels : Labels[i] = Labels[j] => i = j
    /\ PoolOf \in [ToSet(Labels) -> Nat \ {0}]
    /\ PerLabel \in Nat /\ Tries \in Nat
    /\ TrainShare \in 50..100 /\ ValShare \in Nat /\ TrainShare + ValShare <= 100

VARIABLES
    step,                     \* where the run is
    label,                    \* the position of the label at work
    attempts, count,          \* the locals of generate_examples
    examples,                 \* the pairs generated so far
    rows,                     \* the same in a list, as split is given them
    split,                    \* file -> its rows, so far
    files,                    \* file -> the rows on disk, or Absent or Torn
    artifact,                 \* the classes of the artifact, or none
    tape, position,           \* the draws of the seed, and how many are used
    outputs,                  \* history: what the full runs have written
    runs

rng == <<tape, position>>
locals == <<label, attempts, count, examples, rows, split>>
disk == <<files, artifact>>
trainVars == <<step, locals, disk, rng, outputs, runs>>

Absent == <<<<-1, -1>>>>       \* like no list of rows
Torn == <<<<-2, -2>>>>         \* a file opened, truncated and not yet closed
Names == {"train", "val", "test"}
Current == Labels[label]
-----------------------------------------------------------------------------
(* The random numbers *)

Draw(v, n) ==
    /\ IF position < Len(tape)
       THEN v = tape[position + 1] % n /\ tape' = tape
       ELSE v \in 0..(n - 1) /\ tape' = Append(tape, v)
    /\ position' = position + 1

\* The orders that the model lets shuffle leave: one for each rotation.
Orders(s) == IF s = <<>> THEN 1 ELSE Len(s)

Rotate(s, k) ==
    [i \in DOMAIN s |-> IF i + k <= Len(s) THEN s[i + k] ELSE s[i + k - Len(s)]]
-----------------------------------------------------------------------------
(* generate_dataset.py *)

\* Tuples compare by text, and then by label.
Before(x, y) == x[1] < y[1] \/ (x[1] = y[1] /\ x[2] < y[2])

\* sorted(...): a pair comes after all those before it.
Sorted(pairs) ==
    [i \in 1..Cardinality(pairs) |->
        CHOOSE x \in pairs : Cardinality({y \in pairs : Before(y, x)}) = i - 1]

\* by_label[l]: the pairs of one label, appended one by one.
RowsOf(l, list) ==
    LET mine[n \in 0..Len(list)] ==
          IF n = 0 THEN <<>>
          ELSE IF list[n][2] = l THEN Append(mine[n - 1], list[n])
          ELSE mine[n - 1]
    IN  mine[Len(list)]

\* Mutant: the attempts are not counted.
MoreForever == count < PerLabel

More == count < PerLabel /\ attempts < PerLabel * Tries

Fresh == [f \in Names |-> <<>>]

TrainInit ==
    /\ step = "idle"
    /\ label = 1 /\ attempts = 0 /\ count = 0
    /\ examples = {} /\ rows = <<>> /\ split = Fresh
    /\ files = [f \in Names |-> Absent]
    /\ artifact = {}
    /\ tape = <<>> /\ position = 0
    /\ outputs = {}
    /\ runs = 0

Begin ==
    /\ step = "idle"
    /\ runs < MaxRuns
    /\ runs' = runs + 1
    /\ step' = "generate"
    /\ UNCHANGED <<locals, disk, rng, outputs>>

\* One turn of the while loop: a text is composed, and kept if it is new.
Try ==
    /\ step = "generate"
    /\ More
    /\ \E v \in 0..(PoolOf[Current] - 1) :
          /\ Draw(v, PoolOf[Current])
          /\ examples' = examples \cup {<<v, Current>>}
          /\ count' = IF <<v, Current>> \in examples THEN count ELSE count + 1
    /\ attempts' = attempts + 1
    /\ UNCHANGED <<step, label, rows, split, disk, outputs, runs>>

\* The next label.
NextLabel ==
    /\ step = "generate"
    /\ ~More
    /\ label < Len(Labels)
    /\ label' = label + 1
    /\ attempts' = 0 /\ count' = 0
    /\ UNCHANGED <<step, examples, rows, split, disk, rng, outputs, runs>>

\* Mutant: the list is made in the order of the set.
ListUnsorted ==
    /\ step = "generate"
    /\ ~More
    /\ label = Len(Labels)
    /\ \E s \in {Sorted(examples)} : rows' \in {s, Reverse(s)}
    /\ step' = "split" /\ label' = 1
    /\ UNCHANGED <<attempts, count, examples, split, disk, rng, outputs, runs>>

\* sorted(examples).
List ==
    /\ step = "generate"
    /\ ~More
    /\ label = Len(Labels)
    /\ rows' = Sorted(examples)
    /\ step' = "split" /\ label' = 1
    /\ UNCHANGED <<attempts, count, examples, split, disk, rng, outputs, runs>>

\* Mutant: the slices overlap.
SliceOverlapping(s, n, m) ==
    [train |-> SubSeq(s, 1, n), val |-> SubSeq(s, n + 1, n + m),
     test |-> SubSeq(s, IF n + m = 0 THEN 1 ELSE n + m, Len(s))]

\* The three slices of the rows of one label.
Slice(s, n, m) ==
    [train |-> SubSeq(s, 1, n), val |-> SubSeq(s, n + 1, n + m),
     test |-> SubSeq(s, n + m + 1, Len(s))]

\* Mutant: a row is held back before the shares are taken.
ShareLeft(n, percent) == ((n - 1) * percent) \div 100

\* int(n * 0.7) and the like; where the float falls short of an integer the
\* code cuts one row lower.
Share(n, percent) == (n * percent) \div 100

\* The rows of one label are shuffled and cut at two places.
SplitLabel ==
    /\ step = "split"
    /\ LET mine == RowsOf(Current, rows)
           n == Len(mine)
       IN \E v \in 0..(Orders(mine) - 1) :
          /\ Draw(v, Orders(mine))
          /\ LET part == Slice(Rotate(mine, v), Share(n, TrainShare), Share(n, ValShare))
             IN split' = [f \in Names |-> split[f] \o part[f]]
    /\ IF label < Len(Labels)
       THEN label' = label + 1 /\ step' = step
       ELSE label' = 1 /\ step' = "train"
    /\ UNCHANGED <<attempts, count, examples, rows, disk, outputs, runs>>

\* write_csv opens the file and truncates it.
OpenFile ==
    /\ step \in Names
    /\ files[step] # Torn
    /\ files' = [files EXCEPT ![step] = Torn]
    /\ UNCHANGED <<step, locals, artifact, rng, outputs, runs>>

\* write_csv writes and closes it, after its rows were shuffled.
WriteFile ==
    /\ step \in Names
    /\ files[step] = Torn
    /\ \E v \in 0..(Orders(split[step]) - 1) :
          /\ Draw(v, Orders(split[step]))
          /\ files' = [files EXCEPT ![step] = Rotate(split[step], v)]
    /\ step' = CASE step = "train" -> "val" [] step = "val" -> "test"
                 [] OTHER -> "fit"
    /\ outputs' = IF step = "test" THEN outputs \cup {files'} ELSE outputs
    /\ UNCHANGED <<locals, artifact, runs>>

\* Mutant: the columns are swapped.
FitOnTexts ==
    /\ step = "fit"
    /\ artifact' = {x[1] : x \in ToSet(files["train"])}
    /\ step' = "done"
    /\ UNCHANGED <<locals, files, rng, outputs, runs>>

\* train_model.py reads the files; the classes are the labels it has seen.
Fit ==
    /\ step = "fit"
    /\ artifact' = {x[2] : x \in ToSet(files["train"])}
    /\ Cardinality(artifact') > 1      \* or the classifier refuses to fit
    /\ step' = "done"
    /\ UNCHANGED <<locals, files, rng, outputs, runs>>

Reset ==
    /\ step' = "idle"
    /\ label' = 1 /\ attempts' = 0 /\ count' = 0
    /\ examples' = {} /\ rows' = <<>> /\ split' = Fresh
    /\ position' = 0
    /\ UNCHANGED <<disk, tape, outputs, runs>>

Finish == step = "done" /\ Reset

\* The run dies, with some of the files written.
Crash == step \notin {"idle", "done"} /\ Reset

TrainNext ==
    \/ Begin \/ Try \/ NextLabel \/ List \/ SplitLabel \/ OpenFile \/ WriteFile
    \/ Fit \/ Finish \/ Crash

TrainSpec == TrainInit /\ [][TrainNext]_trainVars
-----------------------------------------------------------------------------
(* Properties *)

Domain == ToSet(Labels)
Written(f) == ToSet(files[f])

TrainTypeOK ==
    /\ step \in {"idle", "generate", "split", "fit", "done"} \cup Names
    /\ label \in DOMAIN Labels
    /\ attempts \in Nat /\ count \in 0..PerLabel
    /\ \A x \in examples : x[2] \in Domain /\ x[1] < PoolOf[x[2]]
    /\ DOMAIN files = Names /\ DOMAIN split = Names
    /\ artifact \subseteq Domain

\* Re-running the script always produces byte-identical output
\* (generate_dataset.py:34-36; CI compares two runs, ci.yml:159-168): once
\* the files were written in full, no run changes one, except that a file is
\* torn while it is written, and stays so when the run dies there.
FilesNeverChange ==
    \A w \in outputs : \A f \in Names : files[f] \in {w[f], Torn}

\* What train_model reads is a partition of what was generated: no row it
\* is tested on is one it was trained on, and none is lost
\* (generate_dataset.py:353-355).
SplitIsPartition == step = "fit" =>
    /\ UNION {Written(f) : f \in Names} = examples
    /\ \A f, g \in Names : f # g => Written(f) \cap Written(g) = {}

\* SklearnIntentModel.load refuses an artifact whose classes are not its
\* labels (sklearn_model.py:44-51): whatever the shuffle, a label with two
\* examples has one to train on, although its pool may be exhausted
\* (generate_dataset.py:324-334).
LabelsReachTheModel == step = "fit" =>
    \A l \in Domain : Cardinality({x \in examples : x[2] = l}) >= 2 =>
        \E x \in Written("train") : x[2] = l

\* A pool that is too small does not keep the generator from ending
\* (generate_dataset.py:315-317): a run makes a bounded number of draws.
WorkIsBounded == position <= Len(Labels) * (PerLabel * Tries + 1) + 3
=============================================================================
