-------------------------- MODULE ConvertToSortedSpec --------------------------
(***************************************************************************)
(* What SortedFiles::ConvertToSorted (lm/trie_sort.cc) promises for one    *)
(* n-gram order, in one step and without batches or temporary files: it    *)
(* either ends with the records of the section in EntryCompare order, each *)
(* as often as it was read, beside the sorted contexts of the section      *)
(* without repeats, or it throws because two records are the same n-gram.  *)
(* A section with a repeated n-gram may also come out sorted: the promise  *)
(* does not say which.  It always ends.                                    *)
(***************************************************************************)
EXTENDS Integers, Sequences, SequencesExt, FiniteSets

CONSTANTS
  Order,      \* the n-gram order being converted
  Sections    \* the n-gram sections it may be given

VARIABLES
  section,    \* the records of the section, in file order
  result      \* [status, full, context]: "running", "sorted", or "thrown" for
              \* the FormatLoadException of a duplicate n-gram

avars == <<section, result>>

(* The words of a record before its weight, compared left to right. *)
WordsBefore(k, a, b) ==
  \E i \in 1 .. k : a[i] < b[i] /\ \A j \in 1 .. i - 1 : a[j] = b[j]

InOrder(k, s) == \A i \in 1 .. Len(s) - 1 : ~WordsBefore(k, s[i + 1], s[i])

(* The orders of the records of s that are sorted by their n-gram. *)
SortedPermutations(s) ==
  { t \in [DOMAIN s -> Range(s)] : ToBag(t) = ToBag(s) /\ InOrder(Order, t) }

(* The contexts (the n-gram without its first word), sorted, each once. *)
SortedContexts(s) ==
  SetToSortSeq({ SubSeq(r, 2, Order) : r \in Range(s) },
               LAMBDA a, b : WordsBefore(Order - 1, a, b))

RepeatsNgram(s) ==
  \E i, j \in DOMAIN s : i < j /\ SubSeq(s[i], 1, Order) = SubSeq(s[j], 1, Order)

Outcome(st, f, c) == [status |-> st, full |-> f, context |-> c]

Init ==
  /\ section \in Sections
  /\ result = Outcome("running", <<>>, <<>>)

Convert ==
  /\ result.status = "running"
  /\ result' \in { Outcome("sorted", f, SortedContexts(section)) : f \in SortedPermutations(section) }
  /\ UNCHANGED section

Reject ==
  /\ result.status = "running"
  /\ RepeatsNgram(section)
  /\ result' = Outcome("thrown", <<>>, <<>>)
  /\ UNCHANGED section

Next == Convert \/ Reject

Spec == Init /\ [][Next]_avars /\ WF_avars(Next)

=============================================================================
