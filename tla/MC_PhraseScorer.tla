--------------------------- MODULE MC_PhraseScorer ---------------------------
(* Extract files of up to MaxLines lines over two sources (the second    *)
(* with a non-terminal), two targets, three alignments of which the      *)
(* first two re-arrange the non-terminals alike, and counts 1 and 2,     *)
(* sorted as the training pipeline sorts them before scoring.            *)
EXTENDS PhraseScorer

MaxLines == 4
MCNtPart == <<1, 1, 2>>
MCLines == [src : 1 .. 2, tgt : 1 .. 2, al : 1 .. 3, cnt : 1 .. 2]
Key(l) == <<l.src, l.tgt, l.al, l.cnt>>
LineLeq(a, b) ==
  \/ Key(a) = Key(b)
  \/ \E i \in 1 .. 4 : /\ \A j \in 1 .. i - 1 : Key(a)[j] = Key(b)[j]
                       /\ Key(a)[i] < Key(b)[i]

(* The sorted files of n lines whose first line is at least lo. *)
RECURSIVE SortedFrom(_, _)
SortedFrom(n, lo) ==
  IF n = 0 THEN {<<>>}
  ELSE UNION {{<<l>> \o s : s \in SortedFrom(n - 1, l)} : l \in {m \in MCLines : LineLeq(lo, m)}}

MCInputs == UNION {SortedFrom(n, [src |-> 1, tgt |-> 1, al |-> 1, cnt |-> 1]) : n \in 1 .. MaxLines}

=============================================================================
