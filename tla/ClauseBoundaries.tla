--------------------------- MODULE ClauseBoundaries ---------------------------
(***************************************************************************)
(* The clause-boundary filter applied by                                   *)
(* ChartRuleLookupManagerMinSpan::GetChartRuleCollection to each dotted    *)
(* rule that covers the whole requested range, when the "clause-bounds"    *)
(* option is on.  The boundaries of a sentence are the pairs read by       *)
(* ClauseBoundaries::ReadClauseBoundaries, one <<b1, b2>> per clause, in   *)
(* input order.                                                            *)
(***************************************************************************)
EXTENDS Integers, Sequences, SequencesExt

(* Util.h's IsInside and MatchesInterval are not part of this source tree. *)
(* They are fixed by the documented example: with the boundary (2,5), the *)
(* completion over positions 1..3 straddles it and the one over 3..4 ends *)
(* exactly at it.                                                          *)
IsInside(x, lo, hi) == lo <= x /\ x <= hi
MatchesInterval(end, boundary2) == end + 1 = boundary2

(* Fault: the rule is added without its end matching the boundary. *)
RECURSIVE ClauseLoop_NoEndMatch(_, _, _, _, _, _)
ClauseLoop_NoEndMatch(bounds, i, crosses, startOfFirst, end, admissible) ==
  IF i > Len(bounds) THEN 0
  ELSE
    LET boundary1 == bounds[i][1]
        boundary2 == bounds[i][2]
        isInsideStart == IsInside(startOfFirst, boundary1 + 1, boundary2 + 1)
        isInsideEnd == IsInside(end, boundary1 + 1, boundary2 + 1)
        crosses2 == crosses \/ (isInsideStart # isInsideEnd)
        added == IF admissible /\ ~crosses2 THEN 1 ELSE 0
    IN added + ClauseLoop_NoEndMatch(bounds, i + 1, crosses2, startOfFirst, end, admissible)

(* The number of times AddCompletedRule is called for one dotted rule     *)
(* covering startOfFirst..end.  The loop runs over every boundary without *)
(* an early exit; "crosses" is sticky once set, and the rule is added     *)
(* inside the loop at each boundary whose end it matches.                  *)
RECURSIVE ClauseLoop(_, _, _, _, _, _)
ClauseLoop(bounds, i, crosses, startOfFirst, end, admissible) ==
  IF i > Len(bounds) THEN 0
  ELSE
    LET boundary1 == bounds[i][1]
        boundary2 == bounds[i][2]
        isEndMatch == MatchesInterval(end, boundary2)
        isInsideStart == IsInside(startOfFirst, boundary1 + 1, boundary2 + 1)
        isInsideEnd == IsInside(end, boundary1 + 1, boundary2 + 1)
        crosses2 == crosses \/ (isInsideStart # isInsideEnd)
        added == IF isEndMatch /\ admissible /\ ~crosses2 THEN 1 ELSE 0
    IN added + ClauseLoop(bounds, i + 1, crosses2, startOfFirst, end, admissible)

(* The outer loop runs over the clause vectors of m_clauseBounds, the     *)
(* inner one reads each vector two limits at a time: the pairs in order.  *)
(* A vector of odd length is read past its end (not represented).        *)
BoundaryPairs(vectors) ==
  FlattenSeq([k \in DOMAIN vectors |->
                [j \in 1 .. Len(vectors[k]) \div 2 |->
                   <<vectors[k][2 * j - 1], vectors[k][2 * j]>>]])

(* admissible: the target phrase collection is non-NULL and span > minSpan *)
ClauseAddCount(vectors, startOfFirst, end, admissible) ==
  ClauseLoop(BoundaryPairs(vectors), 1, FALSE, startOfFirst, end, admissible)

=============================================================================
