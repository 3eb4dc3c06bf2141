---------------------------- MODULE MC_ChartManager ----------------------------
(***************************************************************************)
(* Model values for ChartManager: a two-word vocabulary, two labels, and  *)
(* eight candidate rules covering terminal, mixed, binary and unary        *)
(* patterns; every subset of them is a rule table a sentence may be       *)
(* decoded with.                                                           *)
(***************************************************************************)
EXTENDS ChartManager

MCWords == {"a", "b"}

TA == Term("a")
TB == Term("b")
XX == NonTerm("X", "X")
XS == NonTerm("X", "S")
SX == NonTerm("S", "X")

MCCandidates ==
  { [src |-> <<TA>>, lhs |-> "X"],
    [src |-> <<TB>>, lhs |-> "X"],
    [src |-> <<TA, TB>>, lhs |-> "S"],
    [src |-> <<XX, TB>>, lhs |-> "S"],
    [src |-> <<XX, XX>>, lhs |-> "S"],
    [src |-> <<TA, XS>>, lhs |-> "X"],
    [src |-> <<XS>>, lhs |-> "S"],
    [src |-> <<SX, TB>>, lhs |-> "X"] }

MCGrammars == SUBSET MCCandidates

(* Every range carries the source labels "X" and "S", as a parsed input   *)
(* whose words are also one-word constituents would.  With both labels on *)
(* a range and in a two-word cell, extending a node with one non-terminal *)
(* child weighs 4 label pairs against 2 lookups, so the children branch   *)
(* of ExtendPartialRuleApplication runs.                                  *)
MCSourceLabelSet(i, j) == {"X", "S"}


(* Clause vectors, read two limits <<b1, b2>> at a time: a clause covers  *)
(* positions b1+1 .. b2+1, and a completion ends at it when its last      *)
(* position is b2 - 1.  The last choice holds two clauses in one vector.  *)
MCClauseBounds ==
  { <<>>, <<<<-1, 3>>>>, <<<<0, 3>>>>, <<<<-1, 2>>, <<-1, 3>>>>,
    <<<<-1, 3>>, <<0, 2>>>>, <<<<-1, 1, 1, 3>>>> }

(* The lists on which the clause loop and section 4.2 part: two nested   *)
(* clauses ending at the same word; a clause the full sentence straddles  *)
(* listed before the sentence clause; no clause at all.                   *)
MCSharedEndBounds == { <<<<-1, 2>>, <<0, 2>>>> }
MCStraddleFirstBounds == { <<<<0, 2>>, <<-1, 3>>>> }
MCDivergentBounds == MCSharedEndBounds \cup MCStraddleFirstBounds \cup { <<>> }

=============================================================================
