------------------------ MODULE MC_ClauseBoundaryReader ------------------------
(***************************************************************************)
(* Model values for ClauseBoundaryReader: every line of up to four         *)
(* characters over blank, comma, the clause mark, a sign and a digit.      *)
(***************************************************************************)
EXTENDS ClauseBoundaryReader

MCChars == {" ", ",", "S", "-", "1"}
MCLines == BoundedSeq(MCChars, 4)

(* One-line files ending with a newline, and two-line files of a clause  *)
(* line and an empty line.                                                *)
MCFiles ==
  { [lines |-> <<l>>, eol |-> TRUE] : l \in MCLines }
  \cup { [lines |-> <<<<"S", ",", "1", ",", "1">>, <<>>>>, eol |-> TRUE] }

(* Files whose last line has no newline. *)
MCNoEolFiles ==
  { [lines |-> <<<<"S", ",", "1", ",", "1">>>>, eol |-> FALSE],
    [lines |-> <<>>, eol |-> FALSE] }

=============================================================================
