--------------------------- MODULE ClauseBoundaryReader ---------------------------
(***************************************************************************)
(* ClauseBoundaries::ReadClauseBoundaries, called once per sentence on the *)
(* clause-boundary file, and the tokenizer TokenizeMyString it uses: a     *)
(* line is cut at blanks into clauses, a clause at commas into limits, the *)
(* limit "S" is dropped and the others are converted with atoi.            *)
(*                                                                         *)
(* A file is a record: lines, its lines as sequences of one-character    *)
(* strings, and eol, whether the last line ends with a newline.           *)
(***************************************************************************)
EXTENDS Integers, Sequences, FiniteSets, SequencesExt

CONSTANTS Files

VARIABLES
  file,    \* the content of the stream
  next,    \* index of the next line getline reads
  bounds,  \* m_clauseBoundaries
  ret      \* what the last call returned, -1 before the first

vars == <<file, next, bounds, ret>>

NPos == -1   \* std::string::npos

(* str.find_first_not_of(delims, from) and str.find_first_of(delims, from) *)
(* over 1-based positions.                                                 *)
FirstNotOf(s, D, from) ==
  LET I == IF from = NPos THEN {} ELSE { k \in from .. Len(s) : s[k] \notin D }
  IN IF I = {} THEN NPos ELSE CHOOSE k \in I : \A j \in I : k <= j
FirstOf(s, D, from) ==
  LET I == IF from = NPos THEN {} ELSE { k \in from .. Len(s) : s[k] \in D }
  IN IF I = {} THEN NPos ELSE CHOOSE k \in I : \A j \in I : k <= j

(* Fault: substr(lastPos, pos - lastPos + 1), the delimiter kept. *)
RECURSIVE Split_KeepDelim(_, _, _, _)
Split_KeepDelim(s, D, lastPos, pos) ==
  IF pos = NPos /\ lastPos = NPos THEN <<>>
  ELSE LET tok == SubSeq(s, lastPos, IF pos = NPos THEN Len(s) ELSE pos)
           lp == FirstNotOf(s, D, pos)
       IN <<tok>> \o Split_KeepDelim(s, D, lp, FirstOf(s, D, lp))

(* The tokenizing loop: while (npos != pos || npos != lastPos), push       *)
(* substr(lastPos, pos - lastPos) and skip to the next token.              *)
RECURSIVE Split(_, _, _, _)
Split(s, D, lastPos, pos) ==
  IF pos = NPos /\ lastPos = NPos THEN <<>>
  ELSE LET tok == SubSeq(s, lastPos, IF pos = NPos THEN Len(s) ELSE pos - 1)
           lp == FirstNotOf(s, D, pos)
       IN <<tok>> \o Split(s, D, lp, FirstOf(s, D, lp))

Tokens(s, D) ==
  LET lp == FirstNotOf(s, D, 1) IN Split(s, D, lp, FirstOf(s, D, lp))

Digits == <<"0", "1", "2", "3", "4", "5", "6", "7", "8", "9">>
DigitValue(c) == CHOOSE d \in 0 .. 9 : Digits[d + 1] = c

(* atoi: an optional sign, then the longest run of digits; 0 without one. *)
RECURSIVE DigitsValue(_, _)
DigitsValue(s, acc) ==
  IF s = <<>> \/ ~(\E d \in 1 .. 10 : Digits[d] = Head(s)) THEN acc
  ELSE DigitsValue(Tail(s), 10 * acc + DigitValue(Head(s)))
Atoi(s) ==
  IF s # <<>> /\ Head(s) = "-" THEN -DigitsValue(Tail(s), 0)
  ELSE IF s # <<>> /\ Head(s) = "+" THEN DigitsValue(Tail(s), 0)
  ELSE DigitsValue(s, 0)

(* TokenizeMyString, then the atoi loop of ReadClauseBoundaries: one      *)
(* vector of limits per clause.                                           *)
ClauseDelimiter == <<"S">>
ParseLine(line) ==
  LET clauses == Tokens(line, {" "})
      limits(c) == SelectSeq(Tokens(c, {","}), LAMBDA t : t # ClauseDelimiter)
  IN [k \in DOMAIN clauses |-> [j \in DOMAIN limits(clauses[k]) |-> Atoi(limits(clauses[k])[j])]]

Init ==
  /\ file \in Files
  /\ next = 1
  /\ bounds = <<>>
  /\ ret = -1

(* One call: getline; a line that ends at end of file, without newline,  *)
(* sets eof like a failed read and the call returns 0.                   *)
ReadClauseBoundaries ==
  /\ ret # 0
  /\ next' = next + 1
  /\ IF next > Len(file.lines) \/ (next = Len(file.lines) /\ ~file.eol)
     THEN /\ ret' = 0
          /\ UNCHANGED bounds
     ELSE /\ ret' = 1
          /\ bounds' = ParseLine(file.lines[next])
  /\ UNCHANGED file

Next == ReadClauseBoundaries

Spec == Init /\ [][Next]_vars /\ WF_vars(Next)

-----------------------------------------------------------------------------
(* Reference: the maximal runs of characters outside D, left to right. *)
Runs(s, D) ==
  LET starts == { a \in DOMAIN s : s[a] \notin D /\ (a = 1 \/ s[a - 1] \in D) }
      runEnd(a) == CHOOSE b \in a .. Len(s) :
                     /\ \A k \in a .. b : s[k] \notin D
                     /\ (b = Len(s) \/ s[b + 1] \in D)
      order == SetToSortSeq(starts, <)
  IN [k \in DOMAIN order |-> SubSeq(s, order[k], runEnd(order[k]))]

RefParse(line) ==
  [k \in DOMAIN Runs(line, {" "}) |->
     LET lim == SelectSeq(Runs(Runs(line, {" "})[k], {","}), LAMBDA t : t # <<"S">>)
     IN [j \in DOMAIN lim |-> Atoi(lim[j])]]

(* The boundaries a call returns are the maximal blank-separated clauses *)
(* of the line just read, each cut into its maximal comma-separated      *)
(* limits without "S": the scanning loops of TokenizeMyString lose or    *)
(* merge no token, at the line's ends or at runs of delimiters.          *)
ParseMatchesRuns ==
  ret = 1 => bounds = RefParse(file.lines[next - 1])

(* Every line of the file is delivered: the reader reports the end only  *)
(* after the last line was returned.                                      *)
EveryLineDelivered ==
  ret = 0 => next - 1 > Len(file.lines)

=============================================================================
