---------------------------- MODULE CompactTableText ----------------------------
(***************************************************************************)
(* The text layer of RuleTableLoaderCompact: how a line of the compact    *)
(* rule table is cut into tokens and how a token becomes a number.  A     *)
(* line is a sequence of one-character strings; positions are 0-based, as *)
(* in std::string, and NPos is std::string::npos.                          *)
(***************************************************************************)
EXTENDS Integers, Sequences, SequencesExt

NPos == -1

(* str.find_first_not_of(D, from) and str.find_first_of(D, from); from   *)
(* npos (or past the end) finds nothing.                                  *)
FindFirstNotOf(s, D, from) ==
  LET I == IF from = NPos THEN {} ELSE { k \in from .. Len(s) - 1 : s[k + 1] \notin D }
  IN IF I = {} THEN NPos ELSE Min(I)
FindFirstOf(s, D, from) ==
  LET I == IF from = NPos THEN {} ELSE { k \in from .. Len(s) - 1 : s[k + 1] \in D }
  IN IF I = {} THEN NPos ELSE Min(I)

(* The loop of FindTokens: while (npos != pos || npos != lastPos), record *)
(* lastPos, skip the delimiters, find the next delimiter.                 *)
RECURSIVE TokenStarts(_, _, _, _)
TokenStarts(s, D, lastPos, pos) ==
  IF pos = NPos /\ lastPos = NPos THEN <<>>
  ELSE LET lp == FindFirstNotOf(s, D, pos)
       IN <<lastPos>> \o TokenStarts(s, D, lp, FindFirstOf(s, D, lp))

StartsOf(s, D) ==
  LET lp == FindFirstNotOf(s, D, 0) IN TokenStarts(s, D, lp, FindFirstOf(s, D, lp))

(* RuleTableLoaderCompact::FindTokens: the start of every token between   *)
(* ' ' characters.                                                        *)
FindTokens(s) == StartsOf(s, {" "})

(* Moses' Tokenize(output, str, delimiters): the same loop, pushing       *)
(* substr(lastPos, pos - lastPos).                                        *)
Tokenize(s, D) ==
  LET st == StartsOf(s, D)
      end(k) == LET e == FindFirstOf(s, D, st[k]) IN IF e = NPos THEN Len(s) ELSE e
  IN [k \in DOMAIN st |-> SubSeq(s, st[k] + 1, end(k))]

Digits == <<"0", "1", "2", "3", "4", "5", "6", "7", "8", "9">>
DigitOf == [c \in Range(Digits) |-> CHOOSE d \in 0 .. 9 : Digits[d + 1] = c]

RECURSIVE DigitRun(_, _, _)
DigitRun(s, k, acc) ==
  IF k < Len(s) /\ s[k + 1] \in DOMAIN DigitOf
  THEN DigitRun(s, k + 1, 10 * acc + DigitOf[s[k + 1]])
  ELSE acc

(* std::atoi(str.c_str() + p): blanks skipped, an optional sign, then the *)
(* longest run of digits; 0 without one.  Scan<size_t> of a token of      *)
(* digits reads the same number.                                          *)
AtoiAt(s, p) ==
  LET q == FindFirstNotOf(s, {" "}, p)
  IN IF q = NPos THEN 0
     ELSE IF s[q + 1] = "-" THEN -DigitRun(s, q + 1, 0)
     ELSE IF s[q + 1] = "+" THEN DigitRun(s, q + 1, 0)
     ELSE DigitRun(s, q, 0)

=============================================================================
