----------------------------- MODULE SuffixArray -----------------------------
(***************************************************************************)
(* The suffix array of the bilingual concordancer (biconcor):              *)
(* SuffixArray::Create reads a corpus, one sentence per line, lays its     *)
(* words out in m_array with a sentence-end word after every sentence,     *)
(* and merge-sorts the positions m_index by the suffix that starts there;  *)
(* LimitedCount counts the suffixes that start with a phrase by one binary *)
(* search for a match (FindFirst) and two for the ends of the run of       *)
(* matches (FindLast).                                                     *)
(*                                                                         *)
(* A word is its rank in the string order CompareWord uses; Eos is the    *)
(* rank of "<s>".  A file is a record: lines, its sentences as sequences  *)
(* of words, and eol, whether the last line ends with a newline.  Arrays  *)
(* are functions on 0 .. m_size - 1, as in the code.  An index outside    *)
(* that range is read from beyond the allocation: the read is undefined   *)
(* and Match may return any sign.                                         *)
(*                                                                         *)
(* Save writes the structure to a file and Load, in a later run of the   *)
(* program, reads it back instead of calling Create.  Of what they write *)
(* the model keeps m_size, m_array and m_index; the sentence arrays       *)
(* follow them the same way and no search reads them.                     *)
(***************************************************************************)
EXTENDS Integers, Sequences, FiniteSets, SequencesExt, Functions

CONSTANTS
  Files,     \* the corpus files
  Phrases,   \* the phrases looked up
  Eos,       \* the rank of "<s>"
  MaxDepth,  \* the recursion depth at which the stack overflows
  Overflow   \* model value: Sort did not return

VARIABLES
  file,      \* the corpus on disk
  pc,        \* "init", "overflow", "ready", "first", "down", "up", "done"
  size,      \* m_size
  array,     \* m_array
  index,     \* m_index
  phrase,    \* the phrase of the running LimitedCount
  minArg,    \* its min argument
  lo, hi,    \* FindFirst's start and end, passed by reference
  found,     \* the match FindFirst returned
  s, e,      \* FindLast's start and end
  count,     \* matchCount
  result,    \* what LimitedCount returned
  oob,       \* the running call has read outside m_index
  saved      \* the words of the saved index file, <<>> while none exists

vars == <<file, pc, size, array, index, phrase, minArg, lo, hi, found, s, e,
          count, result, oob, saved>>

(* CompareWord: the string order of the two words. *)
CompareWord(a, b) == IF a < b THEN -1 ELSE IF a = b THEN 0 ELSE 1

(* CompareIndex: skip the common prefix of the two suffixes; the one that *)
(* reaches the end of the corpus first is the smaller.                   *)
RECURSIVE CommonPrefix(_, _, _, _, _)
CommonPrefix(arr, n, a, b, o) ==
  IF a + o < n /\ b + o < n /\ arr[a + o] = arr[b + o]
  THEN CommonPrefix(arr, n, a, b, o + 1) ELSE o

(* Fault: the suffix that runs into the end of the corpus is the larger. *)
CompareIndex_ShortGreater(arr, n, a, b) ==
  LET o == CommonPrefix(arr, n, a, b, 0)
  IN IF a + o = n THEN 1
     ELSE IF b + o = n THEN -1
     ELSE CompareWord(arr[a + o], arr[b + o])

CompareIndex(arr, n, a, b) ==
  LET o == CommonPrefix(arr, n, a, b, 0)
  IN IF a + o = n THEN -1
     ELSE IF b + o = n THEN 1
     ELSE CompareWord(arr[a + o], arr[b + o])

(* The merge loop of Sort into m_buffer, then the memcpy back. *)
RECURSIVE MergeLoop(_, _, _, _, _, _, _, _, _)
MergeLoop(arr, n, idx, i, j, mid, end, length, buf) ==
  IF Len(buf) >= length THEN buf
  ELSE IF i = mid THEN MergeLoop(arr, n, idx, i, j + 1, mid, end, length, Append(buf, idx[j]))
  ELSE IF j > end THEN MergeLoop(arr, n, idx, i + 1, j, mid, end, length, Append(buf, idx[i]))
  ELSE IF CompareIndex(arr, n, idx[i], idx[j]) < 0
       THEN MergeLoop(arr, n, idx, i + 1, j, mid, end, length, Append(buf, idx[i]))
       ELSE MergeLoop(arr, n, idx, i, j + 1, mid, end, length, Append(buf, idx[j]))

Merge(arr, n, idx, start, mid, end) ==
  LET buf == MergeLoop(arr, n, idx, start, mid, mid, end, end - start + 1, <<>>)
  IN [p \in DOMAIN idx |-> IF p \in start .. end THEN buf[p - start + 1] ELSE idx[p]]

(* Sort(start, end): sort both halves, then merge; Overflow once the     *)
(* recursion is deeper than MaxDepth.  The operands of \div are never   *)
(* negative here, so it agrees with C division.                         *)
RECURSIVE Sort(_, _, _, _, _, _)
Sort(arr, n, idx, start, end, depth) ==
  IF depth > MaxDepth THEN Overflow
  ELSE IF start = end THEN idx
  ELSE LET mid   == (start + end + 1) \div 2
           left  == Sort(arr, n, idx, start, mid - 1, depth + 1)
           right == IF left = Overflow THEN Overflow
                    ELSE Sort(arr, n, left, mid, end, depth + 1)
       IN IF right = Overflow THEN Overflow ELSE Merge(arr, n, right, start, mid, end)

(* The sentences the two reading loops see: getline on the last line    *)
(* sets eof when no newline follows it, and the loop then breaks.        *)
ReadLines(f) ==
  IF f.eol \/ f.lines = <<>> THEN f.lines ELSE Front(f.lines)

(* The corpus laid out: every sentence followed by the sentence end. *)
Layout(lines) ==
  LET ws == FlattenSeq([k \in DOMAIN lines |-> lines[k] \o <<Eos>>])
  IN [p \in 0 .. Len(ws) - 1 |-> ws[p + 1]]

(* Match: compare the phrase with the suffix at index, word by word,     *)
(* stopping at the end of the corpus.                                   *)
RECURSIVE MatchLoop(_, _, _, _, _)
MatchLoop(arr, n, ph, pos, i) ==
  IF i < Len(ph) /\ i + pos < n
  THEN LET m == CompareWord(ph[i + 1], arr[pos + i])
       IN IF m # 0 THEN m ELSE MatchLoop(arr, n, ph, pos, i + 1)
  ELSE 0

(* The values Match can return at index: one inside m_index, any sign   *)
(* beyond it.                                                           *)
Matches(ix) ==
  IF ix \in 0 .. size - 1 THEN {MatchLoop(array, size, phrase, index[ix], 0)}
  ELSE {-1, 0, 1}

Init ==
  /\ file \in Files
  /\ pc = "init"
  /\ size = 0
  /\ array = <<>>
  /\ index = <<>>
  /\ phrase = <<>>
  /\ minArg = 0
  /\ lo = 0 /\ hi = 0 /\ found = 0 /\ s = 0 /\ e = 0
  /\ count = 0
  /\ result = 0
  /\ oob = FALSE
  /\ saved = <<>>

(* Fault: m_size counts the words without the sentence ends. *)
Create_NoBoundaryCount ==
  LET lines == ReadLines(file)
      arr   == Layout(lines)
      n     == Len(FlattenSeq(lines))
      ident == [p \in 0 .. n - 1 |-> p]
      srt   == Sort(arr, n, ident, 0, n - 1, 0)
  IN /\ pc = "init"
     /\ size' = n
     /\ array' = arr
     /\ IF srt = Overflow THEN pc' = "overflow" /\ index' = ident
        ELSE pc' = "ready" /\ index' = srt
     /\ UNCHANGED <<file, phrase, minArg, lo, hi, found, s, e, count, result, oob, saved>>

(* Create: count, lay out with m_index[i] = i, and Sort(0, m_size - 1). *)
Create ==
  LET lines == ReadLines(file)
      arr   == Layout(lines)
      n     == Len(FlattenSeq(lines)) + Len(lines)
      ident == [p \in 0 .. n - 1 |-> p]
      srt   == Sort(arr, n, ident, 0, n - 1, 0)
  IN /\ pc = "init"
     /\ size' = n
     /\ array' = arr
     /\ IF srt = Overflow THEN pc' = "overflow" /\ index' = ident
        ELSE pc' = "ready" /\ index' = srt
     /\ UNCHANGED <<file, phrase, minArg, lo, hi, found, s, e, count, result, oob, saved>>

(* LimitedCount(phrase, min, ..., 0, m_size - 1), as Count, MinCount and *)
(* Exists call it: min is 1 for Exists, larger otherwise.                *)
LimitedCount ==
  /\ pc \in {"ready", "done"}
  /\ \E p \in Phrases, mn \in {1, size} :
       /\ phrase' = p
       /\ minArg' = mn
  /\ lo' = 0
  /\ hi' = size - 1
  /\ pc' = "first"
  /\ oob' = FALSE
  /\ UNCHANGED <<file, size, array, index, found, s, e, count, result, saved>>

(* One iteration of FindFirst, and what LimitedCount does with its return. *)
FindFirstStep ==
  LET mid == (lo + hi + 1) \div 2 IN
  /\ pc = "first"
  /\ oob' = (oob \/ mid \notin 0 .. size - 1)
  /\ \E m \in Matches(mid) :
       CASE m = 0 /\ mid = size ->
              result' = 0 /\ pc' = "done" /\ UNCHANGED <<lo, hi, found, s, e, count>>
         [] m = 0 /\ minArg = 1 ->
              result' = 1 /\ pc' = "done" /\ UNCHANGED <<lo, hi, found, s, e, count>>
         [] m = 0 ->
              /\ found' = mid /\ count' = 1
              /\ s' = mid /\ e' = lo - 1
              /\ pc' = "down" /\ UNCHANGED <<lo, hi, result>>
         [] lo >= hi ->
              result' = 0 /\ pc' = "done" /\ UNCHANGED <<lo, hi, found, s, e, count>>
         [] m > 0 ->
              lo' = mid + 1 /\ UNCHANGED <<hi, found, s, e, count, result, pc>>
         [] OTHER ->
              hi' = mid - 1 /\ UNCHANGED <<lo, found, s, e, count, result, pc>>
  /\ UNCHANGED <<file, size, array, index, phrase, minArg, saved>>

(* Fault: matchCount += firstMatch - mid. *)
FindLastStep_CountSwap ==
  LET dir == IF pc = "down" THEN -1 ELSE 1
      mid == (s + e + (IF dir > 0 THEN 0 ELSE 1)) \div 2
  IN
  /\ pc \in {"down", "up"}
  /\ oob' = (oob \/ mid \notin 0 .. size - 1 \/ mid + dir \notin 0 .. size - 1)
  /\ \E m \in Matches(mid), mNext \in Matches(mid + dir) :
       CASE m = 0 /\ mNext # 0 /\ pc = "down" ->
              /\ count' = count + mid - found
              /\ s' = found /\ e' = hi + 1
              /\ pc' = "up" /\ UNCHANGED result
         [] m = 0 /\ mNext # 0 ->
              result' = count + mid - found /\ pc' = "done" /\ UNCHANGED <<s, e, count>>
         [] m = 0 -> s' = mid /\ UNCHANGED <<e, count, result, pc>>
         [] OTHER -> e' = mid /\ UNCHANGED <<s, count, result, pc>>
  /\ UNCHANGED <<file, size, array, index, phrase, minArg, lo, hi, found, saved>>

(* Fault: mid rounded towards the start in both directions. *)
FindLastStep_RoundDown ==
  LET dir == IF pc = "down" THEN -1 ELSE 1
      mid == (s + e) \div 2
  IN
  /\ pc \in {"down", "up"}
  /\ oob' = (oob \/ mid \notin 0 .. size - 1 \/ mid + dir \notin 0 .. size - 1)
  /\ \E m \in Matches(mid), mNext \in Matches(mid + dir) :
       CASE m = 0 /\ mNext # 0 /\ pc = "down" ->
              /\ count' = count + found - mid
              /\ s' = found /\ e' = hi + 1
              /\ pc' = "up" /\ UNCHANGED result
         [] m = 0 /\ mNext # 0 ->
              result' = count + mid - found /\ pc' = "done" /\ UNCHANGED <<s, e, count>>
         [] m = 0 -> s' = mid /\ UNCHANGED <<e, count, result, pc>>
         [] OTHER -> e' = mid /\ UNCHANGED <<s, count, result, pc>>
  /\ UNCHANGED <<file, size, array, index, phrase, minArg, lo, hi, found, saved>>

(* One iteration of FindLast(phrase, found, bound, dir): downwards to the *)
(* first match, then upwards to the last; each return adds its distance  *)
(* from found to matchCount.                                             *)
FindLastStep ==
  LET dir == IF pc = "down" THEN -1 ELSE 1
      mid == (s + e + (IF dir > 0 THEN 0 ELSE 1)) \div 2
  IN
  /\ pc \in {"down", "up"}
  /\ oob' = (oob \/ mid \notin 0 .. size - 1 \/ mid + dir \notin 0 .. size - 1)
  /\ \E m \in Matches(mid), mNext \in Matches(mid + dir) :
       CASE m = 0 /\ mNext # 0 /\ pc = "down" ->
              /\ count' = count + found - mid
              /\ s' = found /\ e' = hi + 1
              /\ pc' = "up" /\ UNCHANGED result
         [] m = 0 /\ mNext # 0 ->
              result' = count + mid - found /\ pc' = "done" /\ UNCHANGED <<s, e, count>>
         [] m = 0 -> s' = mid /\ UNCHANGED <<e, count, result, pc>>
         [] OTHER -> e' = mid /\ UNCHANGED <<s, count, result, pc>>
  /\ UNCHANGED <<file, size, array, index, phrase, minArg, lo, hi, found, saved>>

(* An array of m_size words as the words fwrite puts in the file. *)
Words(arr) == [q \in 1 .. size |-> arr[q - 1]]

(* Save: m_size, then m_array and m_index, m_size words each. *)
Save ==
  /\ pc \in {"ready", "done"}
  /\ saved' = <<size>> \o Words(array) \o Words(index)
  /\ UNCHANGED <<file, pc, size, array, index, phrase, minArg, lo, hi, found, s, e,
                 count, result, oob>>

(* The program ends; a later run starts from a fresh SuffixArray with    *)
(* the files it left behind.                                              *)
Restart ==
  /\ pc # "init"
  /\ pc' = "init"
  /\ size' = 0 /\ array' = <<>> /\ index' = <<>>
  /\ phrase' = <<>> /\ minArg' = 0
  /\ lo' = 0 /\ hi' = 0 /\ found' = 0 /\ s' = 0 /\ e' = 0
  /\ count' = 0 /\ result' = 0 /\ oob' = FALSE
  /\ UNCHANGED <<file, saved>>

(* Fault: m_index is read before m_array. *)
Load_SwapArrays ==
  LET n == saved[1] IN
  /\ pc = "init"
  /\ saved # <<>>
  /\ size' = n
  /\ index' = [p \in 0 .. n - 1 |-> saved[2 + p]]
  /\ array' = [p \in 0 .. n - 1 |-> saved[2 + n + p]]
  /\ pc' = "ready"
  /\ UNCHANGED <<file, phrase, minArg, lo, hi, found, s, e, count, result, oob, saved>>

(* Load: fread m_size, then m_size words into each array in turn; a     *)
(* missing file ends the program.                                         *)
Load ==
  LET n == saved[1] IN
  /\ pc = "init"
  /\ saved # <<>>
  /\ size' = n
  /\ array' = [p \in 0 .. n - 1 |-> saved[2 + p]]
  /\ index' = [p \in 0 .. n - 1 |-> saved[2 + n + p]]
  /\ pc' = "ready"
  /\ UNCHANGED <<file, phrase, minArg, lo, hi, found, s, e, count, result, oob, saved>>

Next == Create \/ Load \/ LimitedCount \/ FindFirstStep \/ FindLastStep \/ Save \/ Restart

Spec == Init /\ [][Next]_vars

(* The searches of LimitedCount are plain loops of one call: once a call  *)
(* is running, its next iteration is the program's next step, unless the *)
(* program ends (Restart).  Which calls the program makes stays free.     *)
FairSpec == Spec /\ WF_vars(FindFirstStep) /\ WF_vars(FindLastStep)

-----------------------------------------------------------------------------
(* Reference definitions. *)
Suffix(p) == [q \in 1 .. size - p |-> array[p + q - 1]]

(* Lexicographic order, a proper prefix first. *)
LexLess(u, v) ==
  \E k \in 1 .. Len(u) + 1 :
     /\ \A q \in 1 .. k - 1 : q <= Len(v) /\ u[q] = v[q]
     /\ \/ k = Len(u) + 1 /\ k <= Len(v)
        \/ k <= Len(u) /\ k <= Len(v) /\ u[k] < v[k]

Occurrences(ph) ==
  Cardinality({ p \in 0 .. size - Len(ph) :
                  \A q \in 1 .. Len(ph) : array[p + q - 1] = ph[q] })

Built == pc \notin {"init", "overflow"}

TypeOK ==
  /\ size \in Nat
  /\ array \in [0 .. size - 1 -> Int]
  /\ index \in [0 .. size - 1 -> 0 .. size - 1]
  /\ pc \in {"init", "overflow", "ready", "first", "down", "up", "done"}
  /\ result \in 0 .. size
  /\ oob \in BOOLEAN
  /\ saved \in Seq(Int)

(* Create leaves m_index a permutation of the positions that lists the   *)
(* suffixes in increasing order: the merge sort and CompareIndex, with   *)
(* its rule that a suffix running into the end of the corpus is smaller. *)
SortedSuffixes ==
  Built =>
    /\ IsInjective(index) /\ Range(index) = 0 .. size - 1
    /\ \A k \in 0 .. size - 2 : LexLess(Suffix(index[k]), Suffix(index[k + 1]))

(* In every run of the program, whether it built the structure with     *)
(* Create or read it back with Load from the file an earlier run saved,  *)
(* m_array is the corpus laid out and m_size its length: Save and Load   *)
(* put and take the fields in the same order.                            *)
CorpusRestored ==
  Built => array = Layout(ReadLines(file)) /\ DOMAIN array = 0 .. size - 1

(* When no probe left m_index, LimitedCount returns the number of        *)
(* positions where the phrase occurs, or at most 1 for an existence      *)
(* check: the three binary searches find the whole run of matches.       *)
CountCorrect ==
  pc = "done" /\ ~oob =>
    result = IF minArg = 1 THEN IF Occurrences(phrase) > 0 THEN 1 ELSE 0
             ELSE Occurrences(phrase)

(* Every LimitedCount call returns, or reads outside m_index: FindFirst  *)
(* and FindLast loop until a probe decides, and FindLast ends only by    *)
(* rounding mid towards the side it searches, so that start and end keep *)
(* closing in on the boundary of the run of matches.                     *)
LimitedCountReturns ==
  (pc \in {"first", "down", "up"}) ~> (pc \in {"done", "init"} \/ oob)

(* Every index FindFirst and FindLast probe lies inside m_index. *)
InBounds == ~oob

(* Create returns for every corpus file it can open, and m_array then    *)
(* holds one sentence end per line of the file: no line is left out.    *)
CreateIndexesCorpus ==
  pc # "init" =>
    /\ pc # "overflow"
    /\ Cardinality({ p \in 0 .. size - 1 : array[p] = Eos }) = Len(file.lines)

=============================================================================
