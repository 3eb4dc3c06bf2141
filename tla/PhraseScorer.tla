----------------------------- MODULE PhraseScorer -----------------------------
(***************************************************************************)
(* The phrase-table scorer of training (phrase-extract/score.cpp): main    *)
(* reads the sorted extract file line by line, folding a line identical to *)
(* the last one, or differing from the last pair only in its count, into   *)
(* the last phrase pair, and collects the pairs of one source phrase in    *)
(* phrasePairsWithSameF.  When the source changes, and at the end of the   *)
(* file, processPhrasePairs groups the batch by the alignment that matters *)
(* (target phrase and non-terminal alignment), and outputPhrasePair writes *)
(* one table line per group with the best alignment, the source total and  *)
(* the group count, collecting count-of-counts statistics on the way.      *)
(*                                                                         *)
(* An extract line is a record [src, tgt, al, cnt]: its source phrase,     *)
(* target phrase, word alignment and count.  PhraseAlignment::create parses *)
(* a line into exactly these fields, and two lines are the same string     *)
(* exactly when their records are equal.  Counts are whole numbers.        *)
(***************************************************************************)
EXTENDS Integers, Sequences, FiniteSets, SequencesExt, Functions

CONSTANTS
  Sources,        \* source phrases (the last word is the left-hand side)
  NtSources,      \* sources with a non-terminal before their last word
  Targets,        \* target phrases
  Aligns,         \* word alignments of a pair
  NtPart,         \* the part of an alignment that re-arranges non-terminals
  Inputs,         \* the sorted extract files the scorer may read
  Hierarchical,   \* --Hierarchical
  MinCount,       \* --MinCountHierarchical
  CountOfCounts,  \* --GoodTuring or --KneserNey
  CocMax,         \* COC_MAX
  NoLine          \* model value: lastLine before the first line ("")

VARIABLES
  input,          \* the extract file
  pos,            \* lines read so far
  lastLine,       \* lastLine
  lastCount,      \* lastCount
  batch,          \* phrasePairsWithSameF
  lastIdx,        \* lastPhrasePair: its index in batch, 0 for NULL
  out,            \* the phrase table written so far
  coc,            \* countOfCounts[1 .. COC_MAX]
  totalDistinct,  \* totalDistinct
  done            \* the loop has ended and the last batch is written

vars == <<input, pos, lastLine, lastCount, batch, lastIdx, out, coc, totalDistinct, done>>

Line == [src : Sources, tgt : Targets, al : Aligns, cnt : Nat]

(* PhraseAlignment::equals: the same source, target and alignment. *)
Equals(p, q) == p.src = q.src /\ p.tgt = q.tgt /\ p.al = q.al

(* The key of PhrasePairGroup's ordering of collections: the target and *)
(* the alignment of its non-terminals.                                   *)
GroupKey(p) == <<p.tgt, NtPart[p.al]>>

(* PhrasePairGroup::insert: a pair joins the collection of its key, or   *)
(* starts a new one at the end of m_sortedColl.                          *)
Insert(groups, p) ==
  IF \E i \in DOMAIN groups : GroupKey(groups[i][1]) = GroupKey(p)
  THEN LET i == CHOOSE i \in DOMAIN groups : GroupKey(groups[i][1]) = GroupKey(p)
       IN [groups EXCEPT ![i] = Append(@, p)]
  ELSE Append(groups, <<p>>)

(* findBestAlignment: the first pair of the largest count (strict >). *)
BestOf(best, p) == IF p.cnt > best.cnt THEN p ELSE best

FindBestAlignment(g) == FoldLeft(BestOf, g[1], Tail(g))

GroupCount(g) == FoldLeft(LAMBDA c, p : c + p.cnt, 0, g)

(* Fault: the count-of-counts are collected only for pairs written out. *)
OutputPhrasePair_CocAfterFilter(st, g, total, distinct) ==
  LET count == GroupCount(g)
      best  == FindBestAlignment(g)
  IN IF Hierarchical /\ count < MinCount /\ g[1].src \in NtSources THEN st
     ELSE [out |-> Append(st.out, [src |-> g[1].src, tgt |-> g[1].tgt, al |-> best.al,
                                    total |-> total, count |-> count, distinct |-> distinct]),
           coc |-> IF CountOfCounts /\ count <= CocMax THEN [st.coc EXCEPT ![count] = @ + 1] ELSE st.coc,
           td  |-> IF CountOfCounts THEN st.td + 1 ELSE st.td]

(* outputPhrasePair: count the group, collect the count-of-counts, then  *)
(* skip a hierarchical rule with a non-terminal in its source below the  *)
(* minimum count; else write source, target, the best alignment, the    *)
(* source total, the count and the number of groups of the source.      *)
OutputPhrasePair(st, g, total, distinct) ==
  LET count == GroupCount(g)
      best  == FindBestAlignment(g)
      st2   == IF ~CountOfCounts THEN st
               ELSE [st EXCEPT !.td = @ + 1,
                               !.coc = IF count <= CocMax THEN [@ EXCEPT ![count] = @ + 1] ELSE @]
  IN IF Hierarchical /\ count < MinCount /\ g[1].src \in NtSources THEN st2
     ELSE [st2 EXCEPT !.out = Append(@, [src |-> g[1].src, tgt |-> g[1].tgt, al |-> best.al,
                                          total |-> total, count |-> count, distinct |-> distinct])]

(* processPhrasePairs: nothing for an empty batch; else total the counts, *)
(* group the pairs, and output every group in the order it was created.  *)
ProcessPhrasePairs(b) ==
  LET st     == [out |-> out, coc |-> coc, td |-> totalDistinct]
      groups == FoldLeft(Insert, <<>>, b)
      total  == GroupCount(b)
  IN FoldLeft(LAMBDA s, g : OutputPhrasePair(s, g, total, Len(groups)), st, groups)

Written(st) == out' = st.out /\ coc' = st.coc /\ totalDistinct' = st.td

(* Before the loop: countOfCounts zeroed when a discount needs them. *)
Init ==
  /\ input \in Inputs
  /\ pos = 0
  /\ lastLine = NoLine
  /\ lastCount = 0
  /\ batch = <<>>
  /\ lastIdx = 0
  /\ out = <<>>
  /\ coc = [k \in 1 .. CocMax |-> 0]
  /\ totalDistinct = 0
  /\ done = FALSE

NextLine == input[pos + 1]

(* A line identical to the last: add lastCount to the last pair. *)
ReadIdentical ==
  /\ pos < Len(input)
  /\ NextLine = lastLine
  /\ batch' = [batch EXCEPT ![lastIdx].cnt = @ + lastCount]
  /\ pos' = pos + 1
  /\ UNCHANGED <<input, lastLine, lastCount, lastIdx, out, coc, totalDistinct, done>>

(* Fault: lastCount is kept from the last pair that started a new entry. *)
NewLastCount_OnlyOnPush(line) == IF lastIdx # 0 /\ Equals(batch[lastIdx], line) THEN lastCount ELSE line.cnt

(* lastCount = phrasePair.count, for every line that is not identical. *)
NewLastCount(line) == line.cnt

(* A new line of the same pair with another count: add its count. *)
ReadCountOnly ==
  /\ pos < Len(input)
  /\ NextLine # lastLine
  /\ lastIdx # 0 /\ Equals(batch[lastIdx], NextLine)
  /\ batch' = [batch EXCEPT ![lastIdx].cnt = @ + NextLine.cnt]
  /\ lastLine' = NextLine
  /\ lastCount' = NewLastCount(NextLine)
  /\ pos' = pos + 1
  /\ UNCHANGED <<input, lastIdx, out, coc, totalDistinct, done>>

(* Fault: the batch is written but not cleared when the source changes. *)
ClearBatch_Kept(b) == b

ClearBatch(b) == <<>>

(* A pair of a new source: write the batch, clear it, start it anew. *)
ReadNewSource ==
  /\ pos < Len(input)
  /\ NextLine # lastLine
  /\ lastIdx # 0 /\ ~Equals(batch[lastIdx], NextLine)
  /\ batch[lastIdx].src # NextLine.src
  /\ Written(ProcessPhrasePairs(batch))
  /\ batch' = Append(ClearBatch(batch), NextLine)
  /\ lastIdx' = Len(batch')
  /\ lastLine' = NextLine
  /\ lastCount' = NewLastCount(NextLine)
  /\ pos' = pos + 1
  /\ UNCHANGED <<input, done>>

(* Another pair of the same source, or the first line: append it. *)
ReadSameSource ==
  /\ pos < Len(input)
  /\ NextLine # lastLine
  /\ lastIdx # 0 => ~Equals(batch[lastIdx], NextLine) /\ batch[lastIdx].src = NextLine.src
  /\ batch' = Append(batch, NextLine)
  /\ lastIdx' = Len(batch) + 1
  /\ lastLine' = NextLine
  /\ lastCount' = NewLastCount(NextLine)
  /\ pos' = pos + 1
  /\ UNCHANGED <<input, out, coc, totalDistinct, done>>

(* End of file: write the last batch (writeCountOfCounts then writes    *)
(* totalDistinct and countOfCounts as they are).                         *)
EndOfFile ==
  /\ pos = Len(input)
  /\ ~done
  /\ Written(ProcessPhrasePairs(batch))
  /\ done' = TRUE
  /\ UNCHANGED <<input, pos, lastLine, lastCount, batch, lastIdx>>

Next == ReadIdentical \/ ReadCountOnly \/ ReadNewSource \/ ReadSameSource \/ EndOfFile

Spec == Init /\ [][Next]_vars

-----------------------------------------------------------------------------
(* Reference definitions over the whole extract file: the lines of a    *)
(* source, its groups, their counts and the best alignment, the one of  *)
(* largest total count that occurs first.                                *)
LinesOf(s)      == {i \in DOMAIN input : input[i].src = s}
KeysOf(s)       == {GroupKey(input[i]) : i \in LinesOf(s)}
Groups          == UNION {{<<s, k>> : k \in KeysOf(s)} : s \in {input[i].src : i \in DOMAIN input}}
LinesIn(g)      == {i \in LinesOf(g[1]) : GroupKey(input[i]) = g[2]}
SumOver(I)      == MapThenSumSet(LAMBDA i : input[i].cnt, I)
CountIn(g)      == SumOver(LinesIn(g))
AlCount(g, a)   == SumOver({i \in LinesIn(g) : input[i].al = a})
FirstAt(g, a)   == Min({i \in LinesIn(g) : input[i].al = a})
BestAl(g) ==
  LET as   == {input[i].al : i \in LinesIn(g)}
      top  == Max({AlCount(g, a) : a \in as})
      tied == {a \in as : AlCount(g, a) = top}
  IN CHOOSE a \in tied : \A b \in tied : FirstAt(g, a) <= FirstAt(g, b)
Dropped(g) == Hierarchical /\ CountIn(g) < MinCount /\ g[1] \in NtSources
Expected ==
  {[src |-> g[1], tgt |-> g[2][1], al |-> BestAl(g), total |-> SumOver(LinesOf(g[1])),
    count |-> CountIn(g), distinct |-> Cardinality(KeysOf(g[1]))] : g \in {h \in Groups : ~Dropped(h)}}

(* The batch only ever holds pairs of one source, and pairs are only    *)
(* added by reading lines.                                                *)
TypeOK ==
  /\ pos \in 0 .. Len(input)
  /\ lastIdx \in 0 .. Len(batch)
  /\ Len(batch) <= pos
  /\ \A i, j \in DOMAIN batch : batch[i].src = batch[j].src
  /\ coc \in [1 .. CocMax -> Nat]
  /\ totalDistinct \in Nat

(* Once the file is read, the phrase table has exactly one line per      *)
(* (source, target, non-terminal alignment) group that the hierarchical  *)
(* filter keeps, with the counts summed over every line of the group     *)
(* (identical lines and lines differing only in count included), the     *)
(* source total, the number of groups of the source, and the alignment   *)
(* of the largest count that came first; the lines of one source are     *)
(* contiguous, as the consolidation of the two tables expects.           *)
PhraseTableMatchesExtract ==
  done =>
    /\ Range(out) = Expected
    /\ Len(out) = Cardinality(Expected)
    /\ \A i, j, k \in DOMAIN out : i < j /\ j < k /\ out[i].src = out[k].src => out[j].src = out[i].src

(* Once the file is read, totalDistinct counts every group, and          *)
(* countOfCounts[c] the groups of count c, the groups the hierarchical   *)
(* filter leaves out of the table included: outputPhrasePair collects    *)
(* the statistics before it filters.                                      *)
CountOfCountsCorrect ==
  done /\ CountOfCounts =>
    /\ totalDistinct = Cardinality(Groups)
    /\ \A c \in 1 .. CocMax : coc[c] = Cardinality({g \in Groups : CountIn(g) = c})


=============================================================================
