-------------------- MODULE ChartRuleLookupManagerMinSpan --------------------
(***************************************************************************)
(* The CYK+ rule lookup of ChartRuleLookupManagerMinSpan: per start        *)
(* position a DottedRuleColl holding the dotted rules (partial rule        *)
(* matches) found so far, extended by one terminal or one non-terminal     *)
(* each time a range with that start is looked up, and the completed       *)
(* rules of the range filtered by the minimum span and the clause          *)
(* boundaries before they are added to the range's translation options.   *)
(*                                                                         *)
(* A dotted rule is a record: node, the trie node reached (its key path),  *)
(* and spans, the range <<first, last>> covered by each matched symbol.    *)
(* The root dotted rule has empty node and spans.                          *)
(***************************************************************************)
EXTENDS Integers, Sequences, FiniteSets, SequencesExt, RuleTrie, ClauseBoundaries

CONSTANTS
  N,                 \* source sentence length, src.GetSize()
  MinSpan,           \* minSpan argument of GetChartRuleCollection
  RuleLimit,         \* StaticData::GetRuleLimit()
  SourceLabelSet(_, _) \* GetSentence().GetLabelSet(startPos, endPos)

ASSUME N \in Nat \ {0} /\ MinSpan \in Nat /\ RuleLimit \in Nat \ {0}

VARIABLES
  sentence,        \* the words of the source sentence, 1-indexed
  grammar,         \* the loaded rule table (immutable)
  clauseMode,      \* GetParam("clause-bounds").size() == 1
  clauseBounds,    \* m_clauseBounds: the clause vectors of the sentence
  cellLabels,      \* target label set of every chart cell, by range
  transOpts,       \* the ChartTranslationOptionList of every range
  dottedRuleColls  \* m_dottedRuleColls, by start position

Root == [node |-> <<>>, spans |-> <<>>]
IsRoot(dr) == dr.spans = <<>>
EndPos(dr) == dr.spans[Len(dr.spans)][2]

(* new DottedRuleInMemory(child, cellLabel, prevDottedRule) *)
NewDottedRule(prev, sym, first, last) ==
  [node |-> Append(prev.node, sym), spans |-> Append(prev.spans, <<first, last>>)]

(* DottedRuleColl::Add(pos, dottedRule): stored at pos and appended to the *)
(* list of expandable dotted rules of the start position.                  *)
Add(drc, pos, dr) ==
  [drc EXCEPT !.coll[pos] = Append(@, dr), !.exp = Append(@, dr)]

RECURSIVE AddAll(_, _, _)
AddAll(drc, pos, S) ==
  IF S = {} THEN drc
  ELSE LET dr == CHOOSE x \in S : TRUE
       IN AddAll(Add(drc, pos, dr), pos, S \ {dr})

(* Constructor: one DottedRuleColl of size sourceSize - ind + 1 per start *)
(* position, holding the root dotted rule at position 0.                  *)
InitDottedRuleColls ==
  [ind \in 0 .. N - 1 |->
     [exp |-> <<Root>>,
      coll |-> [p \in 0 .. N - ind |-> IF p = 0 THEN <<Root>> ELSE <<>>]]]

(* Fault: the child is created under the label pair in swapped order.  *)
ExtendPartialRuleApplication_SwappedKey(prev, startPos, endPos, stackInd, drc) ==
  LET sourceNonTerms == SourceLabelSet(startPos, endPos)
      targetNonTerms == cellLabels[<<startPos, endPos>>]
      nonTermMap == NonTerminalMap(grammar, prev.node)
      keys == { k \in sourceNonTerms \X targetNonTerms : k \in nonTermMap }
  IN IF nonTermMap = {} THEN drc
     ELSE AddAll(drc, stackInd,
                 { NewDottedRule(prev, NonTerm(k[2], k[1]), startPos, endPos) : k \in keys })

(* Fault: the children branch takes the child of the label pair in      *)
(* swapped order; the product branch is right.                            *)
ExtendPartialRuleApplication_ChildrenSwapped(prev, startPos, endPos, stackInd, drc) ==
  LET sourceNonTerms == SourceLabelSet(startPos, endPos)
      targetNonTerms == cellLabels[<<startPos, endPos>>]
      nonTermMap == NonTerminalMap(grammar, prev.node)
      children == Cardinality(sourceNonTerms) * Cardinality(targetNonTerms)
                    > Cardinality(nonTermMap) * 2
      keys == { k \in nonTermMap : k[1] \in sourceNonTerms /\ k[2] \in targetNonTerms }
  IN IF nonTermMap = {} THEN drc
     ELSE AddAll(drc, stackInd,
                 { NewDottedRule(prev, IF children THEN NonTerm(k[2], k[1])
                                       ELSE NonTerm(k[1], k[2]), startPos, endPos) : k \in keys })

(* ExtendPartialRuleApplication: extend prev by one non-terminal covering *)
(* startPos..endPos, searching either the label-pair product or the       *)
(* node's non-terminal children, whichever needs fewer lookups.            *)
ExtendPartialRuleApplication(prev, startPos, endPos, stackInd, drc) ==
  LET sourceNonTerms == SourceLabelSet(startPos, endPos)
      targetNonTerms == cellLabels[<<startPos, endPos>>]
      nonTermMap == NonTerminalMap(grammar, prev.node)
      numCombinations == Cardinality(sourceNonTerms) * Cardinality(targetNonTerms)
      keys == IF numCombinations <= Cardinality(nonTermMap) * 2
              THEN { k \in sourceNonTerms \X targetNonTerms : k \in nonTermMap }
              ELSE { k \in nonTermMap : k[1] \in sourceNonTerms /\ k[2] \in targetNonTerms }
  IN IF nonTermMap = {} THEN drc
     ELSE AddAll(drc, stackInd,
                 { NewDottedRule(prev, NonTerm(k[1], k[2]), startPos, endPos) : k \in keys })

(* Fault: no two-step treatment at the root, so the first non-terminal   *)
(* of a rule is sought over the whole range.                               *)
ExtendDottedRule_NoRootSplit(drc, prev, start, absEndPos) ==
  LET relEndPos == absEndPos - start
      startPos == IF IsRoot(prev) THEN start ELSE EndPos(prev) + 1
      word == Term(sentence[absEndPos + 1])
      drc1 == IF startPos = absEndPos /\ HasChild(grammar, prev.node, word)
              THEN Add(drc, relEndPos + 1,
                       NewDottedRule(prev, word, absEndPos, absEndPos))
              ELSE drc
  IN IF startPos > absEndPos THEN drc1
     ELSE ExtendPartialRuleApplication(prev, startPos, absEndPos, relEndPos + 1, drc1)

(* Fault: a word is matched as a terminal without checking that the      *)
(* previous symbols end just before it.                                   *)
ExtendDottedRule_AnyTerminal(drc, prev, start, absEndPos) ==
  LET relEndPos == absEndPos - start
      startPos == IF IsRoot(prev) THEN start ELSE EndPos(prev) + 1
      word == Term(sentence[absEndPos + 1])
      drc1 == IF startPos <= absEndPos /\ HasChild(grammar, prev.node, word)
              THEN Add(drc, relEndPos + 1,
                       NewDottedRule(prev, word, absEndPos, absEndPos))
              ELSE drc
  IN CASE startPos > absEndPos -> drc1
       [] startPos = start /\ absEndPos > start ->
            ExtendPartialRuleApplication(prev, startPos, absEndPos - 1, relEndPos, drc1)
       [] OTHER ->
            ExtendPartialRuleApplication(prev, startPos, absEndPos, relEndPos + 1, drc1)

(* One iteration of the main loop for the range start..absEndPos.         *)
ExtendDottedRule(drc, prev, start, absEndPos) ==
  LET relEndPos == absEndPos - start
      startPos == IF IsRoot(prev) THEN start ELSE EndPos(prev) + 1
      word == Term(sentence[absEndPos + 1])
      drc1 == IF startPos = absEndPos /\ HasChild(grammar, prev.node, word)
              THEN Add(drc, relEndPos + 1,
                       NewDottedRule(prev, word, absEndPos, absEndPos))
              ELSE drc
  IN CASE startPos > absEndPos -> drc1
       [] startPos = start /\ absEndPos > start ->
            ExtendPartialRuleApplication(prev, startPos, absEndPos - 1, relEndPos, drc1)
       [] OTHER ->
            ExtendPartialRuleApplication(prev, startPos, absEndPos, relEndPos + 1, drc1)

(* The loop over the expandable list, which grows while it runs.          *)
RECURSIVE ExtendLoop(_, _, _, _)
ExtendLoop(drc, ind, start, absEndPos) ==
  IF ind > Len(drc.exp) THEN drc
  ELSE ExtendLoop(ExtendDottedRule(drc, drc.exp[ind], start, absEndPos),
                  ind + 1, start, absEndPos)

(* Fault: the min-span test dropped outside clause mode. *)
CompletionCount_NoMinSpan(dr, startOfFirst) ==
  LET hasTpc == TargetPhraseCollection(grammar, dr.node) # {}
      end == EndPos(dr)
      span == end - startOfFirst + 1
  IN IF clauseMode
     THEN ClauseAddCount(clauseBounds, startOfFirst, end, hasTpc /\ span > MinSpan)
     ELSE IF hasTpc THEN 1 ELSE 0

(* How many times AddCompletedRule is called for a dotted rule that       *)
(* covers the whole range.                                                *)
CompletionCount(dr, startOfFirst) ==
  LET hasTpc == TargetPhraseCollection(grammar, dr.node) # {}
      end == EndPos(dr)
      span == end - startOfFirst + 1
  IN IF clauseMode
     THEN ClauseAddCount(clauseBounds, startOfFirst, end, hasTpc /\ span > MinSpan)
     ELSE IF span > MinSpan /\ hasTpc THEN 1 ELSE 0

(* A translation option: the rule node and the child ranges it binds.     *)
Option(dr) == [node |-> dr.node, spans |-> dr.spans]

RECURSIVE Repeat(_, _)
Repeat(x, k) == IF k = 0 THEN <<>> ELSE <<x>> \o Repeat(x, k - 1)

(* The completion loop over the dotted rules covering the whole range,    *)
(* in the order they were added.                                          *)
RECURSIVE AddCompletedRules(_, _)
AddCompletedRules(rules, startOfFirst) ==
  IF rules = <<>> THEN <<>>
  ELSE Repeat(Option(Head(rules)), CompletionCount(Head(rules), startOfFirst))
         \o AddCompletedRules(Tail(rules), startOfFirst)

(* Fault: nth_element bound off by one, one option too few kept. *)
ShrinkToLimit_OffByOne(list) ==
  IF Len(list) <= RuleLimit THEN {list}
  ELSE { [i \in 1 .. RuleLimit - 1 |-> list[SetToSortSeq(K, <)[i]]] :
           K \in kSubset(RuleLimit - 1, 1 .. Len(list)) }

(* ChartTranslationOptionList::ShrinkToLimit keeps the RuleLimit options  *)
(* with the best estimated score (nth_element).  Scores are abstracted,   *)
(* so any RuleLimit of them may be the ones kept.                         *)
ShrinkToLimit(list) ==
  IF Len(list) <= RuleLimit THEN {list}
  ELSE { [i \in 1 .. RuleLimit |-> list[SetToSortSeq(K, <)[i]]] :
           K \in kSubset(RuleLimit, 1 .. Len(list)) }

(* GetChartRuleCollection(range, outColl, minSpan) for start..absEndPos.   *)
GetChartRuleCollection(start, absEndPos) ==
  LET drc == ExtendLoop(dottedRuleColls[start], 1, start, absEndPos)
      found == AddCompletedRules(drc.coll[absEndPos - start + 1], start)
  IN /\ dottedRuleColls' = [dottedRuleColls EXCEPT ![start] = drc]
     /\ \E kept \in ShrinkToLimit(found) :
          transOpts' = [transOpts EXCEPT ![<<start, absEndPos>>] = kept]

=============================================================================
