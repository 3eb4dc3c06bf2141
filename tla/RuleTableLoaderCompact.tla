------------------------- MODULE RuleTableLoaderCompact -------------------------
(***************************************************************************)
(* RuleTableLoaderCompact::Load for a PhraseDictionaryMinSpan, read line  *)
(* by line through LineReader: the version line, then five sections, each *)
(* a count line and that many lines (vocabulary, source phrases, target   *)
(* phrases, alignment sets, rules).  Each rule is inserted into the trie  *)
(* by PhraseDictionaryMinSpan::GetOrCreateNode; finally SortAndPrune.     *)
(*                                                                         *)
(* The input is a record file of what the table holds, and text, its     *)
(* compact rendering (Render, below); the loader reads only text.         *)
(*   version     the version line is "1"                                   *)
(*   vocabCount  the count line of the vocabulary                          *)
(*   vocab       symbols [lb, rb, name]: bracketed on the left, the right  *)
(*   srcs,tgts   phrases [lhs, rhs]: 0-based vocabulary ids                 *)
(*   aligns      alignment sets: sets of <<source, target>> points          *)
(*   ruleCount   the count line of the rule section                        *)
(*   rules       rules [src, tgt, align, scores, score]: phrase and        *)
(*               alignment-set ids, the number of score columns before    *)
(*               the ':' column, and the value written in each of them     *)
(*   eol         the last line ends with a newline                         *)
(* The trie is a function from the key path of every node that holds a    *)
(* target phrase collection to that collection.  Reads the code makes     *)
(* past the end of a vector (a token, a phrase, a vocabulary id) are       *)
(* undefined; the model stops there with pc = "aborted".                   *)
(***************************************************************************)
EXTENDS Integers, Sequences, FiniteSets, SequencesExt, Functions, RuleTrie,
        CompactTableText, CompactTable

CONSTANTS
  Files,       \* the tables Load may be given
  NDEBUG       \* the build compiles assert() away

ASSUME NDEBUG \in BOOLEAN

VARIABLES
  file,          \* the table whose rendering is inStream
  text,          \* what inStream holds: Render(file), fixed
  pc,            \* the section Load is in, or how Load ended
  pos,           \* reader.m_lineNum: lines read
  line,          \* reader.m_line
  count,         \* the count read from the section's count line, -1 before
  i,             \* the section's lines read so far
  vocab,         \* std::vector<Word> vocab
  sourcePhrases, \* sourcePhrases with sourceLhsIds: [lhs id, rhs words]
  targetPhrases, \* targetPhrases with targetLhsIds: [lhs id, rhs words]
  alignmentSets, \* alignmentSets
  table          \* the trie's target phrase collections, by node key path

vars == <<file, text, pc, pos, line, count, i, vocab, sourcePhrases, targetPhrases,
          alignmentSets, table>>

Returned == {"true", "false", "aborted"}
Sections == <<"vocab", "srcs", "tgts", "aligns", "rules">>

Labels == { v.label : v \in Range(vocab) }

(* An AlignmentInfo is a std::set of points, iterated in pair order.      *)
PairLess(a, b) == a[1] < b[1] \/ (a[1] = b[1] /\ a[2] < b[2])
AlignSeq(s) == SetToSortSeq(s, PairLess)

(* iterAlign at the m-th non-terminal of the source: the m-th point.      *)
NTIndex(src, p) == Cardinality({ q \in 1 .. p : src[q].nt })

(* Fault: the asserts compare the point's target index with the source   *)
(* position of the non-terminal.                                           *)
AssertsHold_TargetSide(src, al) ==
  \A p \in DOMAIN src : src[p].nt =>
    NTIndex(src, p) <= Len(al) /\ al[NTIndex(src, p)][2] = p - 1

(* The asserts of lines 93 and 100: a point is left for the non-terminal  *)
(* and its source index is the non-terminal's position.                   *)
AssertsHold(src, al) ==
  \A p \in DOMAIN src : src[p].nt =>
    NTIndex(src, p) <= Len(al) /\ al[NTIndex(src, p)][1] = p - 1

(* The target word the child is keyed by.  Without a point, or with a     *)
(* target index past the phrase, the read is undefined: any label.        *)
TargetLabels(tgt, al, m) ==
  IF m <= Len(al) /\ al[m][2] < Len(tgt) THEN {tgt[al[m][2] + 1].label}
  ELSE Labels

(* Fault: iterAlign is never advanced, every non-terminal reads point 1. *)
GetOrCreateNode_NoAdvance(src, tgt, al) ==
  { [p \in DOMAIN src |-> IF src[p].nt THEN NonTerm(src[p].label, f[p])
                         ELSE Term(src[p].label)] :
      f \in { g \in [DOMAIN src -> Labels] :
                \A p \in DOMAIN src : src[p].nt => g[p] \in TargetLabels(tgt, al, 1) } }

(* GetOrCreateNode: the key paths the walk from the root can take.        *)
GetOrCreateNode(src, tgt, al) ==
  { [p \in DOMAIN src |-> IF src[p].nt THEN NonTerm(src[p].label, f[p])
                         ELSE Term(src[p].label)] :
      f \in { g \in [DOMAIN src -> Labels] :
                \A p \in DOMAIN src :
                  src[p].nt => g[p] \in TargetLabels(tgt, al, NTIndex(src, p)) } }

(* GetOrCreateTargetPhraseCollection(...).Add(targetPhrase) *)
AddTargetPhrase(t, key, tp) ==
  IF key \in DOMAIN t THEN [t EXCEPT ![key] = Append(@, tp)]
  ELSE (key :> <<tp>>) @@ t

(* TargetPhraseCollection::NthElement(tableLimit), via SortAndPrune: the   *)
(* tableLimit best-scoring phrases are kept, ties broken either way.      *)
Pruned(s) ==
  IF TableLimit = 0 \/ Len(s) <= TableLimit THEN {s}
  ELSE { [k \in 1 .. TableLimit |-> s[SetToSortSeq(K, <)[k]]] :
           K \in { K \in kSubset(TableLimit, DOMAIN s) :
                     \A a \in K, b \in DOMAIN s \ K : s[a].score >= s[b].score } }

SortAndPrune(t) ==
  { f \in [DOMAIN t -> UNION { Pruned(t[k]) : k \in DOMAIN t }] :
      \A k \in DOMAIN t : f[k] \in Pruned(t[k]) }

(* The compact format as the loader reads it: no writer is in this tree,  *)
(* so this is the reference rendering of a table.                         *)
RECURSIVE Decimal(_)
Decimal(n) == IF n < 10 THEN <<Digits[n + 1]>>
              ELSE Decimal(n \div 10) \o <<Digits[(n % 10) + 1]>>

Join(ts) == IF ts = <<>> THEN <<>>
            ELSE FoldLeft(LAMBDA a, b : a \o <<" ">> \o b, Head(ts), Tail(ts))

SymbolLine(v) == (IF v.lb THEN <<"[">> ELSE <<>>) \o v.name \o (IF v.rb THEN <<"]">> ELSE <<>>)
PhraseLine(p) == Join(<<Decimal(p.lhs)>> \o [k \in DOMAIN p.rhs |-> Decimal(p.rhs[k])])
AlignLine(a) == LET s == AlignSeq(a)
                IN Join([k \in DOMAIN s |-> Decimal(s[k][1]) \o <<"-">> \o Decimal(s[k][2])])
RuleLine(r) ==
  Join(<<Decimal(r.src), Decimal(r.tgt), Decimal(r.align)>>
       \o [k \in 1 .. r.scores |-> Decimal(r.score)] \o <<<<":">>, <<"1">>>>)

Section(n, s, L(_)) == <<Decimal(n)>> \o [k \in DOMAIN s |-> L(s[k])]

Render(f) ==
  [lines |-> << IF f.version THEN <<"1">> ELSE <<"2">> >>
             \o Section(f.vocabCount, f.vocab, SymbolLine)
             \o Section(Len(f.srcs), f.srcs, PhraseLine)
             \o Section(Len(f.tgts), f.tgts, PhraseLine)
             \o Section(Len(f.aligns), f.aligns, AlignLine)
             \o Section(f.ruleCount, f.rules, RuleLine),
   eol |-> f.eol]

Text == text

(* LineReader::ReadLine: std::getline into m_line.  Past the last line     *)
(* the stream fails: m_line is emptied by the first failing read after a  *)
(* final newline, and left as it was when the last line had none.         *)
ReadLine ==
  IF pos < Len(Text.lines) THEN Text.lines[pos + 1]
  ELSE IF Text.eol THEN <<>> ELSE line

(* The symbol of a vocabulary line: m_line[0] == '[' && m_line[len-1] == *)
(* ']' makes a non-terminal, named by substr(1, len-2).                   *)
IsNonTerm(l) == Len(l) >= 1 /\ l[1] = "[" /\ l[Len(l)] = "]"
SymbolOf(l) == IF IsNonTerm(l) THEN SubSeq(l, 2, Len(l) - 1) ELSE l

Init ==
  /\ file \in Files
  /\ text = Render(file)
  /\ pc = "version"
  /\ pos = 0 /\ line = <<>> /\ count = -1 /\ i = 0
  /\ vocab = <<>> /\ sourcePhrases = <<>> /\ targetPhrases = <<>>
  /\ alignmentSets = <<>>
  /\ table = <<>>

Read(l) == line' = l /\ pos' = pos + 1

(* Read the version line: anything but "1" returns false. *)
ReadVersion ==
  /\ pc = "version"
  /\ Read(ReadLine)
  /\ pc' = IF ReadLine = <<"1">> THEN "vocab" ELSE "false"
  /\ UNCHANGED <<file, text, count, i, vocab, sourcePhrases, targetPhrases,
                 alignmentSets, table>>

(* The count line of a section, read with atoi. *)
ReadCount ==
  /\ pc \in Range(Sections)
  /\ count = -1
  /\ Read(ReadLine)
  /\ count' = AtoiAt(ReadLine, 0)
  /\ i' = 0
  /\ UNCHANGED <<file, text, pc, vocab, sourcePhrases, targetPhrases, alignmentSets, table>>

(* The loop of a section (but the rule section) is done. *)
EndSection ==
  /\ pc \in Range(Sections) \ {"rules"}
  /\ count # -1 /\ i = count
  /\ pc' = Sections[(CHOOSE k \in 1 .. 4 : Sections[k] = pc) + 1]
  /\ count' = -1
  /\ UNCHANGED <<file, text, pos, line, i, vocab, sourcePhrases, targetPhrases,
                 alignmentSets, table>>

SectionLine(s) == pc = s /\ count # -1 /\ i < count /\ i' = i + 1

(* LoadVocabularySection, one symbol line: m_line is cut to the name of a *)
(* non-terminal, then the Word is created from it.                        *)
LoadVocabularyLine ==
  LET l == ReadLine IN
  /\ SectionLine("vocab")
  /\ Read(SymbolOf(l))
  /\ vocab' = Append(vocab, [nt |-> IsNonTerm(l), label |-> SymbolOf(l)])
  /\ UNCHANGED <<file, text, pc, count, sourcePhrases, targetPhrases, alignmentSets, table>>

(* LoadPhraseSection, one phrase line: the first token is the lhs id, the *)
(* others index the vocabulary.  The source and the target phrases are   *)
(* read by the same function.                                             *)
LoadPhraseLine ==
  LET l == ReadLine
      tok == FindTokens(l)
      ids == [k \in DOMAIN tok |-> AtoiAt(l, tok[k])]
      phrase == [lhs |-> ids[1],
                 rhs |-> [k \in 1 .. Len(ids) - 1 |-> vocab[ids[k + 1] + 1]]]
  IN
  /\ \E s \in {"srcs", "tgts"} : SectionLine(s)
  /\ Read(l)
  /\ IF tok = <<>> \/ \E k \in 2 .. Len(ids) : ids[k] \notin 0 .. Len(vocab) - 1
     THEN pc' = "aborted" /\ UNCHANGED <<sourcePhrases, targetPhrases>>
     ELSE /\ sourcePhrases' = IF pc = "srcs" THEN Append(sourcePhrases, phrase) ELSE sourcePhrases
          /\ targetPhrases' = IF pc = "tgts" THEN Append(targetPhrases, phrase) ELSE targetPhrases
          /\ UNCHANGED pc
  /\ UNCHANGED <<file, text, count, vocab, alignmentSets, table>>

(* LoadAlignmentSection, one line: Tokenize at blanks, each token         *)
(* Tokenize<size_t> at '-', the pair (points[0], points[1]) inserted into *)
(* the set, and the set interned by AlignmentInfoCollection::Add.         *)
LoadAlignmentLine ==
  LET l == ReadLine
      pts == [k \in DOMAIN Tokenize(l, {" "}) |-> Tokenize(Tokenize(l, {" "})[k], {"-"})]
  IN
  /\ SectionLine("aligns")
  /\ Read(l)
  /\ IF \E k \in DOMAIN pts : Len(pts[k]) < 2
     THEN pc' = "aborted" /\ UNCHANGED alignmentSets
     ELSE /\ alignmentSets' = Append(alignmentSets,
                AlignSeq({ <<AtoiAt(pts[k][1], 0), AtoiAt(pts[k][2], 0)>> : k \in DOMAIN pts }))
          /\ UNCHANGED pc
  /\ UNCHANGED <<file, text, count, vocab, sourcePhrases, targetPhrases, table>>

(* LoadRuleSection, one rule line: three ids, NumScores score columns,   *)
(* the ':' check, then the target phrase is created and inserted.  The    *)
(* score of every column is the same in the tables checked, so the first *)
(* column orders the phrases as SetScoreChart's weighted sum does.        *)
LoadRule ==
  LET l == ReadLine
      tok == FindTokens(l)
      id(k) == AtoiAt(l, tok[k])
  IN
  /\ SectionLine("rules")
  /\ Read(l)
  /\ IF \/ Len(tok) < 4 + NumScores
        \/ id(1) \notin 0 .. Len(sourcePhrases) - 1
        \/ id(2) \notin 0 .. Len(targetPhrases) - 1
        \/ id(3) \notin 0 .. Len(alignmentSets) - 1
        \/ targetPhrases[id(2) + 1].lhs \notin 0 .. Len(vocab) - 1
     THEN pc' = "aborted" /\ UNCHANGED table
     ELSE LET src == sourcePhrases[id(1) + 1].rhs
              tgt == targetPhrases[id(2) + 1]
              al == alignmentSets[id(3) + 1]
          IN IF l[tok[4 + NumScores] + 1] # ":" THEN pc' = "false" /\ UNCHANGED table
             ELSE IF ~NDEBUG /\ ~AssertsHold(src, al)
             THEN pc' = "aborted" /\ UNCHANGED table
             ELSE /\ \E key \in GetOrCreateNode(src, tgt.rhs, al) :
                       table' = AddTargetPhrase(table, key,
                                  [lhs |-> vocab[tgt.lhs + 1].label, rule |-> i + 1,
                                   score |-> id(4)])
                  /\ UNCHANGED pc
  /\ UNCHANGED <<file, text, count, vocab, sourcePhrases, targetPhrases, alignmentSets>>

(* The rule loop is done: SortAndPrune and return true. *)
FinishLoad ==
  /\ pc = "rules"
  /\ count # -1 /\ i = count
  /\ \E t \in SortAndPrune(table) : table' = t
  /\ pc' = "true"
  /\ UNCHANGED <<file, text, pos, line, count, i, vocab, sourcePhrases, targetPhrases,
                 alignmentSets>>

Next ==
  \/ ReadVersion
  \/ ReadCount
  \/ LoadVocabularyLine
  \/ LoadPhraseLine
  \/ LoadAlignmentLine
  \/ EndSection
  \/ LoadRule
  \/ FinishLoad

Spec == Init /\ [][Next]_vars /\ WF_vars(Next)

-----------------------------------------------------------------------------
(* Round trip (after Load returns true): the collection at each node holds *)
(* the target phrases of exactly the rule lines whose source pattern and  *)
(* alignment lead there, each once, cut to the tableLimit best.  Breaking *)
(* it takes the alignment iterator, the node walk and the prune together. *)
LoadRoundTrip ==
  pc = "true" =>
    \A key \in DOMAIN table \cup RefKeys(file) :
      LET ins == RulesAt(file, key)
          c == IF key \in DOMAIN table THEN table[key] ELSE <<>>
          kept == { c[x].rule : x \in DOMAIN c }
      IN /\ Len(c) = Cardinality(kept)
         /\ kept \subseteq ins
         /\ Len(c) = IF TableLimit = 0 THEN Cardinality(ins)
                     ELSE Min({TableLimit, Cardinality(ins)})
         /\ \A x \in DOMAIN c, k \in ins \ kept : c[x].score >= file.rules[k].score

(* Load reports success only for a well-formed table (spec 7): a section *)
(* count that disagrees with the section's lines, a score vector of the  *)
(* wrong length, or an alignment that does not pair the non-terminals, is *)
(* a load error.                                                          *)
AcceptsOnlyWellFormed == pc = "true" => WellFormed(file)

(* The loader implements what its contract (CompactLoadSpec) says of the  *)
(* result: Load returns true only for a well-formed table, and then the  *)
(* trie holds one of the table's reference tries; it returns false only  *)
(* for a table that is not well formed; it never aborts.  Beyond          *)
(* LoadRoundTrip this asks that a well-formed table is never rejected or *)
(* aborted on.  The partial trie left by a rejected table is no usable    *)
(* grammar, so it maps to none.                                           *)
Contract == INSTANCE CompactLoadSpec WITH
  status <- IF pc \in Returned THEN pc ELSE "loading",
  trie <- IF pc = "true" THEN [key \in DOMAIN table |-> Range(table[key])] ELSE <<>>

ImplementsCompactLoadSpec == Contract!SafeSpec

=============================================================================
