# TLA+ models of the min-span CYK+ chart decoder and its tools

This directory holds TLA+ models of this repository. The core is Moses' CYK+
rule lookup, extended with a minimum-span constraint and an optional
clause-boundary constraint, with the compact rule-table loader and the
clause-boundary reader that feed it. Beside the decoder, the tree has four
tools whose algorithms are modelled too: the LM trie builder's sorted-file
merge (`lm/trie_sort.cc`), the suffix array of the concordancer
(`scripts/ems/biconcor/SuffixArray.cpp`), the BLEU scorer of MERT
(`mert/BleuScorer.cpp`) and the phrase-table scorer of training
(`scripts/training/phrase-extract/score.cpp`). Each module is written from the C++ under `src/`. `PROJECT.json` maps every modelling definition to
the lines it translates, and lists the runs, mutants, findings and hazards.

## 1. The system

| Part | Source | State | Operations |
|---|---|---|---|
| Rule trie | `RuleTable/PhraseDictionaryMinSpan.cpp` | Prefix tree of rule source sides. A terminal child is keyed by the word. A non-terminal child is keyed by (source label, label of the aligned target non-terminal). A node where a rule ends has a target phrase collection. | `GetOrCreateNode`, `GetOrCreateTargetPhraseCollection`, `SortAndPrune`; read-only after loading |
| Dotted-rule store | `CYKPlusParser/ChartRuleLookupManagerMinSpan.cpp` | One `DottedRuleColl` per start position. It holds the list of expandable dotted rules, which only grows, and a list per relative end position. | constructor, `Add`, `Clear` |
| Rule lookup | same file | reads the trie, the sentence's source labels, and the target labels of chart cells that are already filled | `GetChartRuleCollection(range, outColl, minSpan)`, `ExtendPartialRuleApplication` |
| Clause boundaries | `ClauseBoundaries.cpp`, lookup lines 198-248 | a list of `<b1, b2>` integer pairs per sentence | `ReadClauseBoundaries`, `TokenizeMyString`, the filter loop |
| Translation option list | `ChartTranslationOptionList.h` | the options of one range | `Add`, `ShrinkToLimit`, `ApplyThreshold` |
| Hypothesis collection | `ChartHypothesisCollection.h` | hypotheses of one (range, label), kept in two orderings | `AddHypothesis`, `PruneToSize` |
| Chart manager | `ChartManager.h` | chart cells and translation options for every range | `ProcessSentence`: ranges by increasing width, then by start |
| Loaders | `RuleTable/LoaderCompact.cpp` | the sections of a compact rule table | `Load`, `LoadRuleSection` |
| LM trie sort | `lm/trie_sort.cc` | the deques of sorted n-gram and context files of one order | `ConvertToSorted`, `WriteContextFile`, `MergeSortedFiles` |
| Suffix array | `scripts/ems/biconcor/SuffixArray.cpp` | `m_size`, `m_array`, `m_index`, and the index file on disk | `Create`, `Sort`, `LimitedCount`, `FindFirst`, `FindLast`, `Save`, `Load` |
| BLEU scorer | `mert/BleuScorer.cpp` | `m_references`: per sentence the merged n-gram counts and the reference lengths | constructor, `setReferenceFiles`, `prepareStats` |
| Phrase-table scorer | `scripts/training/phrase-extract/score.cpp` | the extract loop's `lastLine`, `lastCount`, `lastPhrasePair`, the batch of one source, `countOfCounts`, `totalDistinct` | the loop of `main`, `processPhrasePairs`, `PhrasePairGroup::insert`, `findBestAlignment`, `outputPhrasePair` |

How the parts interact:

- The chart manager visits each range `[s, e]` once.
- For each range it asks the lookup for the range's options.
- The lookup extends the dotted rules of start `s` up to end `e`. It reads the
  target labels of narrower cells, so the fill order is what makes those
  labels available.
- The options build hypotheses. The hypotheses' left-hand sides become the
  range's target labels, which wider ranges then read.

Several things make this code hard to test:

- The expandable list grows while it is being iterated.
- A rule that starts with a non-terminal is matched in two steps at the root
  (lines 148-161).
- There are two search directions for non-terminal children, and which one
  runs depends on set sizes (line 321).
- The clause loop has a sticky `crosses` flag and adds the rule once per
  matching boundary.
- The rule limit cuts the option list (line 278).
- The min-span test sits at a width boundary (line 254).

## 2. Modules

- **`RuleTrie`**: the loaded trie as operators over the rule set.
  - A node is its key path.
  - `NonTerminalMap` gives the keys of the node's non-terminal children.
  - `TargetPhraseCollection` is the set of rules that end at a node; the
    empty set stands for NULL.
  - The alignment is folded into the symbols: a non-terminal symbol carries
    both its source label and the target label it is aligned to.
- **`ClauseBoundaries`**: the per-completion loop over the boundary list
  (`ClauseLoop`). It returns how many times `AddCompletedRule` is called.
  - `IsInside` and `MatchesInterval` come from `Util.h`, which is not in this
    tree.
  - Their meaning is fixed by the example in the documentation: with the
    boundary (2,5), the completion over positions 1..3 straddles it and the
    one over 3..4 ends at it.
  - A clause vector of four numbers is read by the inner `while` loop as two
    pairs, so the model takes the flattened sequence of pairs.
- **`ChartRuleLookupManagerMinSpan`**: the lookup for one sentence.
  - Variables: `sentence`, `grammar`, `clauseBounds`, `cellLabels`,
    `transOpts` and `dottedRuleColls`.
  - A dotted rule is a record: its trie node (key path) and the range of each
    matched symbol.
  - `ExtendLoop` is the main loop. It re-reads the list length at every
    iteration, as the C++ does.
  - `ExtendDottedRule` is one iteration of that loop: the terminal extension,
    then the three-way choice at lines 145-166.
  - `ExtendPartialRuleApplication` models both search branches.
  - `CompletionCount` and `AddCompletedRules` form the completion loop.
  - `GetChartRuleCollection` is the whole call, including the trailing
    `ShrinkToLimit`.
  - `DottedRuleColl::Clear` (line 277) is a no-op unless the pool allocator is
    built in. Even then it only empties the list of a range that is never
    looked up again, so the model leaves it out.
- **`ChartManager`**: composes the lookup into the chart fill.
  - `width` and `start` are the loop counters of `ProcessSentence`.
  - The action `ProcessRange` looks one range up, sets the range's labels, and
    advances.
  - The chart manager's `.cpp` is not in this tree, so the fill order and
    `CellLabelsOf` are modelled from the documentation.
  - A cell's labels are the left-hand sides of its options' rules. A one-word
    range with no options gets the unknown-word labels.
  - The second half of the module is a reference definition, written
    independently of the lookup: `Splits`, `Applications`, `Required`. It
    states which rule applications each range must be offered.
- **`RuleTableLoaderCompact`**: `Load` of the min-span overload, reading
  one line per step through `LineReader::ReadLine`. That includes the stale
  `m_line` that `getline` leaves past the end of a file.
  - Steps: the version check, and each section's count line (`ReadCount`).
    Then one action per line of the vocabulary, phrase, alignment and rule
    loops, and `EndSection` between sections.
  - Rule lines go through the score-column check and then trie insertion
    by `GetOrCreateNode` with its alignment iterator. The constant `NDEBUG`
    selects a build with or without asserts. The load ends with
    `SortAndPrune`.
  - The input is a record of the table's contents, including its count
    lines. `Render`, a reference definition of the format, writes the record
    as text, and the actions read only that text. Reads past the end of a
    vector are undefined behaviour, and the model stops them with
    `pc = "aborted"`.
  - `MC_RuleTableLoaderCompact` gives well-formed tables of up to three
    rules, short score lines and a wrong version. For the fault run it adds
    tables with a wrong vocabulary count, with an overlong rule count, and
    with a rule aligned on terminals.
  - The stream's contents are the variable `text`, set once in `Init` to
    `Render(file)` and never changed, as `inStream` is never written.
- **`CompactTable`**: what a compact table means, read from its record
  rather than its text. It gives the node a rule belongs at (`RefKey`),
  the phrase sets a node may keep after the prune (`KeptSets`), the tries
  a table may load into (`RefTries`), and `WellFormed` (spec 4.6 and 7).
  The loader and its contract share it.
- **`CompactLoadSpec`**: the abstract specification of `Load`, with no
  lines or sections. `Load` is given a table and takes one step: `Accept`
  for a well-formed table, into one of its reference tries, or `Reject` for
  any other, leaving no usable grammar. `RuleTableLoaderCompact` maps
  `pc` to the status (`"loading"` until it returns) and the trie to the
  set of phrases at each node once `Load` has returned true. `Contract`
  is the `INSTANCE ... WITH` that does this.
- **`CompactTableText`**: the loader's text layer, with lines as sequences
  of one-character strings:
  - `FindTokens` (`LoaderCompact.h`), a translation of its `find_first_of`
    loop;
  - Moses' `Tokenize`, the same loop over a delimiter set;
  - `std::atoi` at an offset.
- **`ClauseBoundaryReader`**: `ReadClauseBoundaries` once per sentence,
  with `TokenizeMyString` and `atoi` over lines as character sequences, and
  the `eof` test after `getline`.
- **`SuffixArray`**: `Create` (the two reading loops, the layout with a
  sentence end after every sentence, and the merge sort with
  `CompareIndex`) as one action; `LimitedCount` with one action per
  iteration of `FindFirst` and of `FindLast`, since a probe outside
  `m_index` is undefined and becomes a nondeterministic `Match` result;
  `Save`, a `Restart` of the program that keeps the file, and `Load`.
  `Sort` returns `Overflow` past `MaxDepth` recursive calls, which stands
  for the stack overflow.
- **`TrieSort`**: `ConvertToSorted` for one order. `ReadBatch` reads a batch,
  sorts it (any order `std::sort` may produce for equal keys), flushes it
  and writes its context file; `MergeStep` merges the front two files of
  both deques; `Finish` takes the survivors. `EntryCompare` lives in
  `trie_sort.hh`, which is not in this tree.
- **`BleuScorer`**: the constructor's `reflen` choice, `setReferenceFiles`
  as one action over all its files (with the early return of
  `OpenReferenceStream` when a file has more lines than the first) and
  `prepareStats`. `CountNgrams` is the loop of the code; the properties
  compare the result with independent definitions (`Occurrences`,
  `ClippedMatches`). `Reference.h` and `Ngram.h` are not in this tree:
  `NgramCounts::Add` and the three length strategies follow their names.
- **`TrieSort` refines `ConvertToSortedSpec`**: the abstract module states
  what the conversion promises in one step, with no batches or files: it
  ends either with the section sorted (any sorted permutation) beside its
  sorted contexts without repeats, or with a throw, and a throw only when
  two records are the same n-gram. `TrieSort` instantiates it with
  `result` mapped from `pc`, `full` and `context`, and the run checks
  `Sorted!Spec`, fairness included, as the property
  `ImplementsConvertToSortedSpec`.
- **`PhraseScorer`**: the extract loop of `score.cpp`'s `main`, one action
  per branch: a line identical to the last (`ReadIdentical`, adding
  `lastCount`), a line of the last pair with another count
  (`ReadCountOnly`), the first pair of a new source, which writes and
  clears the batch (`ReadNewSource`), another pair of the same source
  (`ReadSameSource`), and `EndOfFile`. `ProcessPhrasePairs` groups the
  batch with `Insert` and folds `OutputPhrasePair` over the groups in
  creation order; `OutputPhrasePair` collects the count-of-counts before
  the hierarchical filter, as the code does. An extract line is a record
  of source, target, alignment and count. `PhraseAlignment` is not in this
  repository, so `Equals` (source, target and alignment) and `GroupKey`
  (target and non-terminal alignment) follow what the code uses them for.
  The lexical and penalty scores and the NT-length probabilities are float
  computations and are left out.
- **`MC_ChartManager`**: the model values.
  - Two words.
  - Two labels: every range carries both `X` and `S` as source labels.
  - Eight candidate rules: terminal, mixed, binary, a unary non-terminal rule
    (which must never apply), and rules whose first or second symbol is a
    non-terminal. Every subset of them is an initial rule table.
  - The boundary lists used by each run.

## 3. Runs

| Run | cfg | Checks | States | Shows |
|---|---|---|---|---|
| lookup | `MC_lookup.cfg` | `TypeOK`, `OptionsSound`, `OptionsExactlyOnce` | 115 360 | With MinSpan = 1 and RuleLimit = 2, with and without the clause-bounds option (chosen at start-up, as the lookup constructor does) and over six boundary lists, every option offered is admitted by the rule that applies. Without the option, every range gets exactly the admitted applications, each once, as many as the limit allows. |
| clause_rule | `MC_clause_rule.cfg` | `ClauseOptionsExactlyOnce` (violated) | | In clause mode a range is not offered exactly the completions section 4.2 admits, each once. Each of the three boundary lists violates it on its own: nested clauses ending at the same word add an option twice, a straddled clause listed first rejects a completion that ends a clause, and an empty list offers nothing. |
| loader | `MC_loader.cfg` | `LoadRoundTrip`, `ImplementsCompactLoadSpec` | 7 582 | A table is rendered as text and read line by line. When the load succeeds, every rule's target phrase sits at the node its source and alignment lead to, once, pruned to the table limit. The loader also implements the safety part of its contract. No well-formed table is rejected or aborted on, including crossed alignments with the asserts compiled in, and every other table in the run is rejected. |
| loader_faults | `MC_loader_faults.cfg` | `AcceptsOnlyWellFormed` (violated) | | Load returns true for malformed tables. A vocabulary count one too large turns the next count line into a word and shifts every later section. A rule count one over a section with no final newline inserts the last rule twice. Without asserts, a rule aligned on its terminals loads. Each set of tables violates the property on its own. |
| reader | `MC_reader.cfg` | `ParseMatchesRuns` | 2 347 | The tokenizer's scanning loops yield exactly the maximal clauses and limits. |
| reader_no_eol | `MC_reader_no_eol.cfg` | `EveryLineDelivered` (violated) | | A last line without a newline is never delivered. |
| suffix | `MC_suffix.cfg` | `TypeOK`, `SortedSuffixes`, `CountCorrect`, `CorpusRestored`, `LimitedCountReturns` | 249 560 | `m_index` comes from `Create` or from the file an earlier run saved, and either way it lists the suffixes in order. When every probe stays inside `m_index`, `LimitedCount` returns, and returns the number of occurrences. |
| suffix_oob | `MC_suffix_oob.cfg` | `InBounds` (violated) | | `FindFirst` and `FindLast` probe one index past either end of `m_index`. |
| suffix_create | `MC_suffix_create.cfg` | `CreateIndexesCorpus` (violated) | | `Create` on a file with no complete line recurses forever in `Sort(0, -1)`; a last line without a newline is not indexed. |
| triesort | `MC_triesort.cfg` | `TypeOK`, `DuplicatesAcrossBatchesRejected`, `ImplementsConvertToSortedSpec` | 10 457 | The batch-and-merge conversion implements `ConvertToSortedSpec`: it ends, sorted with every context once, or thrown only for a repeated n-gram. It throws whenever two copies of an n-gram fall in different batches. |
| bleu | `MC_bleu.cfg` | `TypeOK`, `ReferencesAligned`, `ClippedCounts`, `FailsOnlyOnLongerFile` | 140 529 | The statistics are BLEU's clipped counts against every reference file that has the sentence, and a load fails exactly when a later file is longer than the first. |
| scorer | `MC_scorer.cfg` | `TypeOK`, `PhraseTableMatchesExtract`, `CountOfCountsCorrect` | 119 572 | For every sorted extract file of up to four lines, the table has one line per group the hierarchical filter keeps, with the summed counts, the source total, the number of groups and the first best alignment. The count-of-counts count every group, filtered ones included. |

Each violation is a finding in `PROJECT.json`:

- **clause_rule**: the clause loop disagrees with section 4.2 of the
  specification in three ways (lines 242, 234 and 238). Section 9 already
  flags the multiple-match case as open.
- **loader_faults**: section counts are trusted (`LoaderCompact.cpp:97`).
  Reads past the last line reuse `m_line` (`LoaderCompact.cpp:317`). The
  alignment check is an `assert` only (`PhraseDictionaryMinSpan.cpp:100`).
- **reader_no_eol, suffix_create**: the `getline(...).eof()` idiom drops an
  unterminated last line. `suffix_create` also shows the endless recursion of
  `Sort` on an empty corpus.
- **suffix_oob**: out-of-bounds reads of `m_index`, whose values then decide
  the count.

Every property of a passing run has a mutant in `PROJECT.json`: a plausible
bug in a mapped definition, such as a dropped guard, a swapped order or an
off-by-one. The run catches each of them. For example, `MergeMax_Overwrite`
lets the last reference file's count win, and `ClippedCounts` catches it.
`Load_SwapArrays` reads `m_index` before `m_array`, and `CorpusRestored`
catches it. `MergeLoop_NoSecondLess` drops the test `less(second, first)`, so the
merge throws on heads that differ, and `ImplementsConvertToSortedSpec`
catches it. `NewLastCount_OnlyOnPush` keeps `lastCount` from the pair that
started the entry, so an identical line after a count-only line adds the
wrong count, and `PhraseTableMatchesExtract` catches it.

Some hazards are left uncovered, each with a note in `PROJECT.json`:

- The loader's undefined reads are not covered. These are a rule line with
  too few tokens and an alignment token without `-`. The model stops at
  them.
- Odd clauses are not covered.
- A save file cut short is not covered.
- The float BLEU score is not covered.
- The scorer's dropped last line without a newline, and its float rounding
  of counts, are not covered.

### Why these bounds are enough

With N = 3, the top range is the first that can be split in more than one
way. It can be covered by rules whose first non-terminal spans one or two
words, so both steps of the root split are reached. Both search branches of
`ExtendPartialRuleApplication` are taken:

- The product branch runs wherever the source and target label pairs are
  at most twice the node's non-terminal children, on one-word cells for
  instance.
- The children branch runs when `a [X S]` is extended over a two-word cell.
  Every range carries the source labels `X` and `S`, and `[S X] b` and
  `a b` give that cell both target labels, so there are 4 label pairs
  against one child. With the source label `S` on wider ranges only, as in
  earlier versions of the model, this branch was never taken. With two
  labels, both of its set tests pass on every label, so the property only
  checks which child the branch takes. The `ChildrenSwapped` mutant looks
  the child up under the swapped pair, and `OptionsExactlyOnce` catches
  it. Checking the set tests would need a third label.

The clause boundary lists cover these cases:

- a clause that contains the whole sentence;
- a clause that the whole sentence straddles;
- nested clauses ending at the same word;
- both orders of a straddled clause and an ending clause.

- **Loader**: the tables hold up to three rules, so two rules share a node
  and one is pruned by a limit of one. Every line of the rendered text goes
  through `FindTokens` and `atoi`, including multi-token phrase and
  alignment lines, bracketed symbols, and a score column that reads `:`.
- **Suffix array**: the words 1, 3 and 4 sit on both sides of the sentence
  end (rank 2). A match run can then touch either end of `m_array`, or
  neither, so `CountCorrect` is not vacuous. Two sentences of two words give
  `m_size` up to 6, and the merge sort then recurses three levels on
  unequal halves.
- **Trie sort**: sections of up to three bigrams and buffers of one to
  three records give one, two or three batches. Three batches take an odd
  merge round. Duplicates can fall in the same batch or in different ones.
- **Phrase scorer**: two sources (one with a non-terminal), two targets,
  three alignments (two with the same non-terminal part) and counts 1 and
  2, in files of up to four sorted lines. These reach identical lines, a
  count-only line after a new pair, two alignments of one group with tied
  counts, a group filtered below `MinCount = 2` and groups past
  `CocMax = 2`. `COC_MAX` is 10 in the code; the smaller bound makes a
  count past it reachable.
- **BLEU**: order 2 with lines of up to two words covers three cases: an
  order the line is too short for (`continue`), a bigram repeated across
  files, and a count clipped by the reference. Two files of up to two lines
  give a shorter, an equal and a longer second file.

### Fairness

- **ChartManager**: `Spec` has weak fairness on `ProcessRange`.
  `ProcessSentence` is a plain sequential loop.
- **TrieSort**: `Spec` has weak fairness on `Next`. `ConvertToSorted` is
  sequential, so it keeps taking steps while one is enabled. The abstract
  `ConvertToSortedSpec` has weak fairness too, so the refinement property
  also requires the conversion to end.
- **SuffixArray**: `FairSpec` has weak fairness on `FindFirstStep` and
  `FindLastStep` only. Once `LimitedCount` is called, its loops are the
  program's next steps. Which calls the program makes, and whether it ends
  (`Restart`), stay free. `LimitedCountReturns` needs this fairness.
  `FindLast` exits only on a match next to a non-match. It ends because
  `mid` is rounded towards the side it searches: the mutant that always
  rounds down spins forever.
- **RuleTableLoaderCompact**: `Spec` has weak fairness on `Next`, as
  `Load` is one sequential call. The contract's `Spec` asks that `Load`
  return, but the loader run checks only `SafeSpec`. Checking the
  fairness needs `ENABLED` of the line actions, and TLC evaluates it
  without caching the recursive tokenizers (`FindTokens`, `atoi`). That
  makes each state cost seconds. Every step does advance `pos` or the
  section, so no state repeats. But getting stuck before returning would
  look like the normal end of a load, since deadlock checking is off.
- **Other modules**: the remaining modules model calls a client makes at
  will, so they assume no fairness and check no liveness.

All runs disable deadlock checking, because each of these programs stops:

- the fill stops once `width > N`;
- a conversion or a load ends;
- a thrown exception ends the program;
- the scorer stops after the end of its file.

## 4. What is not modelled

- **Scoring.** The translation-option estimate and hypothesis scores are
  abstracted, and `ShrinkToLimit` may keep any `RuleLimit` options.
  `ApplyThreshold` and the hypothesis collection are not modelled: their
  `.cpp` files are not in this tree.
- **Floating point.** `calculateScore` and `sentenceLevelBleuPlusOne` use
  logarithms, and `TargetPhrase.cpp` scores features. Both are beyond what
  TLC evaluates.
- **Other overloads and I/O.** Not modelled:
  - the standard `Load` and `LoadRuleSection` overloads of the compact
    loader. They read the same text, but they insert through
    `RuleTableTrie`, which is not in this tree;
  - `FeatureArray`. Its entries are `FeatureStats`, whose text and binary
    formats are not in this tree, and neither is `FeatureData`, its only
    client;
  - the unigram and ARPA reading of `SortedFiles`;
  - `RecordReader::Overwrite`;
  - the vocabulary files of the suffix array.
- **Training and headers only.** Not modelled:
  - the float scores of `score.cpp` (lexical, unaligned penalties, NT
    lengths) and its option parsing;
  - the scope-3 parser;
  - `TokenIter`.
