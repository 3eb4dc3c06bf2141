------------------------ MODULE MC_RuleTableLoaderCompact ------------------------
(***************************************************************************)
(* Model values for RuleTableLoaderCompact: one vocabulary (two words, two *)
(* non-terminals), three source and three target phrases, five alignment  *)
(* sets, and rule sections made of up to three rule lines.                *)
(***************************************************************************)
EXTENDS RuleTableLoaderCompact

(* ids 0..3: a, b, [X], [S] *)
MCVocab == << [lb |-> FALSE, rb |-> FALSE, name |-> <<"a">>],
              [lb |-> FALSE, rb |-> FALSE, name |-> <<"b">>],
              [lb |-> TRUE, rb |-> TRUE, name |-> <<"X">>],
              [lb |-> TRUE, rb |-> TRUE, name |-> <<"S">>] >>

(* source: [X] -> a | [X] -> [X] b | [X] -> [X] [X] *)
MCSrcs == << [lhs |-> 2, rhs |-> <<0>>],
             [lhs |-> 2, rhs |-> <<2, 1>>],
             [lhs |-> 2, rhs |-> <<2, 2>>] >>

(* target: [X] -> a | [S] -> [X] b | [S] -> [S] [X] *)
MCTgts == << [lhs |-> 2, rhs |-> <<0>>],
             [lhs |-> 3, rhs |-> <<2, 1>>],
             [lhs |-> 3, rhs |-> <<3, 2>>] >>

(* 0: none; 1: first to first; 2: crossed; 3: straight; 4: the source   *)
(* terminal to the target terminal                                        *)
MCAligns == << {}, {<<0, 0>>}, {<<0, 1>>, <<1, 0>>}, {<<0, 0>>, <<1, 1>>},
               {<<1, 1>>} >>

Rule(s, t, a, sc) == [src |-> s, tgt |-> t, align |-> a, scores |-> 2, score |-> sc]

(* Well-formed rule lines; the last two share a node and differ in score. *)
MCGoodRules ==
  { Rule(0, 0, 0, 1), Rule(2, 2, 2, 1), Rule(2, 2, 3, 2),
    Rule(1, 1, 1, 1), Rule(1, 1, 1, 3) }

(* A line with one score too few. *)
MCShortRule == [src |-> 1, tgt |-> 1, align |-> 1, scores |-> 1, score |-> 2]

(* [X] b -> [X] b aligned on its terminals instead of its non-terminals. *)
MCBadAlignRule == Rule(1, 1, 4, 2)

MkFile(v, rules, n, eol) ==
  [version |-> v, vocabCount |-> Len(MCVocab), vocab |-> MCVocab, srcs |-> MCSrcs, tgts |-> MCTgts,
   aligns |-> MCAligns, ruleCount |-> n, rules |-> rules, eol |-> eol]

(* Well-formed tables of up to three rules, a wrong version line, and     *)
(* tables whose rule lines may carry a short score vector.                *)
MCFiles ==
  { MkFile(TRUE, s, Len(s), TRUE) : s \in BoundedSeq(MCGoodRules \cup {MCShortRule}, 3) }
  \cup { MkFile(FALSE, <<>>, 0, TRUE) }

(* Rule sections that contain the badly aligned line. *)
MCAlignFiles ==
  { MkFile(TRUE, s \o <<MCBadAlignRule>>, Len(s) + 1, TRUE) : s \in BoundedSeq(MCGoodRules, 1) }

(* Rule sections whose last line has no newline and whose count line    *)
(* announces one rule more than the section holds.                        *)
MCStaleFiles ==
  { MkFile(TRUE, s, Len(s) + 1, FALSE) : s \in BoundedSeq(MCGoodRules, 2) \ {<<>>} }

(* A vocabulary count line one larger than the vocabulary, over rule     *)
(* sections of at most one rule.                                           *)
MCVocabCountFiles ==
  { [f EXCEPT !.vocabCount = Len(MCVocab) + 1] :
      f \in { MkFile(TRUE, s, Len(s), TRUE) : s \in BoundedSeq(MCGoodRules, 1) } }

MCFaultFiles == MCAlignFiles \cup MCStaleFiles \cup MCVocabCountFiles

=============================================================================
