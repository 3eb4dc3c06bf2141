---------------------------- MODULE MC_BleuScorer ----------------------------
(***************************************************************************)
(* Model values for BleuScorer: bigram BLEU over the word ids 1 and 2,    *)
(* sentences of up to two words, one or two reference files of up to   *)
(* two lines, and sentence ids one past the longest file.                *)
(***************************************************************************)
EXTENDS BleuScorer, SequencesExt

MCOrder == 2
MCSentences == BoundedSeq({1, 2}, 2)
MCLines == BoundedSeq({1, 2}, 2)
MCFile == BoundedSeq(MCLines, 2)
MCRefSets == { <<f>> : f \in MCFile } \cup { <<f, g>> : f, g \in MCFile }

=============================================================================
