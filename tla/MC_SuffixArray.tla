--------------------------- MODULE MC_SuffixArray ---------------------------
(***************************************************************************)
(* Model values for SuffixArray: the words 1, 3 and 4, of which one sorts *)
(* before "<s>" (rank 2) and two after it, corpora of up to two sentences *)
(* of up to two words, and phrases of one or two words.                   *)
(***************************************************************************)
EXTENDS SuffixArray

MCEos == 2
MCWords == {1, 3, 4}
MCMaxDepth == 6

MCSentences == BoundedSeq(MCWords, 2)

(* Corpora whose last line ends with a newline. *)
MCFiles == { [lines |-> ls, eol |-> TRUE] : ls \in BoundedSeq(MCSentences, 2) }

(* The same corpora without the final newline. *)
MCNoEolFiles == { [lines |-> ls, eol |-> FALSE] : ls \in BoundedSeq(MCSentences, 2) }

(* Corpora with and without the final newline, the empty file included. *)
MCCreateFiles == MCFiles \cup MCNoEolFiles

MCPhrases == BoundedSeq(MCWords, 2) \ {<<>>}

=============================================================================
