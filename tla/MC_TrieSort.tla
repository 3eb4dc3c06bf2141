------------------------------ MODULE MC_TrieSort ------------------------------
(***************************************************************************)
(* Model values for TrieSort: bigrams over the word ids 0 and 1 with a    *)
(* weight of 1 or 2, sections of up to three of them, and sort buffers    *)
(* holding one, two or three records.                                     *)
(***************************************************************************)
EXTENDS TrieSort

MCOrder == 2

MCRecords == { <<w1, w2, wt>> : w1 \in {0, 1}, w2 \in {0, 1}, wt \in {1, 2} }

MCSections == BoundedSeq(MCRecords, 3)

MCCaps == {1, 2, 3}

=============================================================================
