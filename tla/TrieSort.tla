------------------------------- MODULE TrieSort -------------------------------
(***************************************************************************)
(* SortedFiles::ConvertToSorted of the KenLM trie builder (lm/trie_sort.cc) *)
(* for one n-gram order: the n-grams of the ARPA section are read in       *)
(* batches that fit the sort buffer; each batch is sorted, written to a    *)
(* temporary file, and its contexts (the n-grams without their first      *)
(* word) are sorted and written without repeats to a second file.  The    *)
(* two queues of files are then merged pairwise, front two to the back,   *)
(* until one of each is left: n-gram files with ThrowCombine (an equal    *)
(* pair is a duplicate n-gram), context files with FirstCombine.          *)
(*                                                                         *)
(* A record is laid out as in memory: its Order word ids followed by its  *)
(* weight; a context record is Order - 1 word ids.                        *)
(***************************************************************************)
EXTENDS Integers, Sequences, FiniteSets, SequencesExt, TLC

CONSTANTS
  Order,      \* the n-gram order being converted
  Sections,   \* the n-gram sections ConvertToSorted may read
  Caps,       \* mem_size / entry_size: the records the buffer holds
  Duplicate   \* model value: ThrowCombine threw FormatLoadException

VARIABLES
  section,    \* the records of the section, in file order
  cap,        \* mem_size / entry_size
  done,       \* records read so far
  files,      \* the deque of sorted n-gram files
  contexts,   \* the deque of context files
  full,       \* full_[order - 2]
  context,    \* context_[order - 2]
  pc          \* "read", "merge", "done", "thrown"

vars == <<section, cap, done, files, contexts, full, context, pc>>

(* EntryCompare(k): the first k word ids, compared in turn. *)
EntryLess(k, a, b) ==
  \E i \in 1 .. k : a[i] < b[i] /\ \A j \in 1 .. i - 1 : a[j] = b[j]

(* std::sort by EntryCompare(k): any order of the records that is sorted; *)
(* records equal in their words may come out either way round.           *)
SortedOrders(k, recs) ==
  { [i \in DOMAIN recs |-> recs[p[i]]] : p \in Permutations(DOMAIN recs) }
  \cap { s \in Seq(Range(recs)) : \A i \in 1 .. Len(s) - 1 : ~EntryLess(k, s[i + 1], s[i]) }

(* PartialViewProxy: the view of a record that skips its first word and *)
(* covers the Order - 1 words of its context.                            *)
ContextOf(r) == SubSeq(r, 2, Order)

(* WriteContextFile: sort the contexts of a sorted batch and write each  *)
(* one that differs from the last one written; after the sort that is    *)
(* the one before it.                                                     *)
WriteContextFile(batch) ==
  LET ctx  == SortSeq([i \in DOMAIN batch |-> ContextOf(batch[i])],
                      LAMBDA a, b : EntryLess(Order - 1, a, b))
      kept == SetToSortSeq({ i \in DOMAIN ctx : i = 1 \/ ctx[i] # ctx[i - 1] }, <)
  IN [k \in DOMAIN kept |-> ctx[kept[k]]]

(* Fault: the second test, less(second, first), is missing. *)
RECURSIVE MergeLoop_NoSecondLess(_, _, _, _, _)
MergeLoop_NoSecondLess(k, combine, f, s, out) ==
  IF f # <<>> /\ s # <<>>
  THEN IF EntryLess(k, Head(f), Head(s))
       THEN MergeLoop_NoSecondLess(k, combine, Tail(f), s, Append(out, Head(f)))
       ELSE IF combine = "throw" THEN Duplicate
       ELSE MergeLoop_NoSecondLess(k, combine, Tail(f), Tail(s), Append(out, Head(f)))
  ELSE out \o f \o s

(* MergeSortedFiles: take the smaller head; on equal heads ThrowCombine  *)
(* throws and FirstCombine writes the first; then copy what remains.     *)
RECURSIVE MergeLoop(_, _, _, _, _)
MergeLoop(k, combine, f, s, out) ==
  IF f # <<>> /\ s # <<>>
  THEN IF EntryLess(k, Head(f), Head(s))
       THEN MergeLoop(k, combine, Tail(f), s, Append(out, Head(f)))
       ELSE IF EntryLess(k, Head(s), Head(f))
       THEN MergeLoop(k, combine, f, Tail(s), Append(out, Head(s)))
       ELSE IF combine = "throw" THEN Duplicate
       ELSE MergeLoop(k, combine, Tail(f), Tail(s), Append(out, Head(f)))
  ELSE out \o f \o s

BatchSize == IF Len(section) < cap THEN Len(section) ELSE cap

Init ==
  /\ section \in Sections
  /\ cap \in Caps
  /\ done = 0
  /\ files = <<>>
  /\ contexts = <<>>
  /\ full = <<>>
  /\ context = <<>>
  /\ pc = "read"

(* Fault: done += batch_size. *)
ReadBatch_FullStride ==
  LET n     == IF Len(section) - done < BatchSize THEN Len(section) - done ELSE BatchSize
      batch == SubSeq(section, done + 1, done + n)
  IN /\ pc = "read"
     /\ done < Len(section)
     /\ \E sorted \in SortedOrders(Order, batch) :
          /\ files' = Append(files, sorted)
          /\ contexts' = Append(contexts, WriteContextFile(sorted))
     /\ done' = done + BatchSize
     /\ UNCHANGED <<section, cap, full, context, pc>>

(* One batch: read min(count - done, batch_size) records, sort them,     *)
(* DiskFlush them and write their context file.                          *)
ReadBatch ==
  LET n     == IF Len(section) - done < BatchSize THEN Len(section) - done ELSE BatchSize
      batch == SubSeq(section, done + 1, done + n)
  IN /\ pc = "read"
     /\ done < Len(section)
     /\ \E sorted \in SortedOrders(Order, batch) :
          /\ files' = Append(files, sorted)
          /\ contexts' = Append(contexts, WriteContextFile(sorted))
     /\ done' = done + n
     /\ UNCHANGED <<section, cap, full, context, pc>>

(* The batch loop ends once every record is read. *)
EndRead ==
  /\ pc = "read"
  /\ done >= Len(section)
  /\ pc' = "merge"
  /\ UNCHANGED <<section, cap, done, files, contexts, full, context>>

(* Fault: the n-gram files are merged with FirstCombine. *)
MergeStep_FirstCombine ==
  LET m == MergeLoop(Order, "first", files[1], files[2], <<>>)
  IN /\ pc = "merge"
     /\ Len(files) > 1
     /\ files' = Append(Tail(Tail(files)), m)
     /\ contexts' = Append(Tail(Tail(contexts)),
                           MergeLoop(Order - 1, "first", contexts[1], contexts[2], <<>>))
     /\ UNCHANGED <<section, cap, done, full, context, pc>>

(* One round of the merge loop: merge the front two n-gram files, then   *)
(* the front two context files, each to the back of its deque.           *)
MergeStep ==
  LET m == MergeLoop(Order, "throw", files[1], files[2], <<>>)
  IN /\ pc = "merge"
     /\ Len(files) > 1
     /\ IF m = Duplicate
        THEN /\ pc' = "thrown"
             /\ UNCHANGED <<files, contexts>>
        ELSE /\ files' = Append(Tail(Tail(files)), m)
             /\ contexts' = Append(Tail(Tail(contexts)),
                                   MergeLoop(Order - 1, "first", contexts[1], contexts[2], <<>>))
             /\ UNCHANGED pc
     /\ UNCHANGED <<section, cap, done, full, context>>

(* The last file of each deque becomes full_ and context_. *)
Finish ==
  /\ pc = "merge"
  /\ Len(files) <= 1
  /\ IF files # <<>>
     THEN full' = files[1] /\ context' = contexts[1]
     ELSE UNCHANGED <<full, context>>
  /\ pc' = "done"
  /\ UNCHANGED <<section, cap, done, files, contexts>>

Next == ReadBatch \/ EndRead \/ MergeStep \/ Finish

Spec == Init /\ [][Next]_vars /\ WF_vars(Next)

-----------------------------------------------------------------------------
Key(r) == SubSeq(r, 1, Order)

(* The batch a record of the section is read in. *)
BatchOf(i) == (i - 1) \div BatchSize

TypeOK ==
  /\ done \in 0 .. Len(section)
  /\ pc \in {"read", "merge", "done", "thrown"}
  /\ Len(files) = Len(contexts)
  /\ \A i \in DOMAIN files : Range(files[i]) \subseteq Range(section)

(* A section whose duplicate n-grams fall into different batches is     *)
(* rejected: no such pair survives into full_.                           *)
DuplicatesAcrossBatchesRejected ==
  pc = "done" =>
    ~\E i, j \in DOMAIN section :
       i < j /\ Key(section[i]) = Key(section[j]) /\ BatchOf(i) # BatchOf(j)

(* ConvertToSorted implements its promise: whatever the batch size and  *)
(* however the merge rounds paired the files, it ends, and it ends with  *)
(* full_ the section's records in EntryCompare order, each as often as   *)
(* it was read, and context_ its contexts sorted and without repeats     *)
(* (WriteContextFile within a batch, FirstCombine across batches), or it *)
(* throws, and then only because two records are the same n-gram.        *)
Sorted == INSTANCE ConvertToSortedSpec
  WITH result <- CASE pc = "done"   -> [status |-> "sorted", full |-> full, context |-> context]
                   [] pc = "thrown" -> [status |-> "thrown", full |-> <<>>, context |-> <<>>]
                   [] OTHER         -> [status |-> "running", full |-> <<>>, context |-> <<>>]

ImplementsConvertToSortedSpec == Sorted!Spec

=============================================================================
