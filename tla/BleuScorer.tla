------------------------------ MODULE BleuScorer ------------------------------
(***************************************************************************)
(* The BLEU scorer of MERT (mert/BleuScorer.cpp): setReferenceFiles loads  *)
(* one or more reference files, keeping for each sentence the largest     *)
(* count of every n-gram over the files and one length per file;          *)
(* prepareStats turns a candidate sentence into the sufficient statistics *)
(* of BLEU: for each order the clipped matches and the n-grams guessed,   *)
(* followed by the reference length the configured strategy picks.       *)
(*                                                                         *)
(* A sentence is the sequence of its word ids: TokenizeAndEncode splits   *)
(* on spaces and maps each token to its id, which is injective, so the    *)
(* ids stand for the tokens.  The "factors" option is not configured, so  *)
(* applyFactors returns its line.                                          *)
(***************************************************************************)
EXTENDS Integers, Sequences, FiniteSets, FiniteSetsExt, Functions, TLC

CONSTANTS
  Order,        \* kBleuNgramOrder
  Sentences,    \* the encoded sentences a file line or a candidate may hold
  RefSets,      \* the lists of reference files setReferenceFiles may get
  MaxSid,       \* the largest sentence id prepareStats is asked for
  NotFound      \* model value: prepareStats threw "Sentence id not found"

VARIABLES
  refLenType,   \* m_ref_length_type
  refFiles,     \* the files of the last setReferenceFiles call
  references,   \* m_references: per sentence [counts, lengths]
  status,       \* "idle", "ready", or "failed" once a load threw
  entry         \* the last prepareStats call: [sid, text, stats] or NotFound,
                \* with the reference files loaded at the time (history only)

vars == <<refLenType, refFiles, references, status, entry>>

NoEntry == [sid |-> -1, text |-> <<>>, stats |-> <<>>, files |-> <<>>]

(* NgramCounts::Add: a new n-gram gets count 1, a known one one more. *)
AddNgram(counts, g) ==
  IF g \in DOMAIN counts THEN [counts EXCEPT ![g] = @ + 1]
  ELSE counts @@ (g :> 1)

(* CountNgrams: for every order k up to n that the sentence is long      *)
(* enough for, add each of its k-grams from left to right.               *)
RECURSIVE CountFrom(_, _, _, _, _)
CountFrom(t, n, k, i, counts) ==
  IF k > n THEN counts
  ELSE IF k > Len(t) \/ i > Len(t) - k
  THEN CountFrom(t, n, k + 1, 0, counts)
  ELSE CountFrom(t, n, k, i + 1, AddNgram(counts, SubSeq(t, i + 1, i + k)))

CountNgrams(t, n) == CountFrom(t, n, 1, 0, <<>>)

(* Fault: the old count is replaced by the new one, whichever is larger. *)
MergeMax_Overwrite(old, new) ==
  [g \in DOMAIN old \cup DOMAIN new |-> IF g \in DOMAIN new THEN new[g] ELSE old[g]]

(* The merge loop of OpenReferenceStream: an n-gram whose count in the  *)
(* new line is larger than the one stored takes the new count.          *)
MergeMax(old, new) ==
  [g \in DOMAIN old \cup DOMAIN new |->
     IF g \in DOMAIN new /\ (g \notin DOMAIN old \/ new[g] > old[g])
     THEN new[g] ELSE old[g]]

EmptyRef == [counts |-> <<>>, lengths |-> <<>>]

(* Fault: every file appends new Reference objects, not just the first. *)
AppendRef_EveryFile(refs, fileId) == Append(refs, EmptyRef)

(* The first file creates one Reference per line. *)
AppendRef(refs, fileId) == IF fileId = 0 THEN Append(refs, EmptyRef) ELSE refs

(* OpenReferenceStream: line by line, a new Reference if this is the    *)
(* first file, false if the file has more lines than the first one,     *)
(* else merge the line's counts into sentence sid and add its length.   *)
RECURSIVE OpenReferenceStream(_, _, _, _)
OpenReferenceStream(refs, lines, fileId, sid) ==
  IF sid >= Len(lines) THEN [ok |-> TRUE, refs |-> refs]
  ELSE
    LET line == lines[sid + 1]
        rs   == AppendRef(refs, fileId)
    IN IF Len(rs) <= sid THEN [ok |-> FALSE, refs |-> rs]
       ELSE OpenReferenceStream(
              [rs EXCEPT ![sid + 1] =
                 [counts  |-> MergeMax(@.counts, CountNgrams(line, Order)),
                  lengths |-> Append(@.lengths, Len(line))]],
              lines, fileId, sid + 1)

(* Fault: the result of OpenReference is not checked. *)
RECURSIVE LoadFiles_IgnoreFailure(_, _, _)
LoadFiles_IgnoreFailure(refs, files, fileId) ==
  IF fileId >= Len(files) THEN [ok |-> TRUE, refs |-> refs]
  ELSE LoadFiles_IgnoreFailure(OpenReferenceStream(refs, files[fileId + 1], fileId, 0).refs,
                               files, fileId + 1)

(* The loop of setReferenceFiles: stop at the first file that fails. *)
RECURSIVE LoadFiles(_, _, _)
LoadFiles(refs, files, fileId) ==
  IF fileId >= Len(files) THEN [ok |-> TRUE, refs |-> refs]
  ELSE LET r == OpenReferenceStream(refs, files[fileId + 1], fileId, 0)
       IN IF r.ok THEN LoadFiles(r.refs, files, fileId + 1) ELSE r

(* Reference::CalcAverage, CalcShortest and CalcClosest (the shortest   *)
(* of the closest lengths).                                               *)
CalcReferenceLength(ref, length) ==
  LET ls   == Range(ref.lengths)
      dist(l) == IF l >= length THEN l - length ELSE length - l
      best == Min({dist(l) : l \in ls})
  IN CASE refLenType = "average"  -> SumFunction(ref.lengths) \div Len(ref.lengths)
       [] refLenType = "shortest" -> Min(ls)
       [] refLenType = "closest"  -> Min({l \in ls : dist(l) = best})

(* Fault: the vector is sized 2 * Order + 1 before the length is pushed. *)
PrepareStatsOf_ExtraSlot(ref, text) ==
  LET tc      == CountNgrams(text, Order)
      correct(g) == IF g \in DOMAIN ref.counts THEN Min({ref.counts[g], tc[g]}) ELSE 0
      ofLen(k) == {g \in DOMAIN tc : Len(g) = k}
      slot(i)  == IF i % 2 = 1 THEN MapThenSumSet(correct, ofLen((i + 1) \div 2))
                  ELSE MapThenSumSet(LAMBDA g : tc[g], ofLen(i \div 2))
  IN [i \in 1 .. 2 * Order + 1 |-> slot(i)] \o <<CalcReferenceLength(ref, Len(text))>>

(* prepareStats: 2 * Order zeros, the reference length appended, then   *)
(* for every n-gram of the candidate its guess count, and the smaller   *)
(* of guess and reference count when the reference has it, added at    *)
(* the slots of its order.                                               *)
PrepareStatsOf(ref, text) ==
  LET tc      == CountNgrams(text, Order)
      correct(g) == IF g \in DOMAIN ref.counts THEN Min({ref.counts[g], tc[g]}) ELSE 0
      ofLen(k) == {g \in DOMAIN tc : Len(g) = k}
      slot(i)  == IF i % 2 = 1 THEN MapThenSumSet(correct, ofLen((i + 1) \div 2))
                  ELSE MapThenSumSet(LAMBDA g : tc[g], ofLen(i \div 2))
  IN [i \in 1 .. 2 * Order |-> slot(i)] \o <<CalcReferenceLength(ref, Len(text))>>

(* The constructor: the "reflen" option picks the strategy; an unknown  *)
(* one throws before a scorer exists.                                    *)
Init ==
  /\ refLenType \in {"average", "shortest", "closest"}
  /\ refFiles = <<>>
  /\ references = <<>>
  /\ status = "idle"
  /\ entry = NoEntry

(* setReferenceFiles: clear m_references and load every file; a file    *)
(* that fails makes it throw, which ends mert.  mert calls it once, when *)
(* it sets up the scorer.                                                 *)
SetReferenceFiles ==
  /\ status = "idle"
  /\ \E files \in RefSets :
       LET r == LoadFiles(<<>>, files, 0)
       IN /\ refFiles' = files
          /\ references' = r.refs
          /\ status' = IF r.ok THEN "ready" ELSE "failed"
  /\ UNCHANGED <<refLenType, entry>>

(* prepareStats for sentence sid: throws when sid has no reference. *)
PrepareStats ==
  /\ status # "failed"
  /\ \E sid \in 0 .. MaxSid, text \in Sentences :
       entry' = IF sid >= Len(references) THEN NotFound
                ELSE [sid |-> sid, text |-> text, files |-> refFiles,
                      stats |-> PrepareStatsOf(references[sid + 1], text)]
  /\ UNCHANGED <<refLenType, refFiles, references, status>>

Next == SetReferenceFiles \/ PrepareStats

Spec == Init /\ [][Next]_vars

-----------------------------------------------------------------------------
(* Reference definitions: how often g occurs in t, and BLEU's clipped   *)
(* match count of order k against every file that has line sid.         *)
Occurrences(t, g) ==
  Cardinality({i \in 0 .. Len(t) - Len(g) : SubSeq(t, i + 1, i + Len(g)) = g})

FilesWith(files, sid) == {f \in DOMAIN files : sid < Len(files[f])}

KGrams(t, k) == {SubSeq(t, i + 1, i + k) : i \in 0 .. Len(t) - k}

ClippedMatches(files, sid, t, k) ==
  MapThenSumSet(LAMBDA g : Min({Occurrences(t, g),
                                Max({Occurrences(files[f][sid + 1], g) : f \in FilesWith(files, sid)})}),
                KGrams(t, k))

TypeOK ==
  /\ status \in {"idle", "ready", "failed"}
  /\ entry = NotFound \/ Len(entry.stats) \in {0, 2 * Order + 1}
  /\ \A s \in DOMAIN references : Len(references[s].lengths) <= Len(refFiles)

(* Once loaded, there is one Reference per line of the first file, and  *)
(* sentence sid holds one length per file long enough to have line sid, *)
(* in file order: a file shorter than the first is accepted and leaves  *)
(* the sentences past its end with fewer references.                    *)
ReferencesAligned ==
  status = "ready" =>
    /\ Len(references) = Len(refFiles[1])
    /\ \A s \in DOMAIN references :
         references[s].lengths =
           [j \in 1 .. Cardinality(FilesWith(refFiles, s - 1)) |->
              Len(refFiles[j][s])]

(* The statistics of a scored candidate are BLEU's: for each order k    *)
(* the k-grams it guesses and how many of them match, each n-gram        *)
(* clipped to its largest count in any single reference of its sentence. *)
ClippedCounts ==
  entry # NotFound /\ entry.sid >= 0 =>
    \A k \in 1 .. Order :
      /\ entry.stats[2 * k] = Max({0, Len(entry.text) - k + 1})
      /\ entry.stats[2 * k - 1] = ClippedMatches(entry.files, entry.sid, entry.text, k)

(* A load fails exactly when a later file has more lines than the first. *)
FailsOnlyOnLongerFile ==
  status # "idle" =>
    ((status = "failed") <=> \E f \in DOMAIN refFiles : Len(refFiles[f]) > Len(refFiles[1]))

=============================================================================
