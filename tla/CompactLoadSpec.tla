---------------------------- MODULE CompactLoadSpec ----------------------------
(***************************************************************************)
(* What loading a compact rule table promises (spec 4.6 and 7), with no   *)
(* lines, sections or tokens: Load is given a table and returns.  A well  *)
(* formed table loads into one of its reference tries (RefTries: every    *)
(* rule at the node its source and alignment name, each node cut to the   *)
(* table limit best); any other table is a load error and no grammar is   *)
(* usable.  RuleTableLoaderCompact implements it.                         *)
(***************************************************************************)
EXTENDS CompactTable

CONSTANT Files   \* the tables Load may be given

VARIABLES
  file,    \* the table
  status,  \* "loading", then "true" or "false"
  trie     \* the usable grammar: node key path -> phrase set; <<>> for none

avars == <<file, status, trie>>

Init == file \in Files /\ status = "loading" /\ trie = <<>>

Accept ==
  /\ status = "loading"
  /\ status' = "true"
  /\ WellFormed(file)
  /\ trie' \in RefTries(file)
  /\ UNCHANGED file

Reject ==
  /\ status = "loading"
  /\ status' = "false"
  /\ ~WellFormed(file)
  /\ UNCHANGED <<file, trie>>

Next == Accept \/ Reject

(* The promise about what Load returns, and the promise that it returns. *)
SafeSpec == Init /\ [][Next]_avars

Spec == SafeSpec /\ WF_avars(Next)

=============================================================================
