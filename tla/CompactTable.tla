----------------------------- MODULE CompactTable -----------------------------
(***************************************************************************)
(* What a compact rule table means, read from the record f of what it     *)
(* holds (see RuleTableLoaderCompact) and not from its text: the rule a   *)
(* rule line stands for, the trie node it belongs at, and when the table  *)
(* is well formed (spec 4.6 and 7: counts that agree with their sections, *)
(* score vectors of the feature's length, alignments that pair the        *)
(* non-terminals).  Shared by the loader and by its contract.             *)
(***************************************************************************)
EXTENDS Integers, Sequences, FiniteSets, RuleTrie

CONSTANTS
  NumScores,   \* ruleTable.GetFeature()->GetNumScoreComponents()
  TableLimit   \* the table limit SortAndPrune cuts to, 0 for none

ASSUME NumScores \in Nat /\ TableLimit \in Nat

(* The symbol a vocabulary entry stands for. *)
FileWord(v) == [nt |-> v.lb /\ v.rb, label |-> v.name]
FileWords(f, ids) == [k \in DOMAIN ids |-> FileWord(f.vocab[ids[k] + 1])]
RuleSource(f, r) == FileWords(f, f.srcs[r.src + 1].rhs)
RuleTarget(f, r) == FileWords(f, f.tgts[r.tgt + 1].rhs)
RuleAlignment(f, r) == f.aligns[r.align + 1]

(* Each point joins a source non-terminal to a target non-terminal, and   *)
(* every non-terminal on either side has exactly one point.               *)
AlignmentOk(f, r) ==
  LET src == RuleSource(f, r)  tgt == RuleTarget(f, r)  al == RuleAlignment(f, r)
  IN /\ \A pt \in al : /\ pt[1] < Len(src) /\ src[pt[1] + 1].nt
                       /\ pt[2] < Len(tgt) /\ tgt[pt[2] + 1].nt
     /\ \A p \in DOMAIN src : src[p].nt =>
          Cardinality({ pt \in al : pt[1] = p - 1 }) = 1
     /\ \A q \in DOMAIN tgt : tgt[q].nt =>
          Cardinality({ pt \in al : pt[2] = q - 1 }) = 1

(* The trie node of a well-formed rule: each source non-terminal is       *)
(* paired with the label of the target non-terminal it is aligned to.     *)
RefKey(f, r) ==
  LET src == RuleSource(f, r)  tgt == RuleTarget(f, r)  al == RuleAlignment(f, r)
  IN [p \in DOMAIN src |->
        IF src[p].nt
        THEN NonTerm(src[p].label, tgt[(CHOOSE pt \in al : pt[1] = p - 1)[2] + 1].label)
        ELSE Term(src[p].label)]

WellFormed(f) ==
  /\ f.version
  /\ f.vocabCount = Len(f.vocab)
  /\ f.ruleCount = Len(f.rules)
  /\ \A k \in DOMAIN f.rules : f.rules[k].scores = NumScores /\ AlignmentOk(f, f.rules[k])

(* The rule lines that belong at a node, and the target phrase each one   *)
(* becomes: the label of its target lhs, its line, its score.             *)
RefKeys(f) == { RefKey(f, f.rules[k]) : k \in DOMAIN f.rules }
RulesAt(f, key) == { k \in DOMAIN f.rules : RefKey(f, f.rules[k]) = key }
RefPhrase(f, k) ==
  [lhs |-> f.vocab[f.tgts[f.rules[k].tgt + 1].lhs + 1].name, rule |-> k,
   score |-> f.rules[k].score]

(* How many phrases a node keeps after the prune. *)
KeptSize(n) == IF TableLimit = 0 \/ n <= TableLimit THEN n ELSE TableLimit

(* The phrase sets a node may keep: KeptSize of its rules, none of them   *)
(* scoring below a rule that is left out.                                 *)
KeptSets(f, key) ==
  LET R == RulesAt(f, key) IN
  { { RefPhrase(f, k) : k \in K } :
      K \in { K \in SUBSET R :
                /\ Cardinality(K) = KeptSize(Cardinality(R))
                /\ \A a \in K, b \in R \ K : f.rules[a].score >= f.rules[b].score } }

(* The tries a well-formed table may load into. *)
RefTries(f) ==
  { t \in [RefKeys(f) -> UNION { KeptSets(f, key) : key \in RefKeys(f) }] :
      \A key \in RefKeys(f) : t[key] \in KeptSets(f, key) }

=============================================================================
