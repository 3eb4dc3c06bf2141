------------------------------ MODULE RuleTrie ------------------------------
(***************************************************************************)
(* The prefix tree of rule source sides built by                           *)
(* PhraseDictionaryMinSpan::GetOrCreateNode.  A node is identified with    *)
(* the key path from the root that creates it: a terminal child is keyed   *)
(* by the source word, a non-terminal child by the pair (source label,     *)
(* target label of the aligned target non-terminal).  A target phrase      *)
(* collection exists at a node exactly when a rule was inserted there.     *)
(* The trie is immutable after load, so it is a set of operators over the  *)
(* loaded rule set.                                                        *)
(***************************************************************************)
EXTENDS Naturals, Sequences

(* A symbol of a source pattern.  Terminal words and non-terminal label    *)
(* pairs share one record shape so that TLC can compare them.             *)
Term(w) == [nt |-> FALSE, src |-> w, tgt |-> w]
NonTerm(s, t) == [nt |-> TRUE, src |-> s, tgt |-> t]

(* The root m_collection and every node GetOrCreateNode creates: all     *)
(* prefixes of inserted patterns.                                         *)
Nodes(rules) ==
  {<<>>} \cup UNION { {SubSeq(r.src, 1, k) : k \in 0 .. Len(r.src)} : r \in rules }

(* PhraseDictionaryNodeSCFG::GetChild(word) / GetChild(srcNT, tgtNT):     *)
(* the child reached from node by sym exists.                             *)
HasChild(rules, node, sym) == Append(node, sym) \in Nodes(rules)

(* GetNonTerminalMap(): the keys of the node's non-terminal children.     *)
NonTerminalMap(rules, node) ==
  { <<r.src[Len(node) + 1].src, r.src[Len(node) + 1].tgt>> :
      r \in { q \in rules : /\ Len(q.src) > Len(node)
                            /\ SubSeq(q.src, 1, Len(node)) = node
                            /\ q.src[Len(node) + 1].nt } }

(* GetTargetPhraseCollection(): the rules inserted at node; the empty set *)
(* stands for a NULL collection.                                          *)
TargetPhraseCollection(rules, node) == { r \in rules : r.src = node }

=============================================================================
