------------------------------ MODULE ChartManager ------------------------------
(***************************************************************************)
(* The bottom-up chart fill of ChartManager::ProcessSentence for one       *)
(* sentence and one min-span rule table: every range is visited in order   *)
(* of increasing width, and for each start position; the rule lookup      *)
(* produces the range's translation options and the cell's target labels  *)
(* are those of the hypotheses built from them.  A range once filled is    *)
(* only read by wider ranges.                                              *)
(*                                                                         *)
(* The lookup reads the target labels of narrower cells; the              *)
(* reference definitions at the end state, from the final chart, which    *)
(* rule applications each range must be offered.                          *)
(***************************************************************************)
EXTENDS Integers, Sequences, FiniteSets, SequencesExt, Functions,
        RuleTrie, ClauseBoundaries

CONSTANTS
  N, MinSpan, RuleLimit, SourceLabelSet(_, _),
  ClauseModes,       \* whether the clause-bounds option is given
  Words,             \* the source vocabulary
  Grammars,          \* the rule tables a sentence may be decoded with
  BoundChoices,      \* the clause-boundary lists a sentence may carry
  UnknownWordLabels  \* labels the unknown-word fallback gives a word without rules

VARIABLES
  sentence, grammar, clauseMode, clauseBounds, cellLabels, transOpts, dottedRuleColls,
  width,   \* width of the range being filled
  start    \* start position of the range being filled

vars == <<sentence, grammar, clauseMode, clauseBounds, cellLabels, transOpts,
          dottedRuleColls, width, start>>

L == INSTANCE ChartRuleLookupManagerMinSpan

Spans == { r \in (0 .. N - 1) \X (0 .. N - 1) : r[1] <= r[2] }
Width(r) == r[2] - r[1] + 1

(* A range is filled once the fill has moved past it. *)
Filled(r) == Width(r) < width \/ (Width(r) = width /\ r[1] < start)

(* The target labels of the hypotheses built from a range's options: the *)
(* left-hand sides of every target phrase of every option; a one-word    *)
(* range without options gets the unknown-word fallback.                 *)
CellLabelsOf(opts, r) ==
  UNION { { q.lhs : q \in TargetPhraseCollection(grammar, opts[i].node) } :
            i \in DOMAIN opts }
  \cup (IF opts = <<>> /\ Width(r) = 1 THEN UnknownWordLabels ELSE {})

Init ==
  /\ sentence \in [1 .. N -> Words]
  /\ grammar \in Grammars
  /\ clauseMode \in ClauseModes
  /\ clauseBounds \in IF clauseMode THEN BoundChoices ELSE {<<>>}
  /\ cellLabels = [r \in Spans |-> {}]
  /\ transOpts = [r \in Spans |-> <<>>]
  /\ dottedRuleColls = L!InitDottedRuleColls
  /\ width = 1
  /\ start = 0

(* One iteration of the span loop: look the range up, build its cell,    *)
(* and move to the next start position or the next width.                *)
ProcessRange ==
  LET r == <<start, start + width - 1>>
  IN /\ width <= N
     /\ L!GetChartRuleCollection(start, start + width - 1)
     /\ cellLabels' = [cellLabels EXCEPT ![r] = CellLabelsOf(transOpts'[r], r)]
     /\ IF start + width < N
        THEN /\ start' = start + 1
             /\ UNCHANGED width
        ELSE /\ start' = 0
             /\ width' = width + 1
     /\ UNCHANGED <<sentence, grammar, clauseMode, clauseBounds>>

Done == width > N

Next == ProcessRange

Spec == Init /\ [][Next]_vars /\ WF_vars(Next)

-----------------------------------------------------------------------------
(* Reference: the rule applications a range must be offered. *)

Patterns == { q.src : q \in grammar }

(* A symbol can cover first..last: a terminal covers its one word, a      *)
(* non-terminal a range whose source labels and cell labels hold it.      *)
Covers(sym, first, last) ==
  IF sym.nt
  THEN /\ sym.src \in SourceLabelSet(first, last)
       /\ sym.tgt \in cellLabels[<<first, last>>]
  ELSE first = last /\ sentence[first + 1] = sym.src

(* All ways of cutting first..last into consecutive ranges covered by the *)
(* symbols of pat.                                                        *)
RECURSIVE Splits(_, _, _)
Splits(pat, first, last) ==
  IF pat = <<>> THEN (IF first = last + 1 THEN {<<>>} ELSE {})
  ELSE UNION { { <<<<first, j>>>> \o rest : rest \in Splits(Tail(pat), j + 1, last) } :
                 j \in { j \in first .. last : Covers(Head(pat), first, j) } }

(* The documented clause-boundary rule: a completion that straddles a     *)
(* boundary is rejected, one whose end coincides with the end of a clause *)
(* it lies in is accepted whatever it straddles elsewhere.                *)
Straddles(r, b) ==
  IsInside(r[1], b[1] + 1, b[2] + 1) # IsInside(r[2], b[1] + 1, b[2] + 1)
EndsClause(r, b) == MatchesInterval(r[2], b[2]) /\ ~Straddles(r, b)
Clauses == { BoundaryPairs(clauseBounds)[i] : i \in DOMAIN BoundaryPairs(clauseBounds) }
ClauseAdmits(r) ==
  \/ \E b \in Clauses : EndsClause(r, b)
  \/ \A b \in Clauses : ~Straddles(r, b)

(* Non-lexical unary rules are never applied; a range no wider than the   *)
(* minimum span gets no option from this table.                           *)
Applications(r) ==
  UNION { { [node |-> p, spans |-> sp] : sp \in Splits(p, r[1], r[2]) } :
            p \in { p \in Patterns : ~(Len(p) = 1 /\ p[1].nt) } }
Required(r) ==
  IF Width(r) > MinSpan /\ (clauseMode => ClauseAdmits(r)) THEN Applications(r) ELSE {}

-----------------------------------------------------------------------------
(* Invariants *)

TypeOK ==
  /\ sentence \in [1 .. N -> Words]
  /\ cellLabels \in [Spans -> SUBSET ({q.lhs : q \in grammar} \cup UnknownWordLabels)]
  /\ \A r \in Spans : \A i \in DOMAIN transOpts[r] :
       transOpts[r][i].node \in Nodes(grammar)
  /\ \A ind \in DOMAIN dottedRuleColls : \A i \in DOMAIN dottedRuleColls[ind].exp :
       dottedRuleColls[ind].exp[i].node \in Nodes(grammar)
  /\ width \in 1 .. N + 1
  /\ start \in 0 .. N - 1

(* Soundness of the lookup: every translation option of a filled range is *)
(* an application of a loaded rule whose symbols cover consecutive parts  *)
(* of exactly that range, each non-terminal over a narrower, already      *)
(* filled cell carrying its labels, and the range passes the min-span and *)
(* clause-boundary filters.                                               *)
OptionsSound ==
  \A r \in Spans : Filled(r) =>
    \A i \in DOMAIN transOpts[r] : transOpts[r][i] \in Required(r)

(* A filled range is offered every application the rule admits exactly  *)
(* once (no two options repeat a rule with the same child ranges), as    *)
(* many as the rule limit allows.                                         *)
ExactlyOnce(r) ==
  /\ IsInjective(transOpts[r])
  /\ Len(transOpts[r]) = Min({RuleLimit, Cardinality(Required(r))})

(* Completeness without the clause-bounds option: what the dotted-rule    *)
(* store has to achieve across the calls for different widths of the     *)
(* same start, with the growing list and the two-step root split.         *)
OptionsExactlyOnce ==
  \A r \in Spans : Filled(r) /\ ~clauseMode => ExactlyOnce(r)

(* The same with the clause-bounds option, under the rule of section 4.2 *)
(* of the specification: a completion whose end is the end of a clause   *)
(* it lies in is accepted whatever it straddles elsewhere and in          *)
(* whichever order the clauses are listed, one admission suffices, and a  *)
(* completion that straddles no boundary (an empty list included) is      *)
(* accepted.  The clause loop of GetChartRuleCollection is the code       *)
(* under test.                                                             *)
ClauseOptionsExactlyOnce ==
  \A r \in Spans : Filled(r) /\ clauseMode => ExactlyOnce(r)

=============================================================================
