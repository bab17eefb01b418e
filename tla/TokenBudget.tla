------------------------------ MODULE TokenBudget ------------------------------
(***************************************************************************)
(* The token benchmark, internal/benchmark/benchmark.go: a Scenario gives  *)
(* the same task a traditional and a surgical context, each a list of      *)
(* sections, and compares the sums of their estimates.  An estimate is     *)
(* rounded up per section, so the shape of a context enters the figure.    *)
(***************************************************************************)
EXTENDS Naturals

CONSTANTS
  Length,       \* the lengths, in bytes, a section may have
  MaxSections   \* bound: sections of one context

ASSUME BudgetAssumption == Length \subseteq Nat /\ MaxSections \in Nat

VARIABLE
  context       \* per side of the scenario: what TotalTokens has added up

Side == {"traditional", "surgical"}

\* The formula without the rounding, as the benchmark's test log words it.
EstimateTokensDown(length) == length \div 4

EstimateTokens(length) == IF length = 0 THEN 0 ELSE (length + 3) \div 4

\* Providers: US cents per million input tokens; Local 8B is the cheapest.
Providers == {300, 1500, 250, 80, 125, 10}
CostPerCall(tokens, price) == tokens * price

TypeOK ==
  context \in [Side -> [total : Nat, bytes : Nat, sections : Nat]]

Init == context = [s \in Side |-> [total |-> 0, bytes |-> 0, sections |-> 0]]

\* The loop of TotalTokens; empty sections are not counted in "sections".
AddSection(s, length) ==
  /\ context[s].sections < MaxSections
  /\ context' = [context EXCEPT ![s] =
       [total    |-> @.total + EstimateTokens(length),
        bytes    |-> @.bytes + length,
        sections |-> IF length = 0 THEN @.sections ELSE @.sections + 1]]

Next == \E s \in Side, length \in Length : AddSection(s, length)

Spec == Init /\ [][Next]_context
-----------------------------------------------------------------------------
\* The total of many sections is never below the estimate of the same text in
\* one piece, and above it by less than one token for each section.
RoundingBounded ==
  \A s \in Side :
    LET c == context[s] IN
    /\ EstimateTokens(c.bytes) <= c.total
    /\ c.total <= EstimateTokens(c.bytes) + c.sections
    /\ c.sections > 0 => c.total < EstimateTokens(c.bytes) + c.sections

\* benchmark.go:11-12, the same estimator for both sides keeps the comparison
\* right: a context longer by more than three bytes per section of the other
\* has more tokens and costs more with every provider, however either is cut.
VerdictHolds ==
  LET t == context["traditional"]
      u == context["surgical"]
  IN  t.bytes > u.bytes + 3 * u.sections =>
        \A price \in Providers : CostPerCall(t.total, price) > CostPerCall(u.total, price)
=============================================================================
