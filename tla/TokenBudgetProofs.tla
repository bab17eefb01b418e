---------------------------- MODULE TokenBudgetProofs ----------------------------
(***************************************************************************)
(* TokenBudget for every set of lengths and every number of sections.  The *)
(* totals alone say nothing about the next step; what is inductive is that *)
(* four times a total lies between the bytes and the bytes plus three for  *)
(* each section that is not empty.                                         *)
(***************************************************************************)
EXTENDS TokenBudget, TLAPS

\* A total overestimates by at most three quarters of a token per section.
Bracketed ==
  \A s \in Side :
    /\ context[s].bytes <= 4 * context[s].total
    /\ 4 * context[s].total <= context[s].bytes + 3 * context[s].sections

\* One estimate: a quarter of the bytes, rounded up, and nothing for no bytes.
LEMMA EstimateRounds ==
  ASSUME NEW n \in Nat
  PROVE  /\ EstimateTokens(n) \in Nat
         /\ n <= 4 * EstimateTokens(n) /\ 4 * EstimateTokens(n) <= n + 3
         /\ n = 0 => EstimateTokens(n) = 0
  BY SMT DEF EstimateTokens

\* A section adds to the total what it adds to both ends of the bracket.
LEMMA StepKeepsBracket ==
  ASSUME TypeOK, Bracketed, [Next]_context
  PROVE  TypeOK' /\ Bracketed'
<1>1. CASE UNCHANGED context
  BY <1>1 DEF TypeOK, Bracketed
<1>2. ASSUME NEW s \in Side, NEW length \in Length, AddSection(s, length)
      PROVE  TypeOK' /\ Bracketed'
  <2> DEFINE c == context[s]
             e == EstimateTokens(length)
             n == IF length = 0 THEN c.sections ELSE c.sections + 1
             d == [total |-> c.total + e, bytes |-> c.bytes + length, sections |-> n]
  <2>1. length \in Nat
    BY BudgetAssumption
  <2>2. c.total \in Nat /\ c.bytes \in Nat /\ c.sections \in Nat
    BY DEF TypeOK
  <2>3. context' = [context EXCEPT ![s] = d]
    BY <1>2 DEF AddSection
  <2>4. e \in Nat /\ length <= 4 * e /\ 4 * e <= length + 3 /\ (length = 0 => e = 0)
    BY <2>1, EstimateRounds
  <2>5. n \in Nat
    BY <2>2
  <2>6. d \in [total : Nat, bytes : Nat, sections : Nat]
    <3> HIDE DEF e, n
    <3> QED BY <2>1, <2>2, <2>4, <2>5
  <2>7. TypeOK'
    BY <2>3, <2>6 DEF TypeOK
  <2>8. c.bytes <= 4 * c.total /\ 4 * c.total <= c.bytes + 3 * c.sections
    BY DEF Bracketed
  <2>9. d.bytes <= 4 * d.total /\ 4 * d.total <= d.bytes + 3 * d.sections
    <3>1. 4 * e <= length + 3 * (n - c.sections)
      <4> HIDE DEF e
      <4> QED BY <2>1, <2>2, <2>4
    <3> HIDE DEF e, n
    <3> QED BY <2>1, <2>2, <2>8, <2>4, <2>5, <3>1
  <2>10. \A q \in Side : context'[q] = IF q = s THEN d ELSE context[q]
    BY <2>3 DEF TypeOK
  <2>11. Bracketed'
    <3> HIDE DEF d, e, n
    <3> QED BY <2>9, <2>10 DEF Bracketed
  <2> QED BY <2>7, <2>11
<1> QED BY <1>1, <1>2 DEF Next

\* Hence the bracket holds in every reachable state.
THEOREM Invariance == Spec => [](TypeOK /\ Bracketed)
<1>1. Init => TypeOK /\ Bracketed
  BY DEF Init, TypeOK, Bracketed
<1>2. TypeOK /\ Bracketed /\ [Next]_context => (TypeOK /\ Bracketed)'
  BY StepKeepsBracket
<1> QED BY <1>1, <1>2, PTL DEF Spec

\* Cutting a text into sections costs less than one token per section: for any
\* lengths and any number of sections.
THEOREM RoundingIsBounded == Spec => []RoundingBounded
<1>1. TypeOK /\ Bracketed => RoundingBounded
  <2> SUFFICES ASSUME TypeOK, Bracketed, NEW s \in Side
               PROVE  LET c == context[s] IN
                        /\ EstimateTokens(c.bytes) <= c.total
                        /\ c.total <= EstimateTokens(c.bytes) + c.sections
                        /\ c.sections > 0 => c.total < EstimateTokens(c.bytes) + c.sections
    BY DEF RoundingBounded
  <2> DEFINE b == context[s].bytes
             t == context[s].total
             n == context[s].sections
             e == EstimateTokens(b)
  <2>1. b \in Nat /\ t \in Nat /\ n \in Nat
    BY DEF TypeOK
  <2>2. b <= 4 * t /\ 4 * t <= b + 3 * n
    BY DEF Bracketed
  <2>3. e \in Nat /\ b <= 4 * e /\ 4 * e <= b + 3
    BY <2>1, EstimateRounds
  <2> HIDE DEF b, t, n, e
  <2>4. e <= t /\ t <= e + n /\ (n > 0 => t < e + n)
    BY <2>1, <2>2, <2>3
  <2> QED BY <2>4 DEF b, t, n, e
<1> QED BY <1>1, Invariance, PTL

\* The benchmark's verdict does not depend on how either context is cut.
THEOREM VerdictIsSafe == Spec => []VerdictHolds
<1>1. TypeOK /\ Bracketed => VerdictHolds
  <2> SUFFICES ASSUME TypeOK, Bracketed,
                      context["traditional"].bytes
                        > context["surgical"].bytes + 3 * context["surgical"].sections,
                      NEW price \in Providers
               PROVE  CostPerCall(context["traditional"].total, price)
                        > CostPerCall(context["surgical"].total, price)
    BY DEF VerdictHolds
  <2> DEFINE t == context["traditional"].total
             u == context["surgical"].total
             bt == context["traditional"].bytes
             bu == context["surgical"].bytes
             n == context["surgical"].sections
  <2>1. t \in Nat /\ u \in Nat /\ bt \in Nat /\ bu \in Nat /\ n \in Nat
    BY DEF TypeOK, Side
  <2>2. bt <= 4 * t /\ 4 * u <= bu + 3 * n
    BY DEF Bracketed, Side
  <2>3. bt > bu + 3 * n
    OBVIOUS
  <2> HIDE DEF t, u, bt, bu, n
  <2>4. t > u
    BY <2>1, <2>2, <2>3
  <2>5. CostPerCall(t, price) > CostPerCall(u, price)
    BY <2>1, <2>4 DEF CostPerCall, Providers
  <2> QED BY <2>5 DEF t, u
<1> QED BY <1>1, Invariance, PTL
=============================================================================
