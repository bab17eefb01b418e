------------------------------ MODULE BridgeView ------------------------------
(***************************************************************************)
(* What DashboardModel.View and RankingsModel.View make of the policies    *)
(* they hold, internal/tui/views/dashboard.go and rankings.go.  Each has   *)
(* its own copy of the sort and of the confidence classes.                 *)
(*                                                                         *)
(* A version is a set of policies in no order: one ReadAll may list them   *)
(* in another order than the next, and sort.Slice may leave policies its   *)
(* comparison does not tell apart in any order, so of a row only the       *)
(* policies that may stand in it are known.  An answer that lists a policy *)
(* twice counts as a version of its own.  Confidences are in hundredths of *)
(* a percent.                                                              *)
(***************************************************************************)
EXTENDS PolicyTables, Sequences

CONSTANT
  Content       \* per version, the confidences of the policies it holds

ASSUME ContentAssumption ==
  /\ Content \in [1..MaxVersion -> Seq(0..10000)]
  /\ \A s \in 1..MaxVersion : Content[s] = <<>> <=> s \in Empty

Loaded(v) == ~tables[v].loading /\ ~tables[v].err
Confidence(v, p) == Content[tables[v].policies][p]

Shown(v) == Len(Content[tables[v].policies])
Rows(v) == 1..Shown(v)

\* A table sorted from the lowest confidence up.
rankingsLessUp(s, p, q) == Content[s][p] < Content[s][q]

\* The functions that the two Updates give to sort.Slice.
dashboardLess(s, p, q) == Content[s][p] > Content[s][q]
rankingsLess(s, p, q) == Content[s][p] > Content[s][q]

Less(v, p, q) ==
  IF v = "Bridge" THEN dashboardLess(tables[v].policies, p, q)
                  ELSE rankingsLess(tables[v].policies, p, q)

\* sort.Slice: the policies that may stand in row i of a view are those with
\* fewer than i policies to go before them and room for those to go behind.
Ahead(v, p) == {q \in Rows(v) : Less(v, q, p)}
Behind(v, p) == {q \in Rows(v) : Less(v, p, q)}
At(v, i) ==
  {p \in Rows(v) : Cardinality(Ahead(v, p)) < i /\ i <= Shown(v) - Cardinality(Behind(v, p))}

\* The three classes of RELIABILITY DISTRIBUTION: ">= 95%", "85-95%", "< 85%".
ClassOpen(p) ==
  LET c == Confidence("Bridge", p)
  IN  IF c > 9500 THEN "high" ELSE IF c > 8500 THEN "medium" ELSE "low"

Class(p) ==
  LET c == Confidence("Bridge", p)
  IN  IF c >= 9500 THEN "high" ELSE IF c >= 8500 THEN "medium" ELSE "low"

Distribution ==
  [class \in {"high", "medium", "low"} |->
     Cardinality({p \in Rows("Bridge") : Class(p) = class})]

\* The colours of the Systems table.
confColor(p) ==
  LET c == Confidence("Systems", p)
  IN  IF c >= 9500 THEN "green" ELSE IF c >= 8500 THEN "yellow" ELSE "red"

\* The rows of TOP 5 SUBSYSTEMS and of LOWEST RELIABILITY, which is only there
\* when there are more than three policies.
Top == {i \in Rows("Bridge") : i <= 5}

Lowest == {i \in Rows("Bridge") : Shown("Bridge") > 3 /\ i > Shown("Bridge") - 3}
-----------------------------------------------------------------------------
\* Bridge and Systems give one account of the policies when they hold the same
\* ones: as many of each class as rows of its colour, and what the lists of the
\* Bridge show is what the first and last rows of the table show, however equals
\* fall in either.
ViewsAgree ==
  (/\ Loaded("Bridge") /\ Loaded("Systems")
   /\ tables["Bridge"].policies = tables["Systems"].policies) =>
    /\ \A cc \in {<<"high", "green">>, <<"medium", "yellow">>, <<"low", "red">>} :
         Distribution[cc[1]] =
           Cardinality({p \in Rows("Systems") : confColor(p) = cc[2]})
    /\ \A i \in Top \cup Lowest : \A p \in At("Bridge", i), q \in At("Systems", i) :
         Confidence("Bridge", p) = Confidence("Systems", q)

\* Of eight policies or fewer, the number the ship has, the Bridge hides none,
\* and from eight on it shows none as both among the best and among the worst;
\* what it calls lowest is nowhere more reliable than what it leaves out.
NothingHidden ==
  Loaded("Bridge") =>
    /\ Shown("Bridge") <= 8 => Top \cup Lowest = Rows("Bridge")
    /\ Shown("Bridge") >= 8 => Top \cap Lowest = {}
    /\ \A i \in Lowest, j \in Rows("Bridge") \ Lowest :
         \A p \in At("Bridge", i), q \in At("Bridge", j) :
           Confidence("Bridge", p) <= Confidence("Bridge", q)

\* No row is without a policy to show: the orders are such that a sort ends.
RowsFilled == \A v \in TableView : Loaded(v) => \A i \in Rows(v) : At(v, i) # {}

\* The Bridge summarises the policies as they are.
BridgeHonest == ViewsAgree /\ NothingHidden /\ RowsFilled
=============================================================================
