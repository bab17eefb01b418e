------------------------- MODULE LoadingViewsProofs --------------------------
(***************************************************************************)
(* The views that load policies, for every number of loads, versions, key  *)
(* presses and rounds and every last phase.  First what the steps of       *)
(* PolicyLoads preserve, which all of them need: the types, LoadsFresh,    *)
(* and the number of loads in flight.  Then Bridge and Systems             *)
(* (PolicyTables) and what they draw (BridgeView), the Thompson sampling   *)
(* (Sampling), and the mission with the log it shares and its screens      *)
(* (Mission, MissionBoard).                                                *)
(***************************************************************************)
EXTENDS BridgeView, Sampling, MissionBoard, FiniteSetTheorems, SequenceTheorems, TLAPS

\* The loads in flight: their types, and none older than since.
LoadsIInv ==
  /\ ScreenTypeOK
  /\ LoadsTypeOK
  /\ LoadsFresh
  /\ IsFiniteSet(Answers)

\* The answers that carry r are numbered up to arrived[r].
LEMMA AnswerPairs ==
  ASSUME LoadsTypeOK
  PROVE  /\ \A r \in Result, i \in Nat : <<r, i>> \in Answers <=> i \in 1..arrived[r]
         /\ \A x \in Answers : \E r \in Result, i \in Nat : x = <<r, i>>
         /\ IsFiniteSet(Answers) => Cardinality(Answers) \in Nat /\ LoadsInFlight \in Nat
<1>1. IsFiniteSet(Answers) => Cardinality(Answers) \in Nat
  BY FS_CardinalityType
<1>2. \A r \in Result : arrived[r] \in Nat
  BY DEF LoadsTypeOK
<1>3. \A x : x \in Answers <=> \E r \in Result : x \in {r} \X (1..arrived[r])
  BY DEF Answers
<1>4. ASSUME NEW r \in Result, NEW i \in Nat
      PROVE  <<r, i>> \in Answers <=> i \in 1..arrived[r]
  BY <1>3
<1>5. ASSUME NEW x \in Answers PROVE \E r \in Result, i \in Nat : x = <<r, i>>
  <2>1. PICK r \in Result : x \in {r} \X (1..arrived[r])
    BY <1>3
  <2>2. PICK i \in 1..arrived[r] : x = <<r, i>>
    BY <2>1
  <2> QED
    BY <1>2, <2>2
<1> QED
  BY <1>1, <1>4, <1>5 DEF LoadsInFlight, LoadsTypeOK

\* No answer yet, and one load: the first command of the program.
LEMMA LoadsInitially ==
  ScreenInit /\ LoadsInit => LoadsIInv /\ LoadsInFlight = 1 /\ keys = 0
<1> SUFFICES ASSUME ScreenInit, LoadsInit PROVE LoadsIInv /\ LoadsInFlight = 1 /\ keys = 0
  OBVIOUS
<1>1. ScreenTypeOK /\ keys = 0
  BY KeysAssumption DEF KeysAssumption, ScreenInit, ScreenTypeOK, View
<1>2. LoadsTypeOK /\ LoadsFresh
  BY VersionAssumption DEF VersionAssumption, LoadsInit, LoadsTypeOK, LoadsFresh, Result
<1>3. Answers = {}
  <2>1. \A r \in Result : arrived[r] = 0
    BY DEF LoadsInit
  <2>2. \A r \in Result : {r} \X (1..arrived[r]) = {}
    BY <2>1
  <2> QED
    BY <2>2 DEF Answers
<1>4. IsFiniteSet(Answers) /\ Cardinality(Answers) = 0
  BY <1>3, FS_EmptySet
<1>5. LoadsInFlight = 1
  BY <1>4 DEF LoadsInFlight, LoadsInit
<1> QED
  BY <1>1, <1>2, <1>4, <1>5 DEF LoadsIInv

\* A step of something else.
LEMMA UnchangedLoads ==
  ASSUME LoadsIInv, UNCHANGED <<screenVars, loadVars>>
  PROVE  /\ LoadsIInv' /\ LoadOnTheWay' = LoadOnTheWay
         /\ LoadsInFlight' = LoadsInFlight /\ keys' = keys
  BY DEF LoadsIInv, ScreenTypeOK, LoadsTypeOK, LoadsFresh, LoadOnTheWay, Answers,
         LoadsInFlight, screenVars, loadVars

\* A view key: the load it asks for is on the way, and if it is the only one it
\* cannot answer with anything older than what the store holds now.  It pays for
\* the load.
LEMMA SwitchViewLoads ==
  ASSUME LoadsIInv, NEW v \in View, SwitchView(v)
  PROVE  /\ LoadsIInv' /\ (v \in Reloading => LoadOnTheWay')
         /\ LoadsInFlight' <= LoadsInFlight + 1 /\ keys' = keys + 1
<1> USE DEF LoadsIInv, SwitchView, Show
<1>1. ScreenTypeOK'
  BY KeysAssumption DEF KeysAssumption, ScreenTypeOK
<1>2. LoadsTypeOK'
  BY DEF LoadsTypeOK
<1>3. LoadsFresh'
  BY DEF LoadsFresh, LoadOnTheWay, LoadsTypeOK
<1>4. v \in Reloading => LoadOnTheWay'
  BY DEF LoadOnTheWay, LoadsTypeOK
<1>5. Answers' = Answers
  BY DEF Answers
<1>6. LoadsInFlight' <= LoadsInFlight + 1
  <2>1. Cardinality(Answers) \in Nat /\ reading \in Nat
    BY AnswerPairs DEF LoadsTypeOK
  <2>2. reading' = reading \/ reading' = reading + 1
    OBVIOUS
  <2> QED
    BY <1>5, <2>1, <2>2 DEF LoadsInFlight
<1> QED
  BY <1>1, <1>2, <1>3, <1>4, <1>5, <1>6

\* The answer of the store is as old as the store, which is no older than since.
\* A read that ends becomes an answer.
LEMMA ReadAllLoads ==
  ASSUME LoadsIInv, ReadAll
  PROVE  /\ LoadsIInv' /\ LoadOnTheWay'
         /\ LoadsInFlight' = LoadsInFlight /\ keys' = keys
<1> USE VersionAssumption DEF VersionAssumption, LoadsIInv, ReadAll
<1>1. PICK r \in {store, Failed} : arrived' = [arrived EXCEPT ![r] = @ + 1]
  OBVIOUS
<1>2. r \in Result /\ (r = Failed \/ r >= since) /\ arrived[r] \in Nat
  BY <1>1 DEF LoadsTypeOK, Result, Failed
<1>3. /\ arrived' \in [Result -> Nat]
      /\ arrived'[r] = arrived[r] + 1
      /\ \A q \in Result : q # r => arrived'[q] = arrived[q]
  BY <1>1, <1>2 DEF LoadsTypeOK
<1>4. ScreenTypeOK' /\ LoadsTypeOK' /\ keys' = keys
  BY <1>3 DEF ScreenTypeOK, LoadsTypeOK, screenVars
<1>5. LoadsFresh'
  BY <1>2, <1>3 DEF LoadsFresh
<1>6. LoadOnTheWay'
  BY <1>2, <1>3 DEF LoadOnTheWay
<1>7. Answers' = Answers \cup {<<r, arrived[r] + 1>>}
  <2> DEFINE New == {<<r, arrived[r] + 1>>}
  <2>1. \A q \in Result : {q} \X (1..arrived'[q]) =
          IF q = r THEN ({q} \X (1..arrived[q])) \cup New ELSE {q} \X (1..arrived[q])
    <3> SUFFICES ASSUME NEW q \in Result
        PROVE {q} \X (1..arrived'[q]) =
          IF q = r THEN ({q} \X (1..arrived[q])) \cup New ELSE {q} \X (1..arrived[q])
      OBVIOUS
    <3>1. 1..(arrived[r] + 1) = (1..arrived[r]) \cup {arrived[r] + 1}
      BY <1>2
    <3> QED
      BY <1>3, <3>1
  <2> HIDE DEF New
  <2>2. Answers' = UNION {{q} \X (1..arrived'[q]) : q \in Result}
    BY DEF Answers
  <2>3. Answers = UNION {{q} \X (1..arrived[q]) : q \in Result}
    BY DEF Answers
  <2> QED
    BY <1>2, <2>1, <2>2, <2>3 DEF New
<1>8. <<r, arrived[r] + 1>> \notin Answers
  BY <1>2, AnswerPairs
<1>9. IsFiniteSet(Answers') /\ Cardinality(Answers') = Cardinality(Answers) + 1
  BY <1>7, <1>8, FS_AddElement
<1>10. LoadsInFlight' = LoadsInFlight
  BY <1>9, AnswerPairs DEF LoadsInFlight, LoadsTypeOK
<1> QED
  BY <1>4, <1>5, <1>6, <1>9, <1>10

LEMMA StoreChangesLoads ==
  ASSUME LoadsIInv, StoreChanges
  PROVE  /\ LoadsIInv' /\ LoadOnTheWay' = LoadOnTheWay
         /\ LoadsInFlight' = LoadsInFlight /\ keys' = keys
<1> USE VersionAssumption DEF VersionAssumption, LoadsIInv, StoreChanges
<1>1. ScreenTypeOK' /\ LoadsTypeOK' /\ keys' = keys
  BY DEF ScreenTypeOK, LoadsTypeOK, screenVars
<1>2. LoadsFresh' /\ LoadOnTheWay' = LoadOnTheWay
  BY DEF LoadsFresh, LoadOnTheWay
<1>3. Answers' = Answers /\ LoadsInFlight' = LoadsInFlight
  BY DEF Answers, LoadsInFlight
<1> QED
  BY <1>1, <1>2, <1>3

\* What a view is handed is no older than since, and is no longer in flight.
LEMMA TakeLoads ==
  ASSUME LoadsIInv, NEW r \in Result, Take(r)
  PROVE  /\ LoadsIInv' /\ (r = Failed \/ r >= since)
         /\ LoadsInFlight' + 1 = LoadsInFlight /\ keys' = keys
<1> USE DEF LoadsIInv, Take
<1>1. /\ arrived' \in [Result -> Nat]
      /\ \A q \in Result : arrived'[q] > 0 => arrived[q] > 0
      /\ arrived[r] \in Nat \ {0} /\ arrived'[r] = arrived[r] - 1
      /\ \A q \in Result : q # r => arrived'[q] = arrived[q]
  BY DEF LoadsTypeOK
<1>2. ScreenTypeOK' /\ LoadsTypeOK' /\ keys' = keys
  BY <1>1 DEF ScreenTypeOK, LoadsTypeOK, screenVars
<1>3. LoadsFresh'
  BY <1>1 DEF LoadsFresh
<1>4. r = Failed \/ r >= since
  BY DEF LoadsFresh
<1>5. Answers' = Answers \ {<<r, arrived[r]>>}
  <2> DEFINE Old == {<<r, arrived[r]>>}
  <2>1. \A q \in Result : {q} \X (1..arrived'[q]) = ({q} \X (1..arrived[q])) \ Old
    <3> SUFFICES ASSUME NEW q \in Result
        PROVE {q} \X (1..arrived'[q]) = ({q} \X (1..arrived[q])) \ Old
      OBVIOUS
    <3>1. 1..(arrived[r] - 1) = (1..arrived[r]) \ {arrived[r]}
      BY <1>1
    <3> QED
      BY <1>1, <3>1
  <2> HIDE DEF Old
  <2>2. Answers' = UNION {{q} \X (1..arrived'[q]) : q \in Result}
    BY DEF Answers
  <2>3. Answers = UNION {{q} \X (1..arrived[q]) : q \in Result}
    BY DEF Answers
  <2> QED
    BY <2>1, <2>2, <2>3 DEF Old
<1>6. <<r, arrived[r]>> \in Answers
  BY <1>1, AnswerPairs
<1>7. IsFiniteSet(Answers') /\ Cardinality(Answers') = Cardinality(Answers) - 1
  BY <1>5, <1>6, FS_RemoveElement
<1>8. LoadsInFlight' + 1 = LoadsInFlight
  BY <1>7, AnswerPairs DEF LoadsInFlight, LoadsTypeOK
<1> QED
  BY <1>2, <1>3, <1>4, <1>7, <1>8
-----------------------------------------------------------------------------
\* The types of the tables and their two properties are inductive together.
TablesIInv ==
  /\ LoadsIInv
  /\ TablesTypeOK
  /\ OnScreenLoads
  /\ Refreshed

LEMMA TablesInitIInv == TablesInit => TablesIInv
<1> SUFFICES ASSUME TablesInit PROVE TablesIInv
  OBVIOUS
<1>1. LoadsIInv
  BY LoadsInitially DEF TablesInit
<1>2. TablesTypeOK
  <2>1. Failed \in Result
    BY VersionAssumption DEF Result, Failed, VersionAssumption
  <2>2. [loading |-> TRUE, err |-> FALSE, policies |-> Failed] \in TableModel
    BY <2>1, Zenon DEF TableModel
  <2>3. tables = [v \in TableView |-> [loading |-> TRUE, err |-> FALSE, policies |-> Failed]]
    BY DEF TablesInit, NewTables
  <2> QED
    BY <1>1, <2>2, <2>3 DEF TablesTypeOK, LoadsIInv
<1>3. currentView \notin TableView
  BY DEF TablesInit, ScreenInit, TableView
<1>4. OnScreenLoads /\ Refreshed
  BY <1>3 DEF OnScreenLoads, Refreshed
<1> QED
  BY <1>1, <1>2, <1>4 DEF TablesIInv

LEMMA TablesSwitchKeepsIInv ==
  ASSUME TablesIInv, NEW v \in View, TablesSwitch(v)
  PROVE  TablesIInv'
<1> USE DEF TablesIInv
<1>0. SwitchView(v) /\ tables' = tables
  BY DEF TablesSwitch
<1>1. LoadsIInv' /\ (v \in Reloading => LoadOnTheWay')
  BY <1>0, SwitchViewLoads
<1>2. currentView' = v
  BY <1>0 DEF SwitchView, Show
<1>3. TablesTypeOK'
  BY <1>0, <1>1 DEF TablesTypeOK, LoadsIInv
<1>4. OnScreenLoads' /\ Refreshed'
  BY <1>0, <1>1, <1>2 DEF OnScreenLoads, Refreshed, Reloading, TableView
<1> QED
  BY <1>1, <1>3, <1>4

\* The table of a load that failed has its error.
LEMMA FailureMarked ==
  ASSUME NEW r, NEW t, t = [loading |-> FALSE, err |-> r = Failed, policies |-> r], r = Failed
  PROVE  t.err
<1>1. t.err = (r = Failed)
  BY Z3
<1>2. (r = Failed) = TRUE
  OBVIOUS
<1> QED
  BY <1>1, <1>2, Zenon

LEMMA TablesLoadedKeepsIInv ==
  ASSUME TablesIInv, NEW v \in TableView, NEW r \in Result, TableLoaded(v, r)
  PROVE  TablesIInv'
<1> USE DEF TablesIInv
<1>0. /\ currentView = v /\ Take(r)
      /\ tables' = [tables EXCEPT ![v] = [loading |-> FALSE, err |-> r = Failed, policies |-> r]]
  BY DEF TableLoaded
<1>1. LoadsIInv' /\ (r = Failed \/ r >= since)
  BY <1>0, TakeLoads
<1>2. currentView' = v /\ since' = since
  BY <1>0 DEF Take, screenVars
<1>3. [loading |-> FALSE, err |-> r = Failed, policies |-> r] \in TableModel
  BY Zenon DEF TableModel
<1>4. tables' \in [TableView -> TableModel]
  BY <1>0, <1>3 DEF TablesTypeOK
<1>5. tables'[v] = [loading |-> FALSE, err |-> r = Failed, policies |-> r]
  BY <1>0 DEF TablesTypeOK
<1>6. TablesTypeOK'
  BY <1>1, <1>4 DEF TablesTypeOK, LoadsIInv
<1>7. OnScreenLoads'
  BY <1>2, <1>5 DEF OnScreenLoads
<1>8. Refreshed'
  <2>1. tables'[v].policies = r
    BY <1>5
  <2>2. r = Failed => tables'[v].err
    BY <1>5, FailureMarked
  <2>3. r # Failed => tables'[v].policies >= since'
    BY <1>1, <1>2, <2>1
  <2> QED
    BY <1>2, <2>2, <2>3 DEF Refreshed
<1> QED
  BY <1>1, <1>6, <1>7, <1>8

LEMMA LoadPastTablesKeepsIInv ==
  ASSUME TablesIInv, NEW r \in Result, LoadPastTables(r)
  PROVE  TablesIInv'
<1> USE DEF TablesIInv
<1>0. currentView \notin TableView /\ Take(r) /\ tables' = tables
  BY DEF LoadPastTables
<1>1. LoadsIInv'
  BY <1>0, TakeLoads
<1>2. currentView' \notin TableView
  BY <1>0 DEF Take, screenVars
<1> QED
  BY <1>0, <1>1, <1>2 DEF TablesTypeOK, LoadsIInv, OnScreenLoads, Refreshed

LEMMA TablesEnvironmentKeepsIInv ==
  ASSUME TablesIInv, TablesEnvironment
  PROVE  TablesIInv'
<1> USE DEF TablesIInv
<1>0. (ReadAll \/ StoreChanges) /\ tables' = tables
  BY DEF TablesEnvironment
<1>1. CASE ReadAll
  <2>1. LoadsIInv' /\ LoadOnTheWay'
    BY <1>1, ReadAllLoads
  <2> QED
    BY <1>0, <2>1 DEF TablesTypeOK, LoadsIInv, OnScreenLoads, Refreshed
<1>2. CASE StoreChanges
  <2>1. LoadsIInv' /\ LoadOnTheWay' = LoadOnTheWay
    BY <1>2, StoreChangesLoads
  <2>2. since' = since /\ currentView' = currentView
    BY <1>2 DEF StoreChanges, screenVars
  <2> QED
    BY <1>0, <2>1, <2>2 DEF TablesTypeOK, LoadsIInv, OnScreenLoads, Refreshed
<1> QED
  BY <1>0, <1>1, <1>2

LEMMA TablesNextKeepsIInv == TablesIInv /\ [TablesNext]_tablesAndLoads => TablesIInv'
<1> SUFFICES ASSUME TablesIInv, [TablesNext]_tablesAndLoads PROVE TablesIInv'
  OBVIOUS
<1>1. CASE \E v \in View : TablesSwitch(v)
  BY <1>1, TablesSwitchKeepsIInv
<1>2. CASE TablesDeliver
  BY <1>2, TablesLoadedKeepsIInv, LoadPastTablesKeepsIInv
     DEF TablesDeliver
<1>3. CASE TablesEnvironment
  BY <1>3, TablesEnvironmentKeepsIInv
<1>4. CASE UNCHANGED tablesAndLoads
  <2>1. UNCHANGED <<screenVars, loadVars>> /\ UNCHANGED <<currentView, since, tables>>
    BY <1>4 DEF tablesAndLoads, screenVars, loadVars, screenVars, loadVars
  <2>2. LoadsIInv' /\ LoadOnTheWay' = LoadOnTheWay
    BY <2>1, UnchangedLoads DEF TablesIInv
  <2> QED
    BY <2>1, <2>2 DEF TablesIInv, TablesTypeOK, LoadsIInv, OnScreenLoads, Refreshed
<1> QED
  BY <1>1, <1>2, <1>3, <1>4 DEF TablesNext

\* The inductive invariant holds in every behaviour of the two views.
THEOREM TablesInvariance == TablesSpec => []TablesIInv
<1>1. TablesInit => TablesIInv
  BY TablesInitIInv
<1>2. TablesIInv /\ [TablesNext]_tablesAndLoads => TablesIInv'
  BY TablesNextKeepsIInv
<1> QED
  BY <1>1, <1>2, PTL DEF TablesSpec

\* dashboard.go and rankings.go Update: the tables keep their types.
THEOREM TablesTypeCorrect == TablesSpec => []TablesTypeOK
<1>1. TablesIInv => TablesTypeOK
  BY DEF TablesIInv
<1> QED
  BY <1>1, TablesInvariance, PTL

\* dashboard.go and rankings.go: "Loading..." on the screen means that a load is
\* on its way, although answers are handed to whichever view has the focus.
THEOREM LoadingIsHonest == TablesSpec => []OnScreenLoads
<1>1. TablesIInv => OnScreenLoads
  BY DEF TablesIInv
<1> QED
  BY <1>1, TablesInvariance, PTL

\* The commands: no answer in flight is older than since.
THEOREM AnswersFresh == TablesSpec => []LoadsFresh
<1>1. TablesIInv => LoadsFresh
  BY DEF TablesIInv, LoadsIInv, LoadsFresh, LoadsFresh
<1> QED
  BY <1>1, TablesInvariance, PTL

\* app.go switchView: entering a view refreshes it, once all loads are in.
THEOREM EnteringRefreshes == TablesSpec => []Refreshed
<1>1. TablesIInv => Refreshed
  BY DEF TablesIInv
<1> QED
  BY <1>1, TablesInvariance, PTL
-----------------------------------------------------------------------------
LEMMA NumbersInSequence ==
  ASSUME NEW S \in SUBSET Int, NEW c \in Seq(S)
  PROVE  /\ DOMAIN c \subseteq Int
         /\ \A o \in DOMAIN c : c[o] \in Int
<1>1. Len(c) \in Nat /\ DOMAIN c = 1..Len(c)
  OBVIOUS
<1>2. \A o \in 1..Len(c) : c[o] \in S
  BY ElementOfSeq
<1>3. 1..Len(c) \subseteq Int
  BY <1>1
<1> QED
  BY <1>1, <1>2, <1>3, Zenon

LEMMA ConfidencesAreNumbers ==
  ASSUME NEW c \in Seq(0..10000)
  PROVE  /\ DOMAIN c \subseteq Int
         /\ \A o \in DOMAIN c : c[o] \in Int
<1> DEFINE confidence == 0..10000
<1>1. confidence \in SUBSET Int /\ c \in Seq(confidence)
  OBVIOUS
<1> HIDE DEF confidence
<1> QED
  BY <1>1, NumbersInSequence

\* One way to sort, that no row goes without a policy: equals in the order of
\* their positions.  A policy's place counts the policies that come before it.
ComesBefore(s, p, q) ==
  \/ Content[s][p] > Content[s][q]
  \/ Content[s][p] = Content[s][q] /\ p < q

Place(s, p) == Cardinality({q \in DOMAIN Content[s] : ComesBefore(s, q, p)}) + 1

\* Two policies are ordered one way or the other, and a policy that comes first
\* takes all that come before it along.
LEMMA OneWayOrOther ==
  ASSUME NEW s \in 1..MaxVersion, NEW p \in DOMAIN Content[s], NEW q \in DOMAIN Content[s]
  PROVE  /\ p # q => ComesBefore(s, p, q) \/ ComesBefore(s, q, p)
         /\ ~ComesBefore(s, p, p)
         /\ \A o \in DOMAIN Content[s] :
              ComesBefore(s, o, p) /\ ComesBefore(s, p, q) => ComesBefore(s, o, q)
<1>1. Content[s] \in Seq(0..10000)
  BY ContentAssumption DEF ContentAssumption
<1>2. /\ DOMAIN Content[s] \subseteq Int
      /\ \A o \in DOMAIN Content[s] : Content[s][o] \in Int
  BY <1>1, ConfidencesAreNumbers
<1> QED
  BY <1>2 DEF ComesBefore

LEMMA PolicyPlaces ==
  ASSUME NEW s \in 1..MaxVersion
  PROVE  /\ Len(Content[s]) \in Nat
         /\ DOMAIN Content[s] = 1..Len(Content[s])
         /\ IsFiniteSet(DOMAIN Content[s])
         /\ Cardinality(DOMAIN Content[s]) = Len(Content[s])
<1>1. Content[s] \in Seq(0..10000)
  BY ContentAssumption DEF ContentAssumption
<1>2. Len(Content[s]) \in Nat /\ DOMAIN Content[s] = 1..Len(Content[s])
  BY <1>1
<1> QED
  BY <1>2, FS_Interval

\* Coming first means a lower place.
LEMMA PlacesInOrder ==
  ASSUME NEW s \in 1..MaxVersion, NEW p \in DOMAIN Content[s], NEW q \in DOMAIN Content[s],
         ComesBefore(s, p, q)
  PROVE  Place(s, p) \in Int /\ Place(s, q) \in Int /\ Place(s, p) < Place(s, q)
<1> DEFINE before(o) == {r \in DOMAIN Content[s] : ComesBefore(s, r, o)}
<1>1. before(p) \cup {p} \subseteq before(q) /\ p \notin before(p)
  BY OneWayOrOther
<1>2. IsFiniteSet(before(p)) /\ IsFiniteSet(before(q))
  BY PolicyPlaces, FS_Subset
<1>3. Cardinality(before(p) \cup {p}) = Cardinality(before(p)) + 1
  BY <1>1, <1>2, FS_AddElement
<1>4. Cardinality(before(p) \cup {p}) <= Cardinality(before(q))
  BY <1>1, <1>2, FS_Subset
<1>5. Cardinality(before(p)) \in Nat /\ Cardinality(before(q)) \in Nat
  BY <1>2, FS_CardinalityType
<1>6. Place(s, p) = Cardinality(before(p)) + 1 /\ Place(s, q) = Cardinality(before(q)) + 1
  BY DEF Place
<1> HIDE DEF before
<1> QED
  BY <1>3, <1>4, <1>5, <1>6

LEMMA PlaceRange ==
  ASSUME NEW s \in 1..MaxVersion, NEW p \in DOMAIN Content[s]
  PROVE  Place(s, p) \in 1..Len(Content[s])
<1> DEFINE before == {r \in DOMAIN Content[s] : ComesBefore(s, r, p)}
<1>1. before \cup {p} \subseteq DOMAIN Content[s] /\ p \notin before
  BY OneWayOrOther
<1>2. IsFiniteSet(before)
  BY PolicyPlaces, FS_Subset
<1>3. Cardinality(before \cup {p}) = Cardinality(before) + 1
  BY <1>1, <1>2, FS_AddElement
<1>4. Cardinality(before \cup {p}) <= Len(Content[s])
  BY <1>1, PolicyPlaces, FS_Subset
<1>5. Cardinality(before) \in Nat
  BY <1>2, FS_CardinalityType
<1>6. Place(s, p) = Cardinality(before) + 1
  BY DEF Place
<1> HIDE DEF before
<1> QED
  BY <1>3, <1>4, <1>5, <1>6, PolicyPlaces

\* Every place is taken.
LEMMA EveryPlaceTaken ==
  ASSUME NEW s \in 1..MaxVersion, NEW i \in DOMAIN Content[s]
  PROVE  \E p \in DOMAIN Content[s] : Place(s, p) = i
<1> DEFINE D == DOMAIN Content[s]
           place == [p \in D |-> Place(s, p)]
<1>1. place \in [D -> D]
  BY PlaceRange, PolicyPlaces
<1>2. ASSUME NEW p \in D, NEW q \in D, place[p] = place[q] PROVE p = q
  <2>1. Place(s, p) = Place(s, q)
    BY <1>2
  <2>2. CASE ComesBefore(s, p, q)
    BY <2>1, <2>2, PlacesInOrder
  <2>3. CASE ComesBefore(s, q, p)
    BY <2>1, <2>3, PlacesInOrder
  <2> QED
    BY <2>2, <2>3, OneWayOrOther
<1>3. IsFiniteSet(D)
  BY PolicyPlaces
<1> HIDE DEF D, place
<1>4. place \in Injection(D, D)
  BY <1>1, <1>2 DEF Injection, IsInjective
<1>5. place \in Surjection(D, D)
  BY <1>3, <1>4, FS_Injection
<1>6. PICK p \in D : place[p] = i
  BY <1>5 DEF Surjection, D
<1> QED
  BY <1>6 DEF place, D
-----------------------------------------------------------------------------
\* What a table shows came out of the store.
ShownIsRead == \A v \in TableView : Loaded(v) => tables[v].policies # Failed

LEMMA ShownIsReadKept ==
  TablesIInv /\ ShownIsRead /\ [TablesNext]_tablesAndLoads => ShownIsRead'
<1> SUFFICES ASSUME TablesIInv, ShownIsRead, [TablesNext]_tablesAndLoads PROVE ShownIsRead'
  OBVIOUS
<1>1. CASE tables' = tables
  BY <1>1 DEF ShownIsRead, Loaded
<1>2. ASSUME NEW v \in TableView, NEW r \in Result, TableLoaded(v, r) PROVE ShownIsRead'
  <2>1. tables' = [tables EXCEPT ![v] = [loading |-> FALSE, err |-> r = Failed, policies |-> r]]
    BY <1>2 DEF TableLoaded
  <2>2. tables \in [TableView -> TableModel]
    BY DEF TablesIInv, TablesTypeOK
  <2>3. tables'[v] = [loading |-> FALSE, err |-> r = Failed, policies |-> r]
        /\ \A w \in TableView : w # v => tables'[w] = tables[w]
    BY <2>1, <2>2
  <2>4. /\ tables'[v].policies = r
        /\ r = Failed => tables'[v].err
    <3>1. tables'[v].policies = r
      BY <2>3
    <3> QED
      BY <2>3, <3>1, FailureMarked
  <2>5. ASSUME NEW w \in TableView, w # v, Loaded(w)' PROVE tables'[w].policies # Failed
    BY <2>3, <2>5 DEF ShownIsRead, Loaded
  <2>6. ASSUME Loaded(v)' PROVE tables'[v].policies # Failed
    BY <2>4, <2>6 DEF Loaded
  <2>7. \A w \in TableView : Loaded(w)' => tables'[w].policies # Failed
    BY <2>5, <2>6
  <2>8. Failed' = Failed
    BY DEF Failed
  <2> QED
    BY <2>7, <2>8 DEF ShownIsRead
<1>3. CASE TablesNext
  BY <1>1, <1>2, <1>3 DEF TablesNext, TablesSwitch, TablesDeliver, LoadPastTables,
                          TablesEnvironment
<1>4. CASE UNCHANGED tablesAndLoads
  BY <1>1, <1>4 DEF tablesAndLoads
<1> QED
  BY <1>3, <1>4

\* dashboard.go: a loaded table holds a version of the store.
LEMMA HoldsVersion == TablesSpec => [](TablesTypeOK /\ ShownIsRead)
<1>1. TablesInit => ShownIsRead
  BY DEF TablesInit, NewTables, ShownIsRead, Loaded
<1>2. TablesIInv => TablesTypeOK
  BY DEF TablesIInv
<1> QED
  BY <1>1, <1>2, ShownIsReadKept, TablesInvariance, PTL DEF TablesSpec

LEMMA HeldVersion ==
  ASSUME TablesTypeOK, ShownIsRead, NEW v \in TableView, Loaded(v)
  PROVE  tables[v].policies \in 1..MaxVersion
<1>1. tables[v].policies \in Result /\ tables[v].policies # Failed
  BY DEF TablesTypeOK, TableModel, ShownIsRead
<1> QED
  BY <1>1, VersionAssumption DEF Result, Failed, VersionAssumption

\* The classes of dashboard.go and the colours of rankings.go are one division.
LEMMA ClassIsColor ==
  ASSUME tables["Bridge"].policies = tables["Systems"].policies, NEW p
  PROVE  /\ Class(p) = "high" <=> confColor(p) = "green"
         /\ Class(p) = "medium" <=> confColor(p) = "yellow"
         /\ Class(p) = "low" <=> confColor(p) = "red"
BY DEF Class, confColor, Confidence

\* The two comparisons order alike: higher confidence first.
LEMMA HigherFirst ==
  ASSUME NEW v \in TableView, NEW p, NEW q
  PROVE  Less(v, p, q) <=> Confidence(v, p) > Confidence(v, q)
BY DEF Less, dashboardLess, rankingsLess, Confidence, TableView

\* What is held of the store, row by row.
LEMMA TableHeld ==
  ASSUME NEW v \in TableView, tables[v].policies \in 1..MaxVersion
  PROVE  /\ Shown(v) \in Nat
         /\ Rows(v) = 1..Shown(v)
         /\ Rows(v) = DOMAIN Content[tables[v].policies]
         /\ IsFiniteSet(Rows(v)) /\ Cardinality(Rows(v)) = Shown(v)
         /\ \A p \in Rows(v) : Confidence(v, p) \in Int
<1>1. Content[tables[v].policies] \in Seq(0..10000)
  BY ContentAssumption DEF ContentAssumption
<1>2. \A p \in DOMAIN Content[tables[v].policies] : Confidence(v, p) \in Int
  BY <1>1, ConfidencesAreNumbers DEF Confidence
<1> QED
  BY <1>2, PolicyPlaces DEF Shown, Rows

\* Of the policies before and behind a policy there are finitely many.
LEMMA Neighbours ==
  ASSUME NEW v \in TableView, tables[v].policies \in 1..MaxVersion, NEW p
  PROVE  /\ IsFiniteSet(Ahead(v, p)) /\ Cardinality(Ahead(v, p)) \in Nat
         /\ IsFiniteSet(Behind(v, p)) /\ Cardinality(Behind(v, p)) \in Nat
<1>1. Ahead(v, p) \subseteq Rows(v) /\ Behind(v, p) \subseteq Rows(v) /\ IsFiniteSet(Rows(v))
  BY TableHeld DEF Ahead, Behind
<1> QED
  BY <1>1, FS_Subset, FS_CardinalityType

\* In two tables of the same policies, further down means no higher confidence:
\* otherwise every policy would be ahead of the one or behind the other, and
\* there is no room for that many.
LEMMA RankedDown ==
  ASSUME NEW v \in TableView, NEW w \in TableView,
         tables[v].policies \in 1..MaxVersion, tables[v].policies = tables[w].policies,
         NEW i \in Int, NEW j \in Int, j <= i, NEW p \in At(v, i), NEW q \in At(w, j)
  PROVE  Confidence(v, p) <= Confidence(w, q)
<1>1. Rows(w) = Rows(v) /\ Shown(w) = Shown(v)
  BY DEF Rows, Shown
<1>2. p \in Rows(v) /\ q \in Rows(v)
  BY <1>1 DEF At
<1>3. \A o \in Rows(v) : Confidence(v, o) \in Int /\ Confidence(w, o) = Confidence(v, o)
  BY TableHeld DEF Confidence
<1>4. SUFFICES ASSUME Confidence(v, p) > Confidence(w, q) PROVE FALSE
  BY <1>2, <1>3
<1>5. Ahead(w, q) \cup Behind(v, p) = Rows(v)
  <2>1. ASSUME NEW o \in Rows(v), o \notin Ahead(w, q) PROVE o \in Behind(v, p)
    <3>1. ~(Confidence(w, o) > Confidence(w, q))
      BY <1>1, <2>1, HigherFirst DEF Ahead
    <3>2. Confidence(v, p) > Confidence(v, o)
      BY <1>2, <1>3, <1>4, <3>1
    <3> QED
      BY <3>2, HigherFirst DEF Behind
  <2> QED
    BY <1>1, <2>1 DEF Ahead, Behind
<1>6. Cardinality(Rows(v)) <= Cardinality(Ahead(w, q)) + Cardinality(Behind(v, p))
  <2> DEFINE A == Ahead(w, q)
             B == Behind(v, p)
  <2>1. IsFiniteSet(A) /\ IsFiniteSet(B) /\ Cardinality(A) \in Nat /\ Cardinality(B) \in Nat
    BY Neighbours
  <2> HIDE DEF A, B
  <2>2. Cardinality(A \cup B) = Cardinality(A) + Cardinality(B) - Cardinality(A \cap B)
    BY <2>1, FS_Union
  <2>3. Cardinality(A \cap B) \in Nat
    BY <2>1, FS_Intersection, FS_CardinalityType
  <2>4. Cardinality(A \cup B) <= Cardinality(A) + Cardinality(B)
    BY <2>1, <2>2, <2>3
  <2> QED
    BY <1>5, <2>4 DEF A, B
<1>7. /\ Cardinality(Ahead(w, q)) < j
      /\ i <= Shown(v) - Cardinality(Behind(v, p))
  BY DEF At
<1>8. Cardinality(Rows(v)) = Shown(v) /\ Shown(v) \in Nat
  BY TableHeld
<1>9. Cardinality(Ahead(w, q)) \in Nat /\ Cardinality(Behind(v, p)) \in Nat
  BY Neighbours
<1> QED
  BY <1>6, <1>7, <1>8, <1>9

LEMMA SameViews == TablesTypeOK /\ ShownIsRead => ViewsAgree
<1> SUFFICES ASSUME TablesTypeOK, ShownIsRead, Loaded("Bridge"),
                    tables["Bridge"].policies = tables["Systems"].policies
             PROVE  /\ \A cc \in {<<"high", "green">>, <<"medium", "yellow">>, <<"low", "red">>} :
                         Distribution[cc[1]] =
                           Cardinality({p \in Rows("Systems") : confColor(p) = cc[2]})
                    /\ \A i \in Top \cup Lowest : \A p \in At("Bridge", i), q \in At("Systems", i) :
                         Confidence("Bridge", p) = Confidence("Systems", q)
  BY DEF ViewsAgree
<1>1. Rows("Bridge") = Rows("Systems")
  BY DEF Rows, Shown
<1>2. /\ {p \in Rows("Bridge") : Class(p) = "high"}
           = {p \in Rows("Systems") : confColor(p) = "green"}
      /\ {p \in Rows("Bridge") : Class(p) = "medium"}
           = {p \in Rows("Systems") : confColor(p) = "yellow"}
      /\ {p \in Rows("Bridge") : Class(p) = "low"}
           = {p \in Rows("Systems") : confColor(p) = "red"}
  BY <1>1, ClassIsColor
<1>3. \A class \in {"high", "medium", "low"} :
        Distribution[class] = Cardinality({p \in Rows("Bridge") : Class(p) = class})
  BY DEF Distribution
<1>4. ASSUME NEW cc \in {<<"high", "green">>, <<"medium", "yellow">>, <<"low", "red">>}
      PROVE  Distribution[cc[1]] = Cardinality({p \in Rows("Systems") : confColor(p) = cc[2]})
  <2>1. CASE cc = <<"high", "green">>
    BY <1>2, <1>3, <2>1
  <2>2. CASE cc = <<"medium", "yellow">>
    BY <1>2, <1>3, <2>2
  <2>3. CASE cc = <<"low", "red">>
    BY <1>2, <1>3, <2>3
  <2> QED
    BY <2>1, <2>2, <2>3
<1>5. ASSUME NEW i \in Top \cup Lowest, NEW p \in At("Bridge", i), NEW q \in At("Systems", i)
      PROVE  Confidence("Bridge", p) = Confidence("Systems", q)
  <2>1. /\ tables["Bridge"].policies \in 1..MaxVersion
        /\ tables["Systems"].policies \in 1..MaxVersion
        /\ "Bridge" \in TableView /\ "Systems" \in TableView
    BY HeldVersion DEF TableView
  <2>2. i \in Int
    BY <2>1, TableHeld DEF Top, Lowest
  <2>3. i <= i
    BY <2>2
  <2>4. /\ Confidence("Bridge", p) <= Confidence("Systems", q)
        /\ Confidence("Systems", q) <= Confidence("Bridge", p)
    BY <2>1, <2>2, <2>3, RankedDown
  <2>5. p \in Rows("Bridge") /\ q \in Rows("Systems")
    BY DEF At
  <2>6. Confidence("Bridge", p) \in Int /\ Confidence("Systems", q) \in Int
    BY <2>1, <2>5, TableHeld
  <2> QED
    BY <2>4, <2>6
<1> QED
  BY <1>4, <1>5

LEMMA NoneHidden == TablesTypeOK /\ ShownIsRead => NothingHidden
<1> SUFFICES ASSUME TablesTypeOK, ShownIsRead, Loaded("Bridge") PROVE NothingHidden
  BY DEF NothingHidden
<1>1. tables["Bridge"].policies \in 1..MaxVersion /\ "Bridge" \in TableView
  BY HeldVersion DEF TableView
<1>2. Shown("Bridge") \in Nat /\ Rows("Bridge") = 1..Shown("Bridge")
  BY <1>1, TableHeld
<1>3. /\ Shown("Bridge") <= 8 => Top \cup Lowest = Rows("Bridge")
      /\ Shown("Bridge") >= 8 => Top \cap Lowest = {}
  BY <1>2 DEF Top, Lowest
<1>4. ASSUME NEW i \in Lowest, NEW j \in Rows("Bridge") \ Lowest,
             NEW p \in At("Bridge", i), NEW q \in At("Bridge", j)
      PROVE  Confidence("Bridge", p) <= Confidence("Bridge", q)
  <2>1. i \in Int /\ j \in Int /\ j <= i
    BY <1>2, <1>4 DEF Lowest
  <2> QED
    BY <1>1, <2>1, RankedDown
<1> QED
  BY <1>3, <1>4 DEF NothingHidden

LEMMA FilledRow ==
  ASSUME NEW v \in TableView, tables[v].policies \in 1..MaxVersion, NEW i \in Rows(v)
  PROVE  At(v, i) # {}
<1> DEFINE s == tables[v].policies
<1>1. PICK p \in DOMAIN Content[s] : Place(s, p) = i
  BY TableHeld, EveryPlaceTaken
<1> DEFINE before == {q \in DOMAIN Content[s] : ComesBefore(s, q, p)}
           upto == before \cup {p}
           behind == Behind(v, p)
<1>2. /\ Rows(v) = DOMAIN Content[s] /\ IsFiniteSet(Rows(v))
      /\ Cardinality(Rows(v)) = Shown(v) /\ Shown(v) \in Nat
      /\ \A q \in Rows(v) : Content[s][q] \in Int
  BY TableHeld DEF Confidence
<1>3. Cardinality(before) + 1 = i
  BY <1>1 DEF Place
<1>4. p \notin before /\ before \subseteq Rows(v) /\ upto \subseteq Rows(v)
  BY <1>1, <1>2, OneWayOrOther
<1>5. IsFiniteSet(before) /\ IsFiniteSet(upto) /\ Cardinality(before) \in Nat
  BY <1>2, <1>4, FS_Subset, FS_CardinalityType
<1>6. Cardinality(upto) = Cardinality(before) + 1
  BY <1>4, <1>5, FS_AddElement
<1>7. Ahead(v, p) \subseteq before
  BY <1>2, HigherFirst DEF Ahead, Confidence, ComesBefore
<1>8. upto \cap behind = {} /\ upto \cup behind \subseteq Rows(v)
  <2>1. ASSUME NEW q \in behind PROVE q \in Rows(v) /\ Content[s][p] > Content[s][q]
    BY HigherFirst DEF Behind, Confidence
  <2>2. ASSUME NEW q \in upto PROVE ~(Content[s][p] > Content[s][q])
    BY <1>1, <1>2, <2>2 DEF ComesBefore
  <2> QED
    BY <1>4, <2>1, <2>2
<1>9. Cardinality(Ahead(v, p)) <= Cardinality(before) /\ Cardinality(Ahead(v, p)) \in Nat
  BY <1>5, <1>7, Neighbours, FS_Subset
<1>10. IsFiniteSet(behind) /\ Cardinality(behind) \in Nat
  BY Neighbours
<1> HIDE DEF before, upto, behind
<1>11. Cardinality(upto \cup behind) = Cardinality(upto) + Cardinality(behind) - Cardinality({})
  BY <1>5, <1>8, <1>10, FS_Union
<1>12. Cardinality({}) = 0
  BY FS_EmptySet
<1>13. Cardinality(upto \cup behind) <= Cardinality(Rows(v))
  BY <1>2, <1>8, FS_Subset
<1>14. i <= Shown(v) - Cardinality(behind)
  BY <1>2, <1>3, <1>5, <1>6, <1>10, <1>11, <1>12, <1>13
<1>15. Cardinality(Ahead(v, p)) < i
  BY <1>3, <1>5, <1>9
<1> QED
  BY <1>1, <1>2, <1>14, <1>15 DEF At, behind

LEMMA NoRowEmpty == TablesTypeOK /\ ShownIsRead => RowsFilled
<1> SUFFICES ASSUME TablesTypeOK, ShownIsRead, NEW v \in TableView, Loaded(v), NEW i \in Rows(v)
             PROVE  At(v, i) # {}
  BY DEF RowsFilled
<1> QED
  BY HeldVersion, FilledRow

\* dashboard.go and rankings.go View: the Bridge and the Systems table, each with
\* its own copy of sort and classes, agree about the same policies, in whatever
\* order they were read and equals were left; the Bridge's two lists hide none of
\* eight and are the true ends of the ranking; and no row stays empty.
THEOREM BridgeIsHonest == TablesSpec => []BridgeHonest
<1>1. TablesTypeOK /\ ShownIsRead => BridgeHonest
  BY SameViews, NoneHidden, NoRowEmpty DEF BridgeHonest
<1> QED
  BY <1>1, HoldsVersion, PTL
-----------------------------------------------------------------------------
\* The ticks are those of loads that have been handed to this view: no tick
\* exists before the first load, so a tick that ends its chain is not the one a
\* loading screen waits for.
TicksFollowLoads ==
  sampling.loading => samplingTicks = 0 /\ sampling.policies = Failed

SamplingIInv ==
  /\ LoadsIInv
  /\ SamplingTypeOK
  /\ RoundsDrawnFromHeld
  /\ TicksFollowLoads
  /\ NoStall
  /\ samplingTicks + LoadsInFlight <= 1 + keys

\* The model a load leaves behind, whatever it carries.
LEMMA LoadedModel ==
  ASSUME NEW r \in Result
  PROVE  LET m == [loading |-> FALSE, err |-> r = Failed, policies |-> r, rounds |-> <<>>]
         IN  /\ m \in SamplingModel
             /\ m.rounds = <<>>
             /\ m.policies = r
             /\ ~m.loading
<1>1. (r = Failed) \in BOOLEAN /\ FALSE \in BOOLEAN
  BY Zenon
<1>2. <<>> \in Seq(Result)
  OBVIOUS
<1> QED
  BY <1>1, <1>2 DEF SamplingModel

\* The arithmetic of chains t, loads n and keys k.
LEMMA StillPaid ==
  \A t, n, m, k \in Nat :
    t + n <= 1 + k =>
      /\ m <= n + 1 => t + m <= 1 + (k + 1)
      /\ m + 1 = n => (t + 1) + m <= 1 + k /\ t + m <= 1 + k
  OBVIOUS

LEMMA SamplingInitIInv == SamplingInit => SamplingIInv
<1> SUFFICES ASSUME SamplingInit PROVE SamplingIInv
  OBVIOUS
<1>1. LoadsIInv /\ LoadsInFlight = 1 /\ keys = 0 /\ currentView = "Mission"
  BY LoadsInitially DEF SamplingInit, ScreenInit
<1>2. /\ sampling = [loading |-> TRUE, err |-> FALSE, policies |-> Failed, rounds |-> <<>>]
      /\ samplingTicks = 0
  BY DEF SamplingInit, NewSampling
<1>3. SamplingTypeOK
  <2>1. Failed \in Result
    BY VersionAssumption DEF Result, Failed, VersionAssumption
  <2>2. <<>> \in Seq(Result)
    OBVIOUS
  <2>3. sampling \in SamplingModel
    BY <1>2, <2>1, <2>2, Zenon DEF SamplingModel
  <2>4. Len(sampling.rounds) <= MaxRounds
    BY <1>2, RoundsAssumption DEF RoundsAssumption
  <2> QED
    BY <1>1, <1>2, <2>3, <2>4 DEF SamplingTypeOK, LoadsIInv
<1>4. RoundsDrawnFromHeld /\ TicksFollowLoads /\ NoStall
  BY <1>1, <1>2 DEF RoundsDrawnFromHeld, TicksFollowLoads, NoStall
<1> QED
  BY <1>1, <1>2, <1>3, <1>4 DEF SamplingIInv

LEMMA SamplingSwitchKeepsIInv ==
  ASSUME SamplingIInv, NEW v \in View, SamplingSwitch(v)
  PROVE  SamplingIInv'
<1> USE DEF SamplingIInv
<1>1. SwitchView(v) /\ sampling' = sampling /\ samplingTicks' = samplingTicks
  BY DEF SamplingSwitch, samplingVars
<1>2. /\ LoadsIInv' /\ (v \in Reloading => LoadOnTheWay')
      /\ LoadsInFlight' <= LoadsInFlight + 1 /\ keys' = keys + 1
  BY <1>1, SwitchViewLoads
<1>3. currentView' = v
  BY <1>1 DEF SwitchView, Show
<1>4. SamplingTypeOK' /\ RoundsDrawnFromHeld' /\ TicksFollowLoads'
  BY <1>1, <1>2 DEF SamplingTypeOK, LoadsIInv, RoundsDrawnFromHeld, TicksFollowLoads
<1>5. NoStall'
  BY <1>1, <1>2, <1>3 DEF NoStall, Reloading
<1>6. samplingTicks' + LoadsInFlight' <= 1 + keys'
  <2>1. /\ LoadsInFlight \in Nat /\ keys \in Nat /\ samplingTicks \in Nat
        /\ Cardinality(Answers') \in Nat /\ reading' \in Nat
    BY <1>2, AnswerPairs, KeysAssumption, FS_CardinalityType
       DEF LoadsIInv, ScreenTypeOK, LoadsTypeOK, SamplingTypeOK, KeysAssumption
  <2>2. LoadsInFlight' \in Nat
    BY <2>1 DEF LoadsInFlight
  <2>3. samplingTicks + LoadsInFlight <= 1 + keys
    OBVIOUS
  <2> HIDE DEF SamplingIInv
  <2> QED
    BY <1>1, <1>2, <2>1, <2>2, <2>3, StillPaid
<1> QED
  BY <1>2, <1>4, <1>5, <1>6

LEMMA SamplingLoadedKeepsIInv ==
  ASSUME SamplingIInv, NEW r \in Result, SamplingLoaded(r)
  PROVE  SamplingIInv'
<1> USE DEF SamplingIInv
<1>0. /\ Take(r) /\ samplingTicks' = samplingTicks + 1
      /\ sampling' = [loading |-> FALSE, err |-> r = Failed, policies |-> r, rounds |-> <<>>]
  BY DEF SamplingLoaded
<1>1. LoadsIInv' /\ LoadsInFlight' + 1 = LoadsInFlight /\ keys' = keys
  BY <1>0, TakeLoads
<1>2. sampling' \in SamplingModel /\ sampling'.rounds = <<>> /\ ~sampling'.loading
  BY <1>0, LoadedModel
<1>3. samplingTicks \in Nat /\ samplingTicks' \in Nat /\ samplingTicks' > 0
  BY <1>0 DEF SamplingTypeOK, LoadsIInv
<1>4. SamplingTypeOK'
  BY <1>1, <1>2, <1>3, RoundsAssumption DEF SamplingTypeOK, LoadsIInv, RoundsAssumption
<1>5. RoundsDrawnFromHeld' /\ TicksFollowLoads' /\ NoStall'
  BY <1>2, <1>3 DEF RoundsDrawnFromHeld, TicksFollowLoads, NoStall
<1>6. samplingTicks' + LoadsInFlight' <= 1 + keys'
  <2>1. /\ LoadsInFlight \in Nat /\ Cardinality(Answers') \in Nat /\ reading' \in Nat
        /\ keys \in Nat
    BY <1>1, AnswerPairs, FS_CardinalityType, KeysAssumption
       DEF LoadsIInv, LoadsTypeOK, ScreenTypeOK, KeysAssumption
  <2>2. LoadsInFlight' \in Nat
    BY <2>1 DEF LoadsInFlight
  <2>3. samplingTicks + LoadsInFlight <= 1 + keys
    OBVIOUS
  <2> HIDE DEF SamplingIInv
  <2> QED
    BY <1>0, <1>1, <1>3, <2>1, <2>2, <2>3, StillPaid
<1> QED
  BY <1>1, <1>4, <1>5, <1>6

LEMMA LoadPastSamplingKeepsIInv ==
  ASSUME SamplingIInv, NEW r \in Result, LoadPastSampling(r)
  PROVE  SamplingIInv'
<1> USE DEF SamplingIInv
<1>0. /\ currentView # "Sampling" /\ Take(r)
      /\ sampling' = sampling /\ samplingTicks' = samplingTicks
  BY DEF LoadPastSampling, samplingVars
<1>1. LoadsIInv' /\ LoadsInFlight' + 1 = LoadsInFlight /\ keys' = keys
  BY <1>0, TakeLoads
<1>2. currentView' # "Sampling"
  BY <1>0 DEF Take, screenVars
<1>3. samplingTicks' + LoadsInFlight' <= 1 + keys'
  <2>1. /\ LoadsInFlight \in Nat /\ Cardinality(Answers') \in Nat /\ reading' \in Nat
        /\ keys \in Nat
    BY <1>1, AnswerPairs, FS_CardinalityType, KeysAssumption
       DEF LoadsIInv, LoadsTypeOK, ScreenTypeOK, KeysAssumption
  <2>2. LoadsInFlight' \in Nat /\ samplingTicks \in Nat
    BY <2>1 DEF LoadsInFlight, SamplingTypeOK, LoadsIInv
  <2>3. samplingTicks + LoadsInFlight <= 1 + keys
    OBVIOUS
  <2> HIDE DEF SamplingIInv
  <2> QED
    BY <1>0, <1>1, <2>1, <2>2, <2>3, StillPaid
<1> QED
  BY <1>0, <1>1, <1>2, <1>3
     DEF SamplingTypeOK, LoadsIInv, RoundsDrawnFromHeld, TicksFollowLoads, NoStall

LEMMA DrawRoundKeepsIInv ==
  ASSUME SamplingIInv, DrawRound
  PROVE  SamplingIInv'
<1> USE DEF SamplingIInv
<1>0. /\ UNCHANGED <<screenVars, loadVars>> /\ samplingTicks' = samplingTicks
      /\ samplingTicks > 0 /\ Drawing
      /\ sampling' = [sampling EXCEPT !.rounds = Append(sampling.rounds, sampling.policies)]
  BY DEF DrawRound
<1>1. LoadsIInv' /\ LoadsInFlight' = LoadsInFlight /\ keys' = keys
  BY <1>0, UnchangedLoads
<1>2. /\ sampling \in SamplingModel /\ sampling.rounds \in Seq(Result)
      /\ sampling.policies \in Result
      /\ Len(sampling.rounds) < MaxRounds
  BY <1>0 DEF SamplingTypeOK, LoadsIInv, SamplingModel, Drawing
<1>3. /\ sampling' \in SamplingModel
      /\ sampling'.rounds = Append(sampling.rounds, sampling.policies)
      /\ sampling'.policies = sampling.policies
      /\ sampling'.loading = sampling.loading
  <2>1. Append(sampling.rounds, sampling.policies) \in Seq(Result)
    BY <1>2
  <2> HIDE DEF SamplingIInv
  <2> QED
    BY <1>0, <1>2, <2>1 DEF SamplingModel
<1>4. SamplingTypeOK'
  BY <1>0, <1>1, <1>2, <1>3, RoundsAssumption DEF SamplingTypeOK, LoadsIInv, RoundsAssumption
<1>5. RoundsDrawnFromHeld'
  BY <1>2, <1>3 DEF RoundsDrawnFromHeld
<1>6. TicksFollowLoads' /\ NoStall'
  BY <1>0, <1>3 DEF TicksFollowLoads, NoStall, SamplingTypeOK, LoadsIInv
<1> QED
  BY <1>0, <1>1, <1>4, <1>5, <1>6

LEMMA LastTickKeepsIInv ==
  ASSUME SamplingIInv, LastTick
  PROVE  SamplingIInv'
<1> USE DEF SamplingIInv
<1>0. /\ UNCHANGED <<screenVars, loadVars>> /\ sampling' = sampling
      /\ samplingTicks > 0 /\ samplingTicks' = samplingTicks - 1
      /\ currentView = "Sampling" => ~Drawing
  BY DEF LastTick
<1>1. /\ LoadsIInv' /\ LoadsInFlight' = LoadsInFlight /\ keys' = keys
      /\ LoadOnTheWay' = LoadOnTheWay /\ currentView' = currentView
  BY <1>0, UnchangedLoads DEF screenVars
<1>2. samplingTicks \in Nat \ {0} /\ samplingTicks' \in Nat
  BY <1>0 DEF SamplingTypeOK, LoadsIInv
<1>3. ~sampling.loading
  BY <1>2 DEF TicksFollowLoads
<1>4. SamplingTypeOK' /\ RoundsDrawnFromHeld' /\ TicksFollowLoads'
  BY <1>0, <1>1, <1>2, <1>3 DEF SamplingTypeOK, LoadsIInv, RoundsDrawnFromHeld, TicksFollowLoads
<1>5. NoStall'
  BY <1>0, <1>1, <1>3 DEF NoStall, Drawing
<1>6. samplingTicks' + LoadsInFlight' <= 1 + keys'
  <2>1. LoadsInFlight \in Nat /\ keys \in Nat
    BY AnswerPairs, KeysAssumption DEF LoadsIInv, ScreenTypeOK, KeysAssumption
  <2> QED
    BY <1>0, <1>1, <1>2, <2>1
<1> QED
  BY <1>1, <1>4, <1>5, <1>6

LEMMA SamplingEnvironmentKeepsIInv ==
  ASSUME SamplingIInv, SamplingEnvironment
  PROVE  SamplingIInv'
<1> USE DEF SamplingIInv
<1>0. (ReadAll \/ StoreChanges) /\ sampling' = sampling /\ samplingTicks' = samplingTicks
  BY DEF SamplingEnvironment, samplingVars
<1>1. LoadsIInv'
  BY <1>0, ReadAllLoads, StoreChangesLoads
<1>2. SamplingTypeOK' /\ RoundsDrawnFromHeld' /\ TicksFollowLoads'
  BY <1>0, <1>1 DEF SamplingTypeOK, LoadsIInv, RoundsDrawnFromHeld, TicksFollowLoads
<1>3. CASE ReadAll
  <2>1. LoadsIInv' /\ LoadOnTheWay' /\ LoadsInFlight' = LoadsInFlight /\ keys' = keys
    BY <1>3, ReadAllLoads
  <2> QED
    BY <1>0, <1>2, <2>1 DEF NoStall
<1>4. CASE StoreChanges
  <2>1. /\ LoadsIInv' /\ LoadOnTheWay' = LoadOnTheWay
        /\ LoadsInFlight' = LoadsInFlight /\ keys' = keys
    BY <1>4, StoreChangesLoads
  <2>2. currentView' = currentView
    BY <1>4 DEF StoreChanges, screenVars
  <2> QED
    BY <1>0, <1>2, <2>1, <2>2 DEF NoStall, Drawing
<1> QED
  BY <1>0, <1>3, <1>4

LEMMA SamplingNextKeepsIInv == SamplingIInv /\ [SamplingNext]_samplingAndLoads => SamplingIInv'
<1> SUFFICES ASSUME SamplingIInv, [SamplingNext]_samplingAndLoads PROVE SamplingIInv'
  OBVIOUS
<1>1. CASE \E v \in View : SamplingSwitch(v)
  BY <1>1, SamplingSwitchKeepsIInv
<1>2. CASE SamplingDeliver
  BY <1>2, SamplingLoadedKeepsIInv, LoadPastSamplingKeepsIInv DEF SamplingDeliver
<1>3. CASE DrawRound
  BY <1>3, DrawRoundKeepsIInv
<1>4. CASE LastTick
  BY <1>4, LastTickKeepsIInv
<1>5. CASE SamplingEnvironment
  BY <1>5, SamplingEnvironmentKeepsIInv
<1>6. CASE UNCHANGED samplingAndLoads
  <2>1. /\ UNCHANGED <<screenVars, loadVars>>
        /\ sampling' = sampling /\ samplingTicks' = samplingTicks /\ currentView' = currentView
    BY <1>6 DEF samplingAndLoads, samplingVars, screenVars
  <2>2. /\ LoadsIInv' /\ LoadOnTheWay' = LoadOnTheWay
        /\ LoadsInFlight' = LoadsInFlight /\ keys' = keys
    BY <2>1, UnchangedLoads DEF SamplingIInv
  <2> QED
    BY <2>1, <2>2 DEF SamplingIInv, SamplingTypeOK, LoadsIInv, RoundsDrawnFromHeld,
                      TicksFollowLoads, NoStall, Drawing
<1> QED
  BY <1>1, <1>2, <1>3, <1>4, <1>5, <1>6 DEF SamplingNext

\* The inductive invariant holds in every behaviour of the view.
THEOREM SamplingInvariance == SamplingSpec => []SamplingIInv
<1>1. SamplingInit => SamplingIInv
  BY SamplingInitIInv
<1>2. SamplingIInv /\ [SamplingNext]_samplingAndLoads => SamplingIInv'
  BY SamplingNextKeepsIInv
<1> QED
  BY <1>1, <1>2, PTL DEF SamplingSpec

\* sampling.go Update: the model keeps its types and never more than maxRounds.
THEOREM SamplingTypeCorrect == SamplingSpec => []SamplingTypeOK
<1>1. SamplingIInv => SamplingTypeOK
  BY DEF SamplingIInv
<1> QED
  BY <1>1, SamplingInvariance, PTL

\* sampling.go Update: no round on the screen was drawn from other policies than
\* those held, however loads and ticks interleave.
THEOREM RoundsOfOneLoad == SamplingSpec => []RoundsDrawnFromHeld
<1>1. SamplingIInv => RoundsDrawnFromHeld
  BY DEF SamplingIInv
<1> QED
  BY <1>1, SamplingInvariance, PTL

\* sampling.go Update and View: the view on the screen is never left saying
\* "Sampling..." or "Loading..." with nothing on its way to continue.
THEOREM NeverStalls == SamplingSpec => []NoStall
<1>1. SamplingIInv => NoStall
  BY DEF SamplingIInv
<1> QED
  BY <1>1, SamplingInvariance, PTL

\* sampling.go Update, app.go switchView: chains of ticks and loads on their way
\* are no more than one for the start of the program and one for each view key.
THEOREM OneChainPerLoad == SamplingSpec => []NoExtraChains
<1>1. SamplingIInv => NoExtraChains
  BY DEF SamplingIInv, NoExtraChains
<1> QED
  BY <1>1, SamplingInvariance, PTL
-----------------------------------------------------------------------------
\* The mission and the log it shares.  The invariant adds where the two meet: the
\* last line of the log is one of the phase on the screen.
LastLineOfPhase ==
  IF entries = <<>> THEN mission.phase = 0 /\ mission.loading
  ELSE entries[Len(entries)].phase = mission.phase

\* The lines of phase 0, and what pays for them: each load takes two.
Restarts == {i \in DOMAIN entries : entries[i].phase = 0}

\* Every phase up to the one on the screen has been logged.
PhasesTold == \A p \in 1..mission.phase : \E i \in DOMAIN entries : entries[i].phase = p

RestartsPaid ==
  /\ IsFiniteSet(Restarts)
  /\ Cardinality(Restarts) + 2 * LoadsInFlight <= 2 * (1 + keys)

MissionIInv ==
  /\ LoadsIInv
  /\ StoryTypeOK
  /\ LastLineOfPhase
  /\ StoryInOrder
  /\ LogTellsPhase
  /\ RestartsPaid
  /\ PhasesTold

LEMMA ShortSequences ==
  /\ <<>> \in Seq(Level) /\ Len(<<>>) = 0
  /\ \A l \in Level : <<l>> \in Seq(Level) /\ Len(<<l>>) = 1
  /\ \A l, m \in Level : <<l, m>> \in Seq(Level) /\ Len(<<l, m>>) = 2
<1>1. ASSUME NEW l \in Level PROVE <<l>> \in Seq(Level) /\ Len(<<l>>) = 1
  OBVIOUS
<1>2. ASSUME NEW l \in Level, NEW m \in Level
      PROVE  <<l, m>> \in Seq(Level) /\ Len(<<l, m>>) = 2
  OBVIOUS
<1> QED
  BY <1>1, <1>2, EmptySeq

LEMMA Sums ==
  /\ \A x \in 0..1, y \in 0..1 : x + y \in 0..2
  /\ \A x \in 0..2, y \in 1..2 : x + y \in 1..4
  /\ \A x \in 1..4 : x \in 1..LogRows
  /\ \A x \in 1..LogRows : x \in Nat /\ 1 <= x /\ x <= 20
  BY DEF LogRows

\* The lines of each phase: one or two.
LEMMA PhaseLogs ==
  \A p \in 0..9 :
    /\ phaseLogs[p].entries \in Seq(Level)
    /\ Len(phaseLogs[p].entries) \in 1..2
<1> DEFINE Lines(s) == s \in Seq(Level) /\ Len(s) \in 1..2
<1>1. /\ Lines(<<"INFO", "INFO">>) /\ Lines(<<"WARN", "WARN">>)
      /\ Lines(<<"INFO", "AGENT">>)
      /\ Lines(<<"WARN">>) /\ Lines(<<"CRITICAL">>)
  <2>1. {"INFO", "WARN", "CRITICAL", "AGENT"} \subseteq Level
    BY DEF Level
  <2> QED
    BY <2>1, ShortSequences
<1> HIDE DEF Lines
<1>2. Lines(phaseLogs[0].entries)
  <2>1. phaseLogs[0] = phaseLog("", "", 0, <<"INFO", "INFO">>, 0)
    BY DEF phaseLogs
  <2>2. phaseLog("", "", 0, <<"INFO", "INFO">>, 0).entries = <<"INFO", "INFO">>
    BY DEF phaseLog
  <2> QED
    BY <1>1, <2>1, <2>2
<1>3. Lines(phaseLogs[1].entries)
  <2>1. phaseLogs[1] = phaseLog("sensor.anomaly.detected", "diagnostic-agent", 96, <<"WARN">>, 0)
    BY DEF phaseLogs
  <2>2. phaseLog("sensor.anomaly.detected", "diagnostic-agent", 96, <<"WARN">>, 0).entries = <<"WARN">>
    BY DEF phaseLog
  <2> QED
    BY <1>1, <2>1, <2>2
<1>4. Lines(phaseLogs[2].entries)
  <2>1. phaseLogs[2] = phaseLog("engine.failure.critical", "repair-agent", 394, <<"CRITICAL">>, 0)
    BY DEF phaseLogs
  <2>2. phaseLog("engine.failure.critical", "repair-agent", 394, <<"CRITICAL">>, 0).entries = <<"CRITICAL">>
    BY DEF phaseLog
  <2> QED
    BY <1>1, <2>1, <2>2
<1>5. Lines(phaseLogs[3].entries)
  <2>1. phaseLogs[3] = phaseLog("hull.integrity.warning", "structural-agent", 280, <<"CRITICAL">>, 0)
    BY DEF phaseLogs
  <2>2. phaseLog("hull.integrity.warning", "structural-agent", 280, <<"CRITICAL">>, 0).entries = <<"CRITICAL">>
    BY DEF phaseLog
  <2> QED
    BY <1>1, <2>1, <2>2
<1>6. Lines(phaseLogs[4].entries)
  <2>1. phaseLogs[4] = phaseLog("policy.updated", "ranking-agent", 150, <<"INFO", "INFO">>, 0)
    BY DEF phaseLogs
  <2>2. phaseLog("policy.updated", "ranking-agent", 150, <<"INFO", "INFO">>, 0).entries = <<"INFO", "INFO">>
    BY DEF phaseLog
  <2> QED
    BY <1>1, <2>1, <2>2
<1>7. Lines(phaseLogs[5].entries)
  <2>1. phaseLogs[5] = phaseLog("", "repair-agent", 0, <<"WARN", "WARN">>, 0)
    BY DEF phaseLogs
  <2>2. phaseLog("", "repair-agent", 0, <<"WARN", "WARN">>, 0).entries = <<"WARN", "WARN">>
    BY DEF phaseLog
  <2> QED
    BY <1>1, <2>1, <2>2
<1>8. Lines(phaseLogs[6].entries)
  <2>1. phaseLogs[6] = phaseLog("repair.strategy.failing", "strategy-agent", 504, <<"INFO", "AGENT">>, 394)
    BY DEF phaseLogs
  <2>2. phaseLog("repair.strategy.failing", "strategy-agent", 504, <<"INFO", "AGENT">>, 394).entries = <<"INFO", "AGENT">>
    BY DEF phaseLog
  <2> QED
    BY <1>1, <2>1, <2>2
<1>9. Lines(phaseLogs[7].entries)
  <2>1. phaseLogs[7] = phaseLog("context.rehydrated", "recovery-agent", 394, <<"INFO", "INFO">>, 394)
    BY DEF phaseLogs
  <2>2. phaseLog("context.rehydrated", "recovery-agent", 394, <<"INFO", "INFO">>, 394).entries = <<"INFO", "INFO">>
    BY DEF phaseLog
  <2> QED
    BY <1>1, <2>1, <2>2
<1>10. Lines(phaseLogs[8].entries)
  <2>1. phaseLogs[8] = phaseLog("", "recovery-agent", 0, <<"INFO", "INFO">>, 0)
    BY DEF phaseLogs
  <2>2. phaseLog("", "recovery-agent", 0, <<"INFO", "INFO">>, 0).entries = <<"INFO", "INFO">>
    BY DEF phaseLog
  <2> QED
    BY <1>1, <2>1, <2>2
<1>11. Lines(phaseLogs[9].entries)
  <2>1. phaseLogs[9] = phaseLog("", "", 0, <<"INFO", "INFO">>, 0)
    BY DEF phaseLogs
  <2>2. phaseLog("", "", 0, <<"INFO", "INFO">>, 0).entries = <<"INFO", "INFO">>
    BY DEF phaseLog
  <2> QED
    BY <1>1, <2>1, <2>2
<1>12. \A p \in 0..9 : p = 0 \/ p = 1 \/ p = 2 \/ p = 3 \/ p = 4 \/ p = 5
                       \/ p = 6 \/ p = 7 \/ p = 8 \/ p = 9
  OBVIOUS
<1>13. \A p \in 0..9 : Lines(phaseLogs[p].entries)
  BY <1>2, <1>3, <1>4, <1>5, <1>6, <1>7, <1>8, <1>9, <1>10, <1>11, <1>12
<1> QED
  BY <1>13 DEF Lines

\* A phase writes one to four lines, all its own.
LEMMA EmittedLines ==
  ASSUME NEW p \in 0..LastPhase
  PROVE  /\ emitLogs(p) \in Seq(Line)
         /\ Len(emitLogs(p)) \in 1..LogRows
         /\ \A i \in 1..Len(emitLogs(p)) : emitLogs(p)[i].phase = p
<1> DEFINE pl == phaseLogs[p]
           head == IF pl.event # "" THEN <<"EVENT">> ELSE <<>>
           middle == IF pl.agent # "" /\ pl.tokens > 0 THEN <<"AGENT">> ELSE <<>>
           levels == head \o middle \o pl.entries
<1>1. p \in 0..9
  BY PhaseAssumption DEF PhaseAssumption
<1>2. pl.entries \in Seq(Level) /\ Len(pl.entries) \in 1..2
  BY <1>1, PhaseLogs
<1>3. head \in Seq(Level) /\ Len(head) \in 0..1
  <2>1. head = <<>> \/ head = <<"EVENT">>
    BY Zenon
  <2> HIDE DEF head
  <2>2. CASE head = <<>>
    BY <2>2, ShortSequences
  <2>3. CASE head = <<"EVENT">>
    <3>1. "EVENT" \in Level
      BY DEF Level
    <3> QED
      BY <2>3, <3>1, ShortSequences
  <2> QED
    BY <2>1, <2>2, <2>3
<1>4. middle \in Seq(Level) /\ Len(middle) \in 0..1
  <2>1. middle = <<>> \/ middle = <<"AGENT">>
    BY Zenon
  <2> HIDE DEF middle
  <2>2. CASE middle = <<>>
    BY <2>2, ShortSequences
  <2>3. CASE middle = <<"AGENT">>
    <3>1. "AGENT" \in Level
      BY DEF Level
    <3> QED
      BY <2>3, <3>1, ShortSequences
  <2> QED
    BY <2>1, <2>2, <2>3
<1> HIDE DEF pl, head, middle
<1>5. levels \in Seq(Level) /\ Len(levels) \in 1..4
  <2>1. head \o middle \in Seq(Level) /\ Len(head \o middle) \in 0..2
    BY <1>3, <1>4, ConcatProperties, Sums
  <2> DEFINE front == head \o middle
  <2> HIDE DEF front
  <2>2. front \in Seq(Level) /\ Len(front) \in 0..2
    BY <2>1 DEF front
  <2>3. /\ front \o pl.entries \in Seq(Level)
        /\ Len(front \o pl.entries) = Len(front) + Len(pl.entries)
    BY <1>2, <2>2, ConcatProperties
  <2>4. Len(front) + Len(pl.entries) \in 1..4
    BY <1>2, <2>2, Sums
  <2> QED
    BY <2>3, <2>4 DEF front
<1>6. emitLogs(p) = [i \in DOMAIN levels |-> [phase |-> p, level |-> levels[i]]]
  BY DEF emitLogs, pl, head, middle
<1> HIDE DEF levels
<1>7. DOMAIN levels = 1..Len(levels) /\ \A i \in 1..Len(levels) : levels[i] \in Level
  BY <1>5, LenProperties, ElementOfSeq
<1>8. emitLogs(p) \in [1..Len(levels) -> Line]
  BY <1>6, <1>7 DEF Line
<1>9. emitLogs(p) \in Seq(Line) /\ Len(emitLogs(p)) = Len(levels)
  BY <1>5, <1>6, <1>7, <1>8, IsASeq
<1>10. \A i \in 1..Len(levels) : emitLogs(p)[i].phase = p
  BY <1>6, <1>7
<1>11. Len(emitLogs(p)) \in 1..LogRows
  BY <1>5, <1>9, Sums
<1>12. \A i \in 1..Len(emitLogs(p)) : emitLogs(p)[i].phase = p
  BY <1>9, <1>10
<1> QED
  BY <1>9, <1>11, <1>12

\* Phase 0 writes two lines: it names no event and no agent.
LEMMA TwoLines == emitLogs(0) \in Seq(Line) /\ Len(emitLogs(0)) = 2
<1>1. phaseLogs[0] = phaseLog("", "", 0, <<"INFO", "INFO">>, 0)
  BY DEF phaseLogs
<1>2. /\ phaseLogs[0].event = "" /\ phaseLogs[0].agent = ""
      /\ phaseLogs[0].entries = <<"INFO", "INFO">>
  <2>1. phaseLog("", "", 0, <<"INFO", "INFO">>, 0).event = ""
    BY DEF phaseLog
  <2>2. phaseLog("", "", 0, <<"INFO", "INFO">>, 0).agent = ""
    BY DEF phaseLog
  <2>3. phaseLog("", "", 0, <<"INFO", "INFO">>, 0).entries = <<"INFO", "INFO">>
    BY DEF phaseLog
  <2> QED
    BY <1>1, <2>1, <2>2, <2>3, Zenon
<1> DEFINE two == <<"INFO", "INFO">>
           levels == (<<>> \o <<>>) \o two
<1>3. two \in Seq(Level) /\ Len(two) = 2
  <2>1. "INFO" \in Level
    BY DEF Level
  <2> QED
    BY <2>1, ShortSequences
<1>4. emitLogs(0) = [i \in DOMAIN levels |-> [phase |-> 0, level |-> levels[i]]]
  BY <1>2, Zenon DEF emitLogs
<1> HIDE DEF two
<1>5. <<>> \o <<>> \in Seq(Level) /\ Len(<<>> \o <<>>) = 0
  BY ShortSequences, ConcatProperties
<1>6. levels \in Seq(Level) /\ Len(levels) = 2
  <2>1. levels \in Seq(Level) /\ Len(levels) = Len(<<>> \o <<>>) + Len(two)
    BY <1>3, <1>5, ConcatProperties
  <2> QED
    BY <1>3, <1>5, <2>1
<1> HIDE DEF levels
<1>7. emitLogs(0) \in Seq(Line)
  BY EmittedLines, PhaseAssumption DEF PhaseAssumption
<1>8. DOMAIN emitLogs(0) = 1..2
  BY <1>4, <1>6, LenProperties
<1> QED
  BY <1>7, <1>8, LenProperties

\* Lines of another phase are no restart; two of phase 0 are two more.
LEMMA LinesCounted ==
  ASSUME entries \in Seq(Line), IsFiniteSet(Restarts),
         NEW t \in Seq(Line), entries' = entries \o t
  PROVE  /\ (\A i \in 1..Len(t) : t[i].phase # 0) => Restarts' = Restarts
         /\ (Len(t) = 2 /\ \A i \in 1..Len(t) : t[i].phase = 0) =>
              IsFiniteSet(Restarts') /\ Cardinality(Restarts') = Cardinality(Restarts) + 2
<1> DEFINE c == Len(entries)
           d == Len(t)
<1>1. c \in Nat /\ d \in Nat /\ DOMAIN entries = 1..c
  BY LenProperties
<1>2. /\ DOMAIN entries' = 1..c + d
      /\ \A i \in 1..c + d : entries'[i] = IF i <= c THEN entries[i] ELSE t[i - c]
  BY ConcatProperties, LenProperties
<1> HIDE DEF c, d
<1>3. \A i \in 1..c + d : i <= c \/ i - c \in 1..d
  BY <1>1
<1>4. \A i : i \in Restarts <=> i \in 1..c /\ entries[i].phase = 0
  BY <1>1 DEF Restarts
<1>5. \A i : i \in Restarts' <=> i \in 1..c + d /\ entries'[i].phase = 0
  BY <1>2 DEF Restarts
<1>6. \A i : i \in 1..c => i \in 1..c + d /\ i <= c
  BY <1>1
<1>7. ASSUME \A i \in 1..d : t[i].phase # 0 PROVE Restarts' = Restarts
  <2>1. ASSUME NEW i, i \in Restarts' PROVE i \in Restarts
    <3>1. i \in 1..c + d /\ entries'[i].phase = 0
      BY <1>5, <2>1
    <3>2. i <= c
      BY <1>2, <1>3, <1>7, <3>1
    <3>3. entries'[i] = entries[i] /\ i \in 1..c
      BY <1>1, <1>2, <3>1, <3>2
    <3> QED
      BY <1>4, <3>1, <3>3
  <2>2. ASSUME NEW i, i \in Restarts PROVE i \in Restarts'
    BY <1>2, <1>4, <1>5, <1>6, <2>2
  <2> QED
    BY <2>1, <2>2
<1>8. ASSUME d = 2, \A i \in 1..d : t[i].phase = 0
      PROVE  IsFiniteSet(Restarts') /\ Cardinality(Restarts') = Cardinality(Restarts) + 2
  <2>1. Restarts' = (Restarts \cup {c + 1}) \cup {c + 2}
    <3>1. \A i : i \in 1..c + d <=> i \in 1..c \/ i = c + 1 \/ i = c + 2
      BY <1>1, <1>8
    <3>2. \A i \in {c + 1, c + 2} : ~(i <= c) /\ i - c \in 1..d
      BY <1>1, <1>8
    <3>3. \A i \in {c + 1, c + 2} : entries'[i].phase = 0
      BY <1>2, <1>8, <3>1, <3>2
    <3>4. \A i \in 1..c : entries'[i] = entries[i]
      BY <1>2, <1>6
    <3> QED
      BY <1>4, <1>5, <3>1, <3>3, <3>4
  <2>2. c + 1 \notin Restarts /\ c + 2 \notin Restarts \cup {c + 1}
    BY <1>1, <1>4
  <2>3. /\ IsFiniteSet(Restarts \cup {c + 1})
        /\ Cardinality(Restarts \cup {c + 1}) = Cardinality(Restarts) + 1
    BY <2>2, FS_AddElement
  <2>4. /\ IsFiniteSet(Restarts')
        /\ Cardinality(Restarts') = Cardinality(Restarts \cup {c + 1}) + 1
    BY <2>1, <2>2, <2>3, FS_AddElement
  <2>5. Cardinality(Restarts) \in Nat
    BY FS_CardinalityType
  <2> QED
    BY <2>3, <2>4, <2>5
<1> QED
  BY <1>7, <1>8 DEF d

\* The arithmetic of lines x, loads n and keys k.
LEMMA StillPaidFor ==
  \A x, n, m, k \in Nat :
    x + 2 * n <= 2 * (1 + k) =>
      /\ m <= n + 1 => x + 2 * m <= 2 * (1 + (k + 1))
      /\ m + 1 = n => (x + 2) + 2 * m <= 2 * (1 + k) /\ x + 2 * m <= 2 * (1 + k)
  OBVIOUS

\* The counters of a state of the invariant.
LEMMA Counters ==
  ASSUME MissionIInv
  PROVE  /\ LoadsInFlight \in Nat /\ keys \in Nat /\ Cardinality(Restarts) \in Nat
         /\ Cardinality(Restarts) + 2 * LoadsInFlight <= 2 * (1 + keys)
  BY AnswerPairs, KeysAssumption, FS_CardinalityType
     DEF MissionIInv, LoadsIInv, ScreenTypeOK, KeysAssumption, RestartsPaid

\* What was appended last, up to twenty lines, ends the last twenty lines.
LEMMA TailShown ==
  ASSUME NEW e \in Seq(Line), NEW t \in Seq(Line), Len(t) \in 1..LogRows
  PROVE  LET s == e \o t
             vis == SubSeq(s, Len(s) - Least(LogRows, Len(s)) + 1, Len(s))
         IN  /\ Len(vis) >= Len(t)
             /\ SubSeq(vis, Len(vis) - Len(t) + 1, Len(vis)) = t
<1> DEFINE s == e \o t
           n == Len(s)
           c == Len(e)
           d == Len(t)
           k == Least(LogRows, n)
           vis == SubSeq(s, n - k + 1, n)
<1>1. s \in Seq(Line) /\ n = c + d
  BY ConcatProperties
<1>2. n \in Nat /\ c \in Nat /\ d \in Nat
  BY <1>1, LenProperties
<1>3. 1 <= d /\ d <= 20
  BY Sums
<1> HIDE DEF s, n, c, d
<1>4. k \in Nat /\ d <= k /\ k <= n
  BY <1>1, <1>2, <1>3 DEF Least, LogRows
<1> HIDE DEF k
<1>5. Len(vis) = k
  <2>1. \A i \in n - k + 1 .. n : s[i] \in Line
    BY <1>1, <1>2, <1>4, ElementOfSeq DEF n
  <2>2. n - k + 1 \in Int /\ n \in Int /\ n - k + 1 <= n /\ n - (n - k + 1) + 1 = k
    BY <1>2, <1>3, <1>4
  <2> QED
    BY <2>1, <2>2, SubSeqProperties
<1>6. SubSeq(vis, k - d + 1, k) = SubSeq(s, c + 1, c + d)
  <2> DEFINE i == n - k + 1
             m == k - d + 1
  <2>1. /\ i \in 1..Len(s) /\ n \in 1..Len(s)
        /\ m \in 1..n - i + 1 /\ k \in 1..n - i + 1
    BY <1>2, <1>3, <1>4 DEF n
  <2>2. i + m - 1 = c + 1 /\ i + k - 1 = c + d
    BY <1>1, <1>2, <1>4
  <2> HIDE DEF i, m
  <2>3. SubSeq(SubSeq(s, i, n), m, k) = SubSeq(s, i + m - 1, i + k - 1)
    BY <1>1, <2>1, SubSeqOfSubSeq
  <2> QED
    BY <2>2, <2>3 DEF i, m
<1>7. SubSeq(s, c + 1, c + d) = t
  <2>1. c + 1 \in c + 1 .. c + d /\ c + d \in c + 1 .. c + d
    BY <1>2, <1>3
  <2>2. SubSeq(e \o t, c + 1, c + d) = SubSeq(t, c + 1 - c, c + d - c)
    BY <2>1, SubSeqOfConcat2 DEF c, d
  <2>3. c + 1 - c = 1 /\ c + d - c = d
    BY <1>2
  <2>4. SubSeq(t, 1, d) = t
    BY SubSeqFull DEF d
  <2> QED
    BY <2>2, <2>3, <2>4 DEF s
<1>8. Len(vis) >= d /\ SubSeq(vis, Len(vis) - d + 1, Len(vis)) = t
  BY <1>4, <1>5, <1>6, <1>7, <1>2
<1> QED
  BY <1>8 DEF s, n, d, k

\* A step that tells phase p: the next one, or phase 0.
LEMMA PhaseTold ==
  ASSUME MissionIInv, NEW p \in 0..LastPhase,
         p = 0 \/ p = mission.phase + 1,
         mission'.phase = p,
         entries' = entries \o emitLogs(p)
  PROVE  /\ entries' \in Seq(Line)
         /\ LastLineOfPhase'
         /\ StoryInOrder'
         /\ LogTellsPhase'
<1> DEFINE t == emitLogs(p)
           c == Len(entries)
           d == Len(t)
<1>1. entries \in Seq(Line) /\ t \in Seq(Line)
  BY EmittedLines DEF MissionIInv, StoryTypeOK
<1>2. c \in Nat /\ d \in Nat /\ 1 <= d /\ d \in 1..LogRows
  BY <1>1, EmittedLines, LenProperties, Sums
<1>3. \A i \in 1..d : t[i].phase = p
  BY EmittedLines
<1> HIDE DEF t
<1>4. /\ entries' \in Seq(Line)
      /\ Len(entries') = c + d
      /\ \A i \in 1..c + d : entries'[i] = IF i <= c THEN entries[i] ELSE t[i - c]
  BY <1>1, ConcatProperties DEF t
<1> HIDE DEF c, d
<1>5. \A i \in c + 1 .. c + d : entries'[i].phase = p
  <2> TAKE i \in c + 1 .. c + d
  <2>1. i \in 1..c + d /\ ~(i <= c) /\ i - c \in 1..d
    BY <1>2
  <2> QED
    BY <1>3, <1>4, <2>1
<1>6. entries' # <<>>
  <2>1. Len(entries') # 0
    BY <1>2, <1>4
  <2> QED
    BY <2>1, EmptySeq
<1>7. LastLineOfPhase'
  <2>1. c + d \in c + 1 .. c + d
    BY <1>2
  <2> QED
    BY <1>4, <1>5, <1>6, <2>1 DEF LastLineOfPhase
<1>8. StoryInOrder'
  <2> SUFFICES ASSUME NEW i \in DOMAIN entries', i > 1
               PROVE  entries'[i].phase \in
                        {entries'[i-1].phase, entries'[i-1].phase + 1, 0}
    BY DEF StoryInOrder
  <2>1. i \in 1..c + d /\ i \in Nat /\ i - 1 \in 1..c + d
    BY <1>2, <1>4, LenProperties
  <2>2. CASE i <= c
    <3>1. i - 1 <= c /\ i \in DOMAIN entries
      BY <1>1, <1>2, <2>1, <2>2, LenProperties DEF c
    <3>2. entries'[i] = entries[i] /\ entries'[i-1] = entries[i-1]
      BY <1>4, <2>1, <2>2, <3>1
    <3> QED
      BY <3>1, <3>2 DEF MissionIInv, StoryInOrder
  <2>3. CASE i = c + 1
    <3>1. entries'[i].phase = p
      BY <1>2, <1>5, <2>3
    <3>2. c > 0 /\ i - 1 = c /\ i - 1 <= c
      BY <1>2, <2>1, <2>3
    <3>3. entries # <<>>
      BY <3>2, EmptySeq DEF c
    <3>4. entries'[i-1].phase = mission.phase
      BY <1>4, <2>1, <3>2, <3>3 DEF MissionIInv, LastLineOfPhase, c
    <3> QED
      BY <3>1, <3>4
  <2>4. CASE i > c + 1
    <3>1. i \in c + 1 .. c + d /\ i - 1 \in c + 1 .. c + d
      BY <1>2, <2>1, <2>4
    <3> QED
      BY <1>5, <3>1
  <2>5. i <= c \/ i = c + 1 \/ i > c + 1
    BY <1>2, <2>1
  <2> QED
    BY <2>2, <2>3, <2>4, <2>5
<1>9. LogTellsPhase'
  <2>1. LET s == entries \o t
            vis == SubSeq(s, Len(s) - Least(LogRows, Len(s)) + 1, Len(s))
        IN  /\ Len(vis) >= d
            /\ SubSeq(vis, Len(vis) - d + 1, Len(vis)) = t
    BY <1>1, <1>2, TailShown DEF d
  <2>2. emitLogs(mission'.phase) = t /\ entries' = entries \o t
    BY DEF t
  <2> QED
    BY <1>6, <2>1, <2>2 DEF LogTellsPhase, Visible, d
<1> QED
  BY <1>4, <1>7, <1>8, <1>9

MissionModel == [phase : 0..LastPhase, loading : BOOLEAN, err : BOOLEAN, policies : Result]

LEMMA MissionInitIInv == MissionInit => MissionIInv
<1> SUFFICES ASSUME MissionInit PROVE MissionIInv
  OBVIOUS
<1> USE DEF MissionInit, NewMission
<1>1. LoadsIInv /\ LoadsInFlight = 1 /\ keys = 0
  BY LoadsInitially
<1>2. StoryTypeOK
  <2>1. /\ 0 \in 0..LastPhase /\ TRUE \in BOOLEAN /\ FALSE \in BOOLEAN
        /\ Failed \in Result /\ <<>> \in Seq(Line)
    BY PhaseAssumption, VersionAssumption, EmptySeq
       DEF PhaseAssumption, VersionAssumption, Result, Failed
  <2> QED
    BY <2>1 DEF StoryTypeOK
<1>3. LastLineOfPhase /\ LogTellsPhase
  BY DEF LastLineOfPhase, LogTellsPhase
<1>4. StoryInOrder
  <2>1. DOMAIN entries = {}
    OBVIOUS
  <2> QED
    BY <2>1 DEF StoryInOrder
<1>5. RestartsPaid
  <2>1. Restarts = {}
    BY DEF Restarts
  <2>2. IsFiniteSet(Restarts) /\ Cardinality(Restarts) = 0
    BY <2>1, FS_EmptySet
  <2> QED
    BY <1>1, <2>2 DEF RestartsPaid
<1>6. PhasesTold
  BY DEF PhasesTold
<1> QED
  BY <1>1, <1>2, <1>3, <1>4, <1>5, <1>6 DEF MissionIInv

\* Steps that leave the mission and the log alone; what they do to the loads is
\* paid for.
LEMMA UntouchedKeepsIInv ==
  ASSUME MissionIInv, LoadsIInv', UNCHANGED missionVars,
         \/ LoadsInFlight' <= LoadsInFlight + 1 /\ keys' = keys + 1
         \/ LoadsInFlight' + 1 = LoadsInFlight /\ keys' = keys
         \/ LoadsInFlight' = LoadsInFlight /\ keys' = keys
  PROVE  MissionIInv'
<1>1. Restarts' = Restarts
  BY DEF Restarts, missionVars
<1>2. LoadsInFlight' \in Nat
  <2>1. Cardinality(Answers') \in Nat /\ reading' \in Nat
    BY FS_CardinalityType DEF LoadsIInv, LoadsTypeOK
  <2> QED
    BY <2>1 DEF LoadsInFlight
<1>3. RestartsPaid'
  <2>1. IsFiniteSet(Restarts')
    BY <1>1 DEF MissionIInv, RestartsPaid
  <2>2. Cardinality(Restarts') + 2 * LoadsInFlight' <= 2 * (1 + keys')
    BY <1>1, <1>2, Counters, StillPaidFor
  <2> QED
    BY <2>1, <2>2 DEF RestartsPaid
<1> QED
  BY <1>3 DEF MissionIInv, missionVars, StoryTypeOK, LastLineOfPhase, StoryInOrder,
              LogTellsPhase, Visible, PhasesTold

LEMMA MissionLoadedKeepsIInv ==
  ASSUME MissionIInv, NEW r \in Result, MissionLoaded(r)
  PROVE  MissionIInv'
<1>1. LoadsIInv' /\ LoadsInFlight' + 1 = LoadsInFlight /\ keys' = keys
  BY TakeLoads DEF MissionLoaded, MissionIInv
<1>2. 0 \in 0..LastPhase
  BY PhaseAssumption DEF PhaseAssumption
<1>3. mission' \in MissionModel /\ mission'.phase = 0
  <2>1. (r = Failed) \in BOOLEAN /\ FALSE \in BOOLEAN
    BY Zenon
  <2>2. mission' = [phase |-> 0, loading |-> FALSE, err |-> r = Failed, policies |-> r]
    BY DEF MissionLoaded, Held
  <2> QED
    BY <1>2, <2>1, <2>2 DEF MissionModel
<1>4. entries' = entries \o emitLogs(0)
  BY DEF MissionLoaded
<1>5. entries' \in Seq(Line) /\ LastLineOfPhase' /\ StoryInOrder' /\ LogTellsPhase'
  BY <1>2, <1>3, <1>4, PhaseTold
<1>6. RestartsPaid'
  <2>1. entries \in Seq(Line) /\ IsFiniteSet(Restarts)
    BY DEF MissionIInv, StoryTypeOK, RestartsPaid
  <2>2. \A i \in 1..Len(emitLogs(0)) : emitLogs(0)[i].phase = 0
    BY <1>2, EmittedLines
  <2>3. IsFiniteSet(Restarts') /\ Cardinality(Restarts') = Cardinality(Restarts) + 2
    BY <1>4, <2>1, <2>2, TwoLines, LinesCounted
  <2>4. LoadsInFlight' \in Nat
    <3>1. Cardinality(Answers') \in Nat /\ reading' \in Nat
      BY <1>1, FS_CardinalityType DEF LoadsIInv, LoadsTypeOK
    <3> QED
      BY <3>1 DEF LoadsInFlight
  <2>5. Cardinality(Restarts') + 2 * LoadsInFlight' <= 2 * (1 + keys')
    BY <1>1, <2>3, <2>4, Counters, StillPaidFor
  <2> QED
    BY <2>3, <2>5 DEF RestartsPaid
<1>7. PhasesTold'
  BY <1>3 DEF PhasesTold
<1> QED
  BY <1>1, <1>3, <1>5, <1>6, <1>7 DEF MissionIInv, StoryTypeOK, MissionModel

LEMMA SpaceKeepsIInv ==
  ASSUME MissionIInv, Space
  PROVE  MissionIInv'
<1> DEFINE p == mission.phase + 1
<1>1. LoadsIInv' /\ LoadsInFlight' = LoadsInFlight /\ keys' = keys
  BY UnchangedLoads DEF Space, Advance, MissionIInv
<1>2. p \in 0..LastPhase
  BY PhaseAssumption DEF PhaseAssumption, Space, Advance, MissionIInv, StoryTypeOK
<1>3. mission' = [mission EXCEPT !.phase = p] /\ entries' = entries \o emitLogs(p)
  BY DEF Space, Advance
<1> HIDE DEF p
<1>4. mission' \in MissionModel /\ mission'.phase = p
  BY <1>2, <1>3 DEF MissionIInv, StoryTypeOK, MissionModel
<1>5. entries' \in Seq(Line) /\ LastLineOfPhase' /\ StoryInOrder' /\ LogTellsPhase'
  <2>1. p = mission.phase + 1
    BY DEF p
  <2> QED
    BY <1>2, <1>3, <1>4, <2>1, PhaseTold
<1>6. RestartsPaid'
  <2>1. entries \in Seq(Line) /\ IsFiniteSet(Restarts)
    BY DEF MissionIInv, StoryTypeOK, RestartsPaid
  <2>2. p # 0
    BY DEF p, MissionIInv, StoryTypeOK
  <2>3. emitLogs(p) \in Seq(Line) /\ \A i \in 1..Len(emitLogs(p)) : emitLogs(p)[i].phase # 0
    BY <1>2, <2>2, EmittedLines
  <2>4. Restarts' = Restarts
    BY <1>3, <2>1, <2>3, LinesCounted
  <2> QED
    BY <1>1, <2>4 DEF MissionIInv, RestartsPaid
<1>7. PhasesTold'
  <2> DEFINE c == Len(entries)
             t == emitLogs(p)
  <2>1. entries \in Seq(Line) /\ t \in Seq(Line) /\ Len(t) \in 1..LogRows
        /\ \A i \in 1..Len(t) : t[i].phase = p
    BY <1>2, EmittedLines DEF MissionIInv, StoryTypeOK
  <2>2. LogRows \in Nat /\ c \in Nat
    BY <2>1 DEF LogRows
  <2> HIDE DEF t
  <2>3. /\ DOMAIN entries' = 1..(c + Len(t))
        /\ \A i \in 1..c : entries'[i] = entries[i]
        /\ entries'[c + 1] = t[1]
        /\ DOMAIN entries = 1..c
    BY <1>3, <2>1, <2>2 DEF t
  <2>4. 1 \in 1..Len(t) /\ c + 1 \in 1..(c + Len(t)) /\ 1..c \subseteq 1..(c + Len(t))
    BY <2>1, <2>2
  <2>5. ASSUME NEW q \in 1..p PROVE \E i \in DOMAIN entries' : entries'[i].phase = q
    <3>1. CASE q = p
      BY <2>1, <2>3, <2>4, <3>1
    <3>2. CASE q # p
      <4>1. q \in 1..mission.phase
        BY <1>2, <3>2 DEF p, MissionIInv, StoryTypeOK
      <4>2. PICK i \in DOMAIN entries : entries[i].phase = q
        BY <4>1 DEF MissionIInv, PhasesTold
      <4> QED
        BY <2>3, <2>4, <4>2
    <3> QED
      BY <3>1, <3>2
  <2> QED
    BY <1>4, <2>5 DEF PhasesTold
<1> QED
  BY <1>1, <1>4, <1>5, <1>6, <1>7 DEF MissionIInv, StoryTypeOK, MissionModel

LEMMA MissionNextKeepsIInv == MissionIInv /\ [MissionNext]_missionAndLoads => MissionIInv'
<1> SUFFICES ASSUME MissionIInv, [MissionNext]_missionAndLoads PROVE MissionIInv'
  OBVIOUS
<1>1. ASSUME NEW v \in View, MissionSwitch(v) PROVE MissionIInv'
  BY <1>1, SwitchViewLoads, UntouchedKeepsIInv DEF MissionSwitch, MissionIInv
<1>2. CASE Space
  BY <1>2, SpaceKeepsIInv
<1>3. ASSUME NEW r \in Result, MissionLoaded(r) PROVE MissionIInv'
  BY <1>3, MissionLoadedKeepsIInv
<1>4. ASSUME NEW r \in Result, LoadPastMission(r) PROVE MissionIInv'
  BY <1>4, TakeLoads, UntouchedKeepsIInv DEF LoadPastMission, MissionIInv
<1>5. CASE MissionEnvironment
  BY <1>5, ReadAllLoads, StoreChangesLoads, UntouchedKeepsIInv DEF MissionEnvironment, MissionIInv
<1>6. CASE UNCHANGED missionAndLoads
  <2>1. LoadsIInv' /\ LoadsInFlight' = LoadsInFlight /\ keys' = keys
    BY <1>6, UnchangedLoads DEF missionAndLoads, MissionIInv
  <2> QED
    BY <1>6, <2>1, UntouchedKeepsIInv DEF missionAndLoads
<1> QED
  BY <1>1, <1>2, <1>3, <1>4, <1>5, <1>6 DEF MissionNext, MissionDeliver

\* The inductive invariant holds in every behaviour of the mission.
THEOREM MissionInvariance == MissionSpec => []MissionIInv
<1>1. MissionInit => MissionIInv
  BY MissionInitIInv
<1>2. MissionIInv /\ [MissionNext]_missionAndLoads => MissionIInv'
  BY MissionNextKeepsIInv
<1> QED
  BY <1>1, <1>2, PTL DEF MissionSpec

\* mission.go: the model and the shared log keep their types.
THEOREM MissionTypeCorrect == MissionSpec => []MissionTypeOK
<1>1. MissionIInv => MissionTypeOK
  BY DEF MissionIInv, MissionTypeOK, LoadsIInv
<1> QED
  BY <1>1, MissionInvariance, PTL

\* mission.go emitLogs, events.go View: the end of what the Ship's Log shows is
\* the phase on the mission screen, after any number of restarts.
THEOREM LogAndScreenAgree == MissionSpec => []LogTellsPhase
<1>1. MissionIInv => LogTellsPhase
  BY DEF MissionIInv
<1> QED
  BY <1>1, MissionInvariance, PTL

\* mission.go Update: the log never skips a phase.
THEOREM StoryTold == MissionSpec => []StoryInOrder
<1>1. MissionIInv => StoryInOrder
  BY DEF MissionIInv
<1> QED
  BY <1>1, MissionInvariance, PTL

\* mission.go Update, app.go switchView: the mission starts no more often than
\* once for the start of the program and once for each view key.
THEOREM RestartsAreAskedFor == MissionSpec => []NoSpontaneousRestart
<1>1. MissionIInv => NoSpontaneousRestart
  BY TwoLines DEF MissionIInv, RestartsPaid, Restarts, NoSpontaneousRestart
<1> QED
  BY <1>1, MissionInvariance, PTL
-----------------------------------------------------------------------------
\* The board.
LEMMA Overridden ==
  ASSUME NEW e, NEW p, NEW s, NEW h, NEW t \in Overridable
  PROVE  Overrides(e, p, s, h)[t] =
           CASE t = "eng.thrust" -> e [] t = "power.reroute" -> p
             [] t = "shield.mod" -> s [] t = "hull.seal" -> h
BY DEF Overrides

\* Left alone, no system of the ship is near the limit of DEGRADED.
LEMMA ShipIsSound ==
  /\ DOMAIN PolicyStore = 1..8
  /\ \A i \in 1..8 : PolicyStore[i].errRate <= 150
  /\ \A i \in 1..8 : PolicyStore[i].tool \in Compromised <=> i \in {6, 7, 8}
<1>1. DOMAIN PolicyStore = 1..8
  BY DEF PolicyStore
<1>2. /\ PolicyStore[1] = Policy("nav.plot", 53) /\ PolicyStore[2] = Policy("scan.deep", 57)
      /\ PolicyStore[3] = Policy("comm.burst", 55) /\ PolicyStore[4] = Policy("life.recycle", 72)
      /\ PolicyStore[5] = Policy("hull.seal", 82) /\ PolicyStore[6] = Policy("power.reroute", 94)
      /\ PolicyStore[7] = Policy("shield.mod", 107) /\ PolicyStore[8] = Policy("eng.thrust", 125)
  BY DEF PolicyStore
<1>3. \A t, x : Policy(t, x).tool = t /\ Policy(t, x).errRate = x
  BY DEF Policy
<1>4. \A i \in 1..8 : i = 1 \/ i = 2 \/ i = 3 \/ i = 4 \/ i = 5 \/ i = 6 \/ i = 7 \/ i = 8
  OBVIOUS
<1>5. /\ PolicyStore[1].tool = "nav.plot" /\ PolicyStore[2].tool = "scan.deep"
      /\ PolicyStore[3].tool = "comm.burst" /\ PolicyStore[4].tool = "life.recycle"
      /\ PolicyStore[5].tool = "hull.seal" /\ PolicyStore[6].tool = "power.reroute"
      /\ PolicyStore[7].tool = "shield.mod" /\ PolicyStore[8].tool = "eng.thrust"
  BY <1>2, <1>3
<1>6. /\ PolicyStore[1].errRate = 53 /\ PolicyStore[2].errRate = 57
      /\ PolicyStore[3].errRate = 55 /\ PolicyStore[4].errRate = 72
      /\ PolicyStore[5].errRate = 82 /\ PolicyStore[6].errRate = 94
      /\ PolicyStore[7].errRate = 107 /\ PolicyStore[8].errRate = 125
  BY <1>2, <1>3
<1>7. \A i \in 1..8 : PolicyStore[i].errRate <= 150
  BY <1>4, <1>6
<1>8. \A i \in 1..8 : PolicyStore[i].tool \in Compromised <=> i \in {6, 7, 8}
  BY <1>4, <1>5 DEF Compromised
<1> QED
  BY <1>1, <1>7, <1>8

\* A row of the table is a policy that was read.
LEMMA RowsAreHeld ==
  ASSUME MissionIInv, NEW i \in Systems
  PROVE  /\ mission.policies # Failed
         /\ i \in DOMAIN Ship[mission.policies]
         /\ System(i).errRate \in Nat
<1>1. mission.policies # Failed /\ i \in DOMAIN Ship[mission.policies]
  BY DEF Systems
<1>2. mission.policies \in 1..MaxVersion
  <2>1. mission.policies \in Result
    BY DEF MissionIInv, StoryTypeOK
  <2> QED
    BY <1>1, <2>1, VersionAssumption DEF Result, Failed, VersionAssumption
<1>3. Ship[mission.policies] \in Seq([tool : STRING, errRate : Nat])
  BY <1>2, ShipAssumption DEF ShipAssumption
<1> DEFINE row == [tool : STRING, errRate : Nat]
           held == Ship[mission.policies]
<1>4. Ship[mission.policies][i] \in row
  <2>1. held \in Seq(row) /\ i \in DOMAIN held
    BY <1>1, <1>3
  <2> HIDE DEF row, held
  <2>2. i \in 1..Len(held)
    BY <2>1, LenProperties
  <2>3. held[i] \in row
    BY <2>1, <2>2, ElementOfSeq
  <2> QED
    BY <2>3 DEF held
<1> QED
  BY <1>1, <1>4 DEF System

\* The last line of the log is one of the phase on the screen.
LEMMA LastLineTold == MissionIInv /\ entries # <<>> => LastLogged = mission.phase
  BY DEF MissionIInv, LastLineOfPhase, LastLogged

LEMMA PhaseRange == MissionIInv => mission.phase \in 0..9
  BY PhaseAssumption DEF PhaseAssumption, MissionIInv, StoryTypeOK

\* The renderer of each phase, one by one.
LEMMA Renderers ==
  /\ PhaseView(0) = phaseCruise /\ PhaseView(1) = phaseAnomaly
  /\ PhaseView(2) = phaseEngineFailure /\ PhaseView(3) = phaseCascade
  /\ PhaseView(4) = phaseAdapt /\ PhaseView(5) = phaseWrongPath
  /\ PhaseView(6) = phaseEscalation /\ PhaseView(7) = phaseRehydration
  /\ PhaseView(8) = phaseNewBranch /\ PhaseView(9) = phaseResolution
  BY DEF PhaseView

LEMMA TenPhases ==
  \A p \in 0..9 : p = 0 \/ p = 1 \/ p = 2 \/ p = 3 \/ p = 4 \/ p = 5
                  \/ p = 6 \/ p = 7 \/ p = 8 \/ p = 9
  OBVIOUS

\* Where the banner says NOMINAL, the table overrides nothing and filters nothing.
LEMMA NominalScreens ==
  ASSUME NEW p \in 0..9, PhaseView(p).banner = "NOMINAL"
  PROVE  PhaseView(p).table = Table(None, 0)
<1>1. /\ phaseAnomaly.banner # "NOMINAL" /\ phaseEngineFailure.banner # "NOMINAL"
      /\ phaseCascade.banner # "NOMINAL" /\ phaseAdapt.banner # "NOMINAL"
      /\ phaseWrongPath.banner # "NOMINAL" /\ phaseEscalation.banner # "NOMINAL"
      /\ phaseRehydration.banner # "NOMINAL" /\ phaseNewBranch.banner # "NOMINAL"
  BY DEF phaseAnomaly, phaseEngineFailure, phaseCascade, phaseAdapt, phaseWrongPath,
         phaseEscalation, phaseRehydration, phaseNewBranch, PhaseScreen
<1>2. p = 0 \/ p = 9
  BY <1>1, Renderers, TenPhases
<1>3. phaseCruise.table = Table(None, 0) /\ phaseResolution.table = Table(None, 0)
  BY DEF phaseCruise, phaseResolution, PhaseScreen
<1> QED
  BY <1>2, <1>3, Renderers

\* Where nothing is overridden the policy's own rate decides.
LEMMA OwnRate ==
  ASSUME MissionIInv, NEW i \in Systems,
         System(i).tool \in Overridable => Drawn.table.overrides[System(i).tool] = 0
  PROVE  /\ errRate(i) = System(i).errRate
         /\ Healthy => ~(errRate(i) > 150) /\ ~(errRate(i) > 200)
<1>1. errRate(i) = System(i).errRate
  BY DEF errRate
<1>2. Healthy => System(i).errRate <= 150
  BY RowsAreHeld DEF Healthy
<1> QED
  BY <1>1, <1>2, RowsAreHeld

\* mission.go phaseCruise, phaseResolution, renderSystems: under the banner of
\* ALL SYSTEMS OPERATIONAL every system is OK, if every policy held is by itself.
HealthyMeansNominal == Healthy => NominalMeansOK

THEOREM NominalIsOK == MissionSpec => []HealthyMeansNominal
<1>1. MissionIInv => HealthyMeansNominal
  <2> SUFFICES ASSUME MissionIInv, Healthy, Drawn.banner = "NOMINAL", NEW i \in Systems
               PROVE  status(i) = "OK"
    BY DEF HealthyMeansNominal, NominalMeansOK, With
  <2> DEFINE table == Drawn.table
  <2>1. table = Table(None, 0)
    BY PhaseRange, NominalScreens DEF Drawn
  <2>2. table.overrides = None /\ table.maxErrRate = 0
    BY <2>1 DEF Table
  <2>3. System(i).tool \in Overridable => table.overrides[System(i).tool] = 0
    BY <2>2, Overridden DEF None, Overridable
  <2>4. ~(0 > 0)
    OBVIOUS
  <2>5. ~(table.maxErrRate > 0) /\ ~(errRate(i) > 150)
    BY <2>2, <2>3, <2>4, OwnRate
  <2> QED
    BY <2>5 DEF status
<1> QED
  BY <1>1, MissionInvariance, PTL

\* The screens and the lines of phaseLogs quote the same error rates.
LEMMA RatesAgree ==
  ASSUME NEW p \in 0..9, PhaseView(p).table.drawn, NEW t \in Overridable,
         Quoted(p)[t] # 0
  PROVE  PhaseView(p).table.overrides[t] = Quoted(p)[t]
<1>1. CASE p = 2
  <2>1. PhaseView(p).table.overrides = Overrides(420, 0, 0, 0)
    BY <1>1, Renderers DEF phaseEngineFailure, PhaseScreen, Table
  <2> QED
    BY <1>1, <2>1 DEF Quoted
<1>2. CASE p = 3
  <2>1. PhaseView(p).table.overrides = Overrides(420, 280, 220, 0)
    BY <1>2, Renderers DEF phaseCascade, PhaseScreen, Table
  <2>2. Quoted(p) = Overrides(0, 280, 220, 0)
    BY <1>2 DEF Quoted
  <2> QED
    BY <2>1, <2>2, Overridden
<1>3. CASE p = 4
  <2>1. PhaseView(p).table.overrides = Overrides(420, 280, 220, 0)
    BY <1>3, Renderers DEF phaseAdapt, PhaseScreen, Table
  <2> QED
    BY <1>3, <2>1 DEF Quoted
<1>4. CASE p = 8
  <2>1. PhaseView(p) = phaseNewBranch
    BY <1>4 DEF PhaseView
  <2>3. phaseNewBranch.table = Table(Overrides(250, 120, 140, 60), 200)
    BY DEF phaseNewBranch, PhaseScreen
  <2>4. Table(Overrides(250, 120, 140, 60), 200).overrides = Overrides(250, 120, 140, 60)
    BY DEF Table
  <2>2. Quoted(p) = Overrides(0, 120, 0, 60)
    BY <1>4 DEF Quoted
  <2> QED
    BY <2>1, <2>2, <2>3, <2>4, Overridden
<1>5. CASE p \notin {2, 3, 4, 8}
  <2>1. Quoted(p) = None
    BY <1>5 DEF Quoted
  <2>2. None[t] = 0
    BY Overridden DEF None, Overridable
  <2> QED
    BY <2>1, <2>2
<1> QED
  BY <1>1, <1>2, <1>3, <1>4, <1>5

\* The cascade overrides the rates of the three compromised systems alone.
LEMMA ThreeSystems ==
  /\ Compromised \subseteq Overridable
  /\ \A t \in Compromised : Overrides(420, 280, 220, 0)[t] \in {420, 280, 220}
  /\ \A t \in Overridable \ Compromised : Overrides(420, 280, 220, 0)[t] = 0
<1>1. Compromised \subseteq Overridable
  BY DEF Compromised, Overridable
<1>2. \A t \in Compromised : Overrides(420, 280, 220, 0)[t] \in {420, 280, 220}
  BY <1>1, Overridden DEF Compromised
<1>3. \A t \in Overridable \ Compromised : Overrides(420, 280, 220, 0)[t] = 0
  BY Overridden DEF Compromised, Overridable
<1> QED
  BY <1>1, <1>2, <1>3

\* What a row of the table says when the phase overrides these three.
LEMMA CascadeRows ==
  ASSUME MissionIInv, Drawn.table.overrides = Overrides(420, 280, 220, 0), NEW i \in Systems
  PROVE  /\ System(i).tool \in Compromised => errRate(i) > 200 /\ errRate(i) > 150
         /\ System(i).tool \notin Compromised /\ Healthy =>
              ~(errRate(i) > 150) /\ ~(errRate(i) > 200)
<1> DEFINE o == Overrides(420, 280, 220, 0)
           t == System(i).tool
<1>1. CASE t \in Compromised
  <2>1. t \in Overridable /\ o[t] \in {420, 280, 220}
    BY <1>1, ThreeSystems
  <2> HIDE DEF o
  <2>2. errRate(i) = o[t]
    BY <2>1 DEF errRate, o
  <2> QED
    BY <1>1, <2>1, <2>2
<1>2. CASE t \notin Compromised
  <2>1. t \in Overridable => o[t] = 0
    BY <1>2, ThreeSystems
  <2> QED
    BY <1>2, <2>1, OwnRate
<1> QED
  BY <1>1, <1>2

\* The two screens of the cascade.
LEMMA CascadeScreens ==
  /\ phaseCascade.table = Table(Overrides(420, 280, 220, 0), 0)
  /\ phaseAdapt.table = Table(Overrides(420, 280, 220, 0), 200)
  /\ \A o, x : Table(o, x).overrides = o /\ Table(o, x).maxErrRate = x
BY DEF phaseCascade, phaseAdapt, PhaseScreen, Table

LEMMA CascadeStatus ==
  ASSUME MissionIInv, NEW i \in Systems
  PROVE  /\ mission.phase = 3 =>
              /\ System(i).tool \in Compromised => status(i) = "DEGRADED"
              /\ System(i).tool \notin Compromised /\ Healthy => status(i) # "DEGRADED"
         /\ mission.phase = 4 =>
              /\ System(i).tool \in Compromised => status(i) = "FILTERED"
              /\ System(i).tool \notin Compromised /\ Healthy => status(i) # "FILTERED"
<1>1. ASSUME mission.phase = 3
      PROVE  /\ System(i).tool \in Compromised => status(i) = "DEGRADED"
             /\ System(i).tool \notin Compromised /\ Healthy => status(i) # "DEGRADED"
  <2>1. Drawn.table.overrides = Overrides(420, 280, 220, 0) /\ Drawn.table.maxErrRate = 0
    BY <1>1, Renderers, CascadeScreens DEF Drawn
  <2>2. ~(Drawn.table.maxErrRate > 0)
    BY <2>1
  <2> QED
    BY <2>1, <2>2, CascadeRows DEF status
<1>2. ASSUME mission.phase = 4
      PROVE  /\ System(i).tool \in Compromised => status(i) = "FILTERED"
             /\ System(i).tool \notin Compromised /\ Healthy => status(i) # "FILTERED"
  <2>1. Drawn.table.overrides = Overrides(420, 280, 220, 0) /\ Drawn.table.maxErrRate = 200
    BY <1>2, Renderers, CascadeScreens DEF Drawn
  <2>2. Drawn.table.maxErrRate > 0
    BY <2>1
  <2> QED
    BY <2>1, <2>2, CascadeRows DEF status
<1> QED
  BY <1>1, <1>2

\* mission.go phaseLogs, View and renderSystems: the table on the screen shows
\* the rates the log quotes, whatever else is in it.
LEMMA RatesBorneOut == MissionIInv => TableBearsOutLog
<1> SUFFICES ASSUME MissionIInv, entries # <<>>, NEW i \in RowsOf(Overridable)
             PROVE  LET t == System(i).tool IN
                      /\ Quoted(LastLogged)[t] \in {0, errRate(i)}
                      /\ LastLogged = 3 /\ t \in Compromised => status(i) = "DEGRADED"
                      /\ LastLogged = 4 /\ Quoted(4)[t] # 0 => status(i) = "FILTERED"
  BY DEF TableBearsOutLog
<1> DEFINE p == mission.phase
           t == System(i).tool
<1>1. i \in Systems /\ t \in Overridable
  BY DEF RowsOf
<1>2. p \in 0..9 /\ LastLogged = p /\ Drawn = PhaseView(p) /\ Drawn.table.drawn
  BY <1>1, PhaseRange, LastLineTold DEF Drawn, Systems
<1> HIDE DEF p
<1>3. Quoted(LastLogged)[t] \in {0, errRate(i)}
  <2>1. Quoted(p)[t] # 0 => Drawn.table.overrides[t] = Quoted(p)[t]
    BY <1>1, <1>2, RatesAgree
  <2> QED
    BY <1>1, <1>2, <2>1 DEF errRate
<1>4. ASSUME LastLogged = 3, t \in Compromised PROVE status(i) = "DEGRADED"
  BY <1>1, <1>2, <1>4, CascadeStatus DEF p
<1>5. ASSUME LastLogged = 4, Quoted(4)[t] # 0 PROVE status(i) = "FILTERED"
  <2>1. Quoted(4) = Overrides(420, 280, 220, 0)
    BY DEF Quoted
  <2>2. t \in Compromised
    BY <1>1, <1>5, <2>1, ThreeSystems
  <2> QED
    BY <1>1, <1>2, <1>5, <2>2, CascadeStatus DEF p
<1> QED
  BY <1>3, <1>4, <1>5

\* Over healthy policies no other row is in the state the log speaks of.
LEMMA CascadeComplete ==
  ASSUME MissionIInv, Healthy, entries # <<>>
  PROVE  /\ LastLogged = 3 => With("DEGRADED") = RowsOf(Compromised)
         /\ LastLogged = 4 => With("FILTERED") = RowsOf(Compromised)
<1>1. LastLogged = mission.phase
  BY LastLineTold
<1> QED
  BY <1>1, CascadeStatus DEF With, RowsOf

\* The embedded policies are healthy, and three of them are compromised.
LEMMA CountBorneOut == MissionIInv => ThreeCompromised
<1> SUFFICES ASSUME MissionIInv, entries # <<>>, LastLogged = 3, Systems # {},
                    Ship[mission.policies] = PolicyStore
             PROVE  Cardinality(With("DEGRADED")) = 3
  BY DEF ThreeCompromised
<1>1. Systems = 1..8 /\ \A i \in 1..8 : System(i) = PolicyStore[i]
  BY ShipIsSound DEF Systems, System
<1>2. Healthy
  BY <1>1, ShipIsSound DEF Healthy
<1>3. With("DEGRADED") = {6, 7, 8}
  <2>1. RowsOf(Compromised) = {i \in 1..8 : i \in {6, 7, 8}}
    BY <1>1, ShipIsSound DEF RowsOf
  <2>2. {i \in 1..8 : i \in {6, 7, 8}} = {6, 7, 8}
    OBVIOUS
  <2> QED
    BY <1>2, <2>1, <2>2, CascadeComplete
<1>4. Cardinality({6, 7, 8}) = 3
  <2>1. 6..8 = {6, 7, 8} /\ 6 \in Int /\ 8 \in Int /\ ~(6 > 8) /\ 8 - 6 + 1 = 3
    OBVIOUS
  <2> QED
    BY <2>1, FS_Interval
<1> QED
  BY <1>3, <1>4

\* The board, the banner over it and the log tell one story, in every phase and
\* whatever policies a load brings.
THEOREM BoardIsTheStory == MissionSpec => []BoardTellsStory
<1>1. MissionIInv => TableBearsOutLog /\ ThreeCompromised
  BY RatesBorneOut, CountBorneOut
<1>2. MissionIInv /\ HealthyMeansNominal => LogTellsAll
  BY CascadeComplete DEF LogTellsAll, HealthyMeansNominal
<1>3. TableBearsOutLog /\ ThreeCompromised /\ LogTellsAll => BoardTellsStory
  BY DEF BoardTellsStory
<1> QED
  BY <1>1, <1>2, <1>3, MissionInvariance, NominalIsOK, PTL

\* What each phase logs is what it draws and what the dispatch table lists.
Accounts(p, screen) ==
  LET pl == phaseLogs[p] IN
    /\ screen.event # "" => screen.event = pl.event /\ screen.agent = pl.agent
    /\ pl.event # "" => dispatched(pl.event) = <<pl.agent, pl.tokens>>

LEMMA AccountsAgree ==
  /\ Accounts(0, phaseCruise) /\ Accounts(1, phaseAnomaly)
  /\ Accounts(2, phaseEngineFailure) /\ Accounts(3, phaseCascade)
  /\ Accounts(4, phaseAdapt) /\ Accounts(5, phaseWrongPath)
  /\ Accounts(6, phaseEscalation) /\ Accounts(7, phaseRehydration)
  /\ Accounts(8, phaseNewBranch) /\ Accounts(9, phaseResolution)
<1>1. Accounts(0, phaseCruise)
  <2>1. phaseLogs[0] = phaseLog("", "", 0, <<"INFO", "INFO">>, 0)
    BY DEF phaseLogs
  <2>2. phaseCruise.event = ""
    BY DEF phaseCruise, PhaseScreen
  <2>3. phaseLog("", "", 0, <<"INFO", "INFO">>, 0).event = ""
    BY DEF phaseLog
  <2> QED
    BY <2>1, <2>2, <2>3, Zenon DEF Accounts
<1>2. Accounts(1, phaseAnomaly)
  <2>1. phaseLogs[1] = phaseLog("sensor.anomaly.detected", "diagnostic-agent", 96, <<"WARN">>, 0)
    BY DEF phaseLogs
  <2>2. phaseAnomaly.event = "sensor.anomaly.detected" /\ phaseAnomaly.agent = "diagnostic-agent"
    BY DEF phaseAnomaly, PhaseScreen
  <2>3. dispatched("sensor.anomaly.detected") = <<"diagnostic-agent", 96>>
    BY DEF dispatched
  <2> QED
    BY <2>1, <2>2, <2>3 DEF Accounts, phaseLog
<1>3. Accounts(2, phaseEngineFailure)
  <2>1. phaseLogs[2] = phaseLog("engine.failure.critical", "repair-agent", 394, <<"CRITICAL">>, 0)
    BY DEF phaseLogs
  <2>2. phaseEngineFailure.event = "engine.failure.critical" /\ phaseEngineFailure.agent = "repair-agent"
    BY DEF phaseEngineFailure, PhaseScreen
  <2>3. dispatched("engine.failure.critical") = <<"repair-agent", 394>>
    BY DEF dispatched
  <2> QED
    BY <2>1, <2>2, <2>3 DEF Accounts, phaseLog
<1>4. Accounts(3, phaseCascade)
  <2>1. phaseLogs[3] = phaseLog("hull.integrity.warning", "structural-agent", 280, <<"CRITICAL">>, 0)
    BY DEF phaseLogs
  <2>2. phaseCascade.event = "hull.integrity.warning" /\ phaseCascade.agent = "structural-agent"
    BY DEF phaseCascade, PhaseScreen
  <2>3. dispatched("hull.integrity.warning") = <<"structural-agent", 280>>
    BY DEF dispatched
  <2> QED
    BY <2>1, <2>2, <2>3 DEF Accounts, phaseLog
<1>5. Accounts(4, phaseAdapt)
  <2>1. phaseLogs[4] = phaseLog("policy.updated", "ranking-agent", 150, <<"INFO", "INFO">>, 0)
    BY DEF phaseLogs
  <2>2. phaseAdapt.event = "policy.updated" /\ phaseAdapt.agent = "ranking-agent"
    BY DEF phaseAdapt, PhaseScreen
  <2>3. dispatched("policy.updated") = <<"ranking-agent", 150>>
    BY DEF dispatched
  <2> QED
    BY <2>1, <2>2, <2>3 DEF Accounts, phaseLog
<1>6. Accounts(5, phaseWrongPath)
  <2>1. phaseLogs[5] = phaseLog("", "repair-agent", 0, <<"WARN", "WARN">>, 0)
    BY DEF phaseLogs
  <2>2. phaseWrongPath.event = ""
    BY DEF phaseWrongPath, PhaseScreen
  <2>3. phaseLog("", "repair-agent", 0, <<"WARN", "WARN">>, 0).event = ""
    BY DEF phaseLog
  <2> QED
    BY <2>1, <2>2, <2>3, Zenon DEF Accounts
<1>7. Accounts(6, phaseEscalation)
  <2>1. phaseLogs[6] = phaseLog("repair.strategy.failing", "strategy-agent", 504, <<"INFO", "AGENT">>, 394)
    BY DEF phaseLogs
  <2>2. phaseEscalation.event = ""
    BY DEF phaseEscalation, PhaseScreen
  <2>3. dispatched("repair.strategy.failing") = <<"strategy-agent", 504>>
    BY DEF dispatched
  <2>4. /\ phaseLogs[6].event = "repair.strategy.failing"
        /\ phaseLogs[6].agent = "strategy-agent" /\ phaseLogs[6].tokens = 504
    BY <2>1 DEF phaseLog
  <2> QED
    BY <2>2, <2>3, <2>4, Zenon DEF Accounts
<1>8. Accounts(7, phaseRehydration)
  <2>1. phaseLogs[7] = phaseLog("context.rehydrated", "recovery-agent", 394, <<"INFO", "INFO">>, 394)
    BY DEF phaseLogs
  <2>2. phaseRehydration.event = "context.rehydrated" /\ phaseRehydration.agent = "recovery-agent"
    BY DEF phaseRehydration, PhaseScreen
  <2>3. dispatched("context.rehydrated") = <<"recovery-agent", 394>>
    BY DEF dispatched
  <2> QED
    BY <2>1, <2>2, <2>3 DEF Accounts, phaseLog
<1>9. Accounts(8, phaseNewBranch)
  <2>1. phaseLogs[8] = phaseLog("", "recovery-agent", 0, <<"INFO", "INFO">>, 0)
    BY DEF phaseLogs
  <2>2. phaseNewBranch.event = ""
    BY DEF phaseNewBranch, PhaseScreen
  <2>3. phaseLog("", "recovery-agent", 0, <<"INFO", "INFO">>, 0).event = ""
    BY DEF phaseLog
  <2> QED
    BY <2>1, <2>2, <2>3, Zenon DEF Accounts
<1>10. Accounts(9, phaseResolution)
  <2>1. phaseLogs[9] = phaseLog("", "", 0, <<"INFO", "INFO">>, 0)
    BY DEF phaseLogs
  <2>2. phaseResolution.event = ""
    BY DEF phaseResolution, PhaseScreen
  <2>3. phaseLog("", "", 0, <<"INFO", "INFO">>, 0).event = ""
    BY DEF phaseLog
  <2> QED
    BY <2>1, <2>2, <2>3, Zenon DEF Accounts
<1> QED
  BY <1>1, <1>2, <1>3, <1>4, <1>5, <1>6, <1>7, <1>8, <1>9, <1>10

\* A number of tokens on a screen stands in a line of that phase or an earlier one.
LEMMA FiguresQuoted ==
  ASSUME NEW p \in 0..9, PhaseView(p).tokens # 0
  PROVE  \E q \in 1..p : phaseLogs[q].quoted = PhaseView(p).tokens
<1>1. /\ phaseCruise.tokens = 0 /\ phaseAnomaly.tokens = 0 /\ phaseEngineFailure.tokens = 0
      /\ phaseCascade.tokens = 0 /\ phaseAdapt.tokens = 0 /\ phaseWrongPath.tokens = 0
      /\ phaseNewBranch.tokens = 0
  BY DEF phaseCruise, phaseAnomaly, phaseEngineFailure, phaseCascade, phaseAdapt,
         phaseWrongPath, phaseNewBranch, PhaseScreen
<1>2. /\ phaseEscalation.tokens = 394 /\ phaseRehydration.tokens = 394
      /\ phaseResolution.tokens = 394
  BY DEF phaseEscalation, phaseRehydration, phaseResolution, PhaseScreen, costCallout,
         rehydrationBundle
<1>3. p \in {6, 7, 9}
  BY <1>1, Renderers, TenPhases
<1>4. phaseLogs[6].quoted = 394
  <2>1. phaseLogs[6] = phaseLog("repair.strategy.failing", "strategy-agent", 504, <<"INFO", "AGENT">>, 394)
    BY DEF phaseLogs
  <2> QED
    BY <2>1 DEF phaseLog
<1>5. phaseLogs[7].quoted = 394
  <2>1. phaseLogs[7] = phaseLog("context.rehydrated", "recovery-agent", 394, <<"INFO", "INFO">>, 394)
    BY DEF phaseLogs
  <2> QED
    BY <2>1 DEF phaseLog
<1>6. CASE p = 6
  <2>1. 6 \in 1..p
    BY <1>6
  <2> QED
    BY <1>2, <1>4, <1>6, <2>1, Renderers
<1>7. CASE p \in {7, 9}
  <2>1. 7 \in 1..p /\ PhaseView(p).tokens = 394
    BY <1>2, <1>7, Renderers
  <2> QED
    BY <1>5, <2>1
<1> QED
  BY <1>3, <1>6, <1>7

\* mission.go phaseLogs and View, agents.go initialDispatches: the screen, the
\* log and the dispatch table name one agent for one event, the log and the table
\* one number of tokens for its dispatch, and a number of tokens in the text of a
\* screen has been given by a line of the log.
THEOREM OneAccount == MissionSpec => []EventLogged
<1>1. MissionIInv => EventLogged
  <2> SUFFICES ASSUME MissionIInv, entries # <<>> PROVE EventLogged
    BY DEF EventLogged
  <2>1. Accounts(LastLogged, Drawn)
    <3> HIDE DEF Accounts
    <3>1. Accounts(mission.phase, Drawn)
      BY PhaseRange, TenPhases, Renderers, AccountsAgree DEF Drawn
    <3> QED
      BY <3>1, LastLineTold
  <2>2. ASSUME Drawn.tokens # 0
        PROVE  \E i \in DOMAIN entries : phaseLogs[entries[i].phase].quoted = Drawn.tokens
    <3>1. PICK q \in 1..mission.phase : phaseLogs[q].quoted = Drawn.tokens
      BY <2>2, PhaseRange, FiguresQuoted DEF Drawn
    <3> QED
      BY <3>1 DEF MissionIInv, PhasesTold
  <2> QED
    BY <2>1, <2>2 DEF EventLogged, Accounts
<1> QED
  BY <1>1, MissionInvariance, PTL
=============================================================================
