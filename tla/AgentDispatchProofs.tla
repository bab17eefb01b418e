------------------------- MODULE AgentDispatchProofs -------------------------
(***************************************************************************)
(* The safety of the dispatch animation for every fleet and every number   *)
(* of key presses.  The invariant adds to the properties the link between  *)
(* the step counter and the table: an agent is PENDING exactly until step  *)
(* has passed it, and none runs before all are fired.  Without it neither  *)
(* FireNext, which may fire a COMPLETED agent, nor Progress preserves      *)
(* CompletionHonest.                                                       *)
(***************************************************************************)
EXTENDS AgentDispatch, TLAPS

\* The table is filled by the first tick, and step counts the agents fired.
StepCountsFired ==
  /\ step = 0 => dispatches = <<>> /\ ~animating
  /\ step > 0 => /\ dispatches \in [1..FleetSize -> Dispatch]
                 /\ \A i \in 1..FleetSize :
                      /\ dispatches[i].status = "PENDING" <=> step <= i
                      /\ step <= FleetSize =>
                           dispatches[i].status \in {"PENDING", "FIRING"}

AgentsIInv ==
  /\ AgentsTypeOK
  /\ StepCountsFired
  /\ OnTime
  /\ CompletionHonest
  /\ AnimationGoesOn

USE FleetAssumption, KeysAssumption DEF FleetAssumption, KeysAssumption

\* Every agent of the table has an expected duration, of more than one tick.
LEMMA ExpectedPositive ==
  \A i \in 1..FleetSize : Expected(i) \in Nat /\ Expected(i) > 0
<1> SUFFICES ASSUME NEW i \in 1..FleetSize
             PROVE  Expected(i) \in Nat /\ Expected(i) > 0
  OBVIOUS
<1>1. i \in {1, 2, 3, 4, 5, 6}
  OBVIOUS
<1>2. Fleet[i] \in {"diagnostic-agent", "repair-agent", "structural-agent",
                    "ranking-agent", "strategy-agent", "recovery-agent"}
  BY <1>1 DEF Fleet
<1> QED
  BY <1>2 DEF Expected, agentExpectedDuration

\* What a tick makes of one dispatch that is on time: it stays on time, is never
\* PENDING unless it was, and moves by at most one stage.
LEMMA AdvancedOnTime ==
  ASSUME NEW i \in 1..FleetSize,
         dispatches \in [1..FleetSize -> Dispatch],
         OnTime
  PROVE  LET d == Advanced(i) IN
           /\ d \in Dispatch
           /\ d.status = "PENDING" <=> dispatches[i].status = "PENDING"
           /\ d.status \in {"PENDING", "FIRING"} => d.duration = 0
           /\ d.status = "RUNNING" => d.duration < Expected(i)
           /\ d.status = "COMPLETED" =>
                Expected(i) <= d.duration /\ d.duration < Expected(i) + TickLength
           /\ dispatches[i].status = "COMPLETED" => d = dispatches[i]
           /\ Rank(d.status) - Rank(dispatches[i].status) \in {0, 1}
<1> DEFINE d == dispatches[i]
<1>1. /\ d \in Dispatch
      /\ Expected(i) \in Nat /\ Expected(i) > 0
      /\ d.status \in {"PENDING", "FIRING"} => d.duration = 0
      /\ d.status = "RUNNING" => d.duration < Expected(i)
      /\ d.status = "COMPLETED" =>
           Expected(i) <= d.duration /\ d.duration < Expected(i) + TickLength
  BY ExpectedPositive DEF OnTime
<1>2. CASE d.status = "PENDING"
  BY <1>1, <1>2 DEF Advanced, Dispatch, Status, Rank
<1>3. CASE d.status = "FIRING"
  BY <1>1, <1>3 DEF Advanced, Dispatch, Status, Rank
<1>4. CASE d.status = "RUNNING"
  BY <1>1, <1>4 DEF Advanced, Dispatch, Status, Rank, TickLength
<1>5. CASE d.status = "COMPLETED"
  BY <1>1, <1>5 DEF Advanced, Dispatch, Status, Rank
<1> QED
  BY <1>1, <1>2, <1>3, <1>4, <1>5 DEF Dispatch, Status

LEMMA AgentsInitIInv == AgentsInit => AgentsIInv
<1> SUFFICES ASSUME AgentsInit PROVE AgentsIInv
  OBVIOUS
<1> USE DEF AgentsInit, ScreenInit, NewAgents
<1>1. AgentsTypeOK
  <2>1. ScreenTypeOK
    BY DEF ScreenTypeOK, View
  <2>2. animating \in BOOLEAN
    BY Zenon
  <2> QED
    BY <2>1, <2>2 DEF AgentsTypeOK
<1>2. StepCountsFired
  BY DEF StepCountsFired
<1>3. OnTime
  BY DEF OnTime
<1>4. CompletionHonest
  BY DEF CompletionHonest, ClaimsCompleted, AllCompleted
<1>5. AnimationGoesOn
  BY DEF AnimationGoesOn
<1> QED
  BY <1>1, <1>2, <1>3, <1>4, <1>5 DEF AgentsIInv

LEMMA AgentsSwitchKeepsIInv ==
  ASSUME AgentsIInv, NEW v \in View, AgentsSwitch(v)
  PROVE  AgentsIInv'
<1> USE DEF AgentsIInv, AgentsSwitch, Show
<1>1. AgentsTypeOK'
  BY DEF AgentsTypeOK, ScreenTypeOK
<1>2. StepCountsFired'
  BY DEF StepCountsFired
<1>3. OnTime' /\ CompletionHonest'
  BY DEF OnTime, CompletionHonest, ClaimsCompleted, AllCompleted
<1>4. AnimationGoesOn'
  BY DEF AnimationGoesOn, AgentsTypeOK
<1> QED
  BY <1>1, <1>2, <1>3, <1>4

LEMMA StartDispatchKeepsIInv ==
  ASSUME AgentsIInv, StartDispatch
  PROVE  AgentsIInv'
<1> USE DEF AgentsIInv, StartDispatch, Tick
<1>1. /\ dispatches' \in [1..FleetSize -> Dispatch]
      /\ \A i \in 1..FleetSize : /\ dispatches'[i].status = "PENDING"
                                 /\ dispatches'[i].duration = 0
  BY DEF initialDispatches, Dispatch, Status
<1>2. AgentsTypeOK'
  BY <1>1 DEF AgentsTypeOK, ScreenTypeOK, screenVars
<1>3. StepCountsFired'
  BY <1>1 DEF StepCountsFired
<1>4. OnTime'
  BY <1>1 DEF OnTime
<1>5. CompletionHonest'
  BY <1>1 DEF CompletionHonest, ClaimsCompleted, AllCompleted
<1>6. AnimationGoesOn'
  BY DEF AnimationGoesOn, screenVars
<1> QED
  BY <1>2, <1>3, <1>4, <1>5, <1>6

LEMMA FireNextKeepsIInv ==
  ASSUME AgentsIInv, FireNext
  PROVE  AgentsIInv'
<1> USE DEF AgentsIInv, FireNext, Tick
<1>1. step > 0
  BY DEF StepCountsFired, AgentsTypeOK
<1>2. /\ dispatches \in [1..FleetSize -> Dispatch]
      /\ step \in 1..FleetSize
      /\ dispatches[step].status = "PENDING"
      /\ dispatches[step].duration = 0
  BY <1>1 DEF StepCountsFired, OnTime
<1>3. /\ dispatches' \in [1..FleetSize -> Dispatch]
      /\ dispatches'[step] = [status |-> "FIRING", duration |-> 0]
      /\ \A i \in 1..FleetSize : i # step => dispatches'[i] = dispatches[i]
  BY <1>2 DEF Dispatch, Status
<1>4. AgentsTypeOK'
  BY <1>2, <1>3 DEF AgentsTypeOK, ScreenTypeOK, screenVars
<1>5. StepCountsFired'
  BY <1>1, <1>2, <1>3 DEF StepCountsFired
<1>6. OnTime'
  BY <1>2, <1>3 DEF OnTime
<1>7. animating
  BY <1>1, <1>2 DEF CompletionHonest, ClaimsCompleted, AllCompleted, AgentsTypeOK
<1>8. CompletionHonest'
  BY <1>2, <1>3, <1>7 DEF CompletionHonest, ClaimsCompleted, AllCompleted
<1>9. AnimationGoesOn'
  BY DEF AnimationGoesOn, screenVars
<1> QED
  BY <1>4, <1>5, <1>6, <1>8, <1>9

LEMMA ProgressKeepsIInv ==
  ASSUME AgentsIInv, Progress
  PROVE  AgentsIInv'
<1> USE DEF AgentsIInv, Progress, Tick
<1>1. dispatches \in [1..FleetSize -> Dispatch]
  BY DEF StepCountsFired
<1>2. \A i \in 1..FleetSize : dispatches'[i] = Advanced(i)
  BY <1>1
<1>3. dispatches' \in [1..FleetSize -> Dispatch]
  BY <1>1, AdvancedOnTime
<1>4. AgentsTypeOK'
  <2>1. animating' \in BOOLEAN
    BY Zenon DEF AgentsTypeOK
  <2>2. agentTicks' \in Nat
    BY DEF AgentsTypeOK
  <2> QED
    BY <1>3, <2>1, <2>2 DEF AgentsTypeOK, ScreenTypeOK, screenVars
<1>5. StepCountsFired'
  <2>1. step' = step /\ step \in Nat /\ step > FleetSize
    BY <1>1 DEF AgentsTypeOK
  <2>2. ASSUME NEW i \in 1..FleetSize
        PROVE  dispatches'[i].status # "PENDING" /\ ~(step' <= i) /\ ~(step' <= FleetSize)
    <3>1. dispatches[i].status # "PENDING"
      BY <1>1, <2>1 DEF StepCountsFired
    <3>2. Advanced(i).status # "PENDING"
      BY <1>1, <3>1, AdvancedOnTime
    <3> QED
      BY <1>2, <2>1, <3>2
  <2>3. step' > 0
    BY <2>1
  <2> HIDE DEF Progress, AgentsIInv
  <2> QED
    BY <1>3, <2>2, <2>3 DEF StepCountsFired
<1>6. OnTime'
  BY <1>1, <1>2, <1>3, AdvancedOnTime DEF OnTime
<1>7. AllCompleted' <=> \A i \in 1..FleetSize : Advanced(i).status = "COMPLETED"
  BY <1>1, <1>2, <1>3 DEF AllCompleted
<1>8. CompletionHonest'
  <2>1. CASE \A i \in 1..FleetSize : Advanced(i).status = "COMPLETED"
    BY <1>1, <1>7, <2>1 DEF CompletionHonest, ClaimsCompleted
  <2>2. CASE ~ \A i \in 1..FleetSize : Advanced(i).status = "COMPLETED"
    <3>1. ~AllCompleted
      BY <1>1, <2>2, AdvancedOnTime DEF AllCompleted
    <3>2. animating' = animating
      BY <1>1, <2>2
    <3> QED
      BY <1>7, <2>2, <3>1, <3>2 DEF CompletionHonest, ClaimsCompleted
  <2> QED
    BY <2>1, <2>2
<1>9. AnimationGoesOn'
  BY <1>1, <1>7 DEF AnimationGoesOn, AgentsTypeOK
<1> QED
  BY <1>4, <1>5, <1>6, <1>8, <1>9

LEMMA DropTickKeepsIInv ==
  ASSUME AgentsIInv, DropTick
  PROVE  AgentsIInv'
<1> USE DEF AgentsIInv, DropTick, screenVars
<1>1. AgentsTypeOK'
  BY DEF AgentsTypeOK, ScreenTypeOK
<1>2. StepCountsFired' /\ OnTime'
  BY DEF StepCountsFired, OnTime
<1>3. CompletionHonest' /\ AnimationGoesOn'
  BY DEF CompletionHonest, ClaimsCompleted, AllCompleted, AnimationGoesOn
<1> QED
  BY <1>1, <1>2, <1>3

LEMMA AgentsNextKeepsIInv == AgentsIInv /\ [AgentsNext]_agentsAndScreen => AgentsIInv'
<1> SUFFICES ASSUME AgentsIInv, [AgentsNext]_agentsAndScreen PROVE AgentsIInv'
  OBVIOUS
<1>1. CASE \E v \in View : AgentsSwitch(v)
  BY <1>1, AgentsSwitchKeepsIInv
<1>2. CASE StartDispatch
  BY <1>2, StartDispatchKeepsIInv
<1>3. CASE FireNext
  BY <1>3, FireNextKeepsIInv
<1>4. CASE Progress
  BY <1>4, ProgressKeepsIInv
<1>5. CASE DropTick
  BY <1>5, DropTickKeepsIInv
<1>6. CASE UNCHANGED agentsAndScreen
  BY <1>6 DEF AgentsIInv, agentsAndScreen, screenVars, agentVars, AgentsTypeOK, ScreenTypeOK,
              StepCountsFired, OnTime, CompletionHonest, ClaimsCompleted,
              AllCompleted, AnimationGoesOn
<1> QED
  BY <1>1, <1>2, <1>3, <1>4, <1>5, <1>6 DEF AgentsNext, HandleTick

\* The inductive invariant holds in every behaviour of the view.
THEOREM AgentsInvariance == AgentsSpec => []AgentsIInv
<1>1. AgentsInit => AgentsIInv
  BY AgentsInitIInv
<1>2. AgentsIInv /\ [AgentsNext]_agentsAndScreen => AgentsIInv'
  BY AgentsNextKeepsIInv
<1> QED
  BY <1>1, <1>2, PTL DEF AgentsSpec

\* agents.go: the table, the step counter and the ticks keep their types.
THEOREM AgentsTypeCorrect == AgentsSpec => []AgentsTypeOK
<1>1. AgentsIInv => AgentsTypeOK
  BY DEF AgentsIInv
<1> QED
  BY <1>1, AgentsInvariance, PTL

\* agents.go Update: the animation on the screen is never left without a tick
\* that continues it, whatever ticks other views swallowed before.
THEOREM AnimationNeverStops == AgentsSpec => []AnimationGoesOn
<1>1. AgentsIInv => AnimationGoesOn
  BY DEF AgentsIInv
<1> QED
  BY <1>1, AgentsInvariance, PTL

\* agents.go View: "All agents dispatched and completed" is shown exactly when
\* it is true.
THEOREM HonestAboutCompletion == AgentsSpec => []CompletionHonest
<1>1. AgentsIInv => CompletionHonest
  BY DEF AgentsIInv
<1> QED
  BY <1>1, AgentsInvariance, PTL

\* agents.go Update: the shown durations are those of agentExpectedDuration up
\* to one tick, however many chains of ticks drive the animation.
THEOREM AgentsOnTime == AgentsSpec => []OnTime
<1>1. AgentsIInv => OnTime
  BY DEF AgentsIInv
<1> QED
  BY <1>1, AgentsInvariance, PTL

\* A step that leaves the table alone leaves every agent in its stage.
LEMMA RankIsNat == \A s \in Status : Rank(s) \in Nat /\ Rank(s) - Rank(s) = 0
  BY DEF Status, Rank

LEMMA NextInStages ==
  ASSUME AgentsIInv, AgentsNext
  PROVE  \A i \in DOMAIN dispatches :
           Rank(dispatches'[i].status) - Rank(dispatches[i].status) \in {0, 1}
<1> SUFFICES ASSUME NEW i \in DOMAIN dispatches
             PROVE  Rank(dispatches'[i].status) - Rank(dispatches[i].status) \in {0, 1}
  OBVIOUS
<1>1. /\ step > 0
      /\ dispatches \in [1..FleetSize -> Dispatch]
      /\ i \in 1..FleetSize
      /\ dispatches[i].status \in Status
  BY DEF AgentsIInv, AgentsTypeOK, StepCountsFired, Dispatch
<1>2. CASE dispatches' = dispatches
  BY <1>1, <1>2, RankIsNat
<1>3. CASE FireNext
  <2>1. step \in 1..FleetSize /\ dispatches[step].status = "PENDING"
    BY <1>1, <1>3 DEF FireNext, AgentsIInv, StepCountsFired
  <2>2. CASE i = step
    BY <1>1, <1>3, <2>1, <2>2 DEF FireNext, Rank, Dispatch
  <2>3. CASE i # step
    BY <1>1, <1>3, <2>1, <2>3, RankIsNat DEF FireNext, Dispatch
  <2> QED
    BY <2>2, <2>3
<1>4. CASE Progress
  BY <1>1, <1>4, AdvancedOnTime DEF Progress, AgentsIInv
<1>5. CASE StartDispatch
  BY <1>1, <1>5 DEF StartDispatch
<1> QED
  BY <1>2, <1>3, <1>4, <1>5 DEF AgentsNext, AgentsSwitch, HandleTick, DropTick

\* agents.go Update: from tick to tick an agent keeps its stage or enters the
\* next of PENDING, FIRING, RUNNING, COMPLETED.
THEOREM StagesKept == AgentsSpec => StagesInOrder
<1>1. AgentsIInv /\ [AgentsNext]_agentsAndScreen =>
        [\A i \in DOMAIN dispatches :
           Rank(dispatches'[i].status) - Rank(dispatches[i].status) \in {0, 1}]_agentsAndScreen
  BY NextInStages
<1> QED
  BY <1>1, AgentsInvariance, PTL DEF AgentsSpec, StagesInOrder
=============================================================================
