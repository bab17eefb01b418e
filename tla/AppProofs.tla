------------------------------- MODULE AppProofs -------------------------------
(***************************************************************************)
(* The program implements the specification of each of its components:     *)
(* every step of the event loop, the commands, the store, the service and  *)
(* the connection is, for the state a component names, one of its own      *)
(* steps or none at all.  What is proved of a component alone therefore    *)
(* holds of the program, for every number of view keys, versions, phases,  *)
(* rounds, agents and events.                                              *)
(***************************************************************************)
EXTENDS App, LoadingViewsProofs, AgentDispatchProofs, ShipsLogProofs

\* Only a view key moves the focus.
LEMMA FocusKept ==
  ASSUME \/ Space \/ ReadAll \/ StoreChanges \/ \E r \in Result : Take(r)
         \/ DrawRound \/ LastTick
         \/ HandleTick \/ DropTick
         \/ Runtime \/ World
  PROVE  UNCHANGED screenVars
<1>1. CASE Space \/ ReadAll \/ StoreChanges \/ \E r \in Result : Take(r)
  BY <1>1 DEF Space, Advance, ReadAll, StoreChanges, Take
<1>2. CASE DrawRound \/ LastTick
  BY <1>2 DEF DrawRound, LastTick
<1>3. CASE HandleTick \/ DropTick
  BY <1>3 DEF HandleTick, StartDispatch, FireNext, Progress, DropTick
<1>4. CASE Runtime
  BY <1>4 DEF Runtime, Subscribe, SubscribeFails, WatchStarted, Receive, EventReceived,
              StreamClosed, Elsewhere
<1>5. CASE World
  BY <1>5 DEF World, Publish, Simulate, ConnChanges
<1> QED
  BY <1>1, <1>2, <1>3, <1>4, <1>5

\* Whoever gets the answer, the loads lose it.
LEMMA DeliveryTakes ==
  ASSUME NEW r \in Result, LoadDelivered(r)
  PROVE  Take(r)
BY DEF LoadDelivered, MissionLoaded, LoadPastMission

\* What the agents, the log and its source do is nothing to the other views, and
\* what those do is nothing to them.
LEMMA OthersKeepLoads ==
  ASSUME AgentTick \/ LogStep \/ SourceStep \/ Quit
  PROVE  UNCHANGED <<screenVars, loadVars, missionVars, tables, samplingVars>>
<1>1. CASE AgentTick
  BY <1>1, FocusKept DEF AgentTick
<1>2. CASE LogStep
  BY <1>2, FocusKept DEF LogStep
<1>3. CASE SourceStep
  BY <1>3, FocusKept DEF SourceStep
<1>4. CASE Quit
  BY <1>4 DEF Quit, viewVars
<1> QED
  BY <1>1, <1>2, <1>3, <1>4

LEMMA OthersKeepAgentsAndLog ==
  ASSUME SpaceKey \/ (\E r \in Result : LoadDelivered(r)) \/ SamplingTick \/ StoreStep \/ Quit
  PROVE  UNCHANGED <<screenVars, agentVars, logVars>>
<1>1. CASE SpaceKey
  BY <1>1, FocusKept DEF SpaceKey
<1>2. CASE \E r \in Result : LoadDelivered(r)
  BY <1>2, DeliveryTakes, FocusKept DEF LoadDelivered
<1>3. CASE SamplingTick
  BY <1>3, FocusKept DEF SamplingTick
<1>4. CASE StoreStep
  BY <1>4, FocusKept DEF StoreStep, viewVars
<1>5. CASE Quit
  BY <1>5 DEF Quit, viewVars
<1> QED
  BY <1>1, <1>2, <1>3, <1>4, <1>5

\* A step that leaves everything leaves every component.
LEMMA Stutters ==
  ASSUME UNCHANGED vars
  PROVE  UNCHANGED <<missionAndLoads, tablesAndLoads, samplingAndLoads,
                     agentsAndScreen, logAndScreen>>
BY DEF vars, viewVars, missionAndLoads, tablesAndLoads, samplingAndLoads,
       agentsAndScreen, logAndScreen
-----------------------------------------------------------------------------
LEMMA MissionStep == [Next]_vars => [MissionNext]_missionAndLoads
<1> SUFFICES ASSUME [Next]_vars PROVE MissionNext \/ UNCHANGED missionAndLoads
  OBVIOUS
<1>1. ASSUME NEW v \in View, Key(v) PROVE MissionNext
  BY <1>1 DEF Key, MissionNext
<1>2. CASE SpaceKey
  BY <1>2 DEF SpaceKey, MissionNext
<1>3. ASSUME NEW r \in Result, LoadDelivered(r) PROVE MissionNext
  BY <1>3 DEF LoadDelivered, MissionDeliver, MissionNext
<1>4. CASE SamplingTick
  BY <1>4, FocusKept DEF SamplingTick, DrawRound, LastTick, missionAndLoads
<1>5. CASE StoreStep
  BY <1>5 DEF StoreStep, viewVars, MissionEnvironment, MissionNext
<1>6. CASE AgentTick \/ LogStep \/ SourceStep \/ Quit
  BY <1>6, OthersKeepLoads DEF missionAndLoads
<1>7. CASE UNCHANGED vars
  BY <1>7, Stutters
<1> QED
  BY <1>1, <1>2, <1>3, <1>4, <1>5, <1>6, <1>7 DEF Next

LEMMA TablesStep == [Next]_vars => [TablesNext]_tablesAndLoads
<1> SUFFICES ASSUME [Next]_vars PROVE TablesNext \/ UNCHANGED tablesAndLoads
  OBVIOUS
<1>1. ASSUME NEW v \in View, Key(v) PROVE TablesNext
  BY <1>1 DEF Key, TablesNext
<1>2. CASE SpaceKey
  BY <1>2 DEF SpaceKey, Space, Advance, tablesAndLoads
<1>3. ASSUME NEW r \in Result, LoadDelivered(r) PROVE TablesNext
  BY <1>3 DEF LoadDelivered, TablesDeliver, TablesNext
<1>4. CASE SamplingTick
  BY <1>4, FocusKept DEF SamplingTick, DrawRound, LastTick, tablesAndLoads
<1>5. CASE StoreStep
  BY <1>5 DEF StoreStep, viewVars, TablesEnvironment, TablesNext
<1>6. CASE AgentTick \/ LogStep \/ SourceStep \/ Quit
  BY <1>6, OthersKeepLoads DEF tablesAndLoads
<1>7. CASE UNCHANGED vars
  BY <1>7, Stutters
<1> QED
  BY <1>1, <1>2, <1>3, <1>4, <1>5, <1>6, <1>7 DEF Next

LEMMA SamplingStep == [Next]_vars => [SamplingNext]_samplingAndLoads
<1> SUFFICES ASSUME [Next]_vars PROVE SamplingNext \/ UNCHANGED samplingAndLoads
  OBVIOUS
<1>1. ASSUME NEW v \in View, Key(v) PROVE SamplingNext
  BY <1>1 DEF Key, SamplingNext
<1>2. CASE SpaceKey
  BY <1>2 DEF SpaceKey, Space, Advance, samplingAndLoads
<1>3. ASSUME NEW r \in Result, LoadDelivered(r) PROVE SamplingNext
  BY <1>3 DEF LoadDelivered, SamplingDeliver, SamplingNext
<1>4. CASE SamplingTick
  BY <1>4 DEF SamplingTick, SamplingNext
<1>5. CASE StoreStep
  BY <1>5 DEF StoreStep, viewVars, SamplingEnvironment, SamplingNext
<1>6. CASE AgentTick \/ LogStep \/ SourceStep \/ Quit
  BY <1>6, OthersKeepLoads DEF samplingAndLoads
<1>7. CASE UNCHANGED vars
  BY <1>7, Stutters
<1> QED
  BY <1>1, <1>2, <1>3, <1>4, <1>5, <1>6, <1>7 DEF Next

LEMMA AgentsStep == [Next]_vars => [AgentsNext]_agentsAndScreen
<1> SUFFICES ASSUME [Next]_vars PROVE AgentsNext \/ UNCHANGED agentsAndScreen
  OBVIOUS
<1>1. ASSUME NEW v \in View, Key(v) PROVE AgentsNext
  BY <1>1 DEF Key, AgentsNext
<1>2. CASE AgentTick
  BY <1>2 DEF AgentTick, AgentsNext
<1>3. CASE SpaceKey \/ (\E r \in Result : LoadDelivered(r)) \/ SamplingTick \/ StoreStep \/ Quit
  BY <1>3, OthersKeepAgentsAndLog DEF agentsAndScreen
<1>4. CASE LogStep \/ SourceStep
  BY <1>4, FocusKept DEF LogStep, SourceStep, agentsAndScreen
<1>5. CASE UNCHANGED vars
  BY <1>5, Stutters
<1> QED
  BY <1>1, <1>2, <1>3, <1>4, <1>5 DEF Next

LEMMA LogsStep == [Next]_vars => [LogNext]_logAndScreen
<1> SUFFICES ASSUME [Next]_vars PROVE LogNext \/ UNCHANGED logAndScreen
  OBVIOUS
<1>1. ASSUME NEW v \in View, Key(v) PROVE LogNext
  BY <1>1 DEF Key, LogNext
<1>2. CASE LogStep \/ SourceStep
  BY <1>2 DEF LogStep, SourceStep, LogNext
<1>3. CASE SpaceKey \/ (\E r \in Result : LoadDelivered(r)) \/ SamplingTick \/ StoreStep \/ Quit
  BY <1>3, OthersKeepAgentsAndLog DEF logAndScreen
<1>4. CASE AgentTick
  BY <1>4, FocusKept DEF AgentTick, logAndScreen
<1>5. CASE UNCHANGED vars
  BY <1>5, Stutters
<1> QED
  BY <1>1, <1>2, <1>3, <1>4, <1>5 DEF Next

LEMMA Initially ==
  Init => MissionInit /\ TablesInit /\ SamplingInit /\ AgentsInit /\ LogInit
BY DEF Init, MissionInit, TablesInit, SamplingInit, AgentsInit, LogInit

\* app.go Update: mission, tables and sampling, told of every message by focus
\* and of every key by switchView, behave as their modules say.
THEOREM LoadingViewsKept == Spec => LoadingViewsSpec
BY Initially, MissionStep, TablesStep, SamplingStep, PTL
   DEF Spec, LoadingViewsSpec, MissionSpec, TablesSpec, SamplingSpec

\* app.go Update and agents.go: the dispatches behave as their module says.
THEOREM AgentsKept == Spec => AgentsSpec
BY Initially, AgentsStep, PTL DEF Spec, AgentsSpec

\* app.go Update and events.go: the Ship's Log behaves as its module says.
THEOREM LogKept == Spec => LogSpec
BY Initially, LogsStep, PTL DEF Spec, LogSpec
-----------------------------------------------------------------------------
\* app.go: every view keeps its types and bounds in the program as a whole.
THEOREM TypeCorrect == Spec => []TypeOK
<1>1. LoadingViewsSpec => [](MissionTypeOK /\ TablesTypeOK /\ SamplingTypeOK)
  BY MissionTypeCorrect, TablesTypeCorrect, SamplingTypeCorrect, PTL DEF LoadingViewsSpec
<1>2. AgentsSpec => []AgentsTypeOK
  BY AgentsTypeCorrect
<1>3. LogSpec => []LogTypeOK
  BY LogTypeCorrect
<1>4. MissionTypeOK /\ TablesTypeOK /\ SamplingTypeOK /\ AgentsTypeOK /\ LogTypeOK => TypeOK
  BY DEF TypeOK
<1> QED
  BY <1>1, <1>2, <1>3, <1>4, LoadingViewsKept, AgentsKept, LogKept, PTL

\* app.go: what is true of every view alone is true of the program, in which all
\* of them share one focus, one store and one set of commands in flight.
THEOREM EveryViewHolds ==
  Spec => /\ [](LogTellsPhase /\ StoryInOrder /\ NoSpontaneousRestart)
          /\ [](BoardTellsStory /\ EventLogged)
          /\ [](OnScreenLoads /\ Refreshed /\ BridgeHonest)
          /\ [](RoundsDrawnFromHeld /\ NoStall /\ NoExtraChains)
          /\ [](AnimationGoesOn /\ CompletionHonest /\ OnTime) /\ StagesInOrder
          /\ [](Listening /\ StatusHonest /\ OncePerSubscription /\ InOrderOnce)
<1>1. MissionSpec => /\ [](LogTellsPhase /\ StoryInOrder /\ NoSpontaneousRestart)
                    /\ [](BoardTellsStory /\ EventLogged)
  BY LogAndScreenAgree, StoryTold, RestartsAreAskedFor, BoardIsTheStory, OneAccount, PTL
<1>2. TablesSpec => [](OnScreenLoads /\ Refreshed /\ BridgeHonest)
  BY LoadingIsHonest, EnteringRefreshes, BridgeIsHonest, PTL
<1>3. SamplingSpec => [](RoundsDrawnFromHeld /\ NoStall /\ NoExtraChains)
  BY RoundsOfOneLoad, NeverStalls, OneChainPerLoad, PTL
<1>4. AgentsSpec => [](AnimationGoesOn /\ CompletionHonest /\ OnTime) /\ StagesInOrder
  BY AnimationNeverStops, HonestAboutCompletion, AgentsOnTime, StagesKept, PTL
<1>5. LogSpec => [](Listening /\ StatusHonest /\ OncePerSubscription /\ InOrderOnce)
  BY KeepsListening, StatusIsHonest, ShownOncePerSubscription, ShownInOrder, PTL
<1>6. LoadingViewsSpec => MissionSpec /\ TablesSpec /\ SamplingSpec
  BY DEF LoadingViewsSpec
<1> QED
  BY <1>1, <1>2, <1>3, <1>4, <1>5, <1>6, LoadingViewsKept, AgentsKept, LogKept, PTL
=============================================================================
