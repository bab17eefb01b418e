--------------------------------- MODULE App ---------------------------------
(***************************************************************************)
(* The whole program, internal/tui/app.go and the end of cmd/tlctl/main.go:*)
(* the six views over one focus, one store and one set of commands in      *)
(* flight.  Every message is handed to exactly one view; each view's own   *)
(* module says what it does with it, and what the others see of the step.  *)
(***************************************************************************)
EXTENDS Mission, PolicyTables, Sampling, AgentDispatch, ShipsLog

VARIABLE
  running       \* the event loop has not returned

viewVars == <<missionVars, tables, samplingVars, agentVars, logVars>>
vars == <<running, screenVars, loadVars, viewVars>>

Init ==
  /\ running = TRUE
  /\ ScreenInit
  /\ LoadsInit
  /\ NewMission
  /\ NewTables
  /\ NewSampling
  /\ NewAgents
  /\ NewLog
-----------------------------------------------------------------------------
\* A switch that asks the agents view to start only when it is left.
KeyLeavesAgents(v) ==
  /\ MissionSwitch(v) /\ TablesSwitch(v) /\ SamplingSwitch(v) /\ LogSwitch(v)
  /\ agentTicks' = IF currentView = "Agents" THEN agentTicks + 1 ELSE agentTicks
  /\ UNCHANGED <<running, dispatches, step, animating>>

\* A switch after which the log goes on with the subscription it has.
KeyKeepsSubscription(v) ==
  /\ MissionSwitch(v) /\ TablesSwitch(v) /\ SamplingSwitch(v) /\ AgentsSwitch(v)
  /\ starting' = IF v = "Log" /\ subscribed = 0 THEN starting + 1 ELSE starting
  /\ UNCHANGED <<running, log, subscribed, started, queue, waiting, received,
                 closed, source, conn, published>>

\* One of the six view keys, switchView: every view is told by its own module
\* what the key means to it, and only the one shown issues a command.
Key(v) ==
  /\ MissionSwitch(v) /\ TablesSwitch(v) /\ SamplingSwitch(v) /\ AgentsSwitch(v) /\ LogSwitch(v)
  /\ UNCHANGED running

\* Any other key is delegated; only the mission has a use for one.
SpaceKey ==
  /\ Space
  /\ UNCHANGED <<running, tables, samplingVars, agentVars, logVars>>

\* A message that every view with policies is given, focus or not.
LoadBroadcast(r) ==
  /\ Take(r)
  /\ mission' = [phase |-> 0, loading |-> FALSE, err |-> r = Failed, policies |-> r]
  /\ entries' = entries \o emitLogs(0)
  /\ tables' = [v \in TableView |-> [loading |-> FALSE, err |-> r = Failed, policies |-> r]]
  /\ sampling' = [loading |-> FALSE, err |-> r = Failed, policies |-> r, rounds |-> <<>>]
  /\ samplingTicks' = samplingTicks + 1
  /\ UNCHANGED <<running, agentVars, logVars>>

\* A policiesLoadedMsg is delegated to the view that has the focus.
LoadDelivered(r) ==
  /\ MissionLoaded(r) \/ LoadPastMission(r)
  /\ (\E v \in TableView : TableLoaded(v, r)) \/ LoadPastTables(r)
  /\ SamplingLoaded(r) \/ LoadPastSampling(r)
  /\ UNCHANGED <<running, agentVars, logVars>>

SamplingTick ==
  /\ DrawRound \/ LastTick
  /\ UNCHANGED <<running, missionVars, tables, agentVars, logVars>>

AgentTick ==
  /\ HandleTick \/ DropTick
  /\ UNCHANGED <<running, loadVars, missionVars, tables, samplingVars, logVars>>

LogStep ==
  /\ Runtime
  /\ UNCHANGED <<running, loadVars, missionVars, tables, samplingVars, agentVars>>

\* The store answers, or changes.
StoreStep == (ReadAll \/ StoreChanges) /\ UNCHANGED <<running, viewVars>>

\* An event is published or played; a connection is lost or found again.
SourceStep ==
  /\ World
  /\ UNCHANGED <<running, loadVars, missionVars, tables, samplingVars, agentVars>>

\* q or ctrl+c: tea.Quit makes the event loop return.  The messages it handles
\* before that are as if q were pressed later; commands in flight are abandoned.
Quit ==
  /\ running' = FALSE
  /\ UNCHANGED <<screenVars, loadVars, viewVars>>

Next ==
  /\ running
  /\ \/ \E v \in View : Key(v)
     \/ SpaceKey
     \/ \E r \in Result : LoadDelivered(r)
     \/ SamplingTick
     \/ AgentTick
     \/ LogStep
     \/ StoreStep
     \/ SourceStep
     \/ Quit

Spec == Init /\ [][Next]_vars
-----------------------------------------------------------------------------
\* Every view keeps its types and its bounds, the step of the dispatches and the
\* rounds of the sampling among them, with all six driven by one event loop.
TypeOK == MissionTypeOK /\ TablesTypeOK /\ SamplingTypeOK /\ AgentsTypeOK /\ LogTypeOK

\* The program as a whole behaves, for each component, as that component's
\* module says, so that what is shown of a component holds of the program: no
\* view ever receives what its own module does not allow for, and what the
\* others do to the shared focus, store and commands is what it expects.
LoadingViewsSpec == MissionSpec /\ TablesSpec /\ SamplingSpec
=============================================================================
