---------------------------- MODULE AgentDispatch ----------------------------
(***************************************************************************)
(* The "Agent Dispatch" view, internal/tui/views/agents.go: an animation   *)
(* driven by agentTickMsg.  Each delivered tick normally asks for the next *)
(* one (tea.Tick); a tick that fires while another view has the focus goes *)
(* to that view, which ignores it, and asks for nothing.  Pressing a again *)
(* runs Init again, which issues a further tick next to those in flight.   *)
(***************************************************************************)
EXTENDS Screen

CONSTANT
  FleetSize     \* how many rows of the dispatch table are kept; 6 in the code

ASSUME FleetAssumption == FleetSize \in 1..6

VARIABLES
  dispatches,   \* AgentsModel.dispatches: <<>> until the first tick
  step,         \* AgentsModel.step
  animating,    \* AgentsModel.animating
  agentTicks    \* agentTickMsg in flight: timers running or message undelivered

agentVars == <<dispatches, step, animating, agentTicks>>
agentsAndScreen == <<screenVars, agentVars>>

Status == {"PENDING", "FIRING", "RUNNING", "COMPLETED"}
Dispatch == [status : Status, duration : Nat]

\* The agents of initialDispatches, in table order.
Fleet == <<"diagnostic-agent", "repair-agent", "structural-agent",
           "ranking-agent", "strategy-agent", "recovery-agent">>

\* Milliseconds.
agentExpectedDuration(agent) ==
  CASE agent = "diagnostic-agent" -> 1200
    [] agent = "repair-agent"     -> 2400
    [] agent = "structural-agent" -> 1800
    [] agent = "ranking-agent"    -> 800
    [] agent = "strategy-agent"   -> 3000
    [] agent = "recovery-agent"   -> 2000
    [] OTHER                      -> 1600

Expected(i) == agentExpectedDuration(Fleet[i])

initialDispatches ==
  [i \in 1..FleetSize |-> [status |-> "PENDING", duration |-> 0]]

TickLength == 400   \* what a tick adds to the duration of a running agent

\* When View prints "All agents dispatched and completed".
ClaimsCompleted == ~animating /\ step > 0

AllCompleted ==
  /\ step > 0
  /\ \A i \in DOMAIN dispatches : dispatches[i].status = "COMPLETED"

AgentsTypeOK ==
  /\ ScreenTypeOK
  /\ dispatches \in {<<>>} \cup [1..FleetSize -> Dispatch]
  /\ step \in 0..FleetSize + 1
  /\ animating \in BOOLEAN
  /\ agentTicks \in Nat

NewAgents ==
  /\ dispatches = <<>>
  /\ step = 0
  /\ animating = FALSE
  /\ agentTicks = 0

AgentsInit == ScreenInit /\ NewAgents
-----------------------------------------------------------------------------
\* A second visit that trusts the ticks of the first one: Init only once.
SwitchInitsOnce(v) ==
  /\ Show(v)
  /\ agentTicks' = IF v = "Agents" /\ step = 0 THEN agentTicks + 1 ELSE agentTicks
  /\ UNCHANGED <<dispatches, step, animating>>

\* A view key.  Key a issues the command Init returns, one tick at once, also
\* when the view is already shown; the animation is left as it stands.
AgentsSwitch(v) ==
  /\ Show(v)
  /\ agentTicks' = IF v = "Agents" THEN agentTicks + 1 ELSE agentTicks
  /\ UNCHANGED <<dispatches, step, animating>>

Tick == currentView = "Agents" /\ agentTicks > 0

\* A tick that comes after the animation has ended starts it over.
StartDispatchAgain ==
  /\ Tick
  /\ step = 0 \/ ~animating
  /\ dispatches' = initialDispatches
  /\ step' = 1
  /\ animating' = TRUE
  /\ UNCHANGED <<screenVars, agentTicks>>

\* The first tick fills the table.
StartDispatch ==
  /\ Tick
  /\ step = 0
  /\ dispatches' = initialDispatches
  /\ step' = 1
  /\ animating' = TRUE
  /\ UNCHANGED <<screenVars, agentTicks>>   \* consumed, and tick() asked for

\* The event fires but the handler forgets to ask for the next tick.
FireAndForget ==
  /\ Tick
  /\ step \in DOMAIN dispatches
  /\ dispatches' = [dispatches EXCEPT ![step].status = "FIRING"]
  /\ step' = step + 1
  /\ agentTicks' = agentTicks - 1
  /\ UNCHANGED <<screenVars, animating>>

\* The next FleetSize ticks fire one agent each.
FireNext ==
  /\ Tick
  /\ step \in DOMAIN dispatches
  /\ dispatches' = [dispatches EXCEPT ![step].status = "FIRING"]
  /\ step' = step + 1
  /\ UNCHANGED <<screenVars, animating, agentTicks>>   \* tickFast()

\* A completion test with > for >=.
AdvancedLate(i) ==
  LET d == dispatches[i]
      ran == d.duration + TickLength
  IN  CASE d.status = "FIRING"  -> [d EXCEPT !.status = "RUNNING"]
        [] d.status = "RUNNING" ->
             [status   |-> IF ran > Expected(i) THEN "COMPLETED" ELSE "RUNNING",
              duration |-> ran]
        [] OTHER -> d

\* What one tick does to dispatch i once all have fired.
Advanced(i) ==
  LET d == dispatches[i]
      ran == d.duration + TickLength
  IN  CASE d.status = "FIRING"  -> [d EXCEPT !.status = "RUNNING"]
        [] d.status = "RUNNING" ->
             [status   |-> IF ran >= Expected(i) THEN "COMPLETED" ELSE "RUNNING",
              duration |-> ran]
        [] OTHER -> d

\* A step counter that counts every tick, not only those that fire an agent.
ProgressCounts ==
  /\ Tick
  /\ step > 0 /\ step \notin DOMAIN dispatches
  /\ dispatches' = [i \in DOMAIN dispatches |-> Advanced(i)]
  /\ IF \A i \in DOMAIN dispatches : Advanced(i).status = "COMPLETED"
       THEN animating' = FALSE /\ agentTicks' = agentTicks - 1
       ELSE UNCHANGED <<animating, agentTicks>>
  /\ step' = step + 1
  /\ UNCHANGED screenVars

\* A loop that stops at the first finished agent instead of the last.
ProgressUntilFirst ==
  /\ Tick
  /\ step > 0 /\ step \notin DOMAIN dispatches
  /\ dispatches' = [i \in DOMAIN dispatches |-> Advanced(i)]
  /\ IF \E i \in DOMAIN dispatches : Advanced(i).status = "COMPLETED"
       THEN animating' = FALSE /\ agentTicks' = agentTicks - 1
       ELSE UNCHANGED <<animating, agentTicks>>
  /\ UNCHANGED <<screenVars, step>>

\* Every later tick advances all dispatches; the tick after which all are
\* COMPLETED ends the animation and asks for no further tick.
Progress ==
  /\ Tick
  /\ step > 0 /\ step \notin DOMAIN dispatches
  /\ dispatches' = [i \in DOMAIN dispatches |-> Advanced(i)]
  /\ IF \A i \in DOMAIN dispatches : Advanced(i).status = "COMPLETED"
       THEN animating' = FALSE /\ agentTicks' = agentTicks - 1
       ELSE UNCHANGED <<animating, agentTicks>>
  /\ UNCHANGED <<screenVars, step>>

\* A tick delivered to another view: no Update case there matches it.
DropTick ==
  /\ currentView # "Agents"
  /\ agentTicks > 0
  /\ agentTicks' = agentTicks - 1
  /\ UNCHANGED <<screenVars, dispatches, step, animating>>

HandleTick == StartDispatch \/ FireNext \/ Progress

AgentsNext == (\E v \in View : AgentsSwitch(v)) \/ HandleTick \/ DropTick

AgentsSpec == AgentsInit /\ [][AgentsNext]_agentsAndScreen

\* The runtime delivers every message that is in flight; the user owes nothing.
AgentsFairSpec == AgentsSpec /\ WF_agentsAndScreen(HandleTick) /\ WF_agentsAndScreen(DropTick)
-----------------------------------------------------------------------------
\* The animation on the screen never freezes half way: as long as an agent
\* shown is not COMPLETED, a tick that will move it is in flight, however often
\* the user left the view, lost ticks to other views and came back.
AnimationGoesOn == currentView = "Agents" => agentTicks > 0 \/ AllCompleted

\* The view says that all agents have completed exactly when they have.
CompletionHonest == ClaimsCompleted <=> AllCompleted

\* The duration shown for an agent is the one agentExpectedDuration promises, up
\* to one tick, however many tick chains drive the animation: a running agent
\* has not used its time up, a finished one overran by less than a tick.
OnTime ==
  \A i \in DOMAIN dispatches :
    LET d == dispatches[i] IN
      /\ d.status \in {"PENDING", "FIRING"} => d.duration = 0
      /\ d.status = "RUNNING" => d.duration < Expected(i)
      /\ d.status = "COMPLETED" =>
           Expected(i) <= d.duration /\ d.duration < Expected(i) + TickLength

Rank(status) == CASE status = "PENDING"   -> 0
                  [] status = "FIRING"    -> 1
                  [] status = "RUNNING"   -> 2
                  [] status = "COMPLETED" -> 3

\* PENDING, FIRING, RUNNING, COMPLETED: no step, no second visit and no extra
\* tick chain takes an agent back or makes it skip a stage.
StagesInOrder ==
  [][\A i \in DOMAIN dispatches :
       Rank(dispatches'[i].status) - Rank(dispatches[i].status) \in {0, 1}]_agentsAndScreen

\* A user who stays on the view sees the whole fleet complete.
FinishesOnScreen ==
  currentView = "Agents" ~> (AllCompleted \/ currentView # "Agents")
=============================================================================
