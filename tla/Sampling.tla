------------------------------- MODULE Sampling -------------------------------
(***************************************************************************)
(* The Thompson sampling view, internal/tui/views/sampling.go: a load      *)
(* clears the rounds and starts a chain of ticks, each tick draws a round  *)
(* from the policies now held and asks for the next.  A second load starts *)
(* a second chain.  What a draw scores is random and left out; a round is  *)
(* the version of the policies it was drawn from.                          *)
(***************************************************************************)
EXTENDS PolicyLoads, Sequences

CONSTANT
  MaxRounds     \* SamplingModel.maxRounds, 20 in the code

ASSUME RoundsAssumption == MaxRounds \in Nat \ {0}

VARIABLES
  sampling,       \* SamplingModel: loading, err, policies, rounds
  samplingTicks   \* samplingTickMsg in flight: timers running or undelivered

samplingVars == <<sampling, samplingTicks>>
samplingAndLoads == <<screenVars, loadVars, samplingVars>>

SamplingModel ==
  [loading : BOOLEAN, err : BOOLEAN, policies : Result, rounds : Seq(Result)]

SamplingTypeOK ==
  /\ ScreenTypeOK
  /\ LoadsTypeOK
  /\ sampling \in SamplingModel
  /\ Len(sampling.rounds) <= MaxRounds
  /\ samplingTicks \in Nat

\* NewSamplingModel.
NewSampling ==
  /\ sampling = [loading |-> TRUE, err |-> FALSE, policies |-> Failed, rounds |-> <<>>]
  /\ samplingTicks = 0

SamplingInit == ScreenInit /\ LoadsInit /\ NewSampling

\* The guard of the tick handler, and of "Sampling..." in View.
Drawing == sampling.policies \notin NoPolicies /\ Len(sampling.rounds) < MaxRounds
-----------------------------------------------------------------------------
SamplingSwitch(v) == SwitchView(v) /\ UNCHANGED samplingVars

\* New policies next to the rounds drawn from the old ones.
SamplingLoadedKeepsRounds(r) ==
  /\ currentView = "Sampling"
  /\ Take(r)
  /\ sampling' = [sampling EXCEPT !.loading = FALSE, !.err = r = Failed, !.policies = r]
  /\ samplingTicks' = samplingTicks + 1

\* A load that trusts a tick chain already running.
SamplingLoadedOneChain(r) ==
  /\ currentView = "Sampling"
  /\ Take(r)
  /\ sampling' = [loading |-> FALSE, err |-> r = Failed, policies |-> r, rounds |-> <<>>]
  /\ samplingTicks' = IF sampling.loading THEN samplingTicks + 1 ELSE samplingTicks

\* A handler that restarts the sampling at once and after a pause.
SamplingLoadedTwoTicks(r) ==
  /\ currentView = "Sampling"
  /\ Take(r)
  /\ sampling' = [loading |-> FALSE, err |-> r = Failed, policies |-> r, rounds |-> <<>>]
  /\ samplingTicks' = samplingTicks + 2

\* A policiesLoadedMsg delivered to the view on the screen: rounds = nil, tick().
SamplingLoaded(r) ==
  /\ currentView = "Sampling"
  /\ Take(r)
  /\ sampling' = [loading |-> FALSE, err |-> r = Failed, policies |-> r, rounds |-> <<>>]
  /\ samplingTicks' = samplingTicks + 1

\* A policiesLoadedMsg delivered to another view.
LoadPastSampling(r) ==
  /\ currentView # "Sampling"
  /\ Take(r)
  /\ UNCHANGED samplingVars

\* A tick draws a round and asks for the next tick.
DrawRound ==
  /\ currentView = "Sampling"
  /\ samplingTicks > 0
  /\ Drawing
  /\ sampling' = [sampling EXCEPT !.rounds = Append(@, sampling.policies)]
  /\ UNCHANGED <<screenVars, loadVars, samplingTicks>>

\* A tick that finds nothing to draw from, or all rounds drawn, is the last of
\* its chain; so is a tick delivered to another view.
LastTick ==
  /\ samplingTicks > 0
  /\ currentView = "Sampling" => ~Drawing
  /\ samplingTicks' = samplingTicks - 1
  /\ UNCHANGED <<screenVars, loadVars, sampling>>

SamplingDeliver == \E r \in Result : SamplingLoaded(r) \/ LoadPastSampling(r)

SamplingEnvironment == (ReadAll \/ StoreChanges) /\ UNCHANGED samplingVars

SamplingNext ==
  \/ \E v \in View : SamplingSwitch(v)
  \/ SamplingDeliver
  \/ DrawRound
  \/ LastTick
  \/ SamplingEnvironment

SamplingSpec == SamplingInit /\ [][SamplingNext]_samplingAndLoads

\* As in Mission and AgentDispatch: reads end, timers fire, messages arrive.
SamplingFairSpec ==
  /\ SamplingSpec
  /\ WF_samplingAndLoads(ReadAll /\ UNCHANGED samplingVars)
  /\ WF_samplingAndLoads(SamplingDeliver)
  /\ WF_samplingAndLoads(DrawRound)
  /\ WF_samplingAndLoads(LastTick)
-----------------------------------------------------------------------------
\* Every round on the screen was drawn from the policies now held: a load that
\* overtakes the ticks of an earlier one leaves no round of other policies.
RoundsDrawnFromHeld ==
  \A i \in DOMAIN sampling.rounds : sampling.rounds[i] = sampling.policies

\* "Sampling..." and "Loading policies for sampling..." are only shown while a
\* tick or a load is on its way to continue, whatever was lost to other views.
NoStall ==
  currentView = "Sampling" /\ (sampling.loading \/ Drawing)
    => LoadOnTheWay \/ samplingTicks > 0

\* A load starts one chain of ticks and a view key asks for one load at most: the
\* animation is never driven by more chains than one for the program start and
\* one for each view key pressed, also one of a view that asks for no load.
NoExtraChains == samplingTicks + LoadsInFlight <= 1 + keys

\* A user who stays on the view sees all rounds, unless the load fails or
\* finds no policy.
CompletesOnScreen ==
  currentView = "Sampling" ~>
    \/ currentView # "Sampling"
    \/ ~sampling.loading /\ ~Drawing
=============================================================================
