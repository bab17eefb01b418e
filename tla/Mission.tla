------------------------------- MODULE Mission -------------------------------
(***************************************************************************)
(* The mission, internal/tui/views/mission.go: ten phases the user steps   *)
(* through with SPACE, and the SharedLog it writes for the Ship's Log.     *)
(***************************************************************************)
EXTENDS PolicyLoads, Sequences

CONSTANT
  LastPhase     \* bound: the phase SPACE stops at; 9 in the code

ASSUME PhaseAssumption == LastPhase \in 1..9

VARIABLES
  mission,      \* MissionModel: phase, loading, err, policies
  entries       \* SharedLog.Entries, each line with the phase that wrote it

missionVars == <<mission, entries>>
missionAndLoads == <<screenVars, loadVars, missionVars>>

Level == {"INFO", "WARN", "CRITICAL", "EVENT", "AGENT"}
Line == [phase : 0..LastPhase, level : Level]

\* phaseLogs: the NATS event and the agent named ("" for none), the tokens it is
\* dispatched with, the levels of the lines that follow and the tokens that those
\* lines speak of, 0 for none.
phaseLog(event, agent, tokens, levels, quoted) ==
  [event |-> event, agent |-> agent, tokens |-> tokens, entries |-> levels,
   quoted |-> quoted]

phaseLogs ==
  [p \in 0..9 |->
    CASE p = 0 -> phaseLog("", "", 0, <<"INFO", "INFO">>, 0)
      [] p = 1 -> phaseLog("sensor.anomaly.detected", "diagnostic-agent", 96, <<"WARN">>, 0)
      [] p = 2 -> phaseLog("engine.failure.critical", "repair-agent", 394, <<"CRITICAL">>, 0)
      [] p = 3 -> phaseLog("hull.integrity.warning", "structural-agent", 280, <<"CRITICAL">>, 0)
      [] p = 4 -> phaseLog("policy.updated", "ranking-agent", 150, <<"INFO", "INFO">>, 0)
      [] p = 5 -> phaseLog("", "repair-agent", 0, <<"WARN", "WARN">>, 0)
      [] p = 6 -> phaseLog("repair.strategy.failing", "strategy-agent", 504, <<"INFO", "AGENT">>, 394)
      [] p = 7 -> phaseLog("context.rehydrated", "recovery-agent", 394, <<"INFO", "INFO">>, 394)
      [] p = 8 -> phaseLog("", "recovery-agent", 0, <<"INFO", "INFO">>, 0)
      [] p = 9 -> phaseLog("", "", 0, <<"INFO", "INFO">>, 0)]

\* The lines emitLogs(phase) appends to the shared log.
emitLogs(phase) ==
  LET pl == phaseLogs[phase]
      levels == (IF pl.event # "" THEN <<"EVENT">> ELSE <<>>)
             \o (IF pl.agent # "" /\ pl.tokens > 0 THEN <<"AGENT">> ELSE <<>>)
             \o pl.entries
  IN  [i \in DOMAIN levels |-> [phase |-> phase, level |-> levels[i]]]

StoryTypeOK ==
  /\ mission \in [phase : 0..LastPhase, loading : BOOLEAN,
                  err : BOOLEAN, policies : Result]
  /\ entries \in Seq(Line)

MissionTypeOK == ScreenTypeOK /\ LoadsTypeOK /\ StoryTypeOK

\* NewMissionModel and an empty SharedLog.
NewMission ==
  /\ mission = [phase |-> 0, loading |-> TRUE, err |-> FALSE, policies |-> Failed]
  /\ entries = <<>>

MissionInit == ScreenInit /\ LoadsInit /\ NewMission
-----------------------------------------------------------------------------
\* Switching views touches neither the phase nor the log.
MissionSwitch(v) == SwitchView(v) /\ UNCHANGED missionVars

\* The loading flag is only taken back when there is something to show.
HeldStuck(r) == [phase |-> 0, loading |-> r = Failed, err |-> r = Failed, policies |-> r]

\* The model a load leaves behind, whoever asked for it: back to phase 0.
Held(r) == [phase |-> 0, loading |-> FALSE, err |-> r = Failed, policies |-> r]

\* After an error the mission asks again by itself.
MissionLoadedRetries(r) ==
  /\ currentView = "Mission"
  /\ arrived[r] > 0
  /\ arrived' = [arrived EXCEPT ![r] = @ - 1]
  /\ reading' = IF r = Failed THEN reading + 1 ELSE reading
  /\ mission' = Held(r)
  /\ entries' = entries \o emitLogs(0)
  /\ UNCHANGED <<screenVars, store, since>>

\* A policiesLoadedMsg delivered to the mission; phase 0 is logged again.
MissionLoaded(r) ==
  /\ currentView = "Mission"
  /\ Take(r)
  /\ mission' = Held(r)
  /\ entries' = entries \o emitLogs(0)

\* A policiesLoadedMsg delivered to another view.
LoadPastMission(r) ==
  /\ currentView # "Mission"
  /\ Take(r)
  /\ UNCHANGED missionVars

\* SPACE or ENTER.  The code asks neither whether the policies have been loaded
\* nor whether the load failed.
Advance(next, told) ==
  /\ currentView = "Mission"
  /\ mission.phase < LastPhase
  /\ mission' = [mission EXCEPT !.phase = next]
  /\ entries' = entries \o emitLogs(told)
  /\ UNCHANGED <<screenVars, loadVars>>

\* SPACE logs the phase it leaves; SPACE skips a phase.
SpaceLogsOld == Advance(mission.phase + 1, mission.phase)
SpaceSkips ==
  LET next == IF mission.phase + 2 > LastPhase THEN LastPhase ELSE mission.phase + 2
  IN  Advance(next, next)

Space == Advance(mission.phase + 1, mission.phase + 1)

MissionEnvironment == (ReadAll \/ StoreChanges) /\ UNCHANGED missionVars

MissionDeliver == \E r \in Result : MissionLoaded(r) \/ LoadPastMission(r)

MissionNext ==
  \/ \E v \in View : MissionSwitch(v)
  \/ Space
  \/ MissionDeliver
  \/ MissionEnvironment

MissionSpec == MissionInit /\ [][MissionNext]_missionAndLoads

\* A read ends (the client has timeouts) and a message is delivered; the user
\* and the service that writes the store owe nothing.
MissionFairSpec ==
  /\ MissionSpec
  /\ WF_missionAndLoads(ReadAll /\ UNCHANGED missionVars)
  /\ WF_missionAndLoads(MissionDeliver)
-----------------------------------------------------------------------------
Least(a, b) == IF a < b THEN a ELSE b

\* EventsModel.View shows the last 20 lines of the shared log.
LogRows == 20
Visible == SubSeq(entries, Len(entries) - Least(LogRows, Len(entries)) + 1, Len(entries))

\* The Ship's Log and the mission screen tell the same story: what the Ship's
\* Log view shows of the shared log ends with all the lines of the phase on the
\* mission screen.  They live in two places, the log behind a pointer and the
\* phase in a copied model.
LogTellsPhase ==
  IF entries = <<>>
    THEN mission.phase = 0 /\ mission.loading
    ELSE LET told == emitLogs(mission.phase)
             rows == Len(Visible)
         IN  /\ rows >= Len(told)
             /\ SubSeq(Visible, rows - Len(told) + 1, rows) = told

\* The log never skips a phase: a line is followed by one of the same phase, of
\* the next one, or of phase 0 again.
StoryInOrder ==
  \A i \in DOMAIN entries :
    i > 1 => entries[i].phase \in {entries[i-1].phase, entries[i-1].phase + 1, 0}

\* Every restart is paid for: the phase-0 blocks in the log and those the loads
\* in flight may still write are no more than one for the program start and one
\* for each view key pressed, also one of a view that asks for no load.
NoSpontaneousRestart ==
  LET lines == Cardinality({i \in DOMAIN entries : entries[i].phase = 0})
      block == Len(emitLogs(0))
  IN  lines + block * LoadsInFlight <= block * (1 + keys)

\* A user who waits on the mission screen gets past "Initializing ship systems".
StartsIfWatched == <>(~mission.loading \/ keys > 0)

\* app.go:167 "Mission keeps its phase state - don't re-init once started":
\* once started, no step takes the mission back to an earlier phase.
PhaseKept == [][~mission.loading => mission'.phase >= mission.phase]_missionAndLoads

\* mission.go:29-30, the mission is "the main demo experience" and SPACE
\* advances it: on its screen it gets past "Initializing ship systems".
StartsOnScreen ==
  currentView = "Mission" ~> (~mission.loading \/ currentView # "Mission")
=============================================================================
