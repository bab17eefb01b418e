------------------------------ MODULE MissionBoard ------------------------------
(***************************************************************************)
(* What MissionModel.View draws, internal/tui/views/mission.go: a screen   *)
(* per phase, with a banner, perhaps an event, and a table of the policies *)
(* held, with the error rates the phase overrides.  The screens, phaseLogs *)
(* and the table of the dispatch view are accounts of one story, written   *)
(* by hand in three places.                                                *)
(*                                                                         *)
(* The embedded store holds the eight systems of the story; a Valkey holds *)
(* whatever was written to it: other tools, some of the eight, one of them *)
(* for several contexts, with any error rates.  Error rates are in tenths  *)
(* of a percent.  What the screens add to an agent's name in brackets is   *)
(* left out.                                                               *)
(***************************************************************************)
EXTENDS Mission

\* NewPolicyStore: ToolID and ErrorRate.
Policy(tool, rate) == [tool |-> tool, errRate |-> rate]
PolicyStore ==
  << Policy("nav.plot", 53),     Policy("scan.deep", 57),  Policy("comm.burst", 55),
     Policy("life.recycle", 72), Policy("hull.seal", 82),  Policy("power.reroute", 94),
     Policy("shield.mod", 107),  Policy("eng.thrust", 125) >>

CONSTANT
  Ship          \* per version, the policies it holds

ASSUME ShipAssumption ==
  /\ Ship \in [1..MaxVersion -> Seq([tool : STRING, errRate : Nat])]
  /\ \A s \in 1..MaxVersion : Ship[s] = <<>> <=> s \in Empty
  /\ ~Live => \A s \in 1..MaxVersion : Ship[s] = PolicyStore

\* The error rates a phase overrides, 0 where it overrides none.
Overridable == {"eng.thrust", "power.reroute", "shield.mod", "hull.seal"}
Overrides(eng, power, shield, hull) ==
  [t \in Overridable |-> CASE t = "eng.thrust" -> eng   [] t = "power.reroute" -> power
                           [] t = "shield.mod" -> shield [] t = "hull.seal" -> hull]
None == Overrides(0, 0, 0, 0)

Table(overrides, max) == [drawn |-> TRUE, overrides |-> overrides, maxErrRate |-> max]
NoTable == [drawn |-> FALSE, overrides |-> None, maxErrRate |-> 0]

\* writeBanner's status, writeEvent's subject and agent, renderSystems, and the
\* number of tokens the text speaks of.
PhaseScreen(banner, event, agent, table, tokens) ==
  [banner |-> banner, event |-> event, agent |-> agent, table |-> table, tokens |-> tokens]

phaseCruise == PhaseScreen("NOMINAL", "", "", Table(None, 0), 0)
phaseAnomaly ==
  PhaseScreen("WARNING", "sensor.anomaly.detected", "diagnostic-agent",
          Table(Overrides(180, 0, 0, 0), 0), 0)
phaseEngineFailure ==
  PhaseScreen("CRITICAL", "engine.failure.critical", "repair-agent",
          Table(Overrides(420, 0, 0, 0), 0), 0)
phaseCascade ==
  PhaseScreen("CRITICAL", "hull.integrity.warning", "structural-agent",
          Table(Overrides(420, 280, 220, 0), 0), 0)

\* Phase 4 with the constraint left off, and with another agent.
phaseAdaptUnfiltered ==
  PhaseScreen("ADAPTING", "policy.updated", "ranking-agent",
          Table(Overrides(420, 280, 220, 0), 0), 0)
phaseAdaptOther ==
  PhaseScreen("ADAPTING", "policy.updated", "repair-agent",
          Table(Overrides(420, 280, 220, 0), 200), 0)

phaseAdapt ==
  PhaseScreen("ADAPTING", "policy.updated", "ranking-agent",
          Table(Overrides(420, 280, 220, 0), 200), 0)

phaseWrongPath ==
  PhaseScreen("FAILING", "", "", Table(Overrides(550, 320, 240, 190), 200), 0)

\* "This ONE strategic call = $0.006 (Opus, 394 surgical tokens)".
costCallout == 394
phaseEscalation == PhaseScreen("ESCALATING", "", "", NoTable, costCallout)

\* "394 / 4,000 budget", and "394 tokens. Not 6,190." below it.
rehydrationBundle == 394
phaseRehydration ==
  PhaseScreen("REHYDRATING", "context.rehydrated", "recovery-agent", NoTable, rehydrationBundle)

phaseNewBranch ==
  PhaseScreen("RECOVERING", "", "", Table(Overrides(250, 120, 140, 60), 200), 0)
phaseResolution == PhaseScreen("NOMINAL", "", "", Table(None, 0), 394)

\* The switch of MissionModel.View.
PhaseView(phase) ==
  CASE phase = 0 -> phaseCruise
    [] phase = 1 -> phaseAnomaly
    [] phase = 2 -> phaseEngineFailure
    [] phase = 3 -> phaseCascade
    [] phase = 4 -> phaseAdapt
    [] phase = 5 -> phaseWrongPath
    [] phase = 6 -> phaseEscalation
    [] phase = 7 -> phaseRehydration
    [] phase = 8 -> phaseNewBranch
    [] OTHER             -> phaseResolution

Drawn == PhaseView(mission.phase)
OnScreen == ~mission.loading /\ ~mission.err

\* renderSystems: a row for each policy held, with its error rate and status.
System(i) == Ship[mission.policies][i]
Systems == IF OnScreen /\ Drawn.table.drawn /\ mission.policies # Failed
             THEN DOMAIN Ship[mission.policies] ELSE {}

errRate(i) ==
  LET t == System(i).tool
  IN  IF t \in Overridable /\ Drawn.table.overrides[t] # 0
        THEN Drawn.table.overrides[t] ELSE System(i).errRate

status(i) ==
  IF Drawn.table.maxErrRate > 0 /\ errRate(i) > Drawn.table.maxErrRate THEN "FILTERED"
  ELSE IF errRate(i) > 150 THEN "DEGRADED" ELSE "OK"

\* The error rates that the lines of phaseLogs quote; phase 4 calls its three
\* systems FILTERED, phase 3 counts three compromised, the engine with the two
\* it names.
Quoted(phase) ==
  CASE phase = 2 -> Overrides(420, 0, 0, 0)
    [] phase = 3 -> Overrides(0, 280, 220, 0)
    [] phase = 4 -> Overrides(420, 280, 220, 0)
    [] phase = 8 -> Overrides(0, 120, 0, 60)
    [] OTHER     -> None
Compromised == {"eng.thrust", "power.reroute", "shield.mod"}

\* initialDispatches of the Agent Dispatch view: event, agent and tokens.
dispatched(event) ==
  CASE event = "sensor.anomaly.detected" -> <<"diagnostic-agent", 96>>
    [] event = "engine.failure.critical" -> <<"repair-agent", 394>>
    [] event = "hull.integrity.warning"  -> <<"structural-agent", 280>>
    [] event = "policy.updated"          -> <<"ranking-agent", 150>>
    [] event = "repair.strategy.failing" -> <<"strategy-agent", 504>>
    [] event = "context.rehydrated"      -> <<"recovery-agent", 394>>
-----------------------------------------------------------------------------
LastLogged == entries[Len(entries)].phase
With(word) == {i \in Systems : status(i) = word}
RowsOf(tools) == {i \in Systems : System(i).tool \in tools}

\* Whatever the store holds, the table on the screen contradicts nothing that
\* the log says last: a row of a system whose error rate the lines quote shows
\* that rate, one they call FILTERED is filtered, one they count as compromised
\* is degraded.
TableBearsOutLog ==
  entries # <<>> =>
    \A i \in RowsOf(Overridable) :
      LET t == System(i).tool IN
        /\ Quoted(LastLogged)[t] \in {0, errRate(i)}
        /\ LastLogged = 3 /\ t \in Compromised => status(i) = "DEGRADED"
        /\ LastLogged = 4 /\ Quoted(4)[t] # 0 => status(i) = "FILTERED"

\* No policy held is itself beyond the limit of DEGRADED.
Healthy == mission.policies # Failed =>
             \A i \in DOMAIN Ship[mission.policies] : System(i).errRate <= 150

\* docs/DEMO_STRATEGY.md:261, "NOMINAL ... All systems green", and mission.go:201,
\* "ALL SYSTEMS OPERATIONAL": under the banner NOMINAL the table has no system
\* that is not OK.
NominalMeansOK == OnScreen /\ Drawn.banner = "NOMINAL" => With("OK") = Systems

\* Over healthy policies, whichever they are, the log tells all there is to the
\* table: none is degraded but the compromised, none filtered but those it calls
\* so, and the banner is right.
LogTellsAll ==
  Healthy =>
    /\ entries # <<>> /\ LastLogged = 3 => With("DEGRADED") = RowsOf(Compromised)
    /\ entries # <<>> /\ LastLogged = 4 => With("FILTERED") = RowsOf(Compromised)
    /\ NominalMeansOK

\* Over the embedded policies, "3 systems compromised" are three.
ThreeCompromised ==
  (/\ entries # <<>> /\ LastLogged = 3
   /\ Systems # {} /\ Ship[mission.policies] = PolicyStore) =>
    Cardinality(With("DEGRADED")) = 3

\* The table of systems tells the story the log and the banner tell, whatever
\* the store holds as far as that can be.
BoardTellsStory == TableBearsOutLog /\ LogTellsAll /\ ThreeCompromised

\* One event, one agent, one number of tokens for its dispatch, in all three
\* accounts: an event on the screen is the event the log has last, with the same
\* agent, and the log's line of the dispatch names the agent and the tokens of
\* the dispatch table.  And a number of tokens in the text of a screen is one
\* that a line of the log has given.
EventLogged ==
  entries # <<>> =>
    LET pl == phaseLogs[LastLogged] IN
      /\ OnScreen /\ Drawn.event # "" => Drawn.event = pl.event /\ Drawn.agent = pl.agent
      /\ pl.event # "" => dispatched(pl.event) = <<pl.agent, pl.tokens>>
      /\ OnScreen /\ Drawn.tokens # 0 =>
           \E i \in DOMAIN entries : phaseLogs[entries[i].phase].quoted = Drawn.tokens

\* mission.go:79, phaseLog is "used for both rendering and Ship's Log": a number
\* of tokens that the text lines of a phase give, and so its screen, is that of
\* the dispatch they are about.
OnePrice ==
  entries # <<>> =>
    LET pl == phaseLogs[LastLogged] IN pl.quoted # 0 => pl.quoted = pl.tokens
=============================================================================
