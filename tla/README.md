# tlctl: a TLA+ model of the Underpass demo

`tlctl` is a Bubble Tea terminal program that shows a starship whose AI agents
learn which tools to trust. One event loop owns a root model with six views;
everything that takes time (reading policies, waiting for an event, a timer) is
a command that runs in a goroutine of its own and comes back as a message. The
whole difficulty of the program lies there: a message carries no address, and
the root model hands it to *whichever view has the focus when it arrives*. The
modules in this directory model that protocol, view by view and as a whole,
together with the readers behind it; TLC checks them on small instances and
TLAPS proves the main safety properties for all values of the constants.

## 1. Inventory

| Component (source) | State | Operations | Module |
|---|---|---|---|
| Root model (`internal/tui/app.go`) | `currentView`, `initialized`, the six view models | a view key (`switchView`), quit, delegation of every other message | `Screen`, `App` |
| Program (`cmd/tlctl/main.go`) | the adapters it wires, the event loop | start in embedded or live mode, end | `App` (end), `PolicyLoads`, `ShipsLog` (modes), `EventSource` (Close) |
| Policy loads (`Init` of dashboard, rankings, sampling, mission) | commands that read, messages that carry the answer | issue, read, deliver | `PolicyLoads` |
| Mission (`views/mission.go`) | phase, loading, err, policies; `SharedLog` behind a pointer | take a load, SPACE/ENTER, `emitLogs`; ten screens | `Mission`, `MissionBoard` |
| Bridge, Systems (`views/dashboard.go`, `views/rankings.go`) | loading, err, policies | take a load, sort; classes, top and bottom list, colours | `PolicyTables`, `BridgeView` |
| Sampling (`views/sampling.go`) | loading, err, policies, rounds; ticks in flight | take a load, draw a round, last tick | `Sampling` |
| Agents (`views/agents.go`) | dispatch table, step, animating; ticks in flight | Init on every visit, start, fire, progress | `AgentDispatch`; table contents in `MissionBoard` |
| Ship's Log (`views/events.go`) | `eventCh`, `cancel`, `watching`, events; waiting commands | subscribe, receive, show, "closed" timer, status word, last 20 lines | `ShipsLog`; lines in `Mission` |
| NATS subscriber (`adapters/nats`) | connection, `s.sub`, one 64-slot channel per Subscribe | Subscribe, callback, cancellation goroutine, Close | `EventSource`; as the log sees it in `ShipsLog` |
| Event simulator (`adapters/embedded/event_simulator.go`) | a list of 7 events per subscription | Subscribe, play, end | `EventSource`, `ShipsLog` |
| Event port (`app/ports/ports.go`) | none | what `Subscribe` promises | `EventStream` (abstract) |
| Embedded store (`adapters/embedded/policy_store.go`) | a fixed list | ReadAll, ReadByContext | `PolicyLoads` (`Live = FALSE`), tools and rates in `MissionBoard` |
| Valkey reader (`adapters/valkey/policy_reader.go`) | a SCAN iterator and a slice per call | ReadAll, ReadByContext | `ValkeyScan`; as one answer in `PolicyLoads` |
| Credential store (`adapters/pki/file_store.go`, `domain/identity`) | four files | Save, Load, Exists, NewCredentials | `CredentialStore` |
| Token benchmark (`internal/benchmark`) | none (arithmetic) | EstimateTokens, TotalTokens, CostPerCall | `TokenBudget` |
| Styles, charts, CI, tape | none | none | not modelled |

**How they interact.** A view key runs `switchView`: it sets the focus and, for
every view but the mission, issues that view's command again, also when the view
was already shown. `ReadAll`, `agentTickMsg`, `samplingTickMsg` and the three
log messages return through the loop to the view in focus. Mission, Bridge,
Systems and Sampling share one message type for their loads. The mission writes
the `SharedLog` the Ship's Log shows. The views share nothing else.

**What is hard here**: an answer delivered to the wrong view; several loads in
flight answered out of order; timers that are lost to another view and timers
that are started twice; a second subscription next to a first one that nobody
cancels; goroutines that send on, and close, one channel; a store that changes
between the steps of one read; a save that stops between two of four files; one
story told by hand in three places. `PROJECT.json` lists each hazard at the line
where it bites, with the properties that watch it.

**What makes each part correct**

- *Mission*: log and phase tell the same story, phases come in order, the story
  restarts no more often than keys were pressed, the mission gets started.
- *Mission screens*: log, screen and dispatch table name the same event and agent,
  log and dispatch table the same tokens; the table of systems bears out what
  the log says of it, whatever policies the store holds.
- *Bridge and Systems*: a loading screen has a load on its way; entering a view
  refreshes it; both give one account of the same policies and hide none.
- *Sampling*: rounds belong to the policies held; the animation never stalls,
  never runs on more tick chains than keys were pressed and one, and completes.
- *Agents*: the animation survives lost ticks and doubled ticks, shows the
  durations the table promises, and says "completed" exactly when it is.
- *Ship's Log*: the log keeps listening, no subscription gives an event twice,
  one subscription keeps the order, an event in the channel gets shown, and
  RECONNECTING is only said while a subscription is under way or none can be.
- *Event sources*: events come out of a channel in order, once and without gaps;
  a full buffer holds the sender back and loses nothing; a cancelled channel is
  closed.
- *Credential store*: Load gives what the last Save stored, never something
  older, and a repeated Save repairs what a stopped one broke.
- *Token benchmark*: the rounding cannot turn the comparison round.
- *Valkey reader*: an answer holds nothing older than the call and, unless a GET
  fails, misses nothing that was there throughout it.
- *Program*: each view, in the composition, behaves as its own module says,
  whatever the other views do to the focus, the store and the loads in flight.

## 2. Modules and their correspondence to the code

`Screen` holds `currentView` and `Show(v)`, the first statement of `switchView`.
Every module of a view EXTENDS it; so each component is checked alone, against a
user who presses view keys in any order, and `App` composes them.

`PolicyLoads` (EXTENDS `Screen`) is the load command. What the store holds is a
*version*; `store` is the current one, `reading` counts commands that have not
read yet, `arrived[r]` the messages in flight by what they carry, `Failed` (0)
an error. `since` is a history variable: the version the store had when the
first of the loads now in flight was asked for. `Live = FALSE` is the embedded
store, which neither changes nor fails. A version is what one read answers; when
tool-learning writes several policies while a read scans, read it as the version
of one policy. `ValkeyScan` is the module that opens the read up.

`Mission`, `PolicyTables`, `Sampling` (EXTEND `PolicyLoads`) have one action for
a load delivered to them (`MissionLoaded`, `TableLoaded`, `SamplingLoaded`), one
for a load delivered elsewhere (`LoadPastMission`, `LoadPastTables`,
`LoadPastSampling`: for this component it is lost), and their own: `Space`; `DrawRound` and `LastTick`. `Mission` carries the phase
table of the code (`phaseLogs`) as far as it decides which lines are logged:
event, agent with tokens, levels. A sampling round is the version it was drawn
from; its random scores are left out. `samplingTicks` counts timers running or
undelivered, so several chains are several ticks.

`AgentDispatch` (EXTENDS `Screen`) has the three parts of `Update` on a tick:
`StartDispatch` (step 0), `FireNext` (a step inside the table), `Progress`
(beyond it), and `DropTick` for a tick delivered to another view. Durations and
expected durations are the milliseconds of the code.

`ShipsLog` (EXTENDS `Screen`) numbers the channels by the Subscribe call that
made them: `log.eventCh = k` is the channel the model holds, `waiting[k]` the
`waitForEvent` commands blocked on channel k, `queue[k]` its buffer. A second
visit overwrites `eventCh` and `cancel`; the old subscription, its buffer and
its waiting command stay, as in the code, where nothing calls `cancel`. The
source is chosen in `Init`: NATS (with a connection that reconnects or is given
up), the simulator (each subscription plays the list from the start), or none.
`StreamClosed` is the handler whose 3 s timer yields the same message again: a
message that is handled and stays in flight.

`MissionBoard` (EXTENDS `Mission`) is `MissionModel.View`: for each phase the
banner, the event with its agent, the number of tokens its text speaks of, and
the table of systems with the error rates the phase overrides, in tenths of a
percent, and the limits of FILTERED and DEGRADED. The constant `Ship` says which
policies, with which error rates, a version of the store holds: the embedded
store the eight of `PolicyStore`, a Valkey whatever was written to it. The table
has a row for each, by its position, so a tool may have several or none.
`phaseLogs[p].quoted` is the number of tokens in the text of a log line, next to
`tokens`, that of the dispatch. `dispatched` is the event, agent and tokens of
each row of the dispatch view. `Mission` itself has `Visible`, the last 20 lines
of the shared log, which are all the Ship's Log shows.

`BridgeView` (EXTENDS `PolicyTables`) is what the two views make of the policies
they hold: each has its own comparison (`dashboardLess`, `rankingsLess`), its own
confidence limits, and Bridge its top and bottom lists. `Content` says what
confidences a version of the store holds. Two reads may list the same policies in
different orders and `sort.Slice` leaves equals in any order, so a row is not a
policy but the set of those that may stand in it: `At(v, i)` are the policies
with fewer than i policies that must go before them (`Ahead`) and room for those
that must go behind (`Behind`). An answer that lists a policy twice is a version
of its own.

`EventStream` is the abstract specification of the `EventSubscriber` port: per
subscription, what was offered, what was taken, whether it is cancelled and
whether it has ended. `EventSource` is both adapters, goroutine by goroutine:
`Register` and `Assign` are the two halves of the NATS `Subscribe` (the write of
`s.sub` is a separate step, which two calls may interleave), `Pop` the start of
the client's callback, `Select` its select statement with every outcome Go
allows, a send on a closed channel included (`panicked`), `Unsubscribe` and
`CloseChannel` the goroutine that waits for the cancellation, `PlayNext` and
`Finish` the simulator's, `Close` and `Drain` the end of the program. `Drain` is
`conn.Drain`, which only starts the work or fails, and `Close` ignores which:
`DrainSub`, `Drained` and `DrainEnds` are what the client does afterwards, message
by message, until it closes the connection or gives up waiting; from the start of
the drain a new `Subscribe` fails. The program ends right after `Close`
(`main.go:69`), so it depends on none of that, and no property claims that `Close`
leaves nothing behind. The
instance `Stream` maps it to `EventStream`: `cancelled` is `cancel # "no"`, the
other three are fields of the subscription.

`CredentialStore` has `Save` as `StartSave`, then for each file `Open` (which
truncates), `WritePart`, `Write`, and `Return`; `Stop` is an error of a write or
the end of the process, anywhere. `Load` is `StartLoad`, `ReadFile` per file in
its own order, and `EndLoad`, which is `NewCredentials`: key and certificate must
belong together and the CA must hold a certificate; a truncated PEM file may or
may not hold one. A file holds none, some or all of what one call wrote.

`TokenBudget` adds sections of any length to the two contexts of a scenario as
`TotalTokens` does, next to their lengths in bytes. Prices are cents.

`ValkeyScan` is one `ReadAll` over Valkey: `Start`, `NextPage` (the SCAN
iterator), `Get`/`GetFails` per key, `PageFails`, `End`, next to `Write` and
`Expire` of the outside world. The server's promise about SCAN is its documented
one: what is there throughout is returned at least once, everything else
perhaps. Keys of one page may be read in any order.

`App` EXTENDS `Mission`, `PolicyTables`, `Sampling`, `AgentDispatch` and
`ShipsLog`, whose operators bear the component's name for that purpose
(`MissionSpec`, `TablesSwitch`, `LoadPastSampling`, ...) and whose variables of
focus, store and loads are one and the same. `Key(v)` is one key press as every
view's module sees it; `SpaceKey` the one key that is delegated and means
something; `LoadDelivered(r)` hands one load to one view; `SamplingTick`,
`AgentTick` and `LogStep` are the messages only one view knows; `StoreStep` and
`SourceStep` are the stores and connections; `Quit` the end: messages the loop
still handles before it returns are as if `q` had been pressed later.

Each module also holds the mutated forms of some of its actions (for example
`SwitchInitsOnce` next to `AgentsSwitch`), each stating in its comment the bug it
stands for. No specification uses them: `PROJECT.json` "mutants" names them, and
each makes the property it is listed with fail.

## 3. The runs

| Run | Question | Instance |
|---|---|---|
| `agents` | does the dispatch animation survive lost and doubled ticks? | 6 agents, 5 keys |
| `mission` | do log, phase and screen agree whatever loads arrive? | 10 phases, 3 keys, 3 versions (embedded, none, foreign) |
| `mission_reset` *(violation)* | "don't re-init once started" | 4 phases, 2 keys, embedded |
| `tables` | is loading honest, does entering refresh, do the two views agree, each with its sort? | 4 keys, 3 versions (8, 0 and 9 policies), failures |
| `sampling` | rounds of one load, no stall, completion | 3 rounds, 4 keys, 3 versions |
| `log` | listening, honest status, order, once per subscription, shown | 2 events, 3 keys, all sources |
| `log_shown_twice` *(violation)* | an event published once, shown once? | 2 events, 3 keys, NATS |
| `source` | do both adapters keep what the port promises, also while Close drains? | 2 subscriptions, 1 slot, 2 pending, 3 events |
| `scan` | does one ReadAll miss or invent a policy? | 2 keys of the store, 3 writes each, 3 pages |
| `credentials` | what do stopped and repeated Saves leave to Load? | 3 Saves |
| `tokens` | can rounding turn a comparison round? | 6 lengths, 4 sections a side |
| `app` | does the program implement every component? | 2 keys, 2 versions, smallest views |

**What the passing runs show.** `agents`: any number of visits keeps a tick in
flight or the fleet complete (`AnimationGoesOn`); extra visits speed the animation up
but no agent goes back a stage, skips one, or ends more than a tick from its
expected duration. `mission`: the last lines of the log the user can see are
always those of the phase on the screen, also after SPACE was pressed before the
policies came and the answer restarted the story; restarts are no more than the
program start and the keys pressed, those of a view that asks for no load
included; a user who never leaves gets started. Whatever policies the store
holds, no row of the table contradicts the last line of the log: a rate that is
quoted is shown, a system called FILTERED is filtered, a compromised one is
DEGRADED (`TableBearsOutLog`). That the log tells *all* there is, and that
NOMINAL is true, holds as long as no policy held is beyond the limit of DEGRADED
by itself, which the embedded ones are not (`LogTellsAll`), and that "3 systems
compromised" are three over the embedded policies only (`ThreeCompromised`); the
three together are `BoardTellsStory`. Screen and log name one event and one agent,
log and dispatch view one agent and one number of tokens for it, and a number of
tokens in the text of a screen is one that a text line of the log has given
(`EventLogged`); that the two numbers differ is a finding. `tables`:
`Refreshed` holds although the answer a view gets need not be its own, because
any answer in flight is at least as new as the first request in flight (an older
answer may still replace a newer one: finding 3); when both hold the same
policies, the classes the Bridge counts are the colours of Systems and its lists
show the confidences of the first and last rows, however either sort left equals;
with up to eight policies no row is left out, and none is empty
(`BridgeHonest`). `sampling`: a late load resets the rounds while older tick
chains go on, and no round mixes policies. `log`: `Listening` holds through
every loss: some link of the chain that brings the next event of the *current*
channel always exists until the client gives the connection up; and the log does
not talk itself into RECONNECTING (`StatusHonest`). `source`: the adapters
implement `EventStream` (`StreamsKept`); a send on a closed channel is possible,
but only for a cancelled NATS subscription whose callback had started, and the
program cancels none (`PanicOnlyInRace`); a cancelled channel gets closed even if
nobody reads it (`CancelEnds`); and all of it holds through `Close` and whatever becomes
of the drain it starts. `scan`: concurrent writes and expiries cannot make a
call miss a policy that was readable throughout; only a failed GET can.
`credentials`: a Save that returned nil is what the next undisturbed Load gives,
whatever stopped before it; a Load never gives a certificate older than what was
stored, even while a Save runs; a first Save that stops leaves nothing Load
accepts but perhaps a wrong server name. `tokens`: the side longer by more than
three bytes per section of the other has more tokens and a higher cost.
`app`: every view in the composition stays within its types and behaves as its
own module says (`LoadingViewsSpec`, `AgentsSpec`, `LogSpec`);
`LoadingViewsSpec` is the conjunction of the specifications of
`Mission`, `PolicyTables` and `Sampling`.

**Further configurations**, not among the runs. Each states a sentence of the
source or its docs that the program does not keep, and TLC gives a
counterexample: `MissionStuck.cfg` (`StartsOnScreen`), `MissionNominal.cfg`
(`NominalMeansOK`) and `MissionPrice.cfg` (`OnePrice`) with `MCMission`, `TablesStale.cfg`
(`NeverBackInTime`, with `MCPolicyTables`), `LogReconnects.cfg` (`Reconnects`,
with `MCShipsLog`), `CredentialsExist.cfg` (`ExistsMeansAll`, with
`MCCredentialStore`).

**Bounds.** `MaxKeys` bounds the view keys a user presses: 2 keys are a visit
elsewhere and back, 3 to 5 allow a second visit while the messages of the first
are in flight, and a third that meets both, which is where every hazard above
lies; a further key adds another message of a kind already there. It also means
that the user stops pressing keys at some time; `CompletesOnScreen` needs this
(pressing `t` for ever restarts the sampling for ever). `MaxVersion` 3 gives an
older, a current and a newer answer in flight at once; `Empty = {2}` puts a
version without policies between two others, so that the empty answer follows
and precedes a full one. `MaxEvents` 2 is the least that can be reordered; it
stays below the 64 slots of a channel, so that no publisher blocks; `source` is
where they do, with one slot and three events, so that the buffer is full, the
sender waits and the client's own queue (`PendingLimit` 2) overflows. Two
subscriptions are enough for the race on `s.sub` and for one that nobody reads
next to one that is read. `MaxSaves` 3 allows a Save that is stored, one that
stops over it and one that repairs. The lengths of `tokens` lie on both sides of
each rounding step. The contents in `tables` are the eight confidences of the
embedded store, none, and nine values on and next to each limit, several of them
equal. Those in `mission` are the eight embedded policies, none, and four that a
Valkey may hold: a tool the story does not know beyond every limit, one of its
systems twice on both sides of a limit, one without errors, and the others
missing. The code's
own constants are used where they are small (10 phases, 6 agents);
`maxRounds` 20 is 3 in `sampling`: the handler treats all rounds but the last
alike. `MaxWrites` 3 with `Garbage = {2}` lets a key go from readable to garbage
and back within a scan; `MaxPages` 3 lets a page follow a page that repeats
keys. In `app` every view is at its smallest, since what is asked there is what
the views do to each other's variables.

**Fairness.** Weak fairness on: a read that is under way (go-redis has
timeouts; the embedded store answers at once), the delivery of a message in
flight (the event loop takes messages from one channel and never blocks in
`Update`), a timer that fires (it is a message in flight here), a waiting
command on a channel that is not empty. The
user, the publisher, the writes to the store and the connection owe nothing.
The delivery of loads (`MissionDeliver` and its likes) is fair as a whole, not per
message. In `ShipsLog` the receives, the
events and the subscriptions are fair one by one, because the endless
`StreamClosed` must not be able to starve them: the Go runtime does not starve
a goroutine for ever and the loop's channel is served in some order that has no
such preference.

In `EventSource` only the goroutines that select, unsubscribe and close are fair;
nobody has to read, publish, subscribe or cancel, so `CancelEnds` holds with a
reader that never comes back.

`CHECK_DEADLOCK FALSE` stands where the system may come to rest: the user has
pressed all keys and nothing is in flight, the program has ended or a goroutine
has panicked, or a context has all its sections.

## 4. Findings

The first and the fourth are runs; the others have a configuration of their own.

1. `app.go:167` "Mission keeps its phase state": a load another view asked for,
   delivered after the user came back, sets `phase = 0` and logs phase 0 again
   (`mission_reset`).
2. The mission's only load is issued at program start. If the user leaves before
   it is delivered, another view takes it, and the mission shows "Initializing
   ship systems..." for ever; SPACE goes on logging phases under it
   (`MissionStuck.cfg`).
3. `app.go:168` "re-init to refresh data": of two loads in flight the older may
   arrive last and stays on the screen (`TablesStale.cfg`).
4. The Ship's Log subscribes on every visit and cancels nothing: after a second
   visit an event may be shown twice (`log_shown_twice`).
5. The 3 s "reconnect" timer repeats the failure message, never the subscription
   (`LogReconnects.cfg`).
6. `file_store.go:77` "Exists returns true if credential files exist" looks at
   one of four: after a Save that stopped, Load fails although Exists says yes
   (`CredentialsExist.cfg`). `ExistsReliable` says when Exists may be trusted.
7. `docs/DEMO_STRATEGY.md:261` "NOMINAL | All systems green", and the banner "ALL
   SYSTEMS OPERATIONAL" (`mission.go:201`, `:424`), are written without a look at
   the policies: over a Valkey that holds a policy with an error rate above 0.15
   the table under the banner has a DEGRADED row (`MissionNominal.cfg`). For the
   same reason phase 4 need not filter three systems there.
8. `mission.go:79` calls a `phaseLog` "used for both rendering and Ship's Log"; the
   renderers do not use it, and the escalation of phase 6 has two prices: 504
   tokens in its entry and in the dispatch table (`agents.go:232`), "$0.006, 394
   tokens" in its own text line and on its screen (`mission.go:111`, `:328`)
   (`MissionPrice.cfg`); the docs have the same call at $0.015
   (`DEMO_STRATEGY.md:206`, `:233`).

Met on the way:

- A failed GET is skipped without an error (`ValkeyScan`, action `GetFails`), and
  the answer then misses a policy that was in the store all along;
  `NothingSkipped` says what remains true.
- Phase 6 logs the event `repair.strategy.failing`, which its screen does not
  show.
- `Subscriber.Close` unsubscribes the subscription that wrote `s.sub` last and
  leaves the others to a drain that outlives it and whose error it ignores;
  harmless, as the program ends there.
- A log whose client has given the connection up goes on saying CONNECTED
  (`events.go:151`): nothing tells it, and `StatusHonest` judges RECONNECTING only.
- The dispatch table lets the repair agent use `eng.thrust`, which phase 4 of
  the mission filters.
- With four to seven policies the Bridge lists some both among TOP 5 and among
  LOWEST RELIABILITY; from eight on it does not (`NothingHidden`).
- With the 64-slot buffer full, a subscription nobody reads blocks the client's
  callback until it is cancelled, which the program never does.

## 5. What is proved

All theorems are of the form `Spec => []Inv`, `Spec => [][A]_vars` or
`Spec => AbstractSpec` and hold for every value of the constants that satisfies
the named assumptions: any number of view keys, versions, policies, rounds,
events, subscriptions, channel slots, Saves, store keys, writes, pages and
sections, any last phase and any fleet of one to six agents. Every safety
invariant and every refinement the runs check is also a theorem.

- `AgentDispatchProofs`: `AgentsTypeOK`, `AnimationGoesOn`, `CompletionHonest`,
  `OnTime`, `StagesInOrder`. These are not inductive by themselves: `FireNext`
  might fire an agent that had COMPLETED. What is missing is the link between the
  step counter and the table, `StepCountsFired`: before the first tick there is
  no table and no animation; after it an agent is PENDING exactly until `step`
  has passed it. With it the conjunction is inductive; one lemma per action.
- `LoadingViewsProofs`, the views that load policies. First lemmas that every
  load action preserves `LoadsTypeOK` and `LoadsFresh` and what it does to the
  number of loads in flight (`LoadsInFlight`, the cardinality of a set, so that
  it can be counted without recursion). On these rest, view by view:
  - `PolicyTables`: `OnScreenLoads`, `LoadsFresh`, `Refreshed`. `since` is what
    makes `Refreshed` inductive: while loads are in flight nothing that arrives
    is older than `since`, and when the last has arrived the table on the screen
    is what it brought.
  - `BridgeView`: `BridgeHonest`. `ClassIsColor` sets the two copies of the limits
    side by side, `HigherFirst` the two comparisons. What may stand in a higher
    row is never less reliable (`RankedDown`): otherwise every policy would have to
    go before the one or behind the other, and together there is no room for that
    many. From it `SameViews` and `NoneHidden`. That a row may hold a policy at all
    (`FilledRow`) needs an order that sorts: `Place` breaks ties by position,
    `PlacesInOrder` and `EveryPlaceTaken` make the places a permutation, because
    an injection of a finite set into itself is onto, and the policy in place i
    is one that may stand in row i. The invariant adds `ShownIsRead`: a table
    without an error holds a version of the store.
  - `Sampling`: `RoundsDrawnFromHeld`, `NoStall`, `NoExtraChains`. The
    strengthening is `TicksFollowLoads`: a view on its loading screen has no tick
    and no policies, and tick chains and loads in flight together are at most
    one for the program's start and one for each key pressed.
  - `Mission`: `LogTellsPhase`, `StoryInOrder`, `NoSpontaneousRestart`. The lemmas
    `EmittedLines` and `TailShown` say that a phase logs at most four lines and
    that the last of them fit the 20 the Ship's Log shows, `PhaseTold` that
    appending them keeps the story. `RestartsPaid` counts the lines of phase 0
    together with the loads in flight, two lines to a load: what arrives turns
    from a load into lines, and only a key adds to the sum.
  - `MissionBoard`: `BoardTellsStory`, `EventLogged`, for every content of the store
    that `ShipAssumption` allows. `LastLineTold` (the last line is one of the phase
    on the screen) reduces both to the ten screens, which `RatesAgree`,
    `CascadeRows`, `NominalScreens` and `AccountsAgree` go through; `RowsAreHeld`
    and `OwnRate` say what a row shows that no phase overrides, `ShipIsSound` what
    is special about the embedded policies. `FiguresQuoted` needs `PhasesTold`:
    every phase up to the one shown has a line in the log, so the figure on the
    last screen has been given. `NominalIsOK` is the banner by itself, under the
    condition `Healthy` that finding 7 shows to be needed.
- `ShipsLogProofs`: `LogTypeOK`, `Listening`, `StatusHonest` from `LogIInv`, with
  `ChannelHeld` (a channel is only waited on, and an event only in flight, after
  the log has held a channel), `FailureMeansClosed` (a failure message means the
  connection was given up) and `KeyPerSubscription`. Then `OncePerSubscription`
  and `InOrderOnce` from `Order`: `Queues` (a channel holds growing numbers, none
  it was not given), `OneLink` (with one subscription one command waits, or one
  message is in flight), `InLine` (what was shown comes before what is in
  flight, and that before what is queued). An event is shown, or about to be, no
  more often than there are channels it has come through and left (`Gone`).
- `EventSourceProofs`: `Backpressure`, `PanicOnlyInRace`, and
  `StreamsKept`: every step of a goroutine, the client or the reader is a step
  of `EventStream` or a stutter. The invariant `Good` says of each subscription
  that its buffer grows between what was taken and what was offered (`Growing`),
  without a gap while nobody cancels (`WithoutGap`), that a sender waits only for
  room (`Waits`), and what the client still knows of it (`Known`).
- `CredentialStoreProofs`: `SavedIsLoaded`, `NeverRollsBack`, `FirstSaveWhole`,
  `ExistsReliable`. `Layered` is the heart: in the order of Save the files go from
  newest to oldest, and files of one call are whole up to the last of them;
  `SaveProgress` and `LoadProgress` say how far either has come, `Outcome` that
  what was stored is whole as long as no later Save began.
- `ValkeyScanProofs`: `TypeOK`, `FreshPolicies`, `NothingSkipped`. The invariant
  follows a key that must not be missed: it is still to be returned by the
  server, on the page in hand, or in the slice (`ScanInv`).
- `TokenBudgetProofs`: `RoundingBounded` and `VerdictHolds`, from the bracket
  `bytes <= 4 * total <= bytes + 3 * sections` that every section keeps.
- `AppProofs`: the program implements `MissionSpec`, `TablesSpec`, `SamplingSpec`
  (`LoadingViewsKept`), `AgentsSpec` (`AgentsKept`) and `LogSpec` (`LogKept`): one
  lemma per component shows each step of the event loop to be one of the
  component's own, or to leave its variables alone. `EveryViewHolds` then carries
  all eighteen invariants of the views, and `StagesInOrder`, over to the program.

**Assumptions**: `KeysAssumption`, `VersionAssumption`, `ContentAssumption`,
`ShipAssumption`,
`RoundsAssumption`, `PhaseAssumption`, `FleetAssumption`, `SourceAssumption`,
`SavesAssumption`, `ScanAssumption`, `BudgetAssumption`, each in the module that
declares the constants. They are ranges; `ContentAssumption` and `ShipAssumption`
add that the versions without policies are those in `Empty`, the latter that the
embedded store holds what it is seeded with.

**What the proofs asked of the model.** Counts that were folds over a sequence
are cardinalities of sets of positions (`Times`, `LoadsInFlight`); a sorted
table is defined by what may stand in its rows and the error rates of a phase by
a function on the systems some phase overrides, 0 where this one does not, in
place of operators the prover has no definition of. Two invariants were too weak at
first: `OneLink` had to speak of the start message also when there is no event
yet, and `Known` had to say that the simulator's subscriptions are never dropped
from a client.

**Only model-checked**: all liveness (`StartsIfWatched`, `TableFills`,
`CompletesOnScreen`, `FinishesOnScreen`, `EventShown`, `CancelEnds`), which is
out of the prover's reach, and the sentences that fail (section 4), where TLC's
counterexample is the result.

## 6. Not modelled, and why

- Rendering: styles, layout, widths, the help bar, the sums of samples and zones
  on the Bridge, narration. What a view shows is modelled where a property is
  about it: loading and completion, the status word, the lines of the log, the
  mission's tables, the classes and lists of the Bridge.
- The random draws of `betaSample`/`gammaSample`: floating-point sampling.
- Flags and idle mode of `main.go`: one-shot code at either end of the process.
- `EventsModel.Stop`: nothing in the program calls it; `EventSource` cancels at
  any time all the same. `ReadByContext` has no caller and is `ReadAll` over
  other keys.
- Two Saves at once, and what TLS makes of credentials; parsing of PEM.
- Deployment files.

## 7. What could follow

The plan of modules is complete, and so is the list of theorems for the safety
properties of the runs. What remains open: the adapters under the log (`ShipsLog`
over `EventStream` in place of its own `Publish` and `Simulate`), which would
join the two halves of the event path in one run and one theorem, and what
`EventStream` itself promises a reader, proved once for both adapters.
