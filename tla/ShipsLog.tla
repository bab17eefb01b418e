------------------------------- MODULE ShipsLog -------------------------------
(***************************************************************************)
(* The Ship's Log, internal/tui/views/events.go, and the event source as   *)
(* it sees it: every visit subscribes anew, on a channel of its own, and   *)
(* nothing is ever cancelled.  A goroutine waits on the channel for one    *)
(* event; the event is handed to whichever view has the focus; only if     *)
(* that is the log is it shown and the next event waited for.              *)
(***************************************************************************)
EXTENDS Screen, Sequences, FiniteSets

CONSTANTS
  Sources,      \* what Deps.EventSub may be: "nats", "simulator", "none" (nil)
  MaxEvents     \* bound: events published; the simulator's list has 7

ASSUME SourceAssumption ==
  /\ Sources \subseteq {"nats", "simulator", "none"}
  /\ MaxEvents \in Nat

VARIABLES
  log,          \* EventsModel: watching, eventCh (0 is nil), events
  starting,     \* startWatching commands that have not subscribed yet
  subscribed,   \* successful Subscribe calls; the k-th returned channel k
  started,      \* channels whose eventsWatchStartedMsg is in flight
  queue,        \* per channel, the events in its buffer
  waiting,      \* per channel, the waitForEvent commands blocked on it
  received,     \* eventReceivedMsg in flight, counted by event
  closed,       \* eventsStreamClosedMsg in flight or waiting for its 3 s timer
  source,       \* Deps.EventSub, chosen once when the program starts
  conn,         \* the NATS connection
  published     \* per channel, the last event it was given; 0: on the subject

linkVars == <<starting, subscribed, started, queue, waiting, received, closed>>
sourceVars == <<source, conn, published>>
logVars == <<log, linkVars, sourceVars>>
logAndScreen == <<screenVars, logVars>>

Event == 1..MaxEvents
Channel == 1..MaxKeys

LogTypeOK ==
  /\ ScreenTypeOK
  /\ log \in [watching : BOOLEAN, eventCh : 0..MaxKeys, events : Seq(Event)]
  /\ starting \in Nat
  /\ subscribed \in 0..MaxKeys
  /\ started \subseteq 1..subscribed
  /\ queue \in [Channel -> Seq(Event)]
  /\ waiting \in [Channel -> Nat]
  /\ received \in [Event -> Nat]
  /\ closed \in Nat
  /\ source \in Sources
  /\ conn \in {"up", "reconnecting", "closed"}
  /\ published \in [0..MaxKeys -> 0..MaxEvents]

NewLog ==
  /\ log = [watching |-> FALSE, eventCh |-> 0, events |-> <<>>]
  /\ starting = 0
  /\ subscribed = 0
  /\ started = {}
  /\ queue = [k \in Channel |-> <<>>]
  /\ waiting = [k \in Channel |-> 0]
  /\ received = [e \in Event |-> 0]
  /\ closed = 0
  /\ source \in Sources
  /\ conn = "up"
  /\ published = [k \in 0..MaxKeys |-> 0]

LogInit == ScreenInit /\ NewLog
-----------------------------------------------------------------------------
\* Key l subscribes again; leaving the log cancels nothing.
LogSwitch(v) ==
  /\ Show(v)
  /\ starting' = IF v = "Log" /\ source # "none" THEN starting + 1 ELSE starting
  /\ UNCHANGED <<log, subscribed, started, queue, waiting, received, closed, sourceVars>>

\* Subscribe succeeds on a connection that is up or reconnecting.
Subscribe ==
  /\ starting > 0
  /\ conn # "closed"
  /\ starting' = starting - 1
  /\ subscribed' = subscribed + 1
  /\ started' = started \cup {subscribed + 1}
  /\ UNCHANGED <<screenVars, log, queue, waiting, received, closed, sourceVars>>

\* A client that refuses subscriptions while it reconnects.
SubscribeFailsEarly ==
  /\ starting > 0
  /\ conn # "up"
  /\ starting' = starting - 1
  /\ closed' = closed + 1
  /\ UNCHANGED <<screenVars, log, subscribed, started, queue, waiting, received, sourceVars>>

\* Subscribe fails once the client has given the connection up.
SubscribeFails ==
  /\ starting > 0
  /\ conn = "closed"
  /\ starting' = starting - 1
  /\ closed' = closed + 1
  /\ UNCHANGED <<screenVars, log, subscribed, started, queue, waiting, received, sourceVars>>

\* A handler that keeps two commands waiting so as not to miss an event.
WatchStartedTwoWaiters(k) ==
  /\ currentView = "Log"
  /\ k \in started
  /\ started' = started \ {k}
  /\ log' = [log EXCEPT !.watching = TRUE, !.eventCh = k]
  /\ waiting' = [waiting EXCEPT ![k] = @ + 2]
  /\ UNCHANGED <<screenVars, starting, subscribed, queue, received, closed, sourceVars>>

\* The handler of eventsWatchStartedMsg: the channel and cancel function of an
\* earlier visit are overwritten, its waiting commands are not.
WatchStarted(k) ==
  /\ currentView = "Log"
  /\ k \in started
  /\ started' = started \ {k}
  /\ log' = [log EXCEPT !.watching = TRUE, !.eventCh = k]
  /\ waiting' = [waiting EXCEPT ![k] = @ + 1]
  /\ UNCHANGED <<screenVars, starting, subscribed, queue, received, closed, sourceVars>>

\* A command blocked on channel k takes an event and returns it as a message.
Receive(k) ==
  /\ waiting[k] > 0
  /\ queue[k] # <<>>
  /\ waiting' = [waiting EXCEPT ![k] = @ - 1]
  /\ queue' = [queue EXCEPT ![k] = Tail(@)]
  /\ received' = [received EXCEPT ![Head(queue[k])] = @ + 1]
  /\ UNCHANGED <<screenVars, log, starting, subscribed, started, closed, sourceVars>>

\* An event is shown and no further one waited for.
EventReceivedLast(e) ==
  /\ currentView = "Log"
  /\ received[e] > 0
  /\ received' = [received EXCEPT ![e] = @ - 1]
  /\ log' = [log EXCEPT !.events = Append(@, e)]
  /\ UNCHANGED <<screenVars, starting, subscribed, started, queue, waiting, closed, sourceVars>>

\* The handler of eventReceivedMsg waits on the channel the model holds now,
\* which need not be the one the event came from.
EventReceived(e) ==
  /\ currentView = "Log"
  /\ received[e] > 0
  /\ received' = [received EXCEPT ![e] = @ - 1]
  /\ log' = [log EXCEPT !.events = Append(@, e)]
  /\ waiting' = [waiting EXCEPT ![log.eventCh] = @ + 1]
  /\ UNCHANGED <<screenVars, starting, subscribed, started, queue, closed, sourceVars>>

\* The handler of eventsStreamClosedMsg asks for the same message in 3 s.
StreamClosed ==
  /\ currentView = "Log"
  /\ closed > 0
  /\ log' = [log EXCEPT !.watching = FALSE]
  /\ UNCHANGED <<screenVars, linkVars, sourceVars>>

\* The three messages delivered to another view: dropped, and nothing waits.
Elsewhere ==
  /\ currentView # "Log"
  /\ \/ /\ \E k \in started : started' = started \ {k}
        /\ UNCHANGED <<received, closed>>
     \/ /\ \E e \in Event :
             received[e] > 0 /\ received' = [received EXCEPT ![e] = @ - 1]
        /\ UNCHANGED <<started, closed>>
     \/ /\ closed > 0 /\ closed' = closed - 1
        /\ UNCHANGED <<started, received>>
  /\ UNCHANGED <<screenVars, log, starting, subscribed, queue, waiting, sourceVars>>
-----------------------------------------------------------------------------
\* A Subscribe that registers its callback twice for one channel.
PublishTwice ==
  LET e == published[0] + 1
      reached == IF conn = "up" THEN 1..subscribed ELSE {}
  IN  /\ source = "nats"
      /\ e \in Event
      /\ published' = [k \in 0..MaxKeys |->
                         IF k = 0 \/ k \in reached THEN e ELSE published[k]]
      /\ queue' = [k \in Channel |->
                     IF k \in reached THEN queue[k] \o <<e, e>> ELSE queue[k]]
      /\ UNCHANGED <<screenVars, log, starting, subscribed, started, waiting,
                     received, closed, source, conn>>

\* External: tool-learning publishes; the connection hands the event to every
\* subscription made so far.  While the client reconnects the event is missed.
Publish ==
  LET e == published[0] + 1
      reached == IF conn = "up" THEN 1..subscribed ELSE {}
  IN  /\ source = "nats"
      /\ e \in Event
      /\ published' = [k \in 0..MaxKeys |->
                         IF k = 0 \/ k \in reached THEN e ELSE published[k]]
      /\ queue' = [k \in Channel |->
                     IF k \in reached THEN Append(queue[k], e) ELSE queue[k]]
      /\ UNCHANGED <<screenVars, log, starting, subscribed, started, waiting,
                     received, closed, source, conn>>

\* EventSimulator: each subscription plays its own list from the beginning.
Simulate(k) ==
  /\ source = "simulator"
  /\ k <= subscribed
  /\ published[k] < MaxEvents
  /\ published' = [published EXCEPT ![k] = @ + 1]
  /\ queue' = [queue EXCEPT ![k] = Append(@, published[k] + 1)]
  /\ UNCHANGED <<screenVars, log, starting, subscribed, started, waiting,
                 received, closed, source, conn>>

\* External: the NATS client loses the server, finds it again, or gives up.
ConnChanges ==
  /\ source = "nats"
  /\ \/ conn = "up" /\ conn' = "reconnecting"
     \/ conn = "reconnecting" /\ conn' \in {"up", "closed"}
  /\ UNCHANGED <<screenVars, log, linkVars, source, published>>

Runtime ==
  \/ Subscribe \/ SubscribeFails
  \/ \E k \in Channel : WatchStarted(k) \/ Receive(k)
  \/ \E e \in Event : EventReceived(e)
  \/ StreamClosed
  \/ Elsewhere

World == Publish \/ (\E k \in Channel : Simulate(k)) \/ ConnChanges

LogNext == (\E v \in View : LogSwitch(v)) \/ Runtime \/ World

LogSpec == LogInit /\ [][LogNext]_logAndScreen

\* Commands run and messages are delivered, each kind in spite of the others:
\* StreamClosed may repeat for ever.  Nothing is owed by the user, the service
\* that publishes or the connection.
LogFairSpec ==
  /\ LogSpec
  /\ WF_logAndScreen(Subscribe \/ SubscribeFails)
  /\ \A k \in Channel : WF_logAndScreen(WatchStarted(k)) /\ WF_logAndScreen(Receive(k))
  /\ \A e \in Event : WF_logAndScreen(EventReceived(e))
  /\ WF_logAndScreen(Elsewhere)
-----------------------------------------------------------------------------
\* While the log is on the screen and the connection has not been given up, some
\* link of the chain that brings the next event of the current channel exists:
\* a subscription under way, a command waiting on that very channel, or an event
\* in flight whose handler will wait on it.
Listening ==
  currentView = "Log" /\ source # "none" /\ conn # "closed" =>
    \/ starting > 0
    \/ started # {}
    \/ log.eventCh # 0 /\ waiting[log.eventCh] > 0
    \/ \E e \in Event : received[e] > 0

\* The word after "Status:" in View.
StatusWord == IF log.watching THEN "CONNECTED" ELSE "RECONNECTING..."

\* RECONNECTING is not a dead end the log talks itself into: as long as the
\* connection has not been given up, a subscription that will take the word back
\* is under way, although its messages may be handed to other views and old
\* failures may arrive after it.
StatusHonest ==
  currentView = "Log" /\ source # "none" /\ StatusWord = "RECONNECTING..." =>
    starting > 0 \/ started # {} \/ conn = "closed"

Times(s, e) == Cardinality({i \in DOMAIN s : s[i] = e})

\* An event is shown at most once for each subscription made: whatever is lost,
\* overwritten or waited for twice, no channel gives an event away twice.
OncePerSubscription ==
  \A e \in Event :
    Times(log.events, e) + received[e]
      <= Cardinality({k \in 1..subscribed :
                        published[k] >= e /\ Times(queue[k], e) = 0})

\* As long as there was one subscription only, the log shows its events in the
\* order they were published, none twice: losing the focus may cost an event
\* but never reorders.
InOrderOnce ==
  subscribed <= 1 =>
    \A i \in 1..Len(log.events) - 1 : log.events[i] < log.events[i+1]

\* An event in the channel the log watches is shown if the user stays, does not
\* subscribe again, and the connection is not given up.
EventShown ==
  \A k \in Channel, e \in Event :
    (currentView = "Log" /\ log.eventCh = k /\ Times(queue[k], e) > 0)
      ~> \/ currentView # "Log"
         \/ log.eventCh # k \/ conn = "closed"
         \/ Times(log.events, e) > 0

\* events.go:26 "shows the real-time NATS event stream": an event that was
\* published once is shown once.
ShownOnce == \A e \in Event : Times(log.events, e) <= 1

\* events.go:153 "RECONNECTING...": the log that says so subscribes again.
Reconnects ==
  (currentView = "Log" /\ closed > 0 /\ ~log.watching)
    ~> (starting > 0 \/ log.watching \/ currentView # "Log")
=============================================================================
