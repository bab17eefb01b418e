---------------------------- MODULE ShipsLogProofs ----------------------------
(***************************************************************************)
(* The Ship's Log, for every source, number of events and key presses.     *)
(* The invariant adds what the properties lean on: a channel is only       *)
(* waited on, and an event only in flight, after the log has held one; and *)
(* a failure message is only sent when the connection has been given up.   *)
(***************************************************************************)
EXTENDS ShipsLog, FiniteSetTheorems, TLAPS

\* Each subscription was asked for by a key of its own.
KeyPerSubscription == starting + subscribed <= keys

\* What a command waits on, or has received, came through a channel held.
ChannelHeld ==
  /\ \A k \in Channel : waiting[k] > 0 => log.eventCh # 0
  /\ \A e \in Event : received[e] > 0 => log.eventCh # 0

FailureMeansClosed == closed > 0 => conn = "closed"

LogIInv ==
  /\ LogTypeOK
  /\ KeyPerSubscription
  /\ ChannelHeld
  /\ FailureMeansClosed
  /\ Listening
  /\ StatusHonest

USE KeysAssumption, SourceAssumption DEF KeysAssumption, SourceAssumption

LEMMA LogInitIInv == LogInit => LogIInv
<1> SUFFICES ASSUME LogInit PROVE LogIInv
  OBVIOUS
<1> USE DEF LogInit, ScreenInit, NewLog, Event, Channel
<1>1. LogTypeOK
  <2>1. ScreenTypeOK
    BY DEF ScreenTypeOK, View
  <2>2. log \in [watching : BOOLEAN, eventCh : 0..MaxKeys, events : Seq(Event)]
    <3>1. FALSE \in BOOLEAN /\ 0 \in 0..MaxKeys /\ <<>> \in Seq(Event)
      OBVIOUS
    <3> QED
      BY <3>1
  <2>3. queue \in [Channel -> Seq(Event)]
    OBVIOUS
  <2>4. /\ starting \in Nat /\ closed \in Nat /\ subscribed \in 0..MaxKeys
        /\ started \subseteq 1..subscribed
        /\ waiting \in [Channel -> Nat] /\ received \in [Event -> Nat]
    OBVIOUS
  <2>5. published \in [0..MaxKeys -> 0..MaxEvents]
    OBVIOUS
  <2> QED
    BY <2>1, <2>2, <2>3, <2>4, <2>5 DEF LogTypeOK
<1>2. KeyPerSubscription /\ ChannelHeld /\ FailureMeansClosed
  BY DEF KeyPerSubscription, ChannelHeld, FailureMeansClosed
<1>3. Listening /\ StatusHonest
  BY DEF Listening, StatusHonest
<1> QED
  BY <1>1, <1>2, <1>3 DEF LogIInv

LEMMA LogSwitchKeepsIInv ==
  ASSUME LogIInv, NEW v \in View, LogSwitch(v)
  PROVE  LogIInv'
<1> USE DEF LogIInv, LogSwitch, Show, sourceVars
<1>1. starting \in Nat /\ starting' \in Nat
      /\ starting' <= starting + 1 /\ starting <= starting'
      /\ (v = "Log" /\ source # "none" => starting' > 0)
  BY DEF LogTypeOK
<1>2. keys' \in 0..MaxKeys /\ keys' = keys + 1 /\ keys \in Nat
  BY DEF LogTypeOK, ScreenTypeOK
<1>3. LogTypeOK'
  BY <1>1, <1>2 DEF LogTypeOK, ScreenTypeOK
<1>4. KeyPerSubscription'
  BY <1>1, <1>2 DEF KeyPerSubscription, LogTypeOK
<1>5. ChannelHeld' /\ FailureMeansClosed'
  BY DEF ChannelHeld, FailureMeansClosed
<1>6. Listening' /\ StatusHonest'
  BY <1>1 DEF Listening, StatusHonest, StatusWord
<1> QED
  BY <1>3, <1>4, <1>5, <1>6

LEMMA SubscribeKeepsIInv ==
  ASSUME LogIInv, Subscribe
  PROVE  LogIInv'
<1> USE DEF LogIInv, Subscribe, screenVars, sourceVars
<1>1. /\ starting \in Nat /\ starting' \in Nat /\ starting' = starting - 1
      /\ subscribed \in Nat /\ subscribed' = subscribed + 1
      /\ keys \in 0..MaxKeys /\ keys' = keys
  BY DEF LogTypeOK, ScreenTypeOK
<1>2. KeyPerSubscription' /\ subscribed' <= MaxKeys
  BY <1>1 DEF KeyPerSubscription
<1>3. started' \subseteq 1..subscribed' /\ started' # {}
  BY <1>1 DEF LogTypeOK
<1>4. LogTypeOK'
  BY <1>1, <1>2, <1>3 DEF LogTypeOK, ScreenTypeOK
<1>5. ChannelHeld' /\ FailureMeansClosed'
  BY DEF ChannelHeld, FailureMeansClosed
<1>6. Listening' /\ StatusHonest'
  BY <1>3 DEF Listening, StatusHonest
<1> QED
  BY <1>2, <1>4, <1>5, <1>6

LEMMA SubscribeFailsKeepsIInv ==
  ASSUME LogIInv, SubscribeFails
  PROVE  LogIInv'
<1> USE DEF LogIInv, SubscribeFails, screenVars, sourceVars
<1>1. LogTypeOK' /\ KeyPerSubscription'
  BY DEF LogTypeOK, ScreenTypeOK, KeyPerSubscription
<1>2. ChannelHeld' /\ FailureMeansClosed' /\ Listening' /\ StatusHonest'
  BY DEF ChannelHeld, FailureMeansClosed, Listening, StatusHonest
<1> QED
  BY <1>1, <1>2

LEMMA WatchStartedKeepsIInv ==
  ASSUME LogIInv, NEW k \in Channel, WatchStarted(k)
  PROVE  LogIInv'
<1> USE DEF LogIInv, WatchStarted, screenVars, sourceVars, Channel
<1>1. /\ log' \in [watching : BOOLEAN, eventCh : 0..MaxKeys, events : Seq(Event)]
      /\ log'.eventCh = k /\ k # 0
      /\ log'.watching
  <2>1. log' = [watching |-> TRUE, eventCh |-> k, events |-> log.events]
    BY DEF LogTypeOK
  <2>2. TRUE \in BOOLEAN /\ k \in 0..MaxKeys /\ k # 0 /\ log.events \in Seq(Event)
    BY DEF LogTypeOK
  <2> HIDE DEF LogIInv, WatchStarted
  <2> QED
    BY <2>1, <2>2
<1>2. waiting' \in [Channel -> Nat] /\ waiting'[k] > 0
  BY DEF LogTypeOK
<1>3. LogTypeOK'
  BY <1>1, <1>2 DEF LogTypeOK, ScreenTypeOK
<1>4. KeyPerSubscription' /\ ChannelHeld' /\ FailureMeansClosed'
  BY <1>1 DEF KeyPerSubscription, ChannelHeld, FailureMeansClosed
<1>5. Listening' /\ StatusHonest'
  BY <1>1, <1>2 DEF Listening, StatusHonest, StatusWord
<1> QED
  BY <1>3, <1>4, <1>5

LEMMA ReceiveKeepsIInv ==
  ASSUME LogIInv, NEW k \in Channel, Receive(k)
  PROVE  LogIInv'
<1> USE DEF LogIInv, Receive, screenVars, sourceVars
<1> DEFINE e == Head(queue[k])
<1>1. queue[k] \in Seq(Event) /\ e \in Event /\ Tail(queue[k]) \in Seq(Event)
  BY DEF LogTypeOK
<1>2. waiting' \in [Channel -> Nat] /\ \A c \in Channel : waiting'[c] <= waiting[c]
  BY DEF LogTypeOK
<1>3. received' \in [Event -> Nat] /\ received'[e] > 0
  <2>1. received \in [Event -> Nat] /\ received' = [received EXCEPT ![e] = @ + 1]
    BY DEF LogTypeOK
  <2> HIDE DEF e, Receive, LogIInv
  <2> QED
    BY <1>1, <2>1
<1>4. queue' \in [Channel -> Seq(Event)]
  BY <1>1 DEF LogTypeOK
<1>5. LogTypeOK'
  BY <1>2, <1>3, <1>4 DEF LogTypeOK, ScreenTypeOK
<1>6. log.eventCh # 0
  BY DEF ChannelHeld
<1>7. KeyPerSubscription' /\ ChannelHeld' /\ FailureMeansClosed'
  BY <1>6 DEF KeyPerSubscription, ChannelHeld, FailureMeansClosed
<1>8. Listening' /\ StatusHonest'
  BY <1>1, <1>3 DEF Listening, StatusHonest, StatusWord
<1> QED
  BY <1>5, <1>7, <1>8

LEMMA EventReceivedKeepsIInv ==
  ASSUME LogIInv, NEW e \in Event, EventReceived(e)
  PROVE  LogIInv'
<1> USE DEF LogIInv, EventReceived, screenVars, sourceVars
<1>1. log.eventCh \in Channel
  BY DEF ChannelHeld, LogTypeOK, Channel
<1>2. /\ log' \in [watching : BOOLEAN, eventCh : 0..MaxKeys, events : Seq(Event)]
      /\ log'.eventCh = log.eventCh
      /\ log'.watching = log.watching
  <2>1. Append(log.events, e) \in Seq(Event)
    BY DEF LogTypeOK
  <2> QED
    BY <2>1 DEF LogTypeOK
<1>3. waiting' \in [Channel -> Nat] /\ waiting'[log.eventCh] > 0
  BY <1>1 DEF LogTypeOK
<1>4. received' \in [Event -> Nat]
  BY DEF LogTypeOK
<1>5. LogTypeOK'
  BY <1>2, <1>3, <1>4 DEF LogTypeOK, ScreenTypeOK
<1>6. KeyPerSubscription' /\ FailureMeansClosed'
  BY DEF KeyPerSubscription, FailureMeansClosed
<1>7. ChannelHeld'
  BY <1>1, <1>2 DEF ChannelHeld, Channel
<1>8. Listening' /\ StatusHonest'
  BY <1>1, <1>2, <1>3 DEF Listening, StatusHonest, StatusWord, Channel
<1> QED
  BY <1>5, <1>6, <1>7, <1>8

LEMMA StreamClosedKeepsIInv ==
  ASSUME LogIInv, StreamClosed
  PROVE  LogIInv'
<1> USE DEF LogIInv, StreamClosed, screenVars, linkVars, sourceVars
<1>1. conn = "closed"
  BY DEF FailureMeansClosed
<1>2. /\ log' \in [watching : BOOLEAN, eventCh : 0..MaxKeys, events : Seq(Event)]
      /\ log'.eventCh = log.eventCh
  <2>1. FALSE \in BOOLEAN
    OBVIOUS
  <2> QED
    BY <2>1 DEF LogTypeOK
<1>3. LogTypeOK'
  BY <1>2 DEF LogTypeOK, ScreenTypeOK
<1>4. KeyPerSubscription' /\ ChannelHeld' /\ FailureMeansClosed'
  BY <1>2 DEF KeyPerSubscription, ChannelHeld, FailureMeansClosed
<1>5. Listening' /\ StatusHonest'
  BY <1>1 DEF Listening, StatusHonest
<1> QED
  BY <1>3, <1>4, <1>5

LEMMA ElsewhereKeepsIInv ==
  ASSUME LogIInv, Elsewhere
  PROVE  LogIInv'
<1> USE DEF LogIInv, Elsewhere, screenVars, sourceVars
<1>1. /\ started' \subseteq started
      /\ received' \in [Event -> Nat]
      /\ \A e \in Event : received'[e] <= received[e]
      /\ closed' \in Nat /\ closed' <= closed
  <2>1. CASE UNCHANGED <<received, closed>> /\ \E k \in started : started' = started \ {k}
    BY <2>1 DEF LogTypeOK
  <2>2. CASE UNCHANGED <<started, closed>> /\ \E e \in Event :
               received[e] > 0 /\ received' = [received EXCEPT ![e] = @ - 1]
    BY <2>2 DEF LogTypeOK
  <2>3. CASE closed > 0 /\ closed' = closed - 1 /\ UNCHANGED <<started, received>>
    BY <2>3 DEF LogTypeOK
  <2> QED
    BY <2>1, <2>2, <2>3
<1>2. /\ currentView' # "Log"
      /\ UNCHANGED <<screenVars, log, starting, subscribed, queue, waiting, sourceVars>>
  OBVIOUS
<1> HIDE DEF Elsewhere
<1>3. LogTypeOK'
  BY <1>1, <1>2 DEF LogTypeOK, ScreenTypeOK
<1>4. KeyPerSubscription' /\ FailureMeansClosed'
  BY <1>1, <1>2 DEF KeyPerSubscription, FailureMeansClosed, LogTypeOK
<1>5. ChannelHeld'
  BY <1>1, <1>2 DEF ChannelHeld, LogTypeOK
<1>6. Listening' /\ StatusHonest'
  BY <1>2 DEF Listening, StatusHonest
<1> QED
  BY <1>3, <1>4, <1>5, <1>6

\* Whatever the source and the connection do, only queue, published and conn
\* change, and a connection that was given up stays so.
LEMMA WorldKeepsIInv ==
  ASSUME LogIInv, World
  PROVE  LogIInv'
<1> USE DEF LogIInv, screenVars, linkVars
<1>1. /\ UNCHANGED <<screenVars, log, starting, subscribed, started, waiting,
                     received, closed, source>>
      /\ conn = "closed" => conn' = "closed"
      /\ conn' \in {"up", "reconnecting", "closed"}
  BY DEF World, Publish, Simulate, ConnChanges, LogTypeOK
<1>2. queue' \in [Channel -> Seq(Event)] /\ published' \in [0..MaxKeys -> 0..MaxEvents]
  <2>1. CASE Publish
    <3> DEFINE e == published[0] + 1
               reached == IF conn = "up" THEN 1..subscribed ELSE {}
    <3>1. e \in Event
      BY <2>1 DEF Publish
    <3>2. queue' = [k \in Channel |->
                      IF k \in reached THEN Append(queue[k], e) ELSE queue[k]]
      BY <2>1 DEF Publish
    <3>3. published' = [k \in 0..MaxKeys |->
                          IF k = 0 \/ k \in reached THEN e ELSE published[k]]
      BY <2>1 DEF Publish
    <3> HIDE DEF e, reached
    <3>4. \A k \in Channel : Append(queue[k], e) \in Seq(Event) /\ queue[k] \in Seq(Event)
      BY <3>1 DEF LogTypeOK
    <3>5. e \in 0..MaxEvents
      BY <3>1 DEF Event
    <3> QED
      BY <3>2, <3>3, <3>4, <3>5 DEF LogTypeOK
  <2>2. ASSUME NEW k \in Channel, Simulate(k)
        PROVE  queue' \in [Channel -> Seq(Event)] /\ published' \in [0..MaxKeys -> 0..MaxEvents]
    <3>1. /\ published[k] + 1 \in Event
          /\ published[k] + 1 \in 0..MaxEvents
      BY <2>2 DEF Simulate, LogTypeOK, Event, Channel
    <3>2. queue[k] \in Seq(Event)
      BY DEF LogTypeOK
    <3>3. Append(queue[k], published[k] + 1) \in Seq(Event)
      BY <3>1, <3>2
    <3>4. /\ queue \in [Channel -> Seq(Event)]
          /\ published \in [0..MaxKeys -> 0..MaxEvents]
      BY DEF LogTypeOK
    <3>5. /\ queue' = [queue EXCEPT ![k] = Append(@, published[k] + 1)]
          /\ published' = [published EXCEPT ![k] = @ + 1]
      BY <2>2 DEF Simulate
    <3>6. queue' \in [Channel -> Seq(Event)]
      BY <3>3, <3>4, <3>5
    <3>7. published' \in [0..MaxKeys -> 0..MaxEvents]
      BY <3>1, <3>4, <3>5
    <3> QED
      BY <3>6, <3>7
  <2>3. CASE ConnChanges
    BY <2>3 DEF ConnChanges, LogTypeOK
  <2> QED
    BY <2>1, <2>2, <2>3 DEF World
<1>3. LogTypeOK'
  BY <1>1, <1>2 DEF LogTypeOK, ScreenTypeOK
<1>4. KeyPerSubscription' /\ ChannelHeld' /\ FailureMeansClosed'
  BY <1>1 DEF KeyPerSubscription, ChannelHeld, FailureMeansClosed
<1>5. Listening' /\ StatusHonest'
  BY <1>1 DEF Listening, StatusHonest, StatusWord
<1> QED
  BY <1>3, <1>4, <1>5

LEMMA LogNextKeepsIInv == LogIInv /\ [LogNext]_logAndScreen => LogIInv'
<1> SUFFICES ASSUME LogIInv, [LogNext]_logAndScreen PROVE LogIInv'
  OBVIOUS
<1>1. CASE \E v \in View : LogSwitch(v)
  BY <1>1, LogSwitchKeepsIInv
<1>2. CASE Runtime
  BY <1>2, SubscribeKeepsIInv, SubscribeFailsKeepsIInv, WatchStartedKeepsIInv,
     ReceiveKeepsIInv, EventReceivedKeepsIInv, StreamClosedKeepsIInv,
     ElsewhereKeepsIInv DEF Runtime
<1>3. CASE World
  BY <1>3, WorldKeepsIInv
<1>4. CASE UNCHANGED logAndScreen
  BY <1>4 DEF LogIInv, logAndScreen, screenVars, logVars, linkVars, sourceVars, LogTypeOK,
              ScreenTypeOK, KeyPerSubscription, ChannelHeld, FailureMeansClosed,
              Listening, StatusHonest, StatusWord
<1> QED
  BY <1>1, <1>2, <1>3, <1>4 DEF LogNext

\* The inductive invariant holds in every behaviour of the log.
THEOREM LogInvariance == LogSpec => []LogIInv
<1>1. LogInit => LogIInv
  BY LogInitIInv
<1>2. LogIInv /\ [LogNext]_logAndScreen => LogIInv'
  BY LogNextKeepsIInv
<1> QED
  BY <1>1, <1>2, PTL DEF LogSpec

\* events.go: the model, the messages and the channels keep their types.
THEOREM LogTypeCorrect == LogSpec => []LogTypeOK
<1>1. LogIInv => LogTypeOK
  BY DEF LogIInv
<1> QED
  BY <1>1, LogInvariance, PTL

\* events.go Update: a log on the screen is never left without anything that
\* will bring it the next event, as long as there is a connection.
THEOREM KeepsListening == LogSpec => []Listening
<1>1. LogIInv => Listening
  BY DEF LogIInv
<1> QED
  BY <1>1, LogInvariance, PTL

\* events.go View: RECONNECTING without a subscription under way means that the
\* connection has been given up.
THEOREM StatusIsHonest == LogSpec => []StatusHonest
<1>1. LogIInv => StatusHonest
  BY DEF LogIInv
<1> QED
  BY <1>1, LogInvariance, PTL
-----------------------------------------------------------------------------
(***************************************************************************)
(* Which events are shown, how often and in which order.  For this the     *)
(* invariant follows every event on its way: published, in the buffer of a *)
(* channel, in flight as a message, in the log.                            *)
(***************************************************************************)
Items(s) == {s[i] : i \in 1..Len(s)}
Increasing(s) == \A i, j \in 1..Len(s) : i < j => s[i] < s[j]

LEMMA Numbers ==
  ASSUME NEW s \in Seq(Event)
  PROVE  /\ Len(s) \in Nat /\ DOMAIN s = 1..Len(s) /\ Items(s) \subseteq Event
         /\ \A i \in 1..Len(s) : s[i] \in Event /\ s[i] \in Items(s)
         /\ Event \subseteq Nat \ {0}
BY DEF Items, Event

LEMMA Later ==
  ASSUME NEW s \in Seq(Event), NEW e \in Event
  PROVE  /\ Append(s, e) \in Seq(Event) /\ Items(Append(s, e)) = Items(s) \cup {e}
         /\ Increasing(s) /\ (\A x \in Items(s) : x < e) => Increasing(Append(s, e))
<1> DEFINE n == Len(s)
           b == Append(s, e)
<1>1. n \in Nat /\ e \in Nat /\ \A i \in 1..n : s[i] \in Nat /\ s[i] \in Items(s)
  BY Numbers
<1>2. /\ b \in Seq(Event) /\ Len(b) = n + 1
      /\ \A i \in 1..n : b[i] = s[i]
      /\ b[n + 1] = e
  OBVIOUS
<1> HIDE DEF b
<1>3. \A i \in 1..Len(b) : (i \in 1..n /\ b[i] = s[i]) \/ (i = n + 1 /\ b[i] = e)
  BY <1>1, <1>2
<1>4. 1..n \subseteq 1..Len(b) /\ n + 1 \in 1..Len(b)
  BY <1>1, <1>2
<1>5. Items(b) = Items(s) \cup {e}
  BY <1>2, <1>3, <1>4 DEF Items
<1>6. ASSUME Increasing(s), \A x \in Items(s) : x < e PROVE Increasing(b)
  BY <1>1, <1>3, <1>6 DEF Increasing
<1> QED
  BY <1>2, <1>5, <1>6 DEF b

LEMMA Sooner ==
  ASSUME NEW s \in Seq(Event), s # <<>>, Increasing(s)
  PROVE  /\ Head(s) \in Event /\ Tail(s) \in Seq(Event) /\ Increasing(Tail(s))
         /\ Items(s) = {Head(s)} \cup Items(Tail(s))
         /\ \A x \in Items(Tail(s)) : Head(s) < x
<1> DEFINE n == Len(s)
           b == Tail(s)
<1>1. n \in Nat \ {0} /\ \A i \in 1..n : s[i] \in Nat /\ s[i] \in Items(s)
  BY Numbers
<1>2. /\ Head(s) = s[1] /\ b \in Seq(Event) /\ Len(b) = n - 1 /\ 1 \in 1..n
      /\ \A i \in 1..n - 1 : b[i] = s[i + 1]
  BY <1>1
<1> HIDE DEF b
<1>3. \A i \in 1..Len(b) : i \in Nat /\ i + 1 \in 1..n /\ 1 < i + 1 /\ b[i] = s[i + 1]
  BY <1>1, <1>2
<1>4. \A i \in 1..n : i = 1 \/ (i - 1 \in 1..Len(b) /\ s[i] = b[i - 1])
  <2>1. \A i \in 1..n : i = 1 \/ (i - 1 \in 1..n - 1 /\ (i - 1) + 1 = i)
    BY <1>1
  <2> QED
    BY <1>2, <2>1
<1>5. Items(s) = {Head(s)} \cup Items(b)
  BY <1>2, <1>3, <1>4 DEF Items
<1>6. \A i \in 1..Len(b) : s[1] < b[i]
  BY <1>2, <1>3 DEF Increasing
<1>7. \A i, j \in 1..Len(b) : i < j => i + 1 < j + 1
  BY <1>3
<1>8. Increasing(b)
  BY <1>3, <1>7 DEF Increasing
<1>9. \A x \in Items(b) : Head(s) < x
  BY <1>2, <1>6 DEF Items
<1> QED
  BY <1>1, <1>2, <1>5, <1>8, <1>9, Numbers DEF b

\* How often a sequence holds an event.
LEMMA Counted ==
  ASSUME NEW s \in Seq(Event), NEW e \in Event
  PROVE  /\ Times(s, e) \in Nat
         /\ Times(s, e) = 0 <=> e \notin Items(s)
<1> DEFINE at == {i \in DOMAIN s : s[i] = e}
<1>1. IsFiniteSet(1..Len(s)) /\ at \subseteq 1..Len(s)
  <2>1. 1 \in Int /\ Len(s) \in Int
    BY Numbers
  <2> QED
    BY <2>1, Numbers, FS_Interval
<1>2. IsFiniteSet(at)
  BY <1>1, FS_Subset
<1>3. at = {} <=> e \notin Items(s)
  BY Numbers DEF Items
<1> HIDE DEF at
<1>4. Cardinality(at) \in Nat /\ (Cardinality(at) = 0 <=> at = {})
  BY <1>2, FS_CardinalityType, FS_EmptySet
<1> QED
  BY <1>3, <1>4 DEF Times, at

LEMMA OneMore ==
  ASSUME NEW s \in Seq(Event), NEW x \in Event, NEW e \in Event
  PROVE  Times(Append(s, x), e) = Times(s, e) + (IF x = e THEN 1 ELSE 0)
<1> DEFINE n == Len(s)
           b == Append(s, x)
           at == {i \in DOMAIN s : s[i] = e}
           then == {i \in DOMAIN b : b[i] = e}
<1>1. n \in Nat /\ DOMAIN s = 1..n
  BY Numbers
<1>2. /\ b \in Seq(Event) /\ Len(b) = n + 1 /\ DOMAIN b = 1..n + 1
      /\ \A i \in 1..n : b[i] = s[i]
      /\ b[n + 1] = x
  BY <1>1
<1> HIDE DEF b
<1>3. \A i : i \in 1..n + 1 <=> i \in 1..n \/ i = n + 1
  BY <1>1
<1>4. n + 1 \notin 1..n
  BY <1>1
<1>5. IsFiniteSet(at) /\ n + 1 \notin at
  <2>1. 1 \in Int /\ n \in Int
    BY <1>1
  <2>2. IsFiniteSet(1..n) /\ at \subseteq 1..n
    BY <1>1, <2>1, FS_Interval
  <2> QED
    BY <1>4, <2>2, FS_Subset
<1>6. then = IF x = e THEN at \cup {n + 1} ELSE at
  BY <1>1, <1>2, <1>3
<1>7. Times(s, e) = Cardinality(at) /\ Times(b, e) = Cardinality(then)
  BY DEF Times
<1> HIDE DEF at, then
<1>8. Cardinality(at \cup {n + 1}) = Cardinality(at) + 1 /\ Cardinality(at) \in Nat
  BY <1>5, FS_AddElement, FS_CardinalityType
<1> QED
  BY <1>6, <1>7, <1>8 DEF b

\* Only channels that Subscribe returned are held and waited on.
ChannelsMade ==
  /\ log.eventCh <= subscribed
  /\ \A k \in Channel : waiting[k] > 0 => k <= subscribed

\* A channel gets events in the order in which they are published, and holds
\* none that it was not given.
Queues ==
  /\ source = "nats" => \A k \in Channel : published[k] <= published[0]
  /\ \A k \in Channel :
       /\ k > subscribed => published[k] = 0
       /\ Increasing(queue[k])
       /\ \A x \in Items(queue[k]) : x <= published[k]

\* One subscription makes one chain: one command waits, or one event or start
\* message is in flight.
OneLink ==
  subscribed <= 1 =>
    /\ \A k \in Channel : waiting[k] <= 1
    /\ \A e, f \in Event : received[e] > 0 /\ received[f] > 0 => e = f /\ received[e] = 1
    /\ \A k \in Channel, e \in Event : ~(waiting[k] > 0 /\ received[e] > 0)
    /\ started # {} => /\ \A k \in Channel : waiting[k] = 0
                       /\ \A e \in Event : received[e] = 0

\* What that chain has shown comes before the event in flight, and both before
\* what is left in the channel.
InLine ==
  subscribed <= 1 =>
    /\ Increasing(log.events)
    /\ subscribed = 0 => Items(log.events) = {}
    /\ \A x \in Items(log.events), e \in Event : received[e] > 0 => x < e
    /\ \A k \in Channel : k <= subscribed =>
         \A x \in Items(log.events) \cup {e \in Event : received[e] > 0} :
           /\ x <= published[k]
           /\ \A y \in Items(queue[k]) : x < y

\* The subscriptions that an event has come through and left.
Gone(e) == {k \in 1..subscribed : published[k] >= e /\ Times(queue[k], e) = 0}

Order == ChannelsMade /\ Queues /\ OneLink /\ InLine /\ OncePerSubscription

LEMMA OrderInitially == LogInit => Order
<1> SUFFICES ASSUME LogInit PROVE Order
  OBVIOUS
<1> USE DEF LogInit, ScreenInit, NewLog, Channel
<1>1. Len(<<>>) = 0 /\ Items(<<>>) = {} /\ Increasing(<<>>)
  BY DEF Items, Increasing
<1>2. \A k \in Channel : queue[k] = <<>> /\ waiting[k] = 0 /\ published[k] = 0
  OBVIOUS
<1>3. ChannelsMade /\ Queues
  BY <1>1, <1>2 DEF ChannelsMade, Queues
<1>4. OneLink /\ InLine
  BY <1>1, <1>2 DEF OneLink, InLine
<1>5. OncePerSubscription
  <2> SUFFICES ASSUME NEW e \in Event
               PROVE  Times(log.events, e) + received[e] <= Cardinality(Gone(e))
    BY DEF OncePerSubscription, Gone
  <2>1. log.events = <<>> /\ <<>> \in Seq(Event)
    OBVIOUS
  <2>2. Times(log.events, e) = 0 /\ received[e] = 0
    BY <1>1, <2>1, Counted
  <2>3. Gone(e) = {}
    BY DEF Gone
  <2> QED
    BY <2>2, <2>3, FS_EmptySet
<1> QED
  BY <1>3, <1>4, <1>5 DEF Order

LEMMA GoneFinite ==
  ASSUME subscribed \in Nat, NEW e
  PROVE  IsFiniteSet(Gone(e)) /\ Cardinality(Gone(e)) \in Nat
<1>1. IsFiniteSet(1..subscribed)
  <2>1. 1 \in Int /\ subscribed \in Int
    OBVIOUS
  <2> QED
    BY <2>1, FS_Interval
<1>2. Gone(e) \subseteq 1..subscribed
  BY DEF Gone
<1> QED
  BY <1>1, <1>2, FS_Subset, FS_CardinalityType

\* Steps that shorten the chain or leave it alone.
LEMMA OrderOfLess ==
  ASSUME LogIInv, Order, LogIInv',
         UNCHANGED <<queue, published, source, subscribed, waiting>>,
         log'.events = log.events, log'.eventCh = log.eventCh,
         started' \subseteq started,
         \A e \in Event : received'[e] <= received[e]
  PROVE  Order'
<1> USE DEF Order
<1>0. /\ received \in [Event -> Nat] /\ received' \in [Event -> Nat]
      /\ waiting \in [Channel -> Nat] /\ subscribed \in Nat
      /\ log.events \in Seq(Event)
  BY DEF LogIInv, LogTypeOK
<1>1. \A e \in Event : received'[e] > 0 => received[e] > 0
  BY <1>0
<1>2. ChannelsMade' /\ Queues'
  BY DEF ChannelsMade, Queues
<1>3. OneLink'
  BY <1>0, <1>1 DEF OneLink
<1>4. InLine'
  BY <1>0, <1>1 DEF InLine
<1>5. OncePerSubscription'
  <2> SUFFICES ASSUME NEW e \in Event
               PROVE  Times(log'.events, e) + received'[e] <= Cardinality(Gone(e)')
    BY DEF OncePerSubscription, Gone
  <2>1. Gone(e)' = Gone(e)
    BY DEF Gone
  <2>2. Times(log.events, e) + received[e] <= Cardinality(Gone(e))
    BY DEF OncePerSubscription, Gone
  <2>3. /\ Times(log.events, e) \in Nat /\ received[e] \in Nat /\ received'[e] \in Nat
        /\ Cardinality(Gone(e)) \in Nat /\ received'[e] <= received[e]
    BY <1>0, Counted, GoneFinite
  <2>4. \A a, b, c, d \in Nat : a + b <= c /\ d <= b => a + d <= c
    OBVIOUS
  <2> QED
    BY <2>1, <2>2, <2>3, <2>4
<1> QED
  BY <1>2, <1>3, <1>4, <1>5

LEMMA Between ==
  \A x, y, z \in Nat : /\ x <= y /\ y < z => x < z
                       /\ x <= y /\ y <= z => x <= z
OBVIOUS

\* Channels in "reached" are given the event "next", newer than all they had.
LEMMA OrderOfMore ==
  ASSUME LogIInv, Order, LogIInv', NEW reached \in SUBSET (1..subscribed), NEW next,
         UNCHANGED <<log, source, subscribed, waiting, started, received>>,
         \A k \in Channel :
           IF k \in reached
             THEN /\ next[k] \in Event /\ published[k] < next[k]
                  /\ published'[k] = next[k] /\ queue'[k] = Append(queue[k], next[k])
             ELSE published'[k] = published[k] /\ queue'[k] = queue[k],
         source = "nats" => \A k \in Channel : published'[k] <= published'[0]
  PROVE  Order'
<1> USE DEF Order
<1>1. /\ queue \in [Channel -> Seq(Event)] /\ subscribed \in 0..MaxKeys
      /\ log.events \in Seq(Event) /\ received \in [Event -> Nat]
      /\ \A k \in Channel : k \in Nat /\ published[k] \in Nat /\ published'[k] \in Nat
      /\ Event \subseteq Nat
  BY DEF LogIInv, LogTypeOK, Channel, Event
<1>2. \A k \in Channel : /\ published[k] <= published'[k]
                         /\ Items(queue[k]) \subseteq Nat
                         /\ Items(log.events) \subseteq Nat
  BY <1>1, Numbers
<1>3. \A k \in Channel :
        /\ Items(queue'[k]) = IF k \in reached THEN Items(queue[k]) \cup {next[k]}
                                              ELSE Items(queue[k])
        /\ Increasing(queue'[k])
        /\ \A x \in Items(queue'[k]) : x <= published'[k]
  <2> SUFFICES ASSUME NEW k \in Channel
               PROVE  /\ Items(queue'[k]) = IF k \in reached THEN Items(queue[k]) \cup {next[k]}
                                                            ELSE Items(queue[k])
                      /\ Increasing(queue'[k])
                      /\ \A x \in Items(queue'[k]) : x <= published'[k]
    OBVIOUS
  <2>1. /\ Increasing(queue[k]) /\ \A x \in Items(queue[k]) : x <= published[k]
    BY DEF Queues
  <2>2. CASE k \in reached
    <3>3. /\ next[k] \in Event /\ queue[k] \in Seq(Event) /\ published[k] < next[k]
          /\ published'[k] = next[k] /\ queue'[k] = Append(queue[k], next[k])
      BY <1>1, <2>2
    <3>4. /\ next[k] \in Nat /\ published[k] \in Nat
          /\ \A x \in Items(queue[k]) : x \in Nat /\ x <= published[k]
      BY <1>1, <1>2, <2>1, <3>3
    <3>1. \A x \in Items(queue[k]) : x < next[k] /\ x <= next[k]
      BY <3>3, <3>4, Between
    <3>2. /\ Items(queue'[k]) = Items(queue[k]) \cup {next[k]} /\ Increasing(queue'[k])
      BY <2>1, <3>1, <3>3, Later
    <3>5. \A x \in Items(queue'[k]) : x <= published'[k]
      BY <3>1, <3>2, <3>3, <3>4
    <3> QED
      BY <2>2, <3>2, <3>5
  <2>3. CASE k \notin reached
    BY <2>1, <2>3
  <2> QED
    BY <2>2, <2>3
<1>4. ChannelsMade' /\ OneLink'
  BY DEF ChannelsMade, OneLink
<1>5. Queues'
  <2>1. \A k \in Channel : k > subscribed => k \notin reached
    BY <1>1
  <2>2. \A k \in Channel : k > subscribed => published'[k] = 0
    BY <2>1 DEF Queues
  <2> QED
    BY <1>3, <2>2 DEF Queues
<1>6. InLine'
  <2> SUFFICES ASSUME subscribed <= 1, NEW k \in Channel, k <= subscribed,
                      NEW x \in Items(log.events) \cup {e \in Event : received[e] > 0}
               PROVE  /\ x <= published'[k]
                      /\ \A y \in Items(queue'[k]) : x < y
    BY DEF InLine
  <2>1. x <= published[k] /\ (\A y \in Items(queue[k]) : x < y) /\ x \in Nat
    BY <1>1, <1>2 DEF InLine
  <2>2. x <= published'[k]
    BY <1>1, <1>2, <2>1, Between
  <2>3. k \in reached => x < next[k]
    <3>1. k \in reached => published[k] < next[k] /\ next[k] \in Nat
      BY <1>1
    <3> QED
      BY <1>1, <2>1, <3>1, Between
  <2> QED
    BY <1>3, <2>1, <2>2, <2>3
<1>7. OncePerSubscription'
  <2> SUFFICES ASSUME NEW e \in Event
               PROVE  Times(log.events, e) + received[e] <= Cardinality(Gone(e)')
    BY DEF OncePerSubscription, Gone
  <2>1. Gone(e) \subseteq Gone(e)'
    <3> SUFFICES ASSUME NEW k \in Gone(e) PROVE k \in Gone(e)'
      OBVIOUS
    <3>1. k \in Channel /\ k \in 1..subscribed /\ published[k] >= e /\ Times(queue[k], e) = 0
      BY <1>1 DEF Gone, Channel
    <3>2. e \notin Items(queue[k]) /\ e \in Nat
      BY <1>1, <3>1, Counted
    <3>3. e \notin Items(queue'[k]) /\ published'[k] >= e
      <4>1. e <= published[k] /\ published[k] \in Nat /\ published'[k] \in Nat
        BY <1>1, <3>1, <3>2
      <4>2. e <= published'[k]
        BY <1>2, <3>1, <3>2, <4>1, Between
      <4>3. k \in reached => e < next[k]
        <5>1. k \in reached => published[k] < next[k] /\ next[k] \in Nat
          BY <1>1, <3>1
        <5> QED
          BY <3>2, <4>1, <5>1, Between
      <4>4. e \notin Items(queue'[k])
        <5>1. k \in reached => e # next[k]
          BY <3>2, <4>3
        <5> QED
          BY <1>3, <3>1, <3>2, <5>1
      <4> QED
        BY <3>2, <4>1, <4>2, <4>4
    <3>4. queue'[k] \in Seq(Event)
      BY <3>1 DEF LogIInv, LogTypeOK
    <3>5. Times(queue'[k], e) = 0
      BY <3>3, <3>4, Counted
    <3> QED
      BY <3>1, <3>3, <3>5 DEF Gone
  <2>2. IsFiniteSet(Gone(e)) /\ IsFiniteSet(Gone(e)') /\ Cardinality(Gone(e)) <= Cardinality(Gone(e)')
    <3>1. IsFiniteSet(Gone(e)') /\ Cardinality(Gone(e)') \in Nat
      <4>1. IsFiniteSet(1..subscribed) /\ Gone(e)' \subseteq 1..subscribed
        <5>1. 1 \in Int /\ subscribed \in Int
          BY <1>1
        <5> QED
          BY <5>1, FS_Interval DEF Gone
      <4> QED
        BY <4>1, FS_Subset, FS_CardinalityType
    <3> QED
      BY <2>1, <3>1, FS_Subset
  <2>3. Cardinality(Gone(e)) \in Nat /\ Cardinality(Gone(e)') \in Nat
    BY <2>2, FS_CardinalityType
  <2>4. Times(log.events, e) + received[e] <= Cardinality(Gone(e))
    BY DEF OncePerSubscription, Gone
  <2>5. Times(log.events, e) \in Nat /\ received[e] \in Nat
    BY <1>1, Counted
  <2>6. \A a, b, c, d \in Nat : a + b <= c /\ c <= d => a + b <= d
    OBVIOUS
  <2> QED
    BY <2>2, <2>3, <2>4, <2>5, <2>6
<1> QED
  BY <1>4, <1>5, <1>6, <1>7

LEMMA OrderOfWorld == ASSUME LogIInv, Order, LogIInv', World PROVE Order'
<1>1. /\ subscribed \in 0..MaxKeys
      /\ \A k \in Channel : published[k] \in Nat /\ k \in 0..MaxKeys /\ k # 0
      /\ published \in [0..MaxKeys -> 0..MaxEvents] /\ queue \in [Channel -> Seq(Event)]
      /\ 0 \in 0..MaxKeys
  <2>1. /\ subscribed \in 0..MaxKeys /\ queue \in [Channel -> Seq(Event)]
        /\ published \in [0..MaxKeys -> 0..MaxEvents]
    BY DEF LogIInv, LogTypeOK
  <2>2. \A k \in Channel : k \in 0..MaxKeys /\ k # 0
    BY DEF Channel
  <2> QED
    BY <2>1, <2>2
<1>2. CASE Publish
  <2> DEFINE e == published[0] + 1
             reached == IF conn = "up" THEN 1..subscribed ELSE {}
             next == [k \in Channel |-> e]
  <2>1. /\ e \in Event /\ source = "nats" /\ e \in Nat
        /\ UNCHANGED <<log, source, subscribed, waiting, started, received>>
        /\ published' = [k \in 0..MaxKeys |->
                           IF k = 0 \/ k \in reached THEN e ELSE published[k]]
        /\ queue' = [k \in Channel |->
                       IF k \in reached THEN Append(queue[k], e) ELSE queue[k]]
    BY <1>2 DEF Publish, Event
  <2>2. \A k \in Channel : published[k] < e
    BY <1>1, <2>1 DEF Order, Queues
  <2>3. reached \in SUBSET (1..subscribed)
    OBVIOUS
  <2> HIDE DEF e, reached
  <2>4. \A k \in Channel :
          IF k \in reached
            THEN /\ next[k] \in Event /\ published[k] < next[k]
                 /\ published'[k] = next[k] /\ queue'[k] = Append(queue[k], next[k])
            ELSE published'[k] = published[k] /\ queue'[k] = queue[k]
    BY <1>1, <2>1, <2>2
  <2>5. \A k \in Channel : published'[k] <= published'[0]
    BY <1>1, <2>1, <2>2
  <2> HIDE DEF next
  <2> QED
    BY <2>1, <2>3, <2>4, <2>5, OrderOfMore
<1>3. ASSUME NEW j \in Channel, Simulate(j) PROVE Order'
  <2> DEFINE next == [k \in Channel |-> published[j] + 1]
  <2>1. /\ source = "simulator" /\ j \in 1..subscribed /\ published[j] + 1 \in Event
        /\ published[j] < published[j] + 1
        /\ UNCHANGED <<log, source, subscribed, waiting, started, received>>
        /\ published' = [published EXCEPT ![j] = @ + 1]
        /\ queue' = [queue EXCEPT ![j] = Append(@, published[j] + 1)]
    BY <1>1, <1>3 DEF Simulate, Event, Channel
  <2>2. \A k \in Channel :
          IF k \in {j}
            THEN /\ next[k] \in Event /\ published[k] < next[k]
                 /\ published'[k] = next[k] /\ queue'[k] = Append(queue[k], next[k])
            ELSE published'[k] = published[k] /\ queue'[k] = queue[k]
    BY <1>1, <2>1
  <2>3. {j} \in SUBSET (1..subscribed)
    BY <2>1
  <2> HIDE DEF next
  <2> QED
    BY <2>1, <2>2, <2>3, OrderOfMore
<1>4. CASE ConnChanges
  <2>1. UNCHANGED <<log, source, subscribed, waiting, started, received, queue, published>>
    BY <1>4 DEF ConnChanges, linkVars
  <2>2. \A e \in Event : received'[e] <= received[e]
    BY <2>1 DEF LogIInv, LogTypeOK
  <2> QED
    BY <2>1, <2>2, OrderOfLess
<1> QED
  BY <1>2, <1>3, <1>4 DEF World

LEMMA OrderOfSubscribe == ASSUME LogIInv, Order, LogIInv', Subscribe PROVE Order'
<1> USE DEF Order
<1> DEFINE new == subscribed + 1
<1>1. /\ subscribed \in Nat /\ subscribed' = new /\ started' = started \cup {new}
      /\ UNCHANGED <<log, queue, waiting, received, source, published>>
      /\ log.eventCh \in 0..MaxKeys /\ started \subseteq 1..subscribed
      /\ received \in [Event -> Nat] /\ waiting \in [Channel -> Nat]
      /\ \A k \in Channel : k \in Nat /\ k >= 1
  BY DEF Subscribe, LogIInv, LogTypeOK, sourceVars, Channel
<1>2. ChannelsMade'
  BY <1>1 DEF ChannelsMade
<1>3. Queues'
  BY <1>1 DEF Queues
<1>4. subscribed' <= 1 => subscribed = 0
  BY <1>1
<1>5. ASSUME subscribed = 0
      PROVE  /\ started = {}
             /\ \A k \in Channel : waiting[k] = 0
             /\ \A e \in Event : received[e] = 0
  <2>1. log.eventCh = 0
    BY <1>1, <1>5 DEF ChannelsMade
  <2>2. \A e \in Event : received[e] = 0
    BY <1>1, <2>1 DEF LogIInv, ChannelHeld
  <2>3. \A k \in Channel : waiting[k] = 0
    BY <1>1, <2>1 DEF LogIInv, ChannelHeld
  <2> QED
    BY <1>1, <1>5, <2>2, <2>3
<1>6. OneLink'
  BY <1>1, <1>4, <1>5 DEF OneLink
<1>7. InLine'
  <2> SUFFICES ASSUME subscribed = 0 PROVE InLine'
    BY <1>4 DEF InLine
  <2>1. Items(log.events) = {} /\ Increasing(log.events)
    BY DEF InLine
  <2>2. Items(log'.events) = {} /\ Increasing(log'.events)
    BY <1>1, <2>1
  <2>3. \A e \in Event : ~(received'[e] > 0)
    BY <1>1, <1>5
  <2> QED
    BY <1>1, <2>2, <2>3 DEF InLine
<1>8. OncePerSubscription'
  <2> SUFFICES ASSUME NEW e \in Event
               PROVE  Times(log.events, e) + received[e] <= Cardinality(Gone(e)')
    BY <1>1 DEF OncePerSubscription, Gone
  <2>1. Gone(e)' = Gone(e)
    <3>1. \A k : k \in 1..new <=> k \in 1..subscribed \/ k = new
      BY <1>1
    <3>2. ~(published[new] >= e)
      <4>1. new \in Channel /\ e \in Nat /\ e >= 1
        BY <1>1 DEF LogIInv, LogTypeOK, Channel, Event
      <4>2. published[new] = 0
        BY <1>1, <4>1 DEF Queues
      <4> QED
        BY <4>1, <4>2
    <3> QED
      BY <1>1, <3>1, <3>2 DEF Gone
  <2> QED
    BY <2>1 DEF OncePerSubscription, Gone
<1> QED
  BY <1>2, <1>3, <1>6, <1>7, <1>8

LEMMA OrderOfWatchStarted ==
  ASSUME LogIInv, Order, LogIInv', NEW k \in Channel, WatchStarted(k)
  PROVE  Order'
<1> USE DEF Order
<1>1. /\ k \in started /\ started' = started \ {k} /\ started \subseteq 1..subscribed
      /\ waiting' = [waiting EXCEPT ![k] = @ + 1] /\ waiting \in [Channel -> Nat]
      /\ log'.eventCh = k /\ log'.events = log.events
      /\ UNCHANGED <<queue, received, source, published, subscribed>>
      /\ subscribed \in Nat
  BY DEF WatchStarted, LogIInv, LogTypeOK, sourceVars, Channel
<1>2. ChannelsMade'
  BY <1>1 DEF ChannelsMade
<1>3. Queues'
  BY <1>1 DEF Queues
<1>4. OneLink'
  <2> SUFFICES ASSUME subscribed <= 1 PROVE OneLink'
    BY <1>1 DEF OneLink
  <2>1. /\ \A j \in Channel : waiting[j] = 0
        /\ \A e \in Event : received[e] = 0
    <3>1. started # {}
      BY <1>1
    <3> QED
      BY <3>1 DEF OneLink
  <2>2. started' = {}
    BY <1>1
  <2>3. \A j \in Channel : waiting'[j] <= 1
    <3>1. \A j \in Channel : waiting'[j] = IF j = k THEN waiting[k] + 1 ELSE waiting[j]
      BY <1>1
    <3> QED
      BY <2>1, <3>1
  <2>4. \A e \in Event : received'[e] = 0
    BY <1>1, <2>1
  <2>5. \A e \in Event : ~(received'[e] > 0)
    BY <2>4
  <2> QED
    BY <2>2, <2>3, <2>5 DEF OneLink
<1>5. InLine'
  BY <1>1 DEF InLine
<1>6. OncePerSubscription'
  BY <1>1 DEF OncePerSubscription
<1> QED
  BY <1>2, <1>3, <1>4, <1>5, <1>6

\* An event leaves its channel and becomes a message.
LEMMA OrderOfReceive ==
  ASSUME LogIInv, Order, LogIInv', NEW k \in Channel, Receive(k)
  PROVE  Order'
<1> USE DEF Order
<1> DEFINE h == Head(queue[k])
           rest == Tail(queue[k])
<1>1. /\ waiting[k] > 0 /\ waiting \in [Channel -> Nat] /\ waiting' = [waiting EXCEPT ![k] = @ - 1]
      /\ queue[k] # <<>> /\ queue \in [Channel -> Seq(Event)] /\ queue[k] \in Seq(Event)
      /\ queue' = [queue EXCEPT ![k] = rest]
      /\ received \in [Event -> Nat] /\ received' = [received EXCEPT ![h] = @ + 1]
      /\ UNCHANGED <<log, started, source, published, subscribed>>
      /\ subscribed \in 0..MaxKeys /\ log.events \in Seq(Event)
  BY DEF Receive, LogIInv, LogTypeOK, sourceVars
<1>2. /\ h \in Event /\ rest \in Seq(Event) /\ Increasing(rest)
      /\ Items(queue[k]) = {h} \cup Items(rest) /\ \A x \in Items(rest) : h < x
  BY <1>1, Sooner DEF Queues
<1> HIDE DEF h, rest
<1>3. \A j \in Channel : /\ queue'[j] = IF j = k THEN rest ELSE queue[j]
                         /\ waiting'[j] = IF j = k THEN waiting[k] - 1 ELSE waiting[j]
  BY <1>1
<1>4. \A e \in Event : received'[e] = IF e = h THEN received[h] + 1 ELSE received[e]
  BY <1>1, <1>2
<1>5. k <= subscribed
  BY <1>1 DEF ChannelsMade
<1>6. ChannelsMade'
  <2>1. \A j \in Channel : waiting'[j] > 0 => waiting[j] > 0
    BY <1>1, <1>3
  <2> QED
    BY <1>1, <2>1 DEF ChannelsMade
<1>7. Queues'
  BY <1>1, <1>2, <1>3 DEF Queues
<1>8. ASSUME subscribed <= 1
      PROVE  /\ subscribed = 1 /\ k = 1 /\ started = {}
             /\ \A e \in Event : received'[e] > 0 <=> e = h
             /\ received'[h] = 1
             /\ \A j \in Channel : waiting'[j] = 0
  <2>1. \A e \in Event : received[e] = 0
    BY <1>1, <1>8 DEF OneLink
  <2>2. started = {}
    BY <1>1, <1>8 DEF OneLink
  <2>3. subscribed = 1 /\ k = 1
    BY <1>1, <1>5, <1>8 DEF Channel
  <2>4. waiting[k] = 1
    BY <1>1, <1>8 DEF OneLink
  <2>5. \A j \in Channel : j # k => waiting[j] = 0
    <3>1. \A j \in Channel : waiting[j] > 0 => j = 1
      BY <1>1, <2>3 DEF ChannelsMade, Channel
    <3> QED
      BY <1>1, <2>3, <3>1
  <2>6. \A j \in Channel : waiting'[j] = 0
    BY <1>3, <2>4, <2>5
  <2>7. \A e \in Event : received'[e] = IF e = h THEN 1 ELSE 0
    BY <1>2, <1>4, <2>1
  <2> QED
    BY <1>2, <2>2, <2>3, <2>6, <2>7
<1>9. OneLink'
  <2> SUFFICES ASSUME subscribed <= 1 PROVE OneLink'
    BY <1>1 DEF OneLink
  <2>1. \A e, f \in Event : received'[e] > 0 /\ received'[f] > 0 => e = f /\ received'[e] = 1
    BY <1>8
  <2>2. \A j \in Channel : waiting'[j] <= 1 /\ ~(waiting'[j] > 0)
    BY <1>8
  <2>3. started' = {}
    BY <1>1, <1>8
  <2> QED
    BY <2>1, <2>2, <2>3 DEF OneLink
<1>10. InLine'
  <2> SUFFICES ASSUME subscribed <= 1 PROVE InLine'
    BY <1>1 DEF InLine
  <2>1. \A e \in Event : received'[e] > 0 <=> e = h
    BY <1>8
  <2>2. /\ Increasing(log'.events)
        /\ subscribed' = 0 => Items(log'.events) = {}
    BY <1>1 DEF InLine
  <2>3. \A x \in Items(log'.events) : x < h
    BY <1>1, <1>2, <1>5 DEF InLine
  <2>4. \A x \in Items(log'.events), e \in Event : received'[e] > 0 => x < e
    BY <2>1, <2>3
  <2>5. ASSUME NEW j \in Channel, j <= subscribed,
               NEW x \in Items(log'.events) \cup {e \in Event : received'[e] > 0}
        PROVE  /\ x <= published'[j]
               /\ \A y \in Items(queue'[j]) : x < y
    <3>1. j = k
      BY <1>1, <1>8, <2>5 DEF Channel
    <3>2. queue'[k] = rest /\ published'[k] = published[k]
      BY <1>1, <1>3
    <3>3. CASE x = h
      BY <1>2, <3>1, <3>2, <3>3 DEF Queues
    <3>4. CASE x \in Items(log.events)
      BY <1>2, <1>5, <3>1, <3>2, <3>4 DEF InLine
    <3> QED
      BY <1>1, <2>1, <3>3, <3>4
  <2> QED
    BY <1>1, <2>2, <2>4, <2>5 DEF InLine
<1>11. OncePerSubscription'
  <2> SUFFICES ASSUME NEW e \in Event
               PROVE  Times(log.events, e) + received'[e] <= Cardinality(Gone(e)')
    BY <1>1 DEF OncePerSubscription, Gone
  <2>1. \A j \in 1..subscribed : j \in Channel
    BY <1>1 DEF Channel
  <2>2. \A j \in Channel : /\ queue[j] \in Seq(Event) /\ queue'[j] \in Seq(Event)
                           /\ j # k => queue'[j] = queue[j]
    BY <1>1, <1>2, <1>3
  <2>3. /\ Times(log.events, e) + received[e] <= Cardinality(Gone(e))
        /\ Times(log.events, e) \in Nat /\ received[e] \in Nat
        /\ IsFiniteSet(Gone(e)) /\ Cardinality(Gone(e)) \in Nat
    <3>1. Times(log.events, e) + received[e] <= Cardinality(Gone(e))
      BY DEF OncePerSubscription, Gone
    <3>2. Times(log.events, e) \in Nat /\ received[e] \in Nat /\ subscribed \in Nat
      BY <1>1, Counted
    <3> QED
      BY <3>1, <3>2, GoneFinite
  <2>4. CASE e = h
    <3>1. k \notin Gone(e)
      <4>1. Times(queue[k], e) # 0
        BY <1>1, <1>2, <2>4, Counted
      <4> QED
        BY <4>1 DEF Gone
    <3>2. k \in Gone(e)'
      <4>1. e \notin Items(rest)
        <5>1. \A x \in Items(rest) : h < x /\ h \in Nat
          BY <1>2 DEF Event
        <5> QED
          BY <2>4, <5>1
      <4>2. Times(queue'[k], e) = 0
        BY <1>2, <1>3, <4>1, Counted
      <4>3. h <= published[k] /\ h \in Nat /\ published[k] \in Nat
        BY <1>2 DEF Queues, LogIInv, LogTypeOK, Channel, Event
      <4> QED
        BY <1>1, <1>5, <2>4, <4>2, <4>3 DEF Gone, Channel
    <3>3. Gone(e)' = Gone(e) \cup {k}
      BY <1>1, <2>1, <2>2, <3>2 DEF Gone
    <3>4. Cardinality(Gone(e)') = Cardinality(Gone(e)) + 1
      BY <2>3, <3>1, <3>3, FS_AddElement
    <3>5. received'[e] = received[e] + 1
      BY <1>4, <2>4
    <3>6. \A a, b, c \in Nat : a + b <= c => a + (b + 1) <= c + 1
      OBVIOUS
    <3> QED
      BY <2>3, <3>4, <3>5, <3>6
  <2>5. CASE e # h
    <3>1. Times(queue'[k], e) = 0 <=> Times(queue[k], e) = 0
      BY <1>1, <1>2, <1>3, <2>5, Counted
    <3>2. Gone(e)' = Gone(e)
      BY <1>1, <2>1, <2>2, <3>1 DEF Gone
    <3>3. received'[e] = received[e]
      BY <1>4, <2>5
    <3> QED
      BY <2>3, <3>2, <3>3
  <2> QED
    BY <2>4, <2>5
<1> QED
  BY <1>6, <1>7, <1>9, <1>10, <1>11

\* A message becomes a line of the log, and the log waits for the next.
LEMMA OrderOfEventReceived ==
  ASSUME LogIInv, Order, LogIInv', NEW e \in Event, EventReceived(e)
  PROVE  Order'
<1> USE DEF Order
<1> DEFINE c == log.eventCh
           shown == Append(log.events, e)
<1>1. /\ received[e] > 0 /\ received \in [Event -> Nat]
      /\ received' = [received EXCEPT ![e] = @ - 1]
      /\ waiting' = [waiting EXCEPT ![c] = @ + 1] /\ waiting \in [Channel -> Nat]
      /\ log'.eventCh = c /\ log'.events = shown /\ log.events \in Seq(Event)
      /\ UNCHANGED <<queue, started, source, published, subscribed>>
      /\ subscribed \in 0..MaxKeys /\ c \in 0..MaxKeys
  BY DEF EventReceived, LogIInv, LogTypeOK, sourceVars
<1>2. c # 0 /\ c <= subscribed /\ c \in Channel
  BY <1>1 DEF ChannelsMade, LogIInv, ChannelHeld, Channel
<1>3. shown \in Seq(Event) /\ Items(shown) = Items(log.events) \cup {e}
  BY <1>1, Later
<1> HIDE DEF c, shown
<1>4. \A f \in Event : received'[f] = IF f = e THEN received[e] - 1 ELSE received[f]
  BY <1>1
<1>5. \A j \in Channel : waiting'[j] = IF j = c THEN waiting[c] + 1 ELSE waiting[j]
  BY <1>1, <1>2
<1>6. ChannelsMade'
  <2>1. \A j \in Channel : j # c => waiting'[j] = waiting[j]
    BY <1>5
  <2> QED
    BY <1>1, <1>2, <2>1 DEF ChannelsMade, c
<1>7. Queues'
  BY <1>1 DEF Queues
<1>8. ASSUME subscribed <= 1
      PROVE  /\ subscribed = 1 /\ started = {}
             /\ \A f \in Event : received'[f] = 0
             /\ \A j \in Channel : waiting'[j] <= 1
  <2>1. subscribed = 1
    BY <1>1, <1>2, <1>8 DEF Channel
  <2>2. received[e] = 1 /\ \A f \in Event : received[f] > 0 => f = e
    BY <1>1, <1>8 DEF OneLink
  <2>3. \A f \in Event : received'[f] = 0
    BY <1>1, <1>4, <2>2
  <2>4. \A j \in Channel : waiting[j] = 0
    BY <1>1, <1>8 DEF OneLink
  <2>5. \A j \in Channel : waiting'[j] <= 1
    BY <1>2, <1>5, <2>4
  <2>6. started = {}
    BY <1>1, <1>8 DEF OneLink
  <2> QED
    BY <2>1, <2>3, <2>5, <2>6
<1>9. OneLink'
  <2> SUFFICES ASSUME subscribed <= 1 PROVE OneLink'
    BY <1>1 DEF OneLink
  <2>1. \A f \in Event : ~(received'[f] > 0)
    BY <1>8
  <2>2. (\A j \in Channel : waiting'[j] <= 1) /\ started' = {}
    BY <1>1, <1>8
  <2> QED
    BY <2>1, <2>2 DEF OneLink
<1>10. InLine'
  <2> SUFFICES ASSUME subscribed <= 1 PROVE InLine'
    BY <1>1 DEF InLine
  <2>1. \A f \in Event : ~(received'[f] > 0)
    BY <1>8
  <2>2. Increasing(shown)
    <3>1. Increasing(log.events) /\ \A x \in Items(log.events) : x < e
      BY <1>1 DEF InLine
    <3> QED
      BY <1>1, <3>1, Later DEF shown
  <2>3. ASSUME NEW j \in Channel, j <= subscribed, NEW x \in Items(shown)
        PROVE  /\ x <= published'[j]
               /\ \A y \in Items(queue'[j]) : x < y
    <3>1. x \in Items(log.events) \cup {f \in Event : received[f] > 0}
      BY <1>1, <1>3, <2>3
    <3> QED
      BY <1>1, <2>3, <3>1 DEF InLine
  <2> QED
    BY <1>1, <1>8, <2>1, <2>2, <2>3 DEF InLine
<1>11. OncePerSubscription'
  <2> SUFFICES ASSUME NEW f \in Event
               PROVE  Times(shown, f) + received'[f] <= Cardinality(Gone(f))
    BY <1>1 DEF OncePerSubscription, Gone
  <2>1. Times(shown, f) = Times(log.events, f) + (IF e = f THEN 1 ELSE 0)
    BY <1>1, OneMore DEF shown
  <2>2. Times(log.events, f) + received[f] <= Cardinality(Gone(f))
    BY DEF OncePerSubscription, Gone
  <2>3. Times(log.events, f) \in Nat /\ received[f] \in Nat /\ subscribed \in Nat
    BY <1>1, Counted
  <2>4. Cardinality(Gone(f)) \in Nat
    BY <2>3, GoneFinite
  <2>5. CASE e = f
    <3>1. received'[f] = received[f] - 1 /\ received[f] > 0
      BY <1>1, <1>4, <2>5
    <3>2. \A x, y, z \in Nat : y > 0 /\ x + y <= z => (x + 1) + (y - 1) <= z
      OBVIOUS
    <3> QED
      BY <2>1, <2>2, <2>3, <2>4, <2>5, <3>1, <3>2
  <2>6. CASE e # f
    BY <1>4, <2>1, <2>2, <2>3, <2>4, <2>6
  <2> QED
    BY <2>5, <2>6
<1> QED
  BY <1>6, <1>7, <1>9, <1>10, <1>11

\* The other steps show nothing and wait for nothing.
LEMMA OrderOfRest ==
  ASSUME LogIInv, Order, LogIInv',
         (\E v \in View : LogSwitch(v)) \/ SubscribeFails \/ StreamClosed \/ Elsewhere
           \/ UNCHANGED logAndScreen
  PROVE  Order'
<1>1. /\ received \in [Event -> Nat] /\ log \in [watching : BOOLEAN, eventCh : 0..MaxKeys,
                                                 events : Seq(Event)]
  BY DEF LogIInv, LogTypeOK
<1>2. UNCHANGED <<queue, published, source, subscribed, waiting>>
  BY DEF LogSwitch, SubscribeFails, StreamClosed, Elsewhere, logAndScreen, logVars, linkVars, sourceVars
<1>3. log'.events = log.events /\ log'.eventCh = log.eventCh
  BY <1>1 DEF LogSwitch, SubscribeFails, StreamClosed, Elsewhere, logAndScreen, logVars, linkVars,
              sourceVars
<1>4. started' \subseteq started
  BY DEF LogSwitch, SubscribeFails, StreamClosed, Elsewhere, logAndScreen, logVars, linkVars, sourceVars
<1>5. \A e \in Event : received'[e] <= received[e]
  <2>1. UNCHANGED received \/ Elsewhere
    BY DEF LogSwitch, SubscribeFails, StreamClosed, logAndScreen, logVars, linkVars, sourceVars
  <2>2. CASE UNCHANGED received
    BY <1>1, <2>2
  <2>3. CASE \E f \in Event : received' = [received EXCEPT ![f] = @ - 1]
    BY <1>1, <2>3
  <2> QED
    BY <2>1, <2>2, <2>3 DEF Elsewhere
<1> QED
  BY <1>2, <1>3, <1>4, <1>5, OrderOfLess

LEMMA NextKeepsOrder == LogIInv /\ Order /\ LogIInv' /\ [LogNext]_logAndScreen => Order'
BY OrderOfSubscribe, OrderOfWatchStarted, OrderOfReceive, OrderOfEventReceived,
   OrderOfWorld, OrderOfRest DEF LogNext, Runtime

\* Every event keeps its place, from the publisher to the log.
THEOREM OrderKept == LogSpec => []Order
<1>1. LogInit => Order
  BY OrderInitially
<1>2. LogIInv /\ Order /\ LogIInv' /\ [LogNext]_logAndScreen => Order'
  BY NextKeepsOrder
<1> QED
  BY <1>1, <1>2, LogInvariance, PTL DEF LogSpec

\* events.go: however often the user leaves and comes back, and whichever
\* channel a handler waits on, no subscription shows an event twice.
THEOREM ShownOncePerSubscription == LogSpec => []OncePerSubscription
<1>1. Order => OncePerSubscription
  BY DEF Order
<1> QED
  BY <1>1, OrderKept, PTL

\* events.go: a log that subscribed once shows its events in the order in which
\* they were published, each once.
THEOREM ShownInOrder == LogSpec => []InOrderOnce
<1>1. LogIInv /\ Order => InOrderOnce
  <2> SUFFICES ASSUME LogIInv, Order, subscribed <= 1, NEW i \in 1..Len(log.events) - 1
               PROVE  log.events[i] < log.events[i + 1]
    BY DEF InOrderOnce
  <2>1. Len(log.events) \in Nat
    BY Numbers DEF LogIInv, LogTypeOK
  <2>2. i \in 1..Len(log.events) /\ i + 1 \in 1..Len(log.events) /\ i < i + 1
    BY <2>1
  <2> QED
    BY <2>2 DEF Order, InLine, Increasing
<1> QED
  BY <1>1, LogInvariance, OrderKept, PTL
=============================================================================
