------------------------------ MODULE EventSource ------------------------------
(***************************************************************************)
(* The two adapters behind the EventSubscriber port, goroutine by          *)
(* goroutine: internal/adapters/nats/subscriber.go, where the client calls *)
(* back for each message and a goroutine per subscription waits for the    *)
(* cancellation, and internal/adapters/embedded/event_simulator.go, where  *)
(* one goroutine plays a list and closes the channel itself.               *)
(*                                                                         *)
(* The program never cancels a subscription; the adapters handle it, and   *)
(* here any subscription may be cancelled at any time.                     *)
(***************************************************************************)
EXTENDS Naturals, Sequences

CONSTANTS
  Sub,          \* the calls of Subscribe, positive numbers
  Capacity,     \* of the channel; 64 in the code
  PendingLimit, \* messages the client keeps for a slow callback
  MaxEvents     \* bound: messages on the subject; the simulator's list has 7

ASSUME SourceAssumption ==
  /\ Sub \subseteq Nat \ {0}
  /\ Capacity \in Nat \ {0} /\ PendingLimit \in Nat \ {0} /\ MaxEvents \in Nat

VARIABLES
  source,       \* the adapter in use, "nats" or "simulator"
  subs,         \* per call of Subscribe, see Subscription
  sub,          \* Subscriber.sub: the call that wrote it last, 0 for nil
  closing,      \* how far Subscriber.Close is
  published,    \* messages published on the subject
  panicked      \* some goroutine sent on a closed channel

vars == <<source, subs, sub, closing, published, panicked>>

\* state: "registered" is between conn.Subscribe and s.sub = sub.  callback: the
\* goroutine that sends has an event ("popped") and may wait in its select
\* ("sending"); the event is the last one offered.  live: the client passes
\* messages on to it, or only those it has already.  cancel: ctx is done, the
\* client has forgotten the subscription, the channel is closed.
Subscription ==
  [state : {"none", "registered", "open", "failed"}, live : {"no", "yes", "draining"},
   pending : 0..PendingLimit, callback : {"idle", "popped", "sending"},
   buffer : Seq(Nat), offered : Nat, taken : Nat, ended : BOOLEAN,
   cancel : {"no", "cancelled", "unsubscribed", "closed"}]

TypeOK ==
  /\ source \in {"nats", "simulator"}
  /\ subs \in [Sub -> Subscription]
  /\ \A k \in Sub : Len(subs[k].buffer) <= Capacity
  /\ sub \in {0} \cup Sub
  /\ closing \in {"no", "unsubscribed", "draining", "closed"}
  /\ published \in 0..MaxEvents
  /\ panicked \in BOOLEAN

Init ==
  /\ source \in {"nats", "simulator"}
  /\ subs = [k \in Sub |->
       [state |-> "none", live |-> "no", pending |-> 0, callback |-> "idle",
        buffer |-> <<>>, offered |-> 0, taken |-> 0, ended |-> FALSE,
        cancel |-> "no"]]
  /\ sub = 0 /\ closing = "no" /\ published = 0 /\ panicked = FALSE
-----------------------------------------------------------------------------
Becomes(k, s) == subs' = [subs EXCEPT ![k] = s]
Step(k, s) == Becomes(k, s) /\ UNCHANGED <<source, sub, closing, published, panicked>>
Unsubscribed(s) == [s EXCEPT !.live = "no", !.pending = 0]

\* Subscribe, NATS: conn.Subscribe, which fails once the connection drains ...
Register(k) ==
  /\ source = "nats" /\ subs[k].state = "none"
  /\ IF closing \in {"draining", "closed"}
       THEN Step(k, [subs[k] EXCEPT !.state = "failed"])
       ELSE Step(k, [subs[k] EXCEPT !.state = "registered", !.live = "yes"])

\* ... and then s.sub = sub, over what another call has written there.
Assign(k) ==
  /\ subs[k].state = "registered"
  /\ Becomes(k, [subs[k] EXCEPT !.state = "open"])
  /\ sub' = k
  /\ UNCHANGED <<source, closing, published, panicked>>

\* Subscribe of the simulator.
Play(k) ==
  /\ source = "simulator" /\ subs[k].state = "none"
  /\ Step(k, [subs[k] EXCEPT !.state = "open"])

\* External: a message reaches every subscription the client knows; one more
\* than the client will keep for a slow callback is dropped.
Publish ==
  /\ source = "nats" /\ published < MaxEvents
  /\ published' = published + 1
  /\ subs' = [k \in Sub |->
       IF subs[k].live = "yes" /\ subs[k].pending < PendingLimit
         THEN [subs[k] EXCEPT !.pending = @ + 1] ELSE subs[k]]
  /\ UNCHANGED <<source, sub, closing, panicked>>

\* The client calls back: a message that does not parse is skipped.
Pop(k) ==
  /\ subs[k].pending > 0 /\ subs[k].callback = "idle"
  /\ \/ Step(k, [subs[k] EXCEPT !.pending = @ - 1])
     \/ Step(k, [subs[k] EXCEPT !.pending = @ - 1, !.callback = "popped",
                                !.offered = @ + 1])

\* The simulator's 3 s are over and there is a next event.
PlayNext(k) ==
  /\ source = "simulator" /\ subs[k].state = "open" /\ subs[k].cancel # "closed"
  /\ subs[k].callback = "idle" /\ subs[k].offered < MaxEvents
  /\ Step(k, [subs[k] EXCEPT !.callback = "popped", !.offered = @ + 1])

\* A buffer thought to hold one less than it does.
RoomKeptFree(s) == Len(s.buffer) + 1 < Capacity

Room(s) == Len(s.buffer) < Capacity
Sent(s) == [s EXCEPT !.callback = "idle", !.buffer = Append(@, s.offered)]

\* A select with a default case, which never waits.
SelectDefault(k) ==
  /\ subs[k].callback = "popped"
  /\ Step(k, IF Room(subs[k]) THEN Sent(subs[k])
             ELSE [subs[k] EXCEPT !.callback = "idle"])

\* select { case ch <- evt: case <-ctx.Done(): }.  Where both can go on, either
\* does; a send on a closed channel panics; where none can, the sender waits.
Select(k) ==
  LET s == subs[k] IN
  /\ s.callback = "popped"
  /\ \/ s.cancel # "closed" /\ Room(s) /\ Step(k, Sent(s))
     \/ s.cancel # "no" /\ Step(k, [s EXCEPT !.callback = "idle"])
     \/ s.cancel = "no" /\ ~Room(s) /\ Step(k, [s EXCEPT !.callback = "sending"])
     \/ /\ s.cancel = "closed"
        /\ panicked' = TRUE
        /\ UNCHANGED <<source, subs, sub, closing, published>>

\* The reader takes an event, and a waiting sender's event takes its place.
Receive(k) ==
  LET s == subs[k]
      sender == s.callback = "sending"
  IN  /\ s.state = "open" /\ s.buffer # <<>>
      /\ Step(k, [s EXCEPT
           !.taken = Head(s.buffer),
           !.buffer = IF sender THEN Append(Tail(@), s.offered) ELSE Tail(@),
           !.callback = IF sender THEN "idle" ELSE @])

\* The reader finds the channel closed, after what was left in it.
ReceiveEnd(k) ==
  /\ subs[k].cancel = "closed" /\ subs[k].buffer = <<>> /\ ~subs[k].ended
  /\ Step(k, [subs[k] EXCEPT !.ended = TRUE])

\* The owner of the context cancels it; a sender that waits gives up.
Cancel(k) ==
  /\ subs[k].state = "open" /\ subs[k].cancel = "no"
  /\ Step(k, [subs[k] EXCEPT !.cancel = "cancelled",
                !.callback = IF @ = "sending" THEN "idle" ELSE @])

\* A goroutine that drops the subscription s.sub points to.
UnsubscribeLast(k) ==
  /\ sub = k /\ subs[k].cancel = "cancelled"
  /\ Step(k, [Unsubscribed(subs[k]) EXCEPT !.cancel = "unsubscribed"])

\* <-ctx.Done(); sub.Unsubscribe(); close(ch): two steps of a goroutine that
\* does not wait for a callback under way.
Unsubscribe(k) ==
  /\ source = "nats" /\ subs[k].cancel = "cancelled"
  /\ Step(k, [Unsubscribed(subs[k]) EXCEPT !.cancel = "unsubscribed"])

CloseChannel(k) ==
  /\ subs[k].cancel = "unsubscribed"
  /\ Step(k, [subs[k] EXCEPT !.cancel = "closed"])

\* A second goroutine closes the channel for the one that sends.
FinishBeside(k) ==
  /\ source = "simulator" /\ subs[k].cancel = "cancelled"
  /\ Step(k, [subs[k] EXCEPT !.cancel = "closed"])

\* The simulator's goroutine is the one that sends, and closes as it returns.
Finish(k) ==
  /\ source = "simulator" /\ subs[k].cancel = "cancelled"
  /\ subs[k].callback = "idle"
  /\ Step(k, [subs[k] EXCEPT !.cancel = "closed"])

\* Subscriber.Close, when the program ends: the subscription that wrote s.sub
\* last is dropped with what is pending for it ...
Close ==
  /\ source = "nats" /\ closing = "no"
  /\ closing' = "unsubscribed"
  /\ subs' = [k \in Sub |-> IF k = sub THEN Unsubscribed(subs[k]) ELSE subs[k]]
  /\ UNCHANGED <<source, sub, published, panicked>>

\* ... and Drain begins to serve the others, or fails and closes the connection,
\* which is lost or closed already; Close ignores which.
Drain ==
  /\ closing = "unsubscribed"
  /\ \/ closing' = "draining" /\ subs' = subs
     \/ closing' = "closed" /\ subs' = [k \in Sub |-> Unsubscribed(subs[k])]
  /\ UNCHANGED <<source, sub, published, panicked>>

\* External: the client drains one subscription after the other, forgets each
\* when its callback has returned from the last message ...
DrainSub(k) ==
  /\ closing = "draining" /\ subs[k].live = "yes"
  /\ Step(k, [subs[k] EXCEPT !.live = "draining"])

Drained(k) ==
  /\ subs[k].live = "draining" /\ subs[k].pending = 0 /\ subs[k].callback = "idle"
  /\ Step(k, [subs[k] EXCEPT !.live = "no"])

\* ... and closes the connection after that, or when that takes too long.
DrainEnds ==
  /\ closing = "draining"
  /\ closing' = "closed"
  /\ subs' = [k \in Sub |-> Unsubscribed(subs[k])]
  /\ UNCHANGED <<source, sub, published, panicked>>

Client(k) == Pop(k) \/ DrainSub(k) \/ Drained(k)

Goroutine(k) ==
  \/ Register(k) \/ Assign(k) \/ Play(k) \/ PlayNext(k) \/ Select(k)
  \/ Unsubscribe(k) \/ CloseChannel(k) \/ Finish(k)

Next ==
  /\ ~panicked
  /\ \/ \E k \in Sub : Goroutine(k) \/ Client(k) \/ Receive(k) \/ ReceiveEnd(k) \/ Cancel(k)
     \/ Publish \/ Close \/ Drain \/ DrainEnds

Spec == Init /\ [][Next]_vars

\* Goroutines that can go on do; nobody has to read, cancel or publish.
FairSpec ==
  /\ Spec
  /\ \A k \in Sub : /\ WF_vars(~panicked /\ (Select(k) \/ Finish(k)))
                    /\ WF_vars(~panicked /\ (Unsubscribe(k) \/ CloseChannel(k)))
-----------------------------------------------------------------------------
Stream == INSTANCE EventStream WITH
  offered   <- [k \in Sub |-> subs[k].offered],
  taken     <- [k \in Sub |-> subs[k].taken],
  cancelled <- [k \in Sub |-> subs[k].cancel # "no"],
  ended     <- [k \in Sub |-> subs[k].ended]

\* Both adapters implement the port: on every channel events arrive in order,
\* once, and without a gap unless the subscription was cancelled.
StreamsKept == Stream!Spec

\* Nothing is lost for want of room: as long as a subscription is not cancelled,
\* what was offered and not taken is in the buffer and, if the buffer is full,
\* in the callback, which waits for exactly as long as the buffer is full.
Backpressure ==
  \A k \in Sub :
    LET s == subs[k]
        held == Len(s.buffer) + (IF s.callback = "idle" THEN 0 ELSE 1)
    IN  s.cancel = "no" =>
          /\ s.offered = s.taken + held
          /\ s.callback = "sending" => Len(s.buffer) = Capacity

\* A send on a closed channel takes a cancelled NATS subscription whose callback
\* had begun before the client forgot it.  The simulator, which closes the
\* channel it sends on itself, never does.
PanicOnlyInRace ==
  panicked => source = "nats" /\ \E k \in Sub :
    subs[k].cancel = "closed" /\ subs[k].callback = "popped" /\ subs[k].live = "no"

\* The channel of a cancelled subscription gets closed, whether or not anybody
\* reads it and however many events wait for room, unless the race panics.
CancelEnds ==
  \A k \in Sub :
    subs[k].cancel # "no" ~> (subs[k].cancel = "closed" \/ panicked)
=============================================================================
