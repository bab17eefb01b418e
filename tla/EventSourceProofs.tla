--------------------------- MODULE EventSourceProofs ---------------------------
(***************************************************************************)
(* What EventSource promises, for any number of calls of Subscribe, any    *)
(* capacity of the channel and any bound on the messages: the type, the    *)
(* two safety invariants, and that both adapters implement the port that   *)
(* EventStream states.                                                     *)
(***************************************************************************)
EXTENDS EventSource, TLAPS

USE SourceAssumption DEF SourceAssumption

(***************************************************************************)
(* The invariant.  A channel holds numbers that grow, all after what the   *)
(* reader took and none after what was offered; the event in the callback  *)
(* is the last one offered and is not in the channel yet.                  *)
(***************************************************************************)
Busy(s) == IF s.callback = "idle" THEN 0 ELSE 1

Growing(s) ==
  /\ s.taken + Busy(s) <= s.offered
  /\ \A i \in 1..Len(s.buffer) :
       s.taken < s.buffer[i] /\ s.buffer[i] + Busy(s) <= s.offered
  /\ \A i, j \in 1..Len(s.buffer) : i < j => s.buffer[i] < s.buffer[j]

\* As long as nobody cancels, the numbers are consecutive.
WithoutGap(s) ==
  s.cancel = "no" =>
    /\ s.offered = s.taken + Len(s.buffer) + Busy(s)
    /\ \A i \in 1..Len(s.buffer) : s.buffer[i] = s.taken + i

\* A sender waits for room and for nothing else; the reader finds the end of
\* an empty channel.
Waits(s) ==
  /\ s.callback = "sending" => s.cancel = "no" /\ Len(s.buffer) = Capacity
  /\ s.ended => s.cancel = "closed" /\ s.buffer = <<>>

\* The client knows a subscription of NATS, from Subscribe until the goroutine
\* that saw the cancellation drops it; the simulator's is closed by the sender.
Known(src, s) ==
  /\ s.live # "no" => src = "nats" /\ s.cancel \in {"no", "cancelled"}
  /\ s.state # "open" => s.cancel = "no"
  /\ src = "simulator" =>
       /\ s.pending = 0 /\ s.cancel # "unsubscribed"
       /\ s.cancel = "closed" => s.callback = "idle"

Good(src, s) ==
  /\ s \in Subscription /\ Len(s.buffer) <= Capacity
  /\ Growing(s) /\ WithoutGap(s) /\ Waits(s) /\ Known(src, s)

IInv ==
  /\ TypeOK
  /\ \A k \in Sub : Good(source, subs[k])
  /\ PanicOnlyInRace
-----------------------------------------------------------------------------
(***************************************************************************)
(* The channel: what Append and Tail make of a sequence of numbers.        *)
(***************************************************************************)
LEMMA Appended ==
  ASSUME NEW b \in Seq(Nat), NEW e \in Nat
  PROVE  /\ Append(b, e) \in Seq(Nat) /\ Len(Append(b, e)) = Len(b) + 1
         /\ \A i \in 1..Len(b) : Append(b, e)[i] = b[i]
         /\ Append(b, e)[Len(b) + 1] = e
OBVIOUS

LEMMA Tailed ==
  ASSUME NEW b \in Seq(Nat), b # <<>>
  PROVE  /\ Len(b) \in Nat \ {0} /\ Head(b) = b[1] /\ Head(b) \in Nat
         /\ Tail(b) \in Seq(Nat) /\ Len(Tail(b)) = Len(b) - 1
         /\ \A i \in 1..Len(b) - 1 : Tail(b)[i] = b[i + 1]
OBVIOUS

LEMMA Elements ==
  ASSUME NEW b \in Seq(Nat)
  PROVE  Len(b) \in Nat /\ \A i \in 1..Len(b) : b[i] \in Nat
OBVIOUS

(***************************************************************************)
(* What a step makes of one subscription.                                  *)
(***************************************************************************)
LEMMA Fields ==
  ASSUME NEW s \in Subscription
  PROVE  /\ s.state \in {"none", "registered", "open", "failed"}
         /\ s.live \in {"no", "yes", "draining"} /\ s.pending \in 0..PendingLimit
         /\ s.callback \in {"idle", "popped", "sending"}
         /\ s.buffer \in Seq(Nat) /\ s.offered \in Nat /\ s.taken \in Nat
         /\ s.ended \in BOOLEAN
         /\ s.cancel \in {"no", "cancelled", "unsubscribed", "closed"}
         /\ Len(s.buffer) \in Nat /\ Busy(s) \in {0, 1}
BY DEF Subscription, Busy

\* Steps that leave the channel and the numbers alone.
LEMMA Aside ==
  ASSUME NEW src \in {"nats", "simulator"}, NEW s, Good(src, s)
  PROVE  /\ s.state = "none" => Good(src, [s EXCEPT !.state = "failed"])
         /\ s.state = "none" /\ src = "nats" =>
              Good(src, [s EXCEPT !.state = "registered", !.live = "yes"])
         /\ s.state # "open" => Good(src, [s EXCEPT !.state = "open"])
         /\ s.pending > 0 => Good(src, [s EXCEPT !.pending = @ - 1])
         /\ src = "nats" /\ s.pending < PendingLimit =>
              Good(src, [s EXCEPT !.pending = @ + 1])
         /\ s.live = "yes" => Good(src, [s EXCEPT !.live = "draining"])
         /\ Good(src, [s EXCEPT !.live = "no"])
         /\ Good(src, Unsubscribed(s))
<1>1. s \in Subscription
  BY DEF Good
<1>2. s.state = "none" => Good(src, [s EXCEPT !.state = "failed"])
  BY <1>1, Fields DEF Good, Growing, WithoutGap, Waits, Known, Busy, Subscription
<1>3. s.state = "none" /\ src = "nats" =>
        Good(src, [s EXCEPT !.state = "registered", !.live = "yes"])
  BY <1>1, Fields DEF Good, Growing, WithoutGap, Waits, Known, Busy, Subscription
<1>4. s.state # "open" => Good(src, [s EXCEPT !.state = "open"])
  BY <1>1, Fields DEF Good, Growing, WithoutGap, Waits, Known, Busy, Subscription
<1> DEFINE with(n) == [s EXCEPT !.pending = n]
<1>5. ASSUME NEW n \in 0..PendingLimit, src = "simulator" => n = 0
      PROVE  Good(src, with(n))
  BY <1>1, <1>5, Fields DEF Good, Growing, WithoutGap, Waits, Known, Busy, Subscription
<1>6. s.pending > 0 => Good(src, [s EXCEPT !.pending = @ - 1])
  <2> SUFFICES ASSUME s.pending > 0 PROVE Good(src, with(s.pending - 1))
    OBVIOUS
  <2>1. s.pending - 1 \in 0..PendingLimit /\ src # "simulator"
    BY <1>1, Fields DEF Good, Known
  <2> HIDE DEF with
  <2> QED
    BY <1>5, <2>1
<1>7. src = "nats" /\ s.pending < PendingLimit => Good(src, [s EXCEPT !.pending = @ + 1])
  <2> SUFFICES ASSUME src = "nats", s.pending < PendingLimit
               PROVE  Good(src, with(s.pending + 1))
    OBVIOUS
  <2>1. s.pending + 1 \in 0..PendingLimit
    BY <1>1, Fields
  <2> HIDE DEF with
  <2> QED
    BY <1>5, <2>1
<1>8. Good(src, [s EXCEPT !.live = "no"])
  BY <1>1, Fields DEF Good, Growing, WithoutGap, Waits, Known, Busy, Subscription
<1>10. s.live = "yes" => Good(src, [s EXCEPT !.live = "draining"])
  BY <1>1, Fields DEF Good, Growing, WithoutGap, Waits, Known, Busy, Subscription
<1>9. Good(src, Unsubscribed(s))
  <2>1. 0 \in 0..PendingLimit
    OBVIOUS
  <2> DEFINE u == Unsubscribed(s)
  <2>2. /\ u \in Subscription /\ u.live = "no" /\ u.pending = 0
        /\ u.state = s.state /\ u.callback = s.callback /\ u.buffer = s.buffer
        /\ u.offered = s.offered /\ u.taken = s.taken /\ u.ended = s.ended
        /\ u.cancel = s.cancel
    BY <1>1, <2>1, Fields DEF Unsubscribed, Subscription
  <2> HIDE DEF u
  <2>3. Good(src, u)
    BY <1>1, <2>2, Fields DEF Good, Growing, WithoutGap, Waits, Known, Busy
  <2> QED
    BY <2>3 DEF u
<1> QED
  BY <1>2, <1>3, <1>4, <1>6, <1>7, <1>8, <1>9, <1>10

\* The next event reaches the goroutine that sends.
LEMMA NextEvent ==
  ASSUME NEW src \in {"nats", "simulator"}, NEW s, Good(src, s), s.callback = "idle",
         NEW u, u \in Subscription, u.callback = "popped", u.offered = s.offered + 1,
         src = "simulator" => u.pending = 0 /\ s.cancel # "closed",
         u.state = s.state, u.live = s.live, u.buffer = s.buffer,
         u.taken = s.taken, u.ended = s.ended, u.cancel = s.cancel
  PROVE  Good(src, u)
<1>1. /\ Len(s.buffer) \in Nat /\ s.taken \in Nat /\ s.offered \in Nat
      /\ \A i \in 1..Len(s.buffer) : s.buffer[i] \in Nat
  BY Fields, Elements DEF Good
<1>2. Busy(s) = 0 /\ Busy(u) = 1
  BY DEF Busy
<1>3. Growing(u) /\ WithoutGap(u)
  BY <1>1, <1>2 DEF Good, Growing, WithoutGap
<1>4. Waits(u) /\ Known(src, u)
  BY DEF Good, Waits, Known
<1> QED
  BY <1>3, <1>4 DEF Good

\* The event of the goroutine that sends goes to the end of the channel.
LEMMA EventSent ==
  ASSUME NEW s \in Subscription, Growing(s), WithoutGap(s), s.callback # "idle",
         NEW u, u.callback = "idle", u.buffer = Append(s.buffer, s.offered),
         u.offered = s.offered, u.taken = s.taken, u.cancel = s.cancel
  PROVE  Growing(u) /\ WithoutGap(u)
<1> DEFINE n == Len(s.buffer)
           old(i) == s.buffer[i]
           b == Append(s.buffer, s.offered)
<1>1. /\ s.taken \in Nat /\ s.offered \in Nat
      /\ s.buffer \in Seq(Nat) /\ n \in Nat /\ \A i \in 1..n : old(i) \in Nat
  BY Fields, Elements
<1>2. Busy(s) = 1 /\ Busy(u) = 0
  BY DEF Busy
<1>3. /\ s.taken + 1 <= s.offered
      /\ \A i \in 1..n : s.taken < old(i) /\ old(i) + 1 <= s.offered
      /\ \A i, j \in 1..n : i < j => old(i) < old(j)
      /\ s.cancel = "no" => /\ s.offered = s.taken + n + 1
                            /\ \A i \in 1..n : old(i) = s.taken + i
  BY <1>2 DEF Growing, WithoutGap
<1>4. /\ b \in Seq(Nat) /\ Len(b) = n + 1
      /\ \A i \in 1..Len(b) :
           (i \in 1..n /\ b[i] = old(i)) \/ (i = n + 1 /\ b[i] = s.offered)
  <2>1. /\ b \in Seq(Nat) /\ Len(b) = n + 1
        /\ \A i \in 1..n : b[i] = old(i)
        /\ b[n + 1] = s.offered
    BY <1>1, Appended
  <2> QED
    BY <1>1, <2>1
<1> HIDE DEF old, n, b
<1>5. Growing(u)
  <2>1. \A i \in 1..Len(b) : s.taken < b[i] /\ b[i] <= s.offered
    BY <1>1, <1>3, <1>4
  <2>2. \A i, j \in 1..Len(b) : i < j => b[i] < b[j]
    BY <1>1, <1>3, <1>4
  <2>3. s.taken <= s.offered
    BY <1>1, <1>3
  <2>4. \A i \in 1..Len(b) : b[i] \in Nat
    BY <1>4, Elements
  <2> QED
    BY <1>1, <1>2, <2>1, <2>2, <2>3, <2>4 DEF Growing, b
<1>6. WithoutGap(u)
  <2> SUFFICES ASSUME s.cancel = "no"
               PROVE  /\ s.offered = s.taken + Len(b) + 0
                      /\ \A i \in 1..Len(b) : b[i] = s.taken + i
    BY <1>2 DEF WithoutGap, b
  <2>1. s.offered = s.taken + n + 1 /\ \A i \in 1..n : old(i) = s.taken + i
    BY <1>3
  <2>2. s.offered = s.taken + (n + 1)
    <3>1. \A x, y, z \in Nat : x = y + z + 1 => x = y + (z + 1)
      OBVIOUS
    <3> QED
      BY <1>1, <2>1, <3>1
  <2>3. s.offered = s.taken + Len(b) + 0
    BY <1>1, <1>4, <2>2
  <2>4. \A i \in 1..Len(b) : b[i] = s.taken + i
    BY <1>4, <2>1, <2>2
  <2> QED
    BY <2>3, <2>4
<1> QED
  BY <1>5, <1>6

\* The reader takes the first event of the channel.
LEMMA EventTaken ==
  ASSUME NEW s \in Subscription, Growing(s), WithoutGap(s), s.buffer # <<>>,
         NEW u, u.callback = s.callback, u.buffer = Tail(s.buffer),
         u.offered = s.offered, u.taken = Head(s.buffer), u.cancel = s.cancel
  PROVE  /\ Growing(u) /\ WithoutGap(u)
         /\ s.taken < u.taken /\ u.taken <= s.offered
         /\ s.cancel = "no" => u.taken = s.taken + 1
<1> DEFINE n == Len(s.buffer)
           old(i) == s.buffer[i]
           b == Tail(s.buffer)
           first == Head(s.buffer)
           more == Busy(s)
<1>1. /\ s.taken \in Nat /\ s.offered \in Nat /\ more \in {0, 1}
      /\ s.buffer \in Seq(Nat) /\ n \in Nat /\ \A i \in 1..n : old(i) \in Nat
  BY Fields, Elements
<1>2. Busy(u) = more
  BY DEF Busy
<1>3. /\ s.taken + more <= s.offered
      /\ \A i \in 1..n : s.taken < old(i) /\ old(i) + more <= s.offered
      /\ \A i, j \in 1..n : i < j => old(i) < old(j)
      /\ s.cancel = "no" => /\ s.offered = s.taken + n + more
                            /\ \A i \in 1..n : old(i) = s.taken + i
  BY DEF Growing, WithoutGap
<1>4. /\ n \in Nat \ {0} /\ first = old(1) /\ first \in Nat
      /\ b \in Seq(Nat) /\ Len(b) = n - 1
      /\ \A i \in 1..n - 1 : b[i] = old(i + 1)
  BY <1>1, Tailed
<1> HIDE DEF old, n, b, first, more
<1>5. /\ s.taken < first /\ first + more <= s.offered
      /\ s.cancel = "no" => first = s.taken + 1
  BY <1>1, <1>3, <1>4
<1>6. \A i \in 1..Len(b) :
        /\ i \in Nat /\ i + 1 \in 1..n /\ 1 \in 1..n /\ 1 < i + 1
        /\ b[i] = old(i + 1) /\ b[i] \in Nat
  <2>1. \A i \in 1..n - 1 : i \in Nat /\ i + 1 \in 1..n /\ 1 \in 1..n /\ 1 < i + 1
    BY <1>4
  <2> QED
    BY <1>1, <1>4, <2>1
<1>7. Growing(u)
  <2>1. \A i \in 1..Len(b) : first < b[i] /\ b[i] + more <= s.offered
    BY <1>3, <1>4, <1>6
  <2>2. \A i, j \in 1..Len(b) : i < j => i + 1 < j + 1
    BY <1>6
  <2>3. \A i, j \in 1..Len(b) : i < j => b[i] < b[j]
    BY <1>3, <1>6, <2>2
  <2> QED
    BY <1>2, <1>5, <2>1, <2>3 DEF Growing, b, first
<1>8. WithoutGap(u)
  <2> SUFFICES ASSUME s.cancel = "no"
               PROVE  /\ s.offered = first + Len(b) + more
                      /\ \A i \in 1..Len(b) : b[i] = first + i
    BY <1>2 DEF WithoutGap, b, first
  <2>1. s.offered = s.taken + n + more /\ \A i \in 1..n : old(i) = s.taken + i
    BY <1>3
  <2>2. first = s.taken + 1
    BY <1>5
  <2>3. s.offered = first + Len(b) + more
    <3>1. \A x, y, z, m \in Nat : x = y + z + m => x = (y + 1) + (z - 1) + m
      OBVIOUS
    <3> QED
      BY <1>1, <1>4, <2>1, <2>2, <3>1
  <2>4. \A i \in 1..Len(b) : b[i] = first + i
    <3>1. \A y, i \in Nat : y + (i + 1) = (y + 1) + i
      OBVIOUS
    <3>2. \A i \in 1..Len(b) : b[i] = s.taken + (i + 1)
      BY <1>6, <2>1
    <3> QED
      BY <1>1, <1>6, <2>2, <3>1, <3>2
  <2> QED
    BY <2>3, <2>4
<1>9. first <= s.offered
  BY <1>1, <1>4, <1>5
<1> QED
  BY <1>5, <1>7, <1>8, <1>9 DEF first

\* A sender that gives up leaves the numbers in order.
LEMMA LessBusy ==
  ASSUME NEW s \in Subscription, Growing(s), NEW u, Busy(u) <= Busy(s),
         u.buffer = s.buffer, u.offered = s.offered, u.taken = s.taken
  PROVE  Growing(u)
<1> DEFINE n == Len(s.buffer)
           old(i) == s.buffer[i]
           more == Busy(s)
           less == Busy(u)
<1>1. /\ s.taken \in Nat /\ s.offered \in Nat /\ n \in Nat
      /\ \A i \in 1..n : old(i) \in Nat
  BY Fields, Elements
<1>2. more \in {0, 1} /\ less \in {0, 1} /\ less <= more
  BY DEF Busy
<1>3. /\ s.taken + more <= s.offered
      /\ \A i \in 1..n : s.taken < old(i) /\ old(i) + more <= s.offered
      /\ \A i, j \in 1..n : i < j => old(i) < old(j)
  BY DEF Growing
<1> HIDE DEF n, old, more, less
<1>4. \A x, y \in Nat : x + more <= y => x + less <= y
  BY <1>2
<1>5. /\ s.taken + less <= s.offered
      /\ \A i \in 1..n : s.taken < old(i) /\ old(i) + less <= s.offered
      /\ \A i, j \in 1..n : i < j => old(i) < old(j)
  BY <1>1, <1>3, <1>4
<1> QED
  BY <1>5 DEF Growing, n, old, less

\* The select of the goroutine that sends.
LEMMA Selected ==
  ASSUME NEW src \in {"nats", "simulator"}, NEW s, Good(src, s), s.callback = "popped"
  PROVE  /\ s.cancel # "closed" /\ Room(s) => Good(src, Sent(s))
         /\ s.cancel # "no" => Good(src, [s EXCEPT !.callback = "idle"])
         /\ s.cancel = "no" /\ ~Room(s) => Good(src, [s EXCEPT !.callback = "sending"])
<1>1. /\ s \in Subscription /\ Len(s.buffer) \in Nat /\ s.taken \in Nat /\ s.offered \in Nat
      /\ s.buffer \in Seq(Nat) /\ \A i \in 1..Len(s.buffer) : s.buffer[i] \in Nat
  BY Fields, Elements DEF Good
<1>2. Busy(s) = 1
  BY DEF Busy
<1>3. ASSUME s.cancel # "closed", Room(s) PROVE Good(src, Sent(s))
  <2> DEFINE b == Append(s.buffer, s.offered)
             u == Sent(s)
  <2>1. b \in Seq(Nat) /\ Len(b) = Len(s.buffer) + 1
    BY <1>1, Appended
  <2>2. /\ u \in Subscription /\ u.callback = "idle" /\ u.buffer = b
        /\ u.state = s.state /\ u.live = s.live /\ u.pending = s.pending
        /\ u.offered = s.offered /\ u.taken = s.taken /\ u.ended = s.ended
        /\ u.cancel = s.cancel
    BY <1>1, <2>1 DEF Sent, Subscription
  <2> HIDE DEF u
  <2>3. Growing(u) /\ WithoutGap(u)
    BY <1>1, <2>2, EventSent DEF Good
  <2>4. Len(b) <= Capacity
    BY <1>1, <1>3, <2>1 DEF Room
  <2>5. Waits(u) /\ Known(src, u)
    BY <1>3, <2>2 DEF Good, Waits, Known
  <2>6. Good(src, u)
    BY <2>2, <2>3, <2>4, <2>5 DEF Good
  <2> QED
    BY <2>6 DEF u
<1>4. ASSUME s.cancel # "no" PROVE Good(src, [s EXCEPT !.callback = "idle"])
  <2> DEFINE u == [s EXCEPT !.callback = "idle"]
  <2>1. /\ u \in Subscription /\ u.callback = "idle" /\ u.cancel = s.cancel
        /\ u.state = s.state /\ u.live = s.live /\ u.buffer = s.buffer
        /\ u.pending = s.pending /\ u.offered = s.offered /\ u.taken = s.taken
        /\ u.ended = s.ended
    BY <1>1 DEF Subscription
  <2> HIDE DEF u
  <2>2. Busy(u) = 0
    BY <2>1 DEF Busy
  <2>3. Growing(u)
    BY <1>1, <1>2, <2>1, <2>2, LessBusy DEF Good
  <2>4. WithoutGap(u) /\ Waits(u) /\ Known(src, u)
    BY <1>4, <2>1 DEF Good, WithoutGap, Waits, Known
  <2>5. Good(src, u)
    BY <2>1, <2>3, <2>4 DEF Good
  <2> QED
    BY <2>5 DEF u
<1>5. ASSUME s.cancel = "no", ~Room(s) PROVE Good(src, [s EXCEPT !.callback = "sending"])
  <2>1. Len(s.buffer) = Capacity
    BY <1>1, <1>5 DEF Room, Good
  <2> QED
    BY <1>1, <1>2, <1>5, <2>1 DEF Good, Growing, WithoutGap, Waits, Known, Busy,
           Subscription
<1> QED
  BY <1>3, <1>4, <1>5

\* What the reader finds: the next event, or the end.
Taken(s) ==
  [s EXCEPT
     !.taken = Head(s.buffer),
     !.buffer = IF s.callback = "sending" THEN Append(Tail(@), s.offered) ELSE Tail(@),
     !.callback = IF s.callback = "sending" THEN "idle" ELSE @]

LEMMA Received ==
  ASSUME NEW src \in {"nats", "simulator"}, NEW s, Good(src, s), s.buffer # <<>>
  PROVE  /\ Good(src, Taken(s))
         /\ Taken(s).taken \in s.taken + 1 .. s.offered
         /\ s.cancel = "no" => Taken(s).taken = s.taken + 1
<1> DEFINE m == [s EXCEPT !.taken = Head(s.buffer), !.buffer = Tail(s.buffer)]
           r == Taken(s)
<1>1. /\ s \in Subscription /\ s.buffer \in Seq(Nat) /\ Len(s.buffer) \in Nat
      /\ s.taken \in Nat /\ s.offered \in Nat
  BY Fields DEF Good
<1>2. /\ Head(s.buffer) \in Nat /\ Tail(s.buffer) \in Seq(Nat)
      /\ Len(Tail(s.buffer)) = Len(s.buffer) - 1
  BY <1>1, Tailed
<1>3. /\ m \in Subscription /\ m.taken = Head(s.buffer) /\ m.buffer = Tail(s.buffer)
      /\ m.callback = s.callback /\ m.offered = s.offered /\ m.cancel = s.cancel
  BY <1>1, <1>2, Fields DEF Subscription
<1> HIDE DEF m
<1>4. /\ Growing(m) /\ WithoutGap(m) /\ s.taken < m.taken /\ m.taken <= s.offered
      /\ s.cancel = "no" => m.taken = s.taken + 1
  BY <1>1, <1>3, EventTaken DEF Good
<1>5. /\ Append(Tail(s.buffer), s.offered) \in Seq(Nat)
      /\ Len(Append(Tail(s.buffer), s.offered)) = Len(s.buffer)
  BY <1>1, <1>2, Appended
<1>6. /\ r \in Subscription /\ r.taken = m.taken
      /\ r.buffer = IF s.callback = "sending" THEN Append(m.buffer, m.offered) ELSE m.buffer
      /\ r.callback = IF s.callback = "sending" THEN "idle" ELSE m.callback
      /\ r.offered = m.offered /\ r.cancel = m.cancel /\ r.ended = s.ended
      /\ r.state = s.state /\ r.live = s.live /\ r.pending = s.pending
  BY <1>1, <1>2, <1>3, <1>5, Fields DEF Taken, Subscription
<1> HIDE DEF r
<1>7. Growing(r) /\ WithoutGap(r) /\ Len(r.buffer) <= Capacity
  <2>1. CASE s.callback = "sending"
    <3>1. Growing(r) /\ WithoutGap(r)
      BY <1>3, <1>4, <1>6, <2>1, EventSent
    <3> QED
      BY <1>3, <1>5, <1>6, <2>1, <3>1 DEF Good
  <2>2. CASE s.callback # "sending"
    <3>1. Growing(r) /\ WithoutGap(r)
      BY <1>4, <1>6, <2>2 DEF Growing, WithoutGap, Busy
    <3> QED
      BY <1>1, <1>2, <1>3, <1>6, <2>2, <3>1 DEF Good
  <2> QED
    BY <2>1, <2>2
<1>8. Waits(r) /\ Known(src, r)
  BY <1>3, <1>6 DEF Good, Waits, Known
<1>9. m.taken \in s.taken + 1 .. s.offered
  BY <1>1, <1>2, <1>3, <1>4
<1>10. Good(src, r) /\ r.taken = m.taken
  BY <1>6, <1>7, <1>8 DEF Good
<1> QED
  BY <1>4, <1>9, <1>10 DEF r

\* Cancellation, step by step to the end.
Cancelled(s) ==
  [s EXCEPT !.cancel = "cancelled", !.callback = IF @ = "sending" THEN "idle" ELSE @]

LEMMA Ending ==
  ASSUME NEW src \in {"nats", "simulator"}, NEW s, Good(src, s)
  PROVE  /\ s.cancel = "no" /\ s.state = "open" => Good(src, Cancelled(s))
         /\ s.cancel = "cancelled" /\ src = "nats" =>
              Good(src, [Unsubscribed(s) EXCEPT !.cancel = "unsubscribed"])
         /\ s.cancel = "unsubscribed" \/ (s.cancel = "cancelled" /\ src = "simulator"
                                            /\ s.callback = "idle") =>
              Good(src, [s EXCEPT !.cancel = "closed"])
         /\ s.cancel = "closed" /\ s.buffer = <<>> => Good(src, [s EXCEPT !.ended = TRUE])
<1>1. /\ s \in Subscription /\ s.buffer \in Seq(Nat) /\ Len(s.buffer) \in Nat
      /\ s.taken \in Nat /\ s.offered \in Nat /\ \A i \in 1..Len(s.buffer) : s.buffer[i] \in Nat
  BY Fields, Elements DEF Good
<1>2. ASSUME s.cancel = "no", s.state = "open" PROVE Good(src, Cancelled(s))
  <2> DEFINE u == Cancelled(s)
  <2>1. /\ u \in Subscription /\ u.cancel = "cancelled" /\ u.callback # "sending"
        /\ u.callback \in {s.callback, "idle"}
        /\ u.state = s.state /\ u.live = s.live /\ u.buffer = s.buffer
        /\ u.pending = s.pending /\ u.offered = s.offered /\ u.taken = s.taken
        /\ u.ended = s.ended
    BY <1>1, Fields DEF Cancelled, Subscription
  <2> HIDE DEF u
  <2>2. Busy(u) \in {0, 1} /\ Busy(s) \in {0, 1} /\ Busy(u) <= Busy(s)
    BY <2>1 DEF Busy
  <2>3. Growing(u)
    BY <1>1, <2>1, <2>2, LessBusy DEF Good
  <2>4. WithoutGap(u) /\ Waits(u) /\ Known(src, u)
    BY <1>2, <2>1 DEF Good, WithoutGap, Waits, Known
  <2>5. Good(src, u)
    BY <2>1, <2>3, <2>4 DEF Good
  <2> QED
    BY <2>5 DEF u
<1>3. ASSUME s.cancel = "cancelled", src = "nats"
      PROVE  Good(src, [Unsubscribed(s) EXCEPT !.cancel = "unsubscribed"])
  <2> DEFINE v == Unsubscribed(s)
  <2>1. Good(src, v)
    BY Aside
  <2>2. v.live = "no" /\ v.cancel = "cancelled"
    BY <1>1, <1>3 DEF Unsubscribed, Subscription
  <2> HIDE DEF v
  <2>3. Good(src, [v EXCEPT !.cancel = "unsubscribed"])
    BY <1>3, <2>1, <2>2 DEF Good, Growing, WithoutGap, Waits, Known, Busy, Subscription
  <2> QED
    BY <2>3 DEF v
<1>4. ASSUME s.cancel = "unsubscribed" \/ (s.cancel = "cancelled" /\ src = "simulator"
                                             /\ s.callback = "idle")
      PROVE  Good(src, [s EXCEPT !.cancel = "closed"])
  <2> DEFINE u == [s EXCEPT !.cancel = "closed"]
  <2>1. /\ u \in Subscription /\ u.cancel = "closed" /\ u.callback = s.callback
        /\ u.state = s.state /\ u.live = s.live /\ u.buffer = s.buffer
        /\ u.pending = s.pending /\ u.offered = s.offered /\ u.taken = s.taken
        /\ u.ended = s.ended
    BY <1>1 DEF Subscription
  <2> HIDE DEF u
  <2>2. Growing(u) /\ WithoutGap(u) /\ Waits(u)
    BY <1>4, <2>1 DEF Good, Growing, WithoutGap, Waits, Busy
  <2>3. Known(src, u)
    <3>1. u.live # "no" => FALSE
      <4>1. ASSUME s.live # "no" PROVE FALSE
        <5>1. src = "nats" /\ s.cancel \in {"no", "cancelled"}
          BY <4>1 DEF Good, Known
        <5> QED
          BY <1>4, <5>1
      <4> QED
        BY <2>1, <4>1
    <3> QED
      BY <1>4, <2>1, <3>1 DEF Good, Known
  <2>4. Good(src, u)
    BY <2>1, <2>2, <2>3 DEF Good
  <2> QED
    BY <2>4 DEF u
<1>5. ASSUME s.cancel = "closed", s.buffer = <<>> PROVE Good(src, [s EXCEPT !.ended = TRUE])
  BY <1>1, <1>5 DEF Good, Growing, WithoutGap, Waits, Known, Busy, Subscription
<1> QED
  BY <1>2, <1>3, <1>4, <1>5
-----------------------------------------------------------------------------
(***************************************************************************)
(* The steps of the adapters.                                              *)
(***************************************************************************)
LEMMA Initially == Init => IInv
<1> SUFFICES ASSUME Init PROVE IInv
  OBVIOUS
<1> DEFINE s == [state |-> "none", live |-> "no", pending |-> 0, callback |-> "idle",
                 buffer |-> <<>>, offered |-> 0, taken |-> 0, ended |-> FALSE,
                 cancel |-> "no"]
<1>1. <<>> \in Seq(Nat) /\ Len(<<>>) = 0 /\ 0 \in 0..PendingLimit
  OBVIOUS
<1>2. FALSE \in BOOLEAN
  OBVIOUS
<1>3. /\ s \in Subscription /\ s.buffer = <<>> /\ s.callback = "idle" /\ s.cancel = "no"
      /\ s.offered = 0 /\ s.taken = 0 /\ s.ended = FALSE /\ s.live = "no" /\ s.pending = 0
  BY <1>1, <1>2 DEF Subscription
<1>4. subs = [k \in Sub |-> s]
  BY DEF Init
<1> HIDE DEF s
<1>5. \A src : Good(src, s)
  BY <1>1, <1>3 DEF Good, Growing, WithoutGap, Waits, Known, Busy
<1>6. TypeOK
  <2>1. subs \in [Sub -> Subscription] /\ \A k \in Sub : Len(subs[k].buffer) <= Capacity
    BY <1>1, <1>3, <1>4
  <2>2. published \in 0..MaxEvents
    BY DEF Init
  <2>3. panicked \in BOOLEAN
    BY <1>2, Zenon DEF Init
  <2> QED
    BY <2>1, <2>2, <2>3 DEF Init, TypeOK
<1> QED
  BY <1>4, <1>5, <1>6 DEF Init, IInv, PanicOnlyInRace

\* A step of one subscription.
LEMMA OneSubscription ==
  ASSUME IInv, ~panicked, NEW k \in Sub, NEW s, Good(source, s), Step(k, s)
  PROVE  IInv'
<1>1. /\ subs' \in [Sub -> Subscription] /\ subs' = [subs EXCEPT ![k] = s]
      /\ \A j \in Sub : Len(subs'[j].buffer) <= Capacity
  BY DEF IInv, TypeOK, Step, Becomes, Good
<1>2. TypeOK'
  BY <1>1 DEF IInv, TypeOK, Step
<1>3. \A j \in Sub : Good(source', subs'[j])
  BY <1>1 DEF IInv, TypeOK, Step
<1>4. PanicOnlyInRace'
  BY DEF PanicOnlyInRace, Step
<1> QED
  BY <1>2, <1>3, <1>4 DEF IInv

\* A step that every subscription sees.
LEMMA EverySubscription ==
  ASSUME IInv, ~panicked, NEW f \in [Sub -> Subscription], subs' = f,
         \A k \in Sub : Good(source, f[k]),
         UNCHANGED <<source, sub, panicked>>, published' \in 0..MaxEvents,
         closing' \in {"no", "unsubscribed", "draining", "closed"}
  PROVE  IInv'
<1>1. TypeOK'
  BY DEF IInv, TypeOK, Good
<1>2. \A j \in Sub : Good(source', subs'[j])
  OBVIOUS
<1>3. PanicOnlyInRace'
  BY DEF PanicOnlyInRace
<1> QED
  BY <1>1, <1>2, <1>3 DEF IInv

LEMMA Inductive == IInv /\ [Next]_vars => IInv'
<1> SUFFICES ASSUME IInv, [Next]_vars PROVE IInv'
  OBVIOUS
<1>1. /\ source \in {"nats", "simulator"}
      /\ \A k \in Sub : Good(source, subs[k]) /\ subs[k] \in Subscription
  BY DEF IInv, TypeOK
<1>2. CASE UNCHANGED vars
  BY <1>2 DEF vars, IInv, TypeOK, PanicOnlyInRace
<1> SUFFICES ASSUME Next PROVE IInv'
  BY <1>2
<1>3. ~panicked
  BY DEF Next
<1>4. ASSUME NEW k \in Sub, Register(k) PROVE IInv'
  <2> DEFINE s == [subs[k] EXCEPT !.state = "failed"]
             t == [subs[k] EXCEPT !.state = "registered", !.live = "yes"]
  <2>1. Good(source, s) /\ Good(source, t)
    BY <1>1, <1>4, Aside DEF Register
  <2>2. Step(k, s) \/ Step(k, t)
    BY <1>4 DEF Register
  <2> HIDE DEF s, t
  <2> QED
    BY <1>3, <2>1, <2>2, OneSubscription
<1>5. ASSUME NEW k \in Sub, Assign(k) PROVE IInv'
  <2> DEFINE s == [subs[k] EXCEPT !.state = "open"]
  <2>1. Good(source, s) /\ subs' = [subs EXCEPT ![k] = s]
    BY <1>1, <1>5, Aside DEF Assign, Becomes
  <2>2. s \in Subscription
    BY <1>1 DEF Subscription
  <2> HIDE DEF s
  <2>3. /\ subs' \in [Sub -> Subscription]
        /\ \A j \in Sub : subs'[j] = IF j = k THEN s ELSE subs[j]
    BY <2>1, <2>2 DEF IInv, TypeOK
  <2>4. TypeOK'
    BY <1>5, <2>1, <2>3 DEF IInv, TypeOK, Assign, Good
  <2>5. \A j \in Sub : Good(source', subs'[j])
    BY <1>1, <1>5, <2>1, <2>3 DEF Assign
  <2>6. PanicOnlyInRace'
    BY <1>3, <1>5 DEF Assign, PanicOnlyInRace
  <2> QED
    BY <2>4, <2>5, <2>6 DEF IInv
<1>6. ASSUME NEW k \in Sub, Play(k) PROVE IInv'
  <2> DEFINE s == [subs[k] EXCEPT !.state = "open"]
  <2>1. Good(source, s) /\ Step(k, s)
    BY <1>1, <1>6, Aside DEF Play
  <2> HIDE DEF s
  <2> QED
    BY <1>3, <2>1, OneSubscription
<1>7. ASSUME NEW k \in Sub, Pop(k) PROVE IInv'
  <2> DEFINE s == [subs[k] EXCEPT !.pending = @ - 1]
             t == [subs[k] EXCEPT !.pending = @ - 1, !.callback = "popped",
                                  !.offered = @ + 1]
  <2>1. Good(source, s) /\ (Step(k, s) \/ Step(k, t))
    BY <1>1, <1>7, Aside DEF Pop
  <2>2. /\ subs[k].pending - 1 \in 0..PendingLimit /\ subs[k].offered + 1 \in Nat
        /\ source = "nats"
    BY <1>1, <1>7, Fields DEF Pop, Good, Known
  <2>3. /\ t \in Subscription /\ t.callback = "popped"
        /\ t.offered = subs[k].offered + 1 /\ t.state = subs[k].state
        /\ t.live = subs[k].live /\ t.buffer = subs[k].buffer /\ t.taken = subs[k].taken
        /\ t.ended = subs[k].ended /\ t.cancel = subs[k].cancel
    BY <1>1, <2>2 DEF Subscription
  <2> HIDE DEF s, t
  <2>4. Good(source, t)
    BY <1>1, <1>7, <2>2, <2>3, NextEvent DEF Pop
  <2> QED
    BY <1>3, <2>1, <2>4, OneSubscription
<1>8. ASSUME NEW k \in Sub, PlayNext(k) PROVE IInv'
  <2> DEFINE t == [subs[k] EXCEPT !.callback = "popped", !.offered = @ + 1]
  <2>1. Step(k, t) /\ subs[k].offered + 1 \in Nat /\ subs[k].pending = 0
    BY <1>1, <1>8, Fields DEF PlayNext, Good, Known
  <2>2. /\ t \in Subscription /\ t.callback = "popped" /\ t.pending = 0
        /\ t.offered = subs[k].offered + 1 /\ t.state = subs[k].state
        /\ t.live = subs[k].live /\ t.buffer = subs[k].buffer /\ t.taken = subs[k].taken
        /\ t.ended = subs[k].ended /\ t.cancel = subs[k].cancel
    BY <1>1, <2>1 DEF Subscription
  <2> HIDE DEF t
  <2>3. Good(source, t)
    BY <1>1, <1>8, <2>2, NextEvent DEF PlayNext
  <2> QED
    BY <1>3, <2>1, <2>3, OneSubscription
<1>9. ASSUME NEW k \in Sub, Select(k) PROVE IInv'
  <2> DEFINE s == subs[k]
             idle == [s EXCEPT !.callback = "idle"]
             sending == [s EXCEPT !.callback = "sending"]
  <2>1. s.callback = "popped" /\ Good(source, s)
    BY <1>1, <1>9 DEF Select
  <2> HIDE DEF idle, sending
  <2>3. CASE s.cancel # "closed" /\ Room(s) /\ Step(k, Sent(s))
    BY <1>1, <1>3, <2>1, <2>3, Selected, OneSubscription
  <2>4. CASE s.cancel # "no" /\ Step(k, idle)
    <3>1. Good(source, idle)
      BY <1>1, <2>1, <2>4, Selected DEF idle
    <3> QED
      BY <1>3, <2>4, <3>1, OneSubscription
  <2>5. CASE s.cancel = "no" /\ ~Room(s) /\ Step(k, sending)
    <3>1. Good(source, sending)
      BY <1>1, <2>1, <2>5, Selected DEF sending
    <3> QED
      BY <1>3, <2>5, <3>1, OneSubscription
  <2>6. CASE /\ s.cancel = "closed" /\ panicked' = TRUE
             /\ UNCHANGED <<source, subs, sub, closing, published>>
    <3>1. source = "nats" /\ s.live = "no"
      BY <1>1, <2>1, <2>6 DEF Good, Known
    <3>2. PanicOnlyInRace'
      BY <2>1, <2>6, <3>1 DEF PanicOnlyInRace
    <3>3. TypeOK' /\ \A j \in Sub : Good(source', subs'[j])
      BY <2>6 DEF IInv, TypeOK
    <3> QED
      BY <3>2, <3>3 DEF IInv
  <2> QED
    BY <1>9, <2>3, <2>4, <2>5, <2>6 DEF Select, idle, sending
<1>10. ASSUME NEW k \in Sub, Receive(k) PROVE IInv'
  <2>1. Step(k, Taken(subs[k])) /\ subs[k].buffer # <<>>
    BY <1>10 DEF Receive, Taken
  <2>2. Good(source, Taken(subs[k]))
    BY <1>1, <2>1, Received
  <2> QED
    BY <1>3, <2>1, <2>2, OneSubscription
<1>11. ASSUME NEW k \in Sub, ReceiveEnd(k) PROVE IInv'
  <2> DEFINE s == [subs[k] EXCEPT !.ended = TRUE]
  <2>1. Good(source, s) /\ Step(k, s)
    BY <1>1, <1>11, Ending DEF ReceiveEnd
  <2> HIDE DEF s
  <2> QED
    BY <1>3, <2>1, OneSubscription
<1>12. ASSUME NEW k \in Sub, Cancel(k) PROVE IInv'
  <2>1. Good(source, Cancelled(subs[k])) /\ Step(k, Cancelled(subs[k]))
    BY <1>1, <1>12, Ending DEF Cancel, Cancelled
  <2> QED
    BY <1>3, <2>1, OneSubscription
<1>13. ASSUME NEW k \in Sub, Unsubscribe(k) PROVE IInv'
  <2> DEFINE s == [Unsubscribed(subs[k]) EXCEPT !.cancel = "unsubscribed"]
  <2>1. Good(source, s) /\ Step(k, s)
    BY <1>1, <1>13, Ending DEF Unsubscribe
  <2> HIDE DEF s
  <2> QED
    BY <1>3, <2>1, OneSubscription
<1>14. ASSUME NEW k \in Sub, CloseChannel(k) \/ Finish(k) PROVE IInv'
  <2> DEFINE s == [subs[k] EXCEPT !.cancel = "closed"]
  <2>1. Good(source, s) /\ Step(k, s)
    BY <1>1, <1>14, Ending DEF CloseChannel, Finish
  <2> HIDE DEF s
  <2> QED
    BY <1>3, <2>1, OneSubscription
<1>15. ASSUME Publish PROVE IInv'
  <2> DEFINE more(k) == [subs[k] EXCEPT !.pending = @ + 1]
             f == [k \in Sub |->
                     IF subs[k].live = "yes" /\ subs[k].pending < PendingLimit
                       THEN more(k) ELSE subs[k]]
  <2>1. subs' = f /\ source = "nats"
    BY <1>15 DEF Publish
  <2>2. \A k \in Sub : subs[k].pending < PendingLimit => Good(source, more(k))
    BY <1>1, <2>1, Aside
  <2>3. \A k \in Sub : Good(source, f[k])
    <3> HIDE DEF more
    <3> QED
      BY <1>1, <2>2
  <2>4. f \in [Sub -> Subscription]
    <3>1. \A k \in Sub : f[k] \in Subscription
      BY <2>3 DEF Good
    <3> QED
      BY <3>1
  <2>5. /\ published' \in 0..MaxEvents
        /\ closing' \in {"no", "unsubscribed", "draining", "closed"}
        /\ UNCHANGED <<source, sub, panicked>>
    BY <1>15 DEF Publish, IInv, TypeOK
  <2> HIDE DEF f
  <2> QED
    BY <1>3, <2>1, <2>3, <2>4, <2>5, EverySubscription
<1>16. ASSUME Close PROVE IInv'
  <2> DEFINE f == [k \in Sub |-> IF k = sub THEN Unsubscribed(subs[k]) ELSE subs[k]]
  <2>1. subs' = f
    BY <1>16 DEF Close
  <2>2. \A k \in Sub : Good(source, f[k])
    BY <1>1, Aside
  <2>3. f \in [Sub -> Subscription]
    <3>1. \A k \in Sub : f[k] \in Subscription
      BY <2>2 DEF Good
    <3> QED
      BY <3>1
  <2>4. /\ published' \in 0..MaxEvents /\ closing' = "unsubscribed"
        /\ UNCHANGED <<source, sub, panicked>>
    BY <1>16 DEF Close, IInv, TypeOK
  <2> HIDE DEF f
  <2> QED
    BY <1>3, <2>1, <2>2, <2>3, <2>4, EverySubscription
<1>17. ASSUME Drain \/ DrainEnds PROVE IInv'
  <2> DEFINE f == [k \in Sub |-> Unsubscribed(subs[k])]
  <2>1. subs' = f \/ subs' = subs
    BY <1>17 DEF Drain, DrainEnds
  <2>2. \A k \in Sub : Good(source, f[k])
    BY <1>1, Aside
  <2>3. f \in [Sub -> Subscription] /\ subs \in [Sub -> Subscription]
    <3>1. \A k \in Sub : f[k] \in Subscription
      BY <2>2 DEF Good
    <3> QED
      BY <3>1 DEF IInv, TypeOK
  <2>4. /\ published' \in 0..MaxEvents /\ closing' \in {"draining", "closed"}
        /\ UNCHANGED <<source, sub, panicked>>
    BY <1>17 DEF Drain, DrainEnds, IInv, TypeOK
  <2> HIDE DEF f
  <2> QED
    BY <1>1, <1>3, <2>1, <2>2, <2>3, <2>4, EverySubscription
<1>18. ASSUME NEW k \in Sub, DrainSub(k) \/ Drained(k) PROVE IInv'
  <2> DEFINE s == [subs[k] EXCEPT !.live = "draining"]
             t == [subs[k] EXCEPT !.live = "no"]
  <2>1. (Step(k, s) /\ subs[k].live = "yes") \/ Step(k, t)
    BY <1>18 DEF DrainSub, Drained
  <2>2. (subs[k].live = "yes" => Good(source, s)) /\ Good(source, t)
    BY <1>1, Aside
  <2> HIDE DEF s, t
  <2> QED
    BY <1>3, <2>1, <2>2, OneSubscription
<1> QED
  BY <1>4, <1>5, <1>6, <1>7, <1>8, <1>9, <1>10, <1>11, <1>12, <1>13, <1>14, <1>15,
     <1>16, <1>17, <1>18 DEF Next, Goroutine, Client
-----------------------------------------------------------------------------
\* The invariant holds in every reachable state.
THEOREM Invariance == Spec => []IInv
BY Initially, Inductive, PTL DEF Spec

\* The records of every subscription keep their type, and no channel holds more
\* events than make(chan domain.MissionEvent, 64) gave it room for.
THEOREM TypeCorrect == Spec => []TypeOK
<1>1. IInv => TypeOK
  BY DEF IInv
<1> QED
  BY <1>1, Invariance, PTL

\* Until a subscription is cancelled nothing it was offered is lost, and its
\* sender waits only while the channel is full: case ch <- evt of the selects.
THEOREM NothingDropped == Spec => []Backpressure
<1>1. IInv => Backpressure
  <2> SUFFICES ASSUME IInv, NEW k \in Sub, subs[k].cancel = "no"
               PROVE  /\ subs[k].offered = subs[k].taken + (Len(subs[k].buffer) + Busy(subs[k]))
                      /\ subs[k].callback = "sending" => Len(subs[k].buffer) = Capacity
    BY DEF Backpressure, Busy
  <2>1. /\ subs[k].offered = subs[k].taken + Len(subs[k].buffer) + Busy(subs[k])
        /\ subs[k].callback = "sending" => Len(subs[k].buffer) = Capacity
    BY DEF IInv, Good, WithoutGap, Waits
  <2>2. /\ subs[k].taken \in Nat /\ Len(subs[k].buffer) \in Nat /\ Busy(subs[k]) \in Nat
    <3>1. subs[k] \in Subscription
      BY DEF IInv, Good
    <3> QED
      BY <3>1, Fields
  <2>3. \A x, y, z \in Nat : x + y + z = x + (y + z)
    OBVIOUS
  <2> QED
    BY <2>1, <2>2, <2>3
<1> QED
  BY <1>1, Invariance, PTL

\* close(ch) after sub.Unsubscribe can only hit a NATS callback that had begun;
\* the simulator, whose sender closes the channel, is safe.
THEOREM OnlyTheCallbackPanics == Spec => []PanicOnlyInRace
<1>1. IInv => PanicOnlyInRace
  BY DEF IInv
<1> QED
  BY <1>1, Invariance, PTL
-----------------------------------------------------------------------------
(***************************************************************************)
(* The port.  A step of an adapter offers, delivers, cancels or ends, and  *)
(* otherwise the reader sees nothing of it.                                *)
(***************************************************************************)
Offered == [k \in Sub |-> subs[k].offered]
Delivered == [k \in Sub |-> subs[k].taken]
GivenUp == [k \in Sub |-> subs[k].cancel # "no"]
Over == [k \in Sub |-> subs[k].ended]

View == <<Offered, Delivered, GivenUp, Over>>

\* What a step of one subscription makes of the view.
LEMMA ViewOfStep ==
  ASSUME subs \in [Sub -> Subscription], NEW k \in Sub, NEW s, Becomes(k, s)
  PROVE  /\ Offered' = [Offered EXCEPT ![k] = s.offered]
         /\ Delivered' = [Delivered EXCEPT ![k] = s.taken]
         /\ GivenUp' = [GivenUp EXCEPT ![k] = (s.cancel # "no")]
         /\ Over' = [Over EXCEPT ![k] = s.ended]
BY DEF Becomes, Offered, Delivered, GivenUp, Over

\* A step that the reader does not see.
LEMMA Unseen ==
  ASSUME subs \in [Sub -> Subscription], NEW k \in Sub, NEW s, Becomes(k, s),
         s.offered = subs[k].offered, s.taken = subs[k].taken,
         s.cancel # "no" <=> subs[k].cancel # "no", s.ended = subs[k].ended
  PROVE  UNCHANGED View
BY DEF Becomes, View, Offered, Delivered, GivenUp, Over

\* The view is the state of EventStream.
LEMMA ViewIsStream ==
  /\ Stream!streamVars = View
  /\ \A k \in Sub :
       /\ Stream!Offer(k) <=> /\ Offered' = [Offered EXCEPT ![k] = @ + 1]
                              /\ UNCHANGED <<Delivered, GivenUp, Over>>
       /\ Stream!Deliver(k) <=>
            /\ ~Over[k]
            /\ \E e \in Delivered[k] + 1 .. Offered[k] :
                 /\ ~GivenUp[k] => e = Delivered[k] + 1
                 /\ Delivered' = [Delivered EXCEPT ![k] = e]
            /\ UNCHANGED <<Offered, GivenUp, Over>>
       /\ Stream!Cancel(k) <=> /\ GivenUp' = [GivenUp EXCEPT ![k] = TRUE]
                               /\ UNCHANGED <<Offered, Delivered, Over>>
       /\ Stream!End(k) <=> /\ GivenUp[k]
                            /\ Over' = [Over EXCEPT ![k] = TRUE]
                            /\ UNCHANGED <<Offered, Delivered, GivenUp>>
BY DEF View, Offered, Delivered, GivenUp, Over, Stream!streamVars, Stream!Offer,
       Stream!Deliver, Stream!Cancel, Stream!End

LEMMA StreamInitially == Init => Stream!Init
<1> SUFFICES ASSUME Init
             PROVE  /\ Offered = [k \in Sub |-> 0] /\ Delivered = [k \in Sub |-> 0]
                    /\ GivenUp = [k \in Sub |-> FALSE] /\ Over = [k \in Sub |-> FALSE]
  BY Zenon DEF Stream!Init, Offered, Delivered, GivenUp, Over
<1>1. \A k \in Sub : /\ subs[k].offered = 0 /\ subs[k].taken = 0
                     /\ subs[k].cancel = "no" /\ subs[k].ended = FALSE
  BY DEF Init
<1>2. Offered = [k \in Sub |-> 0] /\ Delivered = [k \in Sub |-> 0]
  BY <1>1 DEF Offered, Delivered
<1>3. \A k \in Sub : (subs[k].cancel # "no") = FALSE
  BY <1>1
<1>4. GivenUp = [k \in Sub |-> FALSE] /\ Over = [k \in Sub |-> FALSE]
  BY <1>1, <1>3, Zenon DEF GivenUp, Over
<1> QED
  BY <1>2, <1>4

LEMMA StreamStep == IInv /\ [Next]_vars => [Stream!Next]_(Stream!streamVars)
<1> SUFFICES ASSUME IInv, [Next]_vars PROVE Stream!Next \/ UNCHANGED View
  BY DEF View, Offered, Delivered, GivenUp, Over, Stream!streamVars
<1>1. /\ subs \in [Sub -> Subscription] /\ source \in {"nats", "simulator"}
      /\ \A k \in Sub : Good(source, subs[k]) /\ subs[k] \in Subscription
  BY DEF IInv, TypeOK
<1>2. CASE UNCHANGED vars
  BY <1>2 DEF vars, View, Offered, Delivered, GivenUp, Over
<1> SUFFICES ASSUME Next PROVE Stream!Next \/ UNCHANGED View
  BY <1>2
<1>3. ASSUME NEW k \in Sub, NEW s, Becomes(k, s),
             s.offered = subs[k].offered + 1, s.taken = subs[k].taken,
             s.cancel = subs[k].cancel, s.ended = subs[k].ended
      PROVE  Stream!Next
  <2>1. Offered' = [Offered EXCEPT ![k] = @ + 1]
    BY <1>1, <1>3, ViewOfStep DEF Offered
  <2>2. UNCHANGED <<Delivered, GivenUp, Over>>
    BY <1>1, <1>3 DEF Becomes, Delivered, GivenUp, Over
  <2> QED
    BY <2>1, <2>2, ViewIsStream DEF Stream!Next
<1>4. ASSUME NEW k \in Sub, Receive(k) PROVE Stream!Next
  <2> DEFINE s == Taken(subs[k])
  <2>1. Becomes(k, s) /\ subs[k].buffer # <<>>
    BY <1>4 DEF Receive, Taken, Step
  <2>2. /\ s.taken \in subs[k].taken + 1 .. subs[k].offered
        /\ subs[k].cancel = "no" => s.taken = subs[k].taken + 1
    BY <1>1, <2>1, Received
  <2>3. s.offered = subs[k].offered /\ s.cancel = subs[k].cancel /\ s.ended = subs[k].ended
    BY <1>1 DEF Taken, Subscription
  <2> HIDE DEF s
  <2>4. Delivered' = [Delivered EXCEPT ![k] = s.taken]
    BY <1>1, <2>1, ViewOfStep
  <2>5. UNCHANGED <<Offered, GivenUp, Over>>
    BY <1>1, <2>1, <2>3 DEF Becomes, Offered, GivenUp, Over
  <2>6. ~subs[k].ended
    BY <1>1, <2>1 DEF Good, Waits
  <2>7. /\ ~Over[k] /\ s.taken \in Delivered[k] + 1 .. Offered[k]
        /\ ~GivenUp[k] => s.taken = Delivered[k] + 1
    BY <2>2, <2>6 DEF Over, Delivered, Offered, GivenUp
  <2> QED
    BY <2>4, <2>5, <2>7, ViewIsStream DEF Stream!Next
<1>5. ASSUME NEW k \in Sub, Cancel(k) PROVE Stream!Next
  <2> DEFINE s == Cancelled(subs[k])
  <2>1. Becomes(k, s)
    BY <1>5 DEF Cancel, Cancelled, Step
  <2>2. /\ s.offered = subs[k].offered /\ s.taken = subs[k].taken
        /\ s.ended = subs[k].ended /\ s.cancel = "cancelled"
    BY <1>1 DEF Cancelled, Subscription
  <2> HIDE DEF s
  <2>3. UNCHANGED <<Offered, Delivered, Over>>
    BY <1>1, <2>1, <2>2 DEF Becomes, Offered, Delivered, Over
  <2>4. (s.cancel # "no") = TRUE
    BY <2>2
  <2>5. GivenUp' = [GivenUp EXCEPT ![k] = (s.cancel # "no")]
    BY <1>1, <2>1, ViewOfStep
  <2>6. GivenUp' = [GivenUp EXCEPT ![k] = TRUE]
    BY <2>4, <2>5, Zenon
  <2> QED
    BY <2>3, <2>6, ViewIsStream DEF Stream!Next
<1>6. ASSUME NEW k \in Sub, ReceiveEnd(k) PROVE Stream!Next
  <2> DEFINE s == [subs[k] EXCEPT !.ended = TRUE]
  <2>1. Becomes(k, s) /\ subs[k].cancel = "closed"
    BY <1>6 DEF ReceiveEnd, Step
  <2>2. /\ s.offered = subs[k].offered /\ s.taken = subs[k].taken
        /\ s.ended = TRUE /\ s.cancel = subs[k].cancel
    BY <1>1 DEF Subscription
  <2> HIDE DEF s
  <2>3. UNCHANGED <<Offered, Delivered, GivenUp>> /\ GivenUp[k]
    BY <1>1, <2>1, <2>2 DEF Becomes, Offered, Delivered, GivenUp
  <2>4. Over' = [Over EXCEPT ![k] = s.ended]
    BY <1>1, <2>1, ViewOfStep
  <2>5. Over' = [Over EXCEPT ![k] = TRUE]
    BY <2>2, <2>4, Zenon
  <2> QED
    BY <2>3, <2>5, ViewIsStream DEF Stream!Next
<1>7. ASSUME NEW k \in Sub, Goroutine(k) \/ Client(k) PROVE Stream!Next \/ UNCHANGED View
  <2> DEFINE s == subs[k]
  <2>1. CASE Register(k) \/ Assign(k) \/ Play(k)
    <3> DEFINE f == [s EXCEPT !.state = "failed"]
               r == [s EXCEPT !.state = "registered", !.live = "yes"]
               o == [s EXCEPT !.state = "open"]
    <3>1. Becomes(k, f) \/ Becomes(k, r) \/ Becomes(k, o)
      BY <2>1 DEF Register, Assign, Play, Step
    <3>2. \A u \in {f, r, o} : /\ u.offered = s.offered /\ u.taken = s.taken
                               /\ u.cancel = s.cancel /\ u.ended = s.ended
      BY <1>1 DEF Subscription
    <3> HIDE DEF f, r, o
    <3> QED
      BY <1>1, <3>1, <3>2, Unseen
  <2>2. CASE Pop(k) \/ PlayNext(k)
    <3> DEFINE p == [s EXCEPT !.pending = @ - 1]
               q == [s EXCEPT !.pending = @ - 1, !.callback = "popped", !.offered = @ + 1]
               r == [s EXCEPT !.callback = "popped", !.offered = @ + 1]
    <3>1. Becomes(k, p) \/ Becomes(k, q) \/ Becomes(k, r)
      BY <2>2 DEF Pop, PlayNext, Step
    <3>2. \A u \in {p, q, r} : u.taken = s.taken /\ u.cancel = s.cancel /\ u.ended = s.ended
      BY <1>1 DEF Subscription
    <3>3. p.offered = s.offered /\ q.offered = s.offered + 1 /\ r.offered = s.offered + 1
      BY <1>1 DEF Subscription
    <3> HIDE DEF p, q, r
    <3> QED
      BY <1>1, <1>3, <3>1, <3>2, <3>3, Unseen
  <2>3. CASE Select(k)
    <3> DEFINE p == Sent(s)
               q == [s EXCEPT !.callback = "idle"]
               r == [s EXCEPT !.callback = "sending"]
    <3>1. Becomes(k, p) \/ Becomes(k, q) \/ Becomes(k, r) \/ UNCHANGED subs
      BY <2>3 DEF Select, Step
    <3>2. \A u \in {p, q, r} : /\ u.offered = s.offered /\ u.taken = s.taken
                               /\ u.cancel = s.cancel /\ u.ended = s.ended
      BY <1>1 DEF Sent, Subscription
    <3>3. UNCHANGED subs => UNCHANGED View
      BY DEF View, Offered, Delivered, GivenUp, Over
    <3> HIDE DEF p, q, r
    <3> QED
      BY <1>1, <3>1, <3>2, <3>3, Unseen
  <2>4. CASE Unsubscribe(k) \/ CloseChannel(k) \/ Finish(k)
    <3> DEFINE p == [Unsubscribed(s) EXCEPT !.cancel = "unsubscribed"]
               q == [s EXCEPT !.cancel = "closed"]
    <3>1. (Becomes(k, p) \/ Becomes(k, q)) /\ s.cancel # "no"
      BY <2>4 DEF Unsubscribe, CloseChannel, Finish, Step
    <3>2. \A u \in {p, q} : /\ u.offered = s.offered /\ u.taken = s.taken
                            /\ u.cancel # "no" /\ u.ended = s.ended
      BY <1>1 DEF Unsubscribed, Subscription
    <3> HIDE DEF p, q
    <3> QED
      BY <1>1, <3>1, <3>2, Unseen
  <2>5. CASE DrainSub(k) \/ Drained(k)
    <3> DEFINE p == [s EXCEPT !.live = "draining"]
               q == [s EXCEPT !.live = "no"]
    <3>1. Becomes(k, p) \/ Becomes(k, q)
      BY <2>5 DEF DrainSub, Drained, Step
    <3>2. \A u \in {p, q} : /\ u.offered = s.offered /\ u.taken = s.taken
                            /\ u.cancel = s.cancel /\ u.ended = s.ended
      BY <1>1 DEF Subscription
    <3> HIDE DEF p, q
    <3> QED
      BY <1>1, <3>1, <3>2, Unseen
  <2> QED
    BY <1>7, <2>1, <2>2, <2>3, <2>4, <2>5 DEF Goroutine, Client
<1>8. ASSUME Publish \/ Close \/ Drain \/ DrainEnds PROVE UNCHANGED View
  <2>1. \A k \in Sub : /\ subs'[k].offered = subs[k].offered
                       /\ subs'[k].taken = subs[k].taken
                       /\ subs'[k].cancel = subs[k].cancel
                       /\ subs'[k].ended = subs[k].ended
    <3> SUFFICES ASSUME NEW k \in Sub
                 PROVE  /\ subs'[k].offered = subs[k].offered
                        /\ subs'[k].taken = subs[k].taken
                        /\ subs'[k].cancel = subs[k].cancel
                        /\ subs'[k].ended = subs[k].ended
      OBVIOUS
    <3> DEFINE s == subs[k]
               p == [s EXCEPT !.pending = @ + 1]
               q == Unsubscribed(s)
    <3>1. \A u \in {s, p, q} : /\ u.offered = s.offered /\ u.taken = s.taken
                                  /\ u.cancel = s.cancel /\ u.ended = s.ended
      BY <1>1 DEF Unsubscribed, Subscription
    <3>2. subs'[k] \in {s, p, q}
      BY <1>8 DEF Publish, Close, Drain, DrainEnds
    <3> HIDE DEF p, q
    <3> QED
      BY <3>1, <3>2
  <2> QED
    BY <2>1 DEF View, Offered, Delivered, GivenUp, Over
<1> QED
  BY <1>4, <1>5, <1>6, <1>7, <1>8 DEF Next

\* Both adapters implement the port: events come out of every channel in order,
\* once, and without a gap until the subscription is cancelled.
THEOREM AdaptersKeepThePort == Spec => StreamsKept
BY StreamInitially, StreamStep, Invariance, PTL DEF Spec, StreamsKept, Stream!Spec
=============================================================================
