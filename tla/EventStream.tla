------------------------------ MODULE EventStream ------------------------------
(***************************************************************************)
(* What the port internal/app/ports/ports.go promises of the channels that *)
(* Subscribe returns, whichever adapter made them.  Events are known by    *)
(* the order in which they were offered to a subscription.  They come out  *)
(* in that order, none twice and none that was not offered; none is left   *)
(* out unless the subscription has been cancelled, and only then does the  *)
(* channel end.                                                            *)
(***************************************************************************)
EXTENDS Naturals

CONSTANT Sub    \* the calls of Subscribe

VARIABLES       \* each a function on Sub
  offered,      \* events offered so far
  taken,        \* the last event the reader took from the channel
  cancelled,    \* the context of Subscribe is done
  ended         \* the reader has seen the channel closed

streamVars == <<offered, taken, cancelled, ended>>

Init ==
  /\ offered = [k \in Sub |-> 0] /\ taken = [k \in Sub |-> 0]
  /\ cancelled = [k \in Sub |-> FALSE] /\ ended = [k \in Sub |-> FALSE]

Offer(k) ==
  /\ offered' = [offered EXCEPT ![k] = @ + 1]
  /\ UNCHANGED <<taken, cancelled, ended>>

Deliver(k) ==
  /\ ~ended[k]
  /\ \E e \in taken[k] + 1 .. offered[k] :
       /\ ~cancelled[k] => e = taken[k] + 1
       /\ taken' = [taken EXCEPT ![k] = e]
  /\ UNCHANGED <<offered, cancelled, ended>>

Cancel(k) ==
  /\ cancelled' = [cancelled EXCEPT ![k] = TRUE]
  /\ UNCHANGED <<offered, taken, ended>>

End(k) ==
  /\ cancelled[k]
  /\ ended' = [ended EXCEPT ![k] = TRUE]
  /\ UNCHANGED <<offered, taken, cancelled>>

Next == \E k \in Sub : Offer(k) \/ Deliver(k) \/ Cancel(k) \/ End(k)

Spec == Init /\ [][Next]_streamVars
=============================================================================
