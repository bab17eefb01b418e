------------------------------ MODULE ValkeyScan ------------------------------
(***************************************************************************)
(* One ReadAll over Valkey, internal/adapters/valkey/policy_reader.go: a   *)
(* SCAN iterator fetches keys a page at a time and every key is read with  *)
(* a GET of its own, while the tool-learning service goes on writing and   *)
(* expiring policies and the connection may fail under any command.        *)
(* PolicyLoads takes the answer as a whole; this module opens it up.       *)
(***************************************************************************)
EXTENDS Naturals, Sequences

CONSTANTS
  Key,          \* the keys that match the pattern <prefix>:*
  MaxWrites,    \* bound: the times one key is written
  Garbage,      \* the writes whose value is not the JSON of a policy
  MaxPages      \* bound: the SCAN commands of one iteration

ASSUME ScanAssumption ==
  /\ MaxWrites \in Nat \ {0}
  /\ Garbage \subseteq 1..MaxWrites
  /\ MaxPages \in Nat \ {0}

VARIABLES
  written,      \* per key, its writes so far; the last is the value it holds
  present,      \* the keys the database has now
  state,        \* "idle", "scanning", "done" (err = nil), "failed"
  page,         \* keys of the iterator's page still to be read
  pages,        \* SCAN commands answered so far
  cursor,       \* the server has more to return: its cursor is not 0
  policies,     \* what was appended so far: the key and the write read
  unreturned,   \* server side: keys the iteration has still to return
  begun,        \* history: what each key held when the scan began
  stable,       \* history: keys with a readable value ever since
  unread        \* history: keys whose GET failed for want of a connection

dbVars == <<written, present>>
readerVars == <<state, page, pages, cursor, policies>>
vars == <<dbVars, readerVars, unreturned, begun, stable, unread>>

TypeOK ==
  /\ written \in [Key -> 0..MaxWrites]
  /\ present \subseteq {k \in Key : written[k] > 0}
  /\ state \in {"idle", "scanning", "done", "failed"}
  /\ page \subseteq Key
  /\ pages \in 0..MaxPages
  /\ cursor \in BOOLEAN
  /\ policies \in Seq(Key \X ((1..MaxWrites) \ Garbage))
  /\ unreturned \subseteq present
  /\ begun \in [Key -> 0..MaxWrites]
  /\ stable \subseteq present
  /\ unread \subseteq Key

Readable(k) == k \in present /\ written[k] \notin Garbage

\* The policies were there before the program; a few keys may come later.
Init ==
  /\ present \in SUBSET Key
  /\ written = [k \in Key |-> IF k \in present THEN 1 ELSE 0]
  /\ state = "idle"
  /\ page = {} /\ pages = 0 /\ cursor = FALSE
  /\ policies = <<>>
  /\ unreturned = {}
  /\ begun = [k \in Key |-> 0]
  /\ stable = {}
  /\ unread = {}
-----------------------------------------------------------------------------
\* A reader that keeps the slice of its last call and appends to it.
StartAppending ==
  /\ state # "scanning"
  /\ state' = "scanning"
  /\ page' = {} /\ pages' = 0 /\ cursor' = TRUE
  /\ unreturned' = present
  /\ begun' = [k \in Key |-> IF k \in present THEN written[k] ELSE 0]
  /\ stable' = {k \in Key : Readable(k)}
  /\ unread' = {}
  /\ UNCHANGED <<dbVars, policies>>

\* A view asks for the policies: a new slice, an iterator with no page yet.
Start ==
  /\ state # "scanning"
  /\ state' = "scanning"
  /\ page' = {} /\ pages' = 0 /\ cursor' = TRUE
  /\ policies' = <<>>
  /\ unreturned' = present
  /\ begun' = [k \in Key |-> IF k \in present THEN written[k] ELSE 0]
  /\ stable' = {k \in Key : Readable(k)}
  /\ unread' = {}
  /\ UNCHANGED dbVars

\* iter.Next on an exhausted page fetches the next one.  External: SCAN returns
\* what was there all along at least once, anything else perhaps, and a key it
\* has returned before perhaps again.
NextPage ==
  /\ state = "scanning" /\ page = {} /\ cursor
  /\ pages < MaxPages
  /\ \E keys \in SUBSET present :
       /\ page' = keys
       /\ unreturned' = unreturned \ keys
  /\ cursor' \in {c \in BOOLEAN : c \/ unreturned' = {}}
  /\ pages + 1 = MaxPages => ~cursor'
  /\ pages' = pages + 1
  /\ UNCHANGED <<dbVars, state, policies, begun, stable, unread>>

\* A fetch that fails ends the loop; iter.Err() makes the whole call fail.
PageFails ==
  /\ state = "scanning" /\ page = {} /\ cursor
  /\ state' = "failed"
  /\ policies' = <<>>
  /\ UNCHANGED <<dbVars, page, pages, cursor, unreturned, begun, stable, unread>>

\* A loop that takes the first value it cannot use for the end.
GetStops(k) ==
  /\ state = "scanning"
  /\ k \in page
  /\ page' = IF Readable(k) THEN page \ {k} ELSE {}
  /\ cursor' = (cursor /\ Readable(k))
  /\ policies' = IF Readable(k) THEN Append(policies, <<k, written[k]>>) ELSE policies
  /\ UNCHANGED <<dbVars, state, pages, unreturned, begun, stable, unread>>

\* GET and Unmarshal: a key that is gone by now, or holds something else than
\* a policy, is skipped.
Get(k) ==
  /\ state = "scanning"
  /\ k \in page
  /\ page' = page \ {k}
  /\ policies' = IF Readable(k) THEN Append(policies, <<k, written[k]>>) ELSE policies
  /\ UNCHANGED <<dbVars, state, pages, cursor, unreturned, begun, stable, unread>>

\* A GET that fails for any other reason is skipped in the same way.
GetFails(k) ==
  /\ state = "scanning"
  /\ k \in page
  /\ page' = page \ {k}
  /\ unread' = unread \cup {k}
  /\ UNCHANGED <<dbVars, state, pages, cursor, policies, unreturned, begun, stable>>

\* The cursor is 0 and the page read: return policies, nil.
End ==
  /\ state = "scanning" /\ page = {} /\ ~cursor
  /\ state' = "done"
  /\ UNCHANGED <<dbVars, page, pages, cursor, policies, unreturned, begun, stable, unread>>
-----------------------------------------------------------------------------
\* External: tool-learning writes a policy, or something else writes garbage.
Write(k) ==
  /\ written[k] < MaxWrites
  /\ written' = [written EXCEPT ![k] = @ + 1]
  /\ present' = present \cup {k}
  /\ stable' = IF written'[k] \in Garbage THEN stable \ {k} ELSE stable
  /\ UNCHANGED <<readerVars, unreturned, begun, unread>>

\* External: a policy is deleted or expires.
Expire(k) ==
  /\ k \in present
  /\ present' = present \ {k}
  /\ stable' = stable \ {k}
  /\ unreturned' = unreturned \ {k}
  /\ UNCHANGED <<written, readerVars, begun, unread>>

Next ==
  \/ Start \/ NextPage \/ PageFails \/ End
  \/ \E k \in Key : Get(k) \/ GetFails(k) \/ Write(k) \/ Expire(k)

Spec == Init /\ [][Next]_vars
-----------------------------------------------------------------------------
Returned(k) == \E i \in DOMAIN policies : policies[i][1] = k

\* Every policy of an answer was in the store at some time during the call that
\* gave it, as far as its key tells: nothing of an earlier call or value.
FreshPolicies ==
  \A i \in DOMAIN policies :
    LET k == policies[i][1]
    IN  begun[k] <= policies[i][2] /\ policies[i][2] <= written[k]

\* An answer without an error misses no policy that was readable throughout the
\* call, whatever came and went meanwhile, unless the GET of its key failed.
NothingSkipped ==
  state = "done" => \A k \in stable \ unread : Returned(k)
=============================================================================
