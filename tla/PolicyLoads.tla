----------------------------- MODULE PolicyLoads -----------------------------
(***************************************************************************)
(* The commands that read the policies.  Mission, Bridge, Systems and      *)
(* Sampling all issue the same command (ReadAll, then a policiesLoadedMsg) *)
(* and the message carries nothing that says which of them asked: root     *)
(* Update hands it to the view that has the focus when it arrives.  Each   *)
(* command runs in a goroutine of its own, so answers arrive in any order. *)
(*                                                                         *)
(* What the store holds is abstracted to a version number, 1 on start and  *)
(* one more with every change tool-learning makes.                         *)
(***************************************************************************)
EXTENDS Screen, FiniteSets

CONSTANTS
  MaxVersion,   \* bound: versions the store goes through
  Empty,        \* the versions with no policy under the key prefix
  Live          \* TRUE: a Valkey that changes and may fail; FALSE: embedded

ASSUME VersionAssumption ==
  /\ MaxVersion \in Nat \ {0}
  /\ Empty \subseteq 1..MaxVersion
  /\ Live \in BOOLEAN

VARIABLES
  store,        \* the version now in the store
  reading,      \* commands that have not read the store yet
  arrived,      \* policiesLoadedMsg in flight, counted by what they carry
  since         \* history: nothing in flight was asked for before this version

loadVars == <<store, reading, arrived, since>>

Failed == 0     \* err # nil, and the nil slice that comes with it
Result == 0..MaxVersion
NoPolicies == {Failed} \cup Empty   \* results with len(policies) = 0

LoadOnTheWay == reading > 0 \/ \E r \in Result : arrived[r] > 0

\* The answers in flight, the i-th of those that carry r as <<r, i>>.
Answers == UNION {{r} \X (1..arrived[r]) : r \in Result}
LoadsInFlight == reading + Cardinality(Answers)

LoadsTypeOK ==
  /\ store \in 1..MaxVersion
  /\ reading \in Nat
  /\ arrived \in [Result -> Nat]
  /\ since \in 1..store

\* Model.Init: the mission's load is the first command of the program.
LoadsInit ==
  /\ store = 1
  /\ reading = 1
  /\ arrived = [r \in Result |-> 0]
  /\ since = 1

\* The views whose Init issues a load each time switchView shows them.  The
\* mission's is not among them: initialized[ViewMission] is true from NewModel.
Reloading == {"Bridge", "Systems", "Sampling"}

\* A view key, as far as loads are concerned.
SwitchView(v) ==
  /\ Show(v)
  /\ IF v \in Reloading
       THEN /\ reading' = reading + 1
            /\ since' = IF LoadOnTheWay THEN since ELSE store
       ELSE UNCHANGED <<reading, since>>
  /\ UNCHANGED <<store, arrived>>

\* A command gets its answer from the store, or an error from the client.
ReadAll ==
  /\ reading > 0
  /\ reading' = reading - 1
  /\ \E r \in {store} \cup (IF Live THEN {Failed} ELSE {}) :
       arrived' = [arrived EXCEPT ![r] = @ + 1]
  /\ UNCHANGED <<screenVars, store, since>>

\* External: the tool-learning service writes policies.
StoreChanges ==
  /\ Live
  /\ store < MaxVersion
  /\ store' = store + 1
  /\ UNCHANGED <<screenVars, reading, arrived, since>>

\* A policiesLoadedMsg leaves the queue; the view that has the focus gets it.
Take(r) ==
  /\ arrived[r] > 0
  /\ arrived' = [arrived EXCEPT ![r] = @ - 1]
  /\ UNCHANGED <<screenVars, store, reading, since>>
-----------------------------------------------------------------------------
\* No load answers with something older than the store held when the first of
\* the loads now in flight was asked for.
LoadsFresh == \A r \in Result : arrived[r] > 0 => r = Failed \/ r >= since
=============================================================================
