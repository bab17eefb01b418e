------------------------------- MODULE Screen -------------------------------
(***************************************************************************)
(* The root model of the TUI (internal/tui/app.go) as far as every screen  *)
(* depends on it: which view has the focus.  Bubble Tea hands a message to *)
(* the root Update, and Update hands everything that is not a view key to  *)
(* the view that has the focus AT DELIVERY TIME, whichever view asked for  *)
(* it.  Every component below therefore shares currentView.                *)
(***************************************************************************)
EXTENDS Naturals

CONSTANT
  MaxKeys       \* bound: the view keys (m b s t a l) the user presses

ASSUME KeysAssumption == MaxKeys \in Nat

VARIABLES
  currentView,  \* Model.currentView
  keys          \* view keys pressed so far; only there to bound the user

screenVars == <<currentView, keys>>

View == {"Mission", "Bridge", "Systems", "Sampling", "Agents", "Log"}

ScreenTypeOK ==
  /\ currentView \in View
  /\ keys \in 0..MaxKeys

\* NewModel: the program opens on the mission.
ScreenInit ==
  /\ currentView = "Mission"
  /\ keys = 0

\* The first statement of switchView.  It runs for the view already shown too.
Show(v) ==
  /\ keys < MaxKeys
  /\ keys' = keys + 1
  /\ currentView' = v
=============================================================================
