----------------------------- MODULE PolicyTables -----------------------------
(***************************************************************************)
(* Bridge and Systems, internal/tui/views/dashboard.go and rankings.go:    *)
(* two views with the same protocol.  Each shows the policies of the last  *)
(* load it was handed, and asks for a load every time it is entered.       *)
(***************************************************************************)
EXTENDS PolicyLoads

VARIABLE
  tables        \* DashboardModel and RankingsModel: loading, err, policies

tablesAndLoads == <<screenVars, loadVars, tables>>

TableView == {"Bridge", "Systems"}
TableModel == [loading : BOOLEAN, err : BOOLEAN, policies : Result]

TablesTypeOK ==
  /\ ScreenTypeOK
  /\ LoadsTypeOK
  /\ tables \in [TableView -> TableModel]

\* NewDashboardModel, NewRankingsModel.
NewTables ==
  tables = [v \in TableView |->
              [loading |-> TRUE, err |-> FALSE, policies |-> Failed]]

TablesInit == ScreenInit /\ LoadsInit /\ NewTables
-----------------------------------------------------------------------------
\* A view that has its policies is not asked to load again.
SwitchUnlessLoaded(v) ==
  /\ IF v \in TableView /\ ~tables[v].loading
       THEN Show(v) /\ UNCHANGED loadVars
       ELSE SwitchView(v)
  /\ UNCHANGED tables

\* A view key leaves every table as it is: the old one stays on the screen, and
\* is not marked as loading, until the new load arrives.
TablesSwitch(v) == SwitchView(v) /\ UNCHANGED tables

\* The loading flag is only taken back when there is something to show.
TableLoadedStuck(v, r) ==
  /\ currentView = v
  /\ Take(r)
  /\ tables' = [tables EXCEPT ![v] =
                  [loading |-> r = Failed, err |-> r = Failed, policies |-> r]]

\* A policiesLoadedMsg delivered to the table on the screen.
TableLoaded(v, r) ==
  /\ currentView = v
  /\ Take(r)
  /\ tables' = [tables EXCEPT ![v] =
                  [loading |-> FALSE, err |-> r = Failed, policies |-> r]]

\* A policiesLoadedMsg delivered to another view.
LoadPastTables(r) ==
  /\ currentView \notin TableView
  /\ Take(r)
  /\ UNCHANGED tables

TablesDeliver ==
  \E r \in Result : (\E v \in TableView : TableLoaded(v, r)) \/ LoadPastTables(r)

TablesEnvironment == (ReadAll \/ StoreChanges) /\ UNCHANGED tables

TablesNext == (\E v \in View : TablesSwitch(v)) \/ TablesDeliver \/ TablesEnvironment

TablesSpec == TablesInit /\ [][TablesNext]_tablesAndLoads

\* As in Mission: reads end and messages are delivered.
TablesFairSpec ==
  /\ TablesSpec
  /\ WF_tablesAndLoads(ReadAll /\ UNCHANGED tables)
  /\ WF_tablesAndLoads(TablesDeliver)
-----------------------------------------------------------------------------
\* "Loading policies..." is only shown while a load is on its way, although the
\* answer to a load this view asked for may have been handed to another view.
OnScreenLoads ==
  \A v \in TableView :
    currentView = v /\ tables[v].loading => LoadOnTheWay

\* Entering a view refreshes it: once the loads in flight have arrived, the
\* table on the screen shows an error or something no older than the store was
\* when these loads began, however many views they were asked for by.
Refreshed ==
  \A v \in TableView :
    currentView = v /\ ~LoadOnTheWay /\ ~tables[v].err
      => tables[v].policies >= since

\* A user who stays on a table sees it loaded.
TableFills ==
  \A v \in TableView :
    currentView = v ~> (~tables[v].loading \/ currentView # v)

\* app.go:168 "Other views re-init to refresh data": a load never replaces the
\* table on the screen by an older one.
NeverBackInTime ==
  [][\A v \in TableView :
       tables'[v].policies # Failed => tables'[v].policies >= tables[v].policies]_tablesAndLoads
=============================================================================
