------------------------------- MODULE MCViews -------------------------------
(***************************************************************************)
(* What the core and the window make of the stored data: the views it       *)
(* remembers, the data set's files, the activities and the rows that show   *)
(* them, the timeline's days, the snapshot page, and an application's       *)
(* history while some of it is deleted.  A behaviour is one of one part;    *)
(* the others stay as they begin.                                           *)
(***************************************************************************)
EXTENDS TimelineCache, Dataset, HistoryRows, HistoryPaging, SnapshotPanel, AppHistory

CONSTANT Parts

VARIABLE part

MCStretches == {[from |-> 1, until |-> 3], [from |-> 2, until |-> 4]}

ViewsInit ==
  /\ part \in Parts
  /\ CacheInit /\ DatasetInit /\ ShownInit /\ HistoryInit /\ PanelInit /\ AppHistoryInit
  /\ part # "dataset" => Here.database.schema = Latest
  /\ part # "days" => oldest = 1

ViewsNext ==
  /\ UNCHANGED part
  /\ \/ /\ part = "cache" /\ CacheNext
        /\ UNCHANGED <<datasetVars, rowVars, shownVars, pagingVars, panelVars, historyVars>>
     \/ /\ part = "dataset" /\ DatasetNext
        /\ UNCHANGED <<cacheVars, rowVars, shownVars, pagingVars, panelVars, historyVars>>
     \/ /\ part = "rows" /\ RowsNext
        /\ UNCHANGED <<cacheVars, datasetVars, shownVars, pagingVars, panelVars, historyVars>>
     \/ /\ part = "shown" /\ ShownNext
        /\ UNCHANGED <<cacheVars, datasetVars, pagingVars, panelVars, historyVars>>
     \/ /\ part = "days" /\ HistoryNext
        /\ UNCHANGED <<cacheVars, datasetVars, rowVars, shownVars, panelVars, historyVars>>
     \/ /\ part = "panel" /\ PanelNext
        /\ UNCHANGED <<cacheVars, datasetVars, rowVars, shownVars, pagingVars, historyVars>>
     \/ /\ part = "application" /\ AppHistoryNext
        /\ UNCHANGED <<cacheVars, datasetVars, rowVars, shownVars, pagingVars, panelVars>>

ViewsSpec ==
  ViewsInit
    /\ [][ViewsNext]_<<part, cacheVars, datasetVars, rowVars, shownVars, pagingVars, panelVars,
                       historyVars>>

\* Every part's variables have their types, and its memory its limit.
ViewsTypeOK ==
  /\ CacheTypeOK /\ DatasetTypeOK /\ RowsTypeOK
  /\ ShownTypeOK /\ HistoryTypeOK /\ PanelTypeOK /\ AppHistoryTypeOK
=============================================================================
