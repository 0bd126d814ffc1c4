----------------------------- MODULE MCWebPages -----------------------------
(***************************************************************************)
(* The pages of the web application, one at a time: the user opens the     *)
(* history table, the suggestions page or the overview page, and the       *)
(* behaviours of each are explored on their own in one run.                *)
(***************************************************************************)
EXTENDS PagedTable, PolledList, PolledView

\* Rows by number, and in another order by the other column.
MCRank == [id |-> [r \in Rows |-> r], value |-> [r \in Rows |-> (r * 4) % 11]]

webVars == <<tableVars, listVars, viewVars>>
NothingOpen == ~TableOn /\ ~lister.once /\ ~watcher.once
WebInit == TableInit /\ ListInit /\ ViewInit
WebNext ==
  \/ ((NothingOpen /\ MountTable) \/ (TableOn /\ TableStep))
     /\ UNCHANGED <<listVars, viewVars>>
  \/ ((NothingOpen /\ MountList) \/ (lister.once /\ ListStep))
     /\ UNCHANGED <<tableVars, viewVars>>
  \/ ((NothingOpen /\ MountView) \/ (watcher.once /\ ViewStep))
     /\ UNCHANGED <<tableVars, listVars>>
WebSpec ==
  WebInit /\ [][WebNext]_webVars /\ TableFairness /\ ListFairness /\ ViewFairness
=============================================================================
