--------------------------- MODULE MCTrainingRuns ---------------------------
EXTENDS TrainingRuns, TLC
CONSTANTS c1, c2, c3

Ask(kind, state, deleted, runs) ==
  [kind |-> kind, run |-> 1, suggestion |-> 1, observation |-> 1,
   state |-> state, deleted |-> deleted, runs |-> runs, reports |-> Same]
Plain(kind) == Ask(kind, None, None, FALSE)

Creations == {Ask("create", s, None, FALSE) : s \in States}
Completion == Ask("update", "completed", None, FALSE)
Restoration == Ask("update", None, FALSE, FALSE)
Changes == {Completion, Restoration, Plain("update"), Ask("update", "active", None, FALSE),
            Ask("update", "completed", TRUE, FALSE)}
Others == {Plain(k) : k \in Kinds \ {"create", "update", "deleteexp", "obscreate"}}
          \cup {Ask("deleteexp", None, None, b) : b \in BOOLEAN}
          \cup {[Plain("obscreate") EXCEPT !.reports = 1]}
          \cup {[Plain("obsupdate") EXCEPT !.reports = s] : s \in {2, None}}

\* One run with its suggestion: at work, completed and reported, or at work and deleted.
Tab(state, o, deleted) ==
  [run |-> (1 :> [suggestion |-> 1, observation |-> o, state |-> state,
                  deleted |-> deleted] @@ 2 :> NoRow),
   suggestion |-> (1 :> [deleted |-> deleted, edits |-> {}] @@ 2 :> NoRow),
   observation |-> (1 :> (IF o = None THEN NoRow ELSE
                           [suggestion |-> 1, deleted |-> deleted, edits |-> {}])
                    @@ 2 :> NoRow @@ 3 :> NoRow)]
MCInitialStates == {Tab("active", None, FALSE), Tab("completed", 1, FALSE),
                    Tab("active", None, TRUE)}

\* The first call may ask for anything, the others for what it can collide with.
MCRequests ==
  (c1 :> Creations \cup Changes \cup Others
   @@ c2 :> (Changes \cup Others) \ {Plain("update"), Plain("sugdeleteall"),
                                      Plain("sugdeleteopen"), Plain("obsdeleteall")}
   @@ c3 :> {Completion, Plain("delete"), Plain("checkpoint"),
            [Completion EXCEPT !.run = 2]})
=============================================================================
