---------------------------- MODULE TrainingRuns ----------------------------
(***************************************************************************)
(* Training runs of one AI experiment with their suggestions, observations *)
(* and checkpoints (handlers/training_runs, handlers/aiexperiments, the    *)
(* handlers of suggestions and observations that reach the same rows, and  *)
(* the services behind them).                                              *)
(*                                                                         *)
(* A handler changes several tables by statements that commit one by one,  *)
(* and writes some rows back whole as it read them before.  Every          *)
(* statement that writes is an action; reads that follow each other are    *)
(* one action, apart from those that the code compares.  A call that is    *)
(* refused before its first write does not begin.                          *)
(***************************************************************************)
EXTENDS Naturals, FiniteSets

CONSTANTS
  Runs, Suggestions, Observations,  \* ids of rows
  Calls,                \* API calls, each made once
  Requests,             \* what each call may ask for
  InitialStates,        \* tables the calls may start from
  MaxCheckpoints,       \* 200 in the code
  Mortal,               \* bound: the calls whose process may die in the middle
  NoRow, NoRequest, None,
  Same                  \* what an update of an observation does not change

States == {"active", "completed"}    \* "failed" is treated like "completed"
RunRow == [suggestion: Suggestions \cup {None}, observation: Observations \cup {None},
           state: States, deleted: BOOLEAN]
\* edits stands for the data of the row: the calls whose changes it contains.
SuggestionRow == [deleted: BOOLEAN, edits: SUBSET Calls]
ObservationRow == [suggestion: Suggestions \cup {None}, deleted: BOOLEAN,
                   edits: SUBSET Calls]
RunTable == [Runs -> RunRow \cup {NoRow}]
SuggestionTable == [Suggestions -> SuggestionRow \cup {NoRow}]
ObservationTable == [Observations -> ObservationRow \cup {NoRow}]

RunKinds == {"update", "delete", "checkpoint"}
SuggestionDeletions == {"sugdelete", "sugdeleteall", "sugdeleteopen"}
ObservationDeletions == {"obsdelete", "obsdeleteall"}
Kinds == RunKinds \cup SuggestionDeletions \cup ObservationDeletions
         \cup {"create", "deleteexp", "restoreexp", "obscreate", "obsupdate", "sugupdate"}
\* state and deleted are None where the request does not give them; runs is the
\* option include_runs of a deletion of the experiment; reports is the suggestion
\* that the body of an observation names, or None if it gives assignments.
Request == [kind: Kinds, run: Runs, suggestion: Suggestions, observation: Observations,
            state: States \cup {None}, deleted: BOOLEAN \cup {None}, runs: BOOLEAN,
            reports: Suggestions \cup {None, Same}]
Tables == [run: RunTable, suggestion: SuggestionTable, observation: ObservationTable]

ASSUME NullAssumption ==
  /\ None \notin Suggestions /\ None \notin Observations /\ None \notin Calls
  /\ None \notin States /\ None \notin BOOLEAN /\ Same \notin Suggestions \cup {None}
  /\ NoRow \notin RunRow /\ NoRow \notin SuggestionRow /\ NoRow \notin ObservationRow
  /\ NoRequest \notin Request
ASSUME InputAssumption ==
  /\ Requests \in [Calls -> SUBSET Request]
  /\ \A c \in Calls : \A q \in Requests[c] : q.kind = "obscreate" => q.reports # Same
  /\ InitialStates \subseteq Tables
  /\ Mortal \subseteq Calls
  /\ MaxCheckpoints \in Nat
ASSUME StartAssumption ==  \* what is in the tables before is in order
  \A t \in InitialStates :
    /\ \A r \in Runs : t.run[r] # NoRow =>
         /\ t.run[r].observation # None => t.observation[t.run[r].observation] # NoRow
         /\ t.run[r].suggestion # None =>
              /\ t.suggestion[t.run[r].suggestion] # NoRow
              /\ t.run[r].state = "completed" => t.run[r].observation # None
              /\ \A r2 \in Runs : (r2 # r /\ t.run[r2] # NoRow)   \* UNIQUE(suggestion_id)
                                   => t.run[r2].suggestion # t.run[r].suggestion
    \* What is reported is there, is named by its run, and is reported once.
    /\ \A o \in Observations :
         (t.observation[o] # NoRow /\ t.observation[o].suggestion # None) =>
           /\ t.suggestion[t.observation[o].suggestion] # NoRow
           /\ \A r \in Runs :
                (t.run[r] # NoRow /\ t.run[r].suggestion = t.observation[o].suggestion)
                  => t.run[r].observation # None
           /\ \A o2 \in Observations : (o2 # o /\ t.observation[o2] # NoRow)
                => t.observation[o2].suggestion # t.observation[o].suggestion

ASSUME TogetherAssumption ==  \* and a run agrees with its suggestion and its observation
  \A t \in InitialStates, r \in Runs : t.run[r] # NoRow =>
    /\ t.run[r].suggestion # None
         => t.suggestion[t.run[r].suggestion].deleted = t.run[r].deleted
    /\ t.run[r].observation # None =>
         /\ t.observation[t.run[r].observation].deleted = t.run[r].deleted
         /\ \A r2 \in Runs : (r2 # r /\ t.run[r2] # NoRow)
              => t.run[r2].observation # t.run[r].observation

VARIABLES
  run, suggestion, observation,  \* training_runs, suggestions_processed, observations
  checkpoints,   \* checkpoints of each run, by the calls that created them
  gone,          \* the deleted flag of the experiment
  pc,            \* where each call is
  req,           \* what it was asked for
  held,          \* the run as it last read it, or is about to insert it
  marked,        \* the suggestions it is about to flag
  kept,          \* the suggestion it is about to write back, as it read it
  copies,        \* the observations it is about to write back, as it read them
  met,           \* history: the calls that were under way at the same time
  author,        \* history: the call that created each suggestion, observation, run
  revived        \* history: suggestions that a write-back has undeleted

tables == <<run, suggestion, observation, checkpoints, gone>>
locals == <<req, held, marked, kept, copies>>
history == <<met, author, revived>>
vars == <<tables, pc, locals, history>>

Rows == (Runs \X {"run"}) \cup (Suggestions \X {"suggestion"})
        \cup (Observations \X {"observation"})
Labels == {"idle", "serve_suggestion", "serve_observation", "insert_run", "reread",
  "flag_suggestions", "read_observations", "write_observations", "flag_run", "write",
  "examine", "recheck", "insert_observation", "name_observation", "flag_runs",
  "flag_experiment", "insert_reported", "rewrite", "upsert", "insert_checkpoint",
  "done", "failed", "dead"}
Ended == {"done", "failed", "dead"}
Active(c) == pc[c] \notin {"idle"} \cup Ended
NoCopies == [o \in Observations |-> NoRow]

TypeOK ==
  /\ run \in RunTable
  /\ suggestion \in SuggestionTable
  /\ observation \in ObservationTable
  /\ checkpoints \in [Runs -> SUBSET Calls]
  /\ gone \in BOOLEAN
  /\ pc \in [Calls -> Labels]
  /\ req \in [Calls -> Request \cup {NoRequest}]
  /\ held \in [Calls -> RunRow \cup {NoRow}]
  /\ marked \in [Calls -> SUBSET Suggestions]
  /\ kept \in [Calls -> SuggestionRow \cup {NoRow}]
  /\ copies \in [Calls -> ObservationTable]
  /\ met \in [Calls -> SUBSET Calls]
  /\ author \in [Rows -> Calls \cup {None}]
  /\ revived \subseteq Suggestions

-----------------------------------------------------------------------------
(* What the handlers read *)

Alive(table, id) == table[id] # NoRow /\ ~table[id].deleted
New(table) == CHOOSE id \in DOMAIN table : table[id] = NoRow
Full(table) == \A id \in DOMAIN table : table[id] # NoRow
Run(c) == run[req[c].run]
\* Suggestions in use that no observation, deleted or not, has reported.
Open == {s \in Suggestions : Alive(suggestion, s)
           /\ \A o \in Observations : observation[o] # NoRow
                                        => observation[o].suggestion # s}
\* The flag that the call sets.
Flag(c) == req[c].kind = "update" => req[c].deleted = TRUE
FlagOrFalse(q, row) == \* mutant: a flag that is not given is false
  row.deleted # (q.deleted = TRUE)
FlagChanges(q, row) == q.deleted # None /\ q.deleted # row.deleted
\* Where an update goes once the flags are right.
Onward(q) == IF q.state # None THEN "write" ELSE "examine"
PastObservations(row) == "flag_run"   \* mutant: the observation is forgotten
ToObservations(row) == IF row.observation # None THEN "read_observations" ELSE "flag_run"

-----------------------------------------------------------------------------
(* A request arrives *)

Goto(c, label) == pc' = [pc EXCEPT ![c] = label]

\* The requests that may arrive as call c: none once it has begun.
Asked(c) == IF pc[c] = "idle" THEN Requests[c] ELSE {}

Begin(c, q, label) ==
  /\ pc[c] = "idle" /\ q \in Requests[c]
  /\ req' = [req EXCEPT ![c] = q]
  /\ Goto(c, label)
  /\ met' = [d \in Calls |-> IF d = c THEN {e \in Calls : Active(e)}
                             ELSE IF Active(d) THEN met[d] \cup {c} ELSE met[d]]
  /\ UNCHANGED <<tables, held, author, revived>>

BeginCreateAnyway(c) == \* mutant: a deleted experiment takes new runs
  /\ \E q \in Asked(c) : q.kind = "create" /\ Begin(c, q,
       IF q.state = "completed" THEN "serve_observation" ELSE "serve_suggestion")
  /\ UNCHANGED <<marked, kept, copies>>
BeginCreate(c) ==
  /\ ~gone
  /\ \E q \in Asked(c) : q.kind = "create" /\ Begin(c, q,
       IF q.state = "completed" THEN "serve_observation" ELSE "serve_suggestion")
  /\ UNCHANGED <<marked, kept, copies>>

BeginUpdate(c) ==
  /\ \E q \in Asked(c) :
       /\ q.kind = "update" /\ run[q.run] # NoRow
       /\ Begin(c, q, IF FlagChanges(q, run[q.run]) THEN "reread" ELSE Onward(q))
  /\ UNCHANGED <<marked, kept, copies>>

BeginDelete(c) ==
  /\ \E q \in Asked(c) :
       q.kind = "delete" /\ run[q.run] # NoRow /\ Begin(c, q, "reread")
  /\ UNCHANGED <<marked, kept, copies>>

BeginDeleteExperiment(c) ==
  /\ \E q \in Asked(c) : q.kind = "deleteexp"
                            /\ Begin(c, q, IF q.runs THEN "flag_runs" ELSE "flag_experiment")
  /\ marked' = [marked EXCEPT ![c] = Suggestions]
  /\ UNCHANGED <<kept, copies>>

\* AiExperimentsUpdateHandler with state "active"
BeginRestoreExperiment(c) ==
  /\ \E q \in Asked(c) : q.kind = "restoreexp" /\ Begin(c, q, "flag_experiment")
  /\ UNCHANGED <<marked, kept, copies>>

BeginSuggestionUpdate(c) ==
  /\ \E q \in Asked(c) :
       /\ q.kind = "sugupdate" /\ Alive(suggestion, q.suggestion)
       /\ Begin(c, q, "upsert")
       /\ kept' = [kept EXCEPT ![c] = suggestion[q.suggestion]]
  /\ UNCHANGED <<marked, copies>>

BeginSuggestionsDelete(c) ==
  /\ \E q \in Asked(c) :
       /\ q.kind \in SuggestionDeletions
       /\ q.kind = "sugdelete" => Alive(suggestion, q.suggestion)
       /\ Begin(c, q, "flag_suggestions")
       /\ marked' = [marked EXCEPT ![c] =
            CASE q.kind = "sugdelete" -> {q.suggestion}
              [] q.kind = "sugdeleteall" -> Suggestions
              [] q.kind = "sugdeleteopen" -> Open]
  /\ UNCHANGED <<kept, copies>>

\* An observation may name any suggestion in use, though the run that reports it is
\* another; or none.
Nameable(s) == s \in Suggestions => Alive(suggestion, s)

\* ObservationsCreateMultiHandler, which does not refuse an experiment that takes runs
\* only; a batch of several is like calls of one each that insert one after the other.
BeginObservationCreate(c) ==
  /\ ~gone
  /\ \E q \in Asked(c) :
       q.kind = "obscreate" /\ Nameable(q.reports) /\ Begin(c, q, "insert_reported")
  /\ UNCHANGED <<marked, kept, copies>>

BeginObservationUpdate(c) ==
  /\ \E q \in Asked(c) :
       /\ q.kind = "obsupdate" /\ Alive(observation, q.observation) /\ Nameable(q.reports)
       /\ Begin(c, q, "rewrite")
       /\ copies' = [copies EXCEPT ![c][q.observation] = observation[q.observation]]
  /\ UNCHANGED <<marked, kept>>

BeginObservationsDelete(c) ==
  /\ \E q \in Asked(c) :
       /\ q.kind \in ObservationDeletions
       /\ q.kind = "obsdelete" => Alive(observation, q.observation)
       /\ Begin(c, q, "read_observations")
  /\ UNCHANGED <<marked, kept, copies>>

MayAddUpTo(n, row) == n <= MaxCheckpoints /\ row.observation = None \* mutant: off by one
MayAdd(n, row) == n < MaxCheckpoints /\ row.observation = None
BeginCheckpoint(c) ==
  /\ \E q \in Asked(c) :
       /\ q.kind = "checkpoint" /\ run[q.run] # NoRow
       /\ MayAdd(Cardinality(checkpoints[q.run]), run[q.run])
       /\ Begin(c, q, "insert_checkpoint")
  /\ UNCHANGED <<marked, kept, copies>>

-----------------------------------------------------------------------------
(* Creating a run *)

At(c, label) == pc[c] = label
Insert(table, c, kind) ==   \* there is a new id, and c is the author of its row
  /\ ~Full(table)
  /\ author' = [author EXCEPT ![<<New(table), kind>>] = c]

\* A suggestion is served, or assignments that came with the request are refused.
ServeSuggestion(c) ==
  /\ At(c, "serve_suggestion") /\ Goto(c, "insert_run")
  /\ \/ /\ Insert(suggestion, c, "suggestion")
        /\ suggestion' = [suggestion EXCEPT ![New(suggestion)] =
                            [deleted |-> FALSE, edits |-> {}]]
        /\ held' = [held EXCEPT ![c] = [suggestion |-> New(suggestion), observation |-> None,
                                        state |-> "active", deleted |-> FALSE]]
     \/ /\ held' = [held EXCEPT ![c] = [suggestion |-> None, observation |-> None,
                                        state |-> "active", deleted |-> FALSE]]
        /\ UNCHANGED <<suggestion, author>>
  /\ UNCHANGED <<run, observation, checkpoints, gone, req, marked, kept, copies, met,
                 revived>>

\* A run that is created completed brings its observation, unless it is refused.
ServeObservation(c) ==
  /\ At(c, "serve_observation") /\ Goto(c, "insert_run")
  /\ \/ /\ Insert(observation, c, "observation")
        /\ observation' = [observation EXCEPT ![New(observation)] =
                             [suggestion |-> None, deleted |-> FALSE, edits |-> {}]]
        /\ held' = [held EXCEPT ![c] = [suggestion |-> None, observation |-> New(observation),
                                        state |-> "completed", deleted |-> FALSE]]
     \/ /\ held' = [held EXCEPT ![c] = [suggestion |-> None, observation |-> None,
                                        state |-> "completed", deleted |-> FALSE]]
        /\ UNCHANGED <<observation, author>>
  /\ UNCHANGED <<run, suggestion, checkpoints, gone, req, marked, kept, copies, met,
                 revived>>

InsertRun(c) ==
  /\ At(c, "insert_run") /\ Goto(c, "done")
  /\ Insert(run, c, "run")
  /\ run' = [run EXCEPT ![New(run)] = held[c]]
  /\ held' = [held EXCEPT ![c] = NoRow]
  /\ UNCHANGED <<suggestion, observation, checkpoints, gone, req, marked, kept, copies,
                 met, revived>>

-----------------------------------------------------------------------------
(* Setting deleted flags, of a run and what belongs to it, or of everything *)

Reread(c) ==
  /\ At(c, "reread")
  /\ held' = [held EXCEPT ![c] = Run(c)]
  /\ marked' = [marked EXCEPT ![c] = {Run(c).suggestion} \ {None}]
  /\ Goto(c, IF Run(c).suggestion # None THEN "flag_suggestions" ELSE ToObservations(Run(c)))
  /\ UNCHANGED <<tables, req, kept, copies, history>>

FlagSuggestions(c) ==
  /\ At(c, "flag_suggestions")
  /\ suggestion' = [s \in Suggestions |->
                      IF s \in marked[c] /\ suggestion[s] # NoRow
                        THEN [suggestion[s] EXCEPT !.deleted = Flag(c)] ELSE suggestion[s]]
  /\ marked' = [marked EXCEPT ![c] = {}]
  /\ Goto(c, CASE req[c].kind \in {"update", "delete"} -> ToObservations(held[c])
               [] req[c].kind = "deleteexp" -> "read_observations"
               [] OTHER -> "done")
  /\ UNCHANGED <<run, observation, checkpoints, gone, req, held, kept, copies, history>>

\* A single observation is read whatever its flag, all of them are read undeleted.
ToCopy(c) ==
  CASE req[c].kind \in {"update", "delete"} -> {held[c].observation} \ {None}
    [] req[c].kind = "obsdelete" -> {req[c].observation}
    [] OTHER -> {o \in Observations : Alive(observation, o)}

ReadObservations(c) ==
  /\ At(c, "read_observations") /\ Goto(c, "write_observations")
  /\ copies' = [copies EXCEPT ![c] = [o \in Observations |->
                  IF o \in ToCopy(c) THEN observation[o] ELSE NoRow]]
  /\ UNCHANGED <<tables, req, held, marked, kept, history>>

Emptied(c, row) == \* mutant: the data starts afresh instead of being copied
  [row EXCEPT !.deleted = Flag(c), !.edits = {}]
Flagged(c, row) == [row EXCEPT !.deleted = Flag(c)]
WriteObservations(c) ==
  /\ At(c, "write_observations")
  /\ observation' = [o \in Observations |-> IF copies[c][o] # NoRow
                       THEN Flagged(c, copies[c][o]) ELSE observation[o]]
  /\ copies' = [copies EXCEPT ![c] = NoCopies]
  /\ Goto(c, CASE req[c].kind \in {"update", "delete"} -> "flag_run"
               [] req[c].kind = "deleteexp" -> "flag_experiment"
               [] OTHER -> "done")
  /\ UNCHANGED <<run, suggestion, checkpoints, gone, req, held, marked, kept, history>>

FlagRun(c) ==
  /\ At(c, "flag_run")
  /\ run' = [run EXCEPT ![req[c].run].deleted = Flag(c)]
  /\ held' = [held EXCEPT ![c] = NoRow]
  /\ Goto(c, IF req[c].kind = "update" THEN Onward(req[c]) ELSE "done")
  /\ UNCHANGED <<suggestion, observation, checkpoints, gone, req, marked, kept, copies,
                 history>>

FlagRuns(c) ==
  /\ At(c, "flag_runs") /\ Goto(c, "flag_suggestions")
  /\ run' = [r \in Runs |-> IF run[r] # NoRow
                              THEN [run[r] EXCEPT !.deleted = TRUE] ELSE NoRow]
  /\ UNCHANGED <<suggestion, observation, checkpoints, gone, locals, history>>

FlagExperiment(c) ==
  /\ At(c, "flag_experiment") /\ Goto(c, "done")
  /\ gone' = (req[c].kind = "deleteexp")
  /\ UNCHANGED <<run, suggestion, observation, checkpoints, locals, history>>

-----------------------------------------------------------------------------
(* Updating a run, and reporting it once it is completed *)

Write(c) ==
  /\ At(c, "write") /\ Goto(c, "examine")
  /\ run' = [run EXCEPT ![req[c].run].state = req[c].state]
  /\ UNCHANGED <<suggestion, observation, checkpoints, gone, locals, history>>

ReportableAgain(row) == \* mutant: whether it is reported already is not asked
  /\ row.state = "completed"
  /\ row.suggestion # None /\ Alive(suggestion, row.suggestion)
Reportable(row) ==
  /\ row.state = "completed" /\ row.observation = None
  /\ row.suggestion # None /\ Alive(suggestion, row.suggestion)

ExamineIfGiven(c) == \* mutant: only an update that gives a state looks
  /\ At(c, "examine")
  /\ held' = [held EXCEPT ![c] = IF Reportable(Run(c)) THEN Run(c) ELSE NoRow]
  /\ Goto(c, IF Reportable(Run(c)) /\ req[c].state = "completed" THEN "recheck" ELSE "done")
  /\ UNCHANGED <<tables, req, marked, kept, copies, history>>
Examine(c) ==
  /\ At(c, "examine")
  /\ held' = [held EXCEPT ![c] = IF Reportable(Run(c)) THEN Run(c) ELSE NoRow]
  /\ Goto(c, IF Reportable(Run(c)) THEN "recheck" ELSE "done")
  /\ UNCHANGED <<tables, req, marked, kept, copies, history>>

\* The observation is built from the suggestion, which must still be in use.
Recheck(c) ==
  /\ At(c, "recheck")
  /\ Goto(c, IF Alive(suggestion, held[c].suggestion) THEN "insert_observation" ELSE "failed")
  /\ UNCHANGED <<tables, locals, history>>

InsertObservation(c) ==
  /\ At(c, "insert_observation") /\ Goto(c, "name_observation")
  /\ Insert(observation, c, "observation")
  /\ observation' = [observation EXCEPT ![New(observation)] =
                       [suggestion |-> held[c].suggestion, deleted |-> FALSE, edits |-> {}]]
  /\ held' = [held EXCEPT ![c].observation = New(observation)]
  /\ UNCHANGED <<run, suggestion, checkpoints, gone, req, marked, kept, copies, met,
                 revived>>

NameObservation(c) ==
  /\ At(c, "name_observation") /\ Goto(c, "done")
  /\ run' = [run EXCEPT ![req[c].run].observation = held[c].observation]
  /\ held' = [held EXCEPT ![c] = NoRow]
  /\ UNCHANGED <<suggestion, observation, checkpoints, gone, req, marked, kept, copies,
                 history>>

-----------------------------------------------------------------------------
(* Observations that a client reports, updates of one row, written back whole, *)
(* and checkpoints                                                             *)

InsertReported(c) ==
  /\ At(c, "insert_reported") /\ Goto(c, "done")
  /\ Insert(observation, c, "observation")
  /\ observation' = [observation EXCEPT ![New(observation)] =
                       [suggestion |-> req[c].reports, deleted |-> FALSE, edits |-> {}]]
  /\ UNCHANGED <<run, suggestion, checkpoints, gone, locals, met, revived>>

Rewritten(c) ==
  [copies[c][req[c].observation] EXCEPT
     !.suggestion = IF req[c].reports = Same THEN @ ELSE req[c].reports,
     !.edits = @ \cup {c}]
Rewrite(c) ==
  /\ At(c, "rewrite") /\ Goto(c, "done")
  /\ observation' = [observation EXCEPT ![req[c].observation] = Rewritten(c)]
  /\ copies' = [copies EXCEPT ![c] = NoCopies]
  /\ UNCHANGED <<run, suggestion, checkpoints, gone, req, held, marked, kept, history>>

Upsert(c) ==
  /\ At(c, "upsert") /\ Goto(c, "done")
  /\ LET s == req[c].suggestion
     IN /\ suggestion' = [suggestion EXCEPT ![s] =
                            [kept[c] EXCEPT !.edits = @ \cup {c}]]
        /\ revived' = IF suggestion[s].deleted THEN revived \cup {s} ELSE revived
  /\ kept' = [kept EXCEPT ![c] = NoRow]
  /\ UNCHANGED <<run, observation, checkpoints, gone, req, held, marked, copies, met,
                 author>>

InsertCheckpoint(c) ==
  /\ At(c, "insert_checkpoint") /\ Goto(c, "done")
  /\ checkpoints' = [checkpoints EXCEPT ![req[c].run] = @ \cup {c}]
  /\ UNCHANGED <<run, suggestion, observation, gone, locals, history>>

\* The process dies.
Crash(c) ==
  /\ c \in Mortal /\ Active(c) /\ Goto(c, "dead")
  /\ UNCHANGED <<tables, locals, history>>

-----------------------------------------------------------------------------
Init ==
  /\ \E t \in InitialStates :
       run = t.run /\ suggestion = t.suggestion /\ observation = t.observation
  /\ checkpoints = [r \in Runs |-> {}]
  /\ gone = FALSE
  /\ pc = [c \in Calls |-> "idle"]
  /\ req = [c \in Calls |-> NoRequest]
  /\ held = [c \in Calls |-> NoRow]
  /\ marked = [c \in Calls |-> {}]
  /\ kept = [c \in Calls |-> NoRow]
  /\ copies = [c \in Calls |-> NoCopies]
  /\ met = [c \in Calls |-> {}]
  /\ author = [x \in Rows |-> None]
  /\ revived = {}

Arrive(c) ==
  \/ BeginCreate(c) \/ BeginUpdate(c) \/ BeginDelete(c) \/ BeginDeleteExperiment(c)
  \/ BeginRestoreExperiment(c) \/ BeginSuggestionUpdate(c) \/ BeginSuggestionsDelete(c)
  \/ BeginObservationCreate(c) \/ BeginObservationUpdate(c) \/ BeginObservationsDelete(c)
  \/ BeginCheckpoint(c)
Step(c) ==
  \/ ServeSuggestion(c) \/ ServeObservation(c) \/ InsertRun(c)
  \/ Reread(c) \/ FlagSuggestions(c) \/ ReadObservations(c) \/ WriteObservations(c)
  \/ FlagRun(c) \/ FlagRuns(c) \/ FlagExperiment(c)
  \/ Write(c) \/ Examine(c) \/ Recheck(c) \/ InsertObservation(c) \/ NameObservation(c)
  \/ InsertReported(c) \/ Rewrite(c) \/ Upsert(c) \/ InsertCheckpoint(c)
Next == \E c \in Calls : Arrive(c) \/ Step(c) \/ Crash(c)
Spec == Init /\ [][Next]_vars

-----------------------------------------------------------------------------
(* Properties *)

Is(c, kind) == req[c] # NoRequest /\ req[c].kind = kind
Answered(c) == pc[c] = "done"
Met(c, d) == d \in met[c]
Updates(c, r) == Is(c, "update") /\ req[c].run = r

\* An update that has still to look whether the run is to be reported, or reports it.
Looking == {"reread", "flag_suggestions", "read_observations", "write_observations",
            "flag_run", "write", "examine", "recheck", "insert_observation",
            "name_observation"}
WillLook(c, r) == Updates(c, r) /\ pc[c] \in Looking

\* A completed run whose suggestion is in use names its observation, or an update of
\* it is on the way that will see to that: after its last write every update looks at
\* the run again (update.py:206-211), so that of an update that completes the run and
\* one that restores its suggestion the later one reports it.  Unless a process died
\* on the way, or the suggestion was undeleted by a write-back of the suggestion.
CompletedIsReported ==
  \A r \in Runs :
    (run[r] # NoRow /\ Reportable(run[r]))
      => \/ \E c \in Calls : WillLook(c, r)
         \/ \E c \in Calls : Updates(c, r) /\ pc[c] = "dead"
         \/ run[r].suggestion \in revived

\* A client has made the observation report its suggestion, by a batch of observations
\* or an update of this one, and not a handler of runs.
NamedByClient(o) ==
  LET a == author[<<o, "observation">>] IN
  \/ a # None /\ Is(a, "obscreate")
  \/ \E c \in observation[o].edits :
       Is(c, "obsupdate") /\ req[c].reports = observation[o].suggestion
\* Two observations of one suggestion are made by clients that name the suggestion
\* themselves, which the handlers of observations allow beside the runs
\* (observations/create.py:237-281, update.py:40-56); and otherwise only by updates of
\* a run that were under way together, or by one whose process died between its two
\* writes (update.py:140-149): no constraint of the database forbids either.
ReportedOnce ==
  \A o1, o2 \in Observations :
    (/\ o1 # o2 /\ observation[o1] # NoRow /\ observation[o2] # NoRow
     /\ observation[o1].suggestion = observation[o2].suggestion
     /\ observation[o1].suggestion # None)
      => LET a1 == author[<<o1, "observation">>]
             a2 == author[<<o2, "observation">>]
         IN \/ NamedByClient(o1) \/ NamedByClient(o2)
            \/ /\ a1 # None /\ a2 # None
               /\ Met(a1, a2) \/ pc[a1] = "dead" \/ pc[a2] = "dead"

\* The calls that delete rows, and those that restore them.
FlagsAll(c) == Is(c, "deleteexp") /\ req[c].runs
Deletes(c) ==
  \/ req[c] # NoRequest
       /\ req[c].kind \in {"delete"} \cup SuggestionDeletions \cup ObservationDeletions
  \/ FlagsAll(c)
  \/ Is(c, "update") /\ req[c].deleted = TRUE
Restores(c) == Is(c, "update") /\ req[c].deleted = FALSE
WritesBack(c) == Is(c, "sugupdate") \/ Is(c, "obsupdate")
Row(x) == CASE x[2] = "run" -> run[x[1]]
            [] x[2] = "suggestion" -> suggestion[x[1]]
            [] x[2] = "observation" -> observation[x[1]]

\* The calls that created a row, or the suggestion that an update of a run reported by it.
Reopened == \E d \in Calls : Is(d, "restoreexp")
ReportedBy(x) == {s \in Suggestions :
  \E a \in Calls : /\ author[x] = a /\ Is(a, "update") /\ Run(a).suggestion = s
                  /\ x[2] = "observation"}
Origins(x) == {author[x]} \cup {author[<<s, "suggestion">>] : s \in ReportedBy(x)}
\* Nothing of the runs survives the deletion of an experiment with its runs, apart
\* from what a call under way at that time created or wrote back, an observation that
\* reports such a suggestion later on, what an update of a run restored on purpose, and
\* what was created since an update made the experiment active again
\* (training_run/service.py:84-90 is three statements with a read between, and runs
\* of the experiment may be updated after it).
ExperimentTakesItsRuns ==
  \A c \in Calls, x \in Rows :
    (Answered(c) /\ FlagsAll(c) /\ Row(x) # NoRow /\ ~Row(x).deleted)
      => \/ \E a \in Origins(x) : Met(c, a)
         \/ Reopened /\ author[x] # None
         \/ \E d \in Calls : Restores(d) \/ (WritesBack(d) /\ Met(c, d))

\* A call that deletes rows of the run, and one that restores or creates some, or writes
\* one back: every update does that may report the run, unless it does no more than
\* delete it.
Collide(c, d) ==
  /\ Deletes(c)
  /\ \/ WritesBack(d)
     \/ Is(d, "update") /\ (req[d].state # None \/ req[d].deleted # TRUE)
     \/ Is(d, "create") /\ FlagsAll(c)
Disturbed == \E c \in Calls :
  \/ pc[c] = "dead"
  \/ req[c] # NoRequest /\ req[c].kind \in SuggestionDeletions \cup ObservationDeletions
  \/ \E d \in met[c] : Collide(c, d)
\* A run, its suggestion and its observation are deleted together: the flags agree
\* whenever no call is under way, unless one of the rows was deleted on its own, a
\* process died between the statements, or a deletion met a call that restores, creates
\* or writes back one of them (training_run/service.py:65-90, update.py:196-211).
DeletedTogether ==
  (~Disturbed /\ \A c \in Calls : ~Active(c))
    => \A r \in Runs : run[r] # NoRow =>
         /\ run[r].suggestion # None
              => suggestion[run[r].suggestion].deleted = run[r].deleted
         /\ run[r].observation # None
              => observation[run[r].observation].deleted = run[r].deleted

\* A deleted row comes back only by an update that restores the run, or by the
\* write-back of a row that was read before a call under way deleted it
\* (update.py:196-200 keeps the flag when the request does not give it; the handlers
\* of suggestions and observations find only rows in use).
DeletionStands ==
  [][\A x \in Rows :
       (Row(x) # NoRow /\ Row(x).deleted /\ ~Row(x)'.deleted)
         => \E c \in Calls :
              /\ pc'[c] # pc[c]
              /\ \/ Restores(c)
                 \/ WritesBack(c) /\ \E d \in met[c] : Deletes(d) \/ Restores(d)]_vars

\* An answered update of an observation or of a suggestion is not lost, unless a call
\* that was under way with it writes back the row as it was before
\* (observation/service.py:176-204, observations/update.py:37-56).
EditsKept ==
  \A c \in Calls :
    Answered(c) =>
      /\ Is(c, "obsupdate") =>
           \/ c \in observation[req[c].observation].edits
           \/ \E d \in met[c] : Is(d, "obsupdate") \/ Deletes(d) \/ Restores(d)
      /\ Is(c, "sugupdate") =>
           \/ c \in suggestion[req[c].suggestion].edits
           \/ \E d \in met[c] : Is(d, "sugupdate")

\* A run has more checkpoints than the limit, or a checkpoint that came after its
\* observation, only by calls that were under way together: the limit and the
\* observation are read at the start (checkpoints/create.py:70-84).
CheckpointsBounded ==
  [][\A c \in Calls : LET r == req[c].run IN
       (pc[c] = "insert_checkpoint" /\ pc'[c] = "done")
         => /\ Cardinality(checkpoints'[r]) > MaxCheckpoints
                 => \E d \in checkpoints'[r] : Met(c, d)
            /\ run[r].observation # None => \E d \in met[c] : Updates(d, r)]_vars
=============================================================================
