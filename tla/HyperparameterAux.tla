--------------------------- MODULE HyperparameterAux ---------------------------
(***************************************************************************)
(* When hyperparameters are computed, and which result is kept.            *)
(*                                                                         *)
(* The hyperparameters of an experiment are one row of                     *)
(* experiment_optimization_aux.  Handlers that change observations ask for *)
(* a run of trigger_hyperparameter_optimization: observation creates only  *)
(* when a lag rule says so, everything else always.  A worker that runs it *)
(* applies the lag rule once more, to the counts it reads itself; it then  *)
(* stores default hyperparameters, the old ones again, or those of a fit.  *)
(*                                                                         *)
(* A fit takes minutes.  Workers that run for the same experiment at the   *)
(* same time finish in any order, so a result carries the date at which    *)
(* its computation began, and replaces a row only if the row's date is not *)
(* later.  A run counts the observations before that date and streams them *)
(* after it.  A reset deletes the row.                                     *)
(*                                                                         *)
(* One experiment, served by CategoricalOptimizationSource throughout.     *)
(* Dates are the readings of one clock, which differ for any two readings: *)
(* the clocks of the worker hosts agree.                                   *)
(***************************************************************************)
EXTENDS Integers, FiniteSets

CONSTANTS
  Creates,      \* observation create calls, one observation each, to be optimized
  Failed,       \* those that report a failure
  Workers,
  NoAux,        \* there is no row
  Dimension,    \* hyper_opt_dimension
  Constrained,  \* the experiment has constraints
  InitialCount, \* successful observations imported with no_optimize
  MaxRevisions, \* bound on updates and deletions of observations
  MaxResets,    \* bound on resets
  MaxFailures   \* bound on the runs that fail or die

ASSUME DimensionAssumption == Dimension \in Nat \ {0} /\ Constrained \in BOOLEAN
ASSUME CreatesAssumption == Failed \subseteq Creates
ASSUME BoundAssumption ==
  /\ InitialCount \in Nat /\ MaxRevisions \in Nat
  /\ MaxResets \in Nat /\ MaxFailures \in Nat

(* A row: date_updated; when the run that wrote it began and when it had   *)
(* read the observations; and when the run that computed the               *)
(* hyperparameters in the row began.                                       *)
Aux == [date : Nat, began : Nat, streamed : Nat, computed : Nat]
ASSUME AuxAssumption == NoAux \notin Aux

---------------------------------------------------------------------------
(* The lag rule, execute_gp_hyper_opt_call_based_on_lag. *)

Never == 1000000

(* The lag by number of successful observations, for the dimensions up to  *)
(* 10 and up to 20; beyond that the matrix holds Never.                    *)
MatrixLag(n) ==
  CASE Dimension <= 10 /\ n <= 250 -> 1
    [] Dimension <= 10 /\ n \in 251..500 -> 2
    [] Dimension <= 10 /\ n \in 501..750 -> 3
    [] Dimension \in 11..20 /\ n <= 250 -> 2
    [] Dimension \in 11..20 /\ n \in 251..500 -> 4
    [] Dimension \in 11..20 /\ n \in 501..750 -> 6
    [] OTHER -> Never

BaseLag ==
  CASE Dimension < 5 -> 1
    [] Dimension \in 5..9 -> 4
    [] Dimension \in 10..14 -> 8
    [] Dimension \in 15..19 -> 12
    [] OTHER -> Dimension

(* int(lag_scale * lag), the scales being 1, 3/2, 5/2 and 4 *)
StaggeredLag(n) ==
  CASE n < 200 -> BaseLag
    [] n \in 200..399 -> (3 * BaseLag) \div 2
    [] n \in 400..599 -> (5 * BaseLag) \div 2
    [] OTHER -> 4 * BaseLag

Lag(n) == IF Constrained THEN StaggeredLag(n) ELSE MatrixLag(n)

ExecuteOnLag(n) ==
  /\ Dimension <= 40
  /\ n <= 1500
  /\ Constrained => n < 800
  /\ n % Lag(n) = 0

(* should_force_default_hyperparameters, given the row a run has read *)
ForceDefault(old, n) == old = NoAux \/ n <= 2 * Dimension

---------------------------------------------------------------------------
VARIABLES
  successes, \* successful observations, not deleted
  failures,  \* failed observations
  cpc,       \* the next step of each create
  counts,    \* the counts a create has read
  owing,     \* handlers that will enqueue an optimize message whatever the lag
  clearing,  \* calls that have deleted all observations and will reset
  queued,    \* an optimize message is queued
  deleted,   \* the experiment's deleted flag
  aux,       \* the row
  clock,     \* the latest reading of the clock
  wpc,       \* the next step of each worker
  count,     \* the successful observations a worker has counted
  old,       \* the row a worker has read
  counted,   \* the clock when a worker counted
  began,     \* current_aux_date_updated of a worker
  streamed,  \* the clock when a worker streamed the observations
  resetAt,   \* the clock at the last reset
  saved,     \* of the runs saved since then, the latest count and the latest beginning
  budget     \* what the bounds leave

handlerVars == <<cpc, counts, owing, clearing>>
workerVars == <<wpc, count, old, counted, began, streamed>>
vars == <<successes, failures, cpc, counts, owing, clearing, queued, deleted, aux, clock,
          wpc, count, old, counted, began, streamed, resetAt, saved, budget>>

CreatePCs == {"idle", "insert", "enqueue", "done"}
WorkerPCs == {"idle", "count", "read", "stamp", "stream", "find", "upsert"}

NoneSaved == [counted |-> 0, began |-> 0]

Init ==
  /\ successes = InitialCount
  /\ failures = 0
  /\ cpc = [c \in Creates |-> "idle"]
  /\ counts = [c \in Creates |-> [total |-> 0, failed |-> 0]]
  /\ owing = 0
  /\ clearing = 0
  /\ queued = FALSE
  /\ deleted = FALSE
  /\ aux = NoAux
  /\ clock = 0
  /\ wpc = [w \in Workers |-> "idle"]
  /\ count = [w \in Workers |-> 0]
  /\ old = [w \in Workers |-> NoAux]
  /\ counted = [w \in Workers |-> 0]
  /\ began = [w \in Workers |-> 0]
  /\ streamed = [w \in Workers |-> 0]
  /\ resetAt = 0
  /\ saved = NoneSaved
  /\ budget = [revisions |-> MaxRevisions, resets |-> MaxResets, failures |-> MaxFailures]

Spend(what) == budget[what] > 0 /\ budget' = [budget EXCEPT ![what] = @ - 1]

---------------------------------------------------------------------------
(* The handlers. *)

(* ObservationsCreateHandler reads the counts before it inserts. *)
ReadCounts(c) ==
  /\ cpc[c] = "idle"
  /\ ~deleted
  /\ counts' = [counts EXCEPT ![c] = [total |-> successes + failures, failed |-> failures]]
  /\ cpc' = [cpc EXCEPT ![c] = "insert"]
  /\ UNCHANGED <<successes, failures, owing, clearing, queued, deleted, aux, clock,
                 workerVars, resetAt, saved, budget>>

InsertObservation(c) ==
  /\ cpc[c] = "insert"
  /\ IF c \in Failed
     THEN failures' = failures + 1 /\ UNCHANGED successes
     ELSE successes' = successes + 1 /\ UNCHANGED failures
  /\ cpc' = [cpc EXCEPT ![c] = "enqueue"]
  /\ UNCHANGED <<counts, owing, clearing, queued, deleted, aux, clock, workerVars,
                 resetAt, saved, budget>>

NumObservations(c) == counts[c].total + 1
NumFailures(c) == counts[c].failed + (IF c \in Failed THEN 1 ELSE 0)

(* should_enqueue_hyper_opt of a create *)
Asks(c) == ExecuteOnLag(NumObservations(c) - NumFailures(c))

EnqueueOptimization(c) ==
  /\ cpc[c] = "enqueue"
  /\ queued' = (queued \/ Asks(c))
  /\ cpc' = [cpc EXCEPT ![c] = "done"]
  /\ UNCHANGED <<successes, failures, counts, owing, clearing, deleted, aux, clock,
                 workerVars, resetAt, saved, budget>>

(* What an update or a deletion of one observation makes of the counts *)
Revised(s, f) ==
  {<<s, f>>}
  \union (IF s > 0 THEN {<<s - 1, f>>, <<s - 1, f + 1>>} ELSE {})
  \union (IF f > 0 THEN {<<s, f - 1>>, <<s + 1, f - 1>>} ELSE {})

(* An observation is updated or deleted; a message follows unless the call *)
(* says no_optimize.                                                       *)
Revise ==
  /\ Spend("revisions")
  /\ \E r \in Revised(successes, failures) : successes' = r[1] /\ failures' = r[2]
  /\ owing' \in {owing, owing + 1}
  /\ UNCHANGED <<cpc, counts, clearing, queued, deleted, aux, clock, workerVars,
                 resetAt, saved>>

(* reset_hyperparameters *)
AuxDeleted ==
  /\ aux' = NoAux
  /\ resetAt' = clock
  /\ saved' = NoneSaved

(* _reset_hyperparameters, at the end of an experiment update *)
Reset ==
  /\ Spend("resets")
  /\ AuxDeleted
  /\ owing' = owing + 1
  /\ UNCHANGED <<successes, failures, cpc, counts, clearing, queued, deleted, clock, workerVars>>

(* enqueue_optimization with should_enqueue_hyper_opt left True *)
EnqueueAnyway ==
  /\ owing > 0
  /\ owing' = owing - 1
  /\ queued' = TRUE
  /\ UNCHANGED <<successes, failures, cpc, counts, clearing, deleted, aux, clock,
                 workerVars, resetAt, saved, budget>>

(* ObservationsDeleteAllHandler resets too, but enqueues nothing. *)
DeleteAllObservations ==
  /\ Spend("resets")
  /\ successes' = 0
  /\ failures' = 0
  /\ clearing' = clearing + 1
  /\ UNCHANGED <<cpc, counts, owing, queued, deleted, aux, clock, workerVars, resetAt, saved>>

ResetAfterDeleteAll ==
  /\ clearing > 0
  /\ clearing' = clearing - 1
  /\ AuxDeleted
  /\ UNCHANGED <<successes, failures, cpc, counts, owing, queued, deleted, clock, workerVars, budget>>

DeleteExperiment ==
  /\ ~deleted
  /\ deleted' = TRUE
  /\ UNCHANGED <<successes, failures, handlerVars, queued, aux, clock, workerVars,
                 resetAt, saved, budget>>

---------------------------------------------------------------------------
(* The workers. *)

Goto(w, label) == wpc' = [wpc EXCEPT ![w] = label]

(* A worker takes the message; a deleted experiment is not handled. *)
Take(w) ==
  /\ wpc[w] = "idle"
  /\ queued
  /\ queued' = FALSE
  /\ Goto(w, IF deleted THEN "idle" ELSE "count")
  /\ UNCHANGED <<successes, failures, handlerVars, deleted, aux, clock, count, old,
                 counted, began, streamed, resetAt, saved, budget>>

(* The counts, which also bound the observations that are streamed later *)
CountObservations(w) ==
  /\ wpc[w] = "count"
  /\ count' = [count EXCEPT ![w] = successes]
  /\ counted' = [counted EXCEPT ![w] = clock]
  /\ Goto(w, "read")
  /\ UNCHANGED <<successes, failures, handlerVars, queued, deleted, aux, clock, old, began,
                 streamed, resetAt, saved, budget>>

(* The stored hyperparameters, old_hyperparameters from here on *)
ReadAux(w) ==
  /\ wpc[w] = "read"
  /\ old' = [old EXCEPT ![w] = aux]
  /\ Goto(w, "stamp")
  /\ UNCHANGED <<successes, failures, handlerVars, queued, deleted, aux, clock, count,
                 counted, began, streamed, resetAt, saved, budget>>

(* get_hyperparameters returns the defaults, or it streams the             *)
(* observations and returns a fit to them or what was stored.              *)
Defaults(w) == ForceDefault(old[w], count[w])
Fits(w) == ~Defaults(w) /\ ExecuteOnLag(count[w])
Computes(w) == Defaults(w) \/ Fits(w)

(* current_aux_date_updated *)
Stamp(w) ==
  /\ wpc[w] = "stamp"
  /\ clock' = clock + 1
  /\ began' = [began EXCEPT ![w] = clock + 1]
  /\ Goto(w, IF Defaults(w) THEN "find" ELSE "stream")
  /\ UNCHANGED <<successes, failures, handlerVars, queued, deleted, aux, count, old,
                 counted, streamed, resetAt, saved, budget>>

(* The generator of fetch_observation_iter sends its query when            *)
(* get_hyperparameters first draws from it: one snapshot.                  *)
StreamObservations(w) ==
  /\ wpc[w] = "stream"
  /\ streamed' = [streamed EXCEPT ![w] = clock]
  /\ Goto(w, "find")
  /\ UNCHANGED <<successes, failures, handlerVars, queued, deleted, aux, clock, count, old,
                 counted, began, resetAt, saved, budget>>

(* Defaults are computed from no observation, so they miss none.           *)
ReadAt(w) == IF Defaults(w) THEN began[w] ELSE streamed[w]

(* persist_hyperparameters looks for the experiment before it writes. *)
FindExperiment(w) ==
  /\ wpc[w] = "find"
  /\ Goto(w, IF deleted THEN "idle" ELSE "upsert")
  /\ UNCHANGED <<successes, failures, handlerVars, queued, deleted, aux, clock, count, old,
                 counted, began, streamed, resetAt, saved, budget>>

DateAtSave(w) == clock + 1 \* mutant: current_datetime() when the result is saved
DateOf(w) == began[w]
NotEarlier(date) == aux.date >= date \* mutant: the comparison the wrong way round
NotLater(date) == aux.date <= date

Later(d, e) == IF d > e THEN d ELSE e

(* INSERT ... ON CONFLICT DO UPDATE ... WHERE *)
Upsert(w) ==
  /\ wpc[w] = "upsert"
  /\ aux' = IF aux = NoAux \/ NotLater(DateOf(w))
            THEN [date |-> DateOf(w), began |-> began[w], streamed |-> ReadAt(w),
                  computed |-> IF Computes(w) THEN began[w] ELSE old[w].computed]
            ELSE aux
  /\ saved' = [counted |-> Later(counted[w], saved.counted),
               began |-> Later(began[w], saved.began)]
  /\ Goto(w, "idle")
  /\ UNCHANGED <<successes, failures, handlerVars, queued, deleted, clock, count, old,
                 counted, began, streamed, resetAt, budget>>

(* The run raises or the worker dies; the message is gone. *)
RunFails(w) ==
  /\ Spend("failures")
  /\ wpc[w] # "idle"
  /\ Goto(w, "idle")
  /\ UNCHANGED <<successes, failures, handlerVars, queued, deleted, aux, clock, count, old,
                 counted, began, streamed, resetAt, saved>>

---------------------------------------------------------------------------
Handle(c) == ReadCounts(c) \/ InsertObservation(c) \/ EnqueueOptimization(c)
Work(w) ==
  \/ Take(w) \/ CountObservations(w) \/ ReadAux(w) \/ Stamp(w) \/ StreamObservations(w)
  \/ FindExperiment(w) \/ Upsert(w)

Next ==
  \/ \E c \in Creates : Handle(c)
  \/ Revise \/ Reset \/ EnqueueAnyway
  \/ DeleteAllObservations \/ ResetAfterDeleteAll \/ DeleteExperiment
  \/ \E w \in Workers : Work(w) \/ RunFails(w)

Spec == Init /\ [][Next]_vars

(* Handlers that have committed go on, and workers take what is queued and *)
(* run what they have taken.                                               *)
FairSpec ==
  /\ Spec
  /\ \A c \in Creates : WF_vars(cpc[c] # "idle" /\ Handle(c))
  /\ WF_vars(EnqueueAnyway) /\ WF_vars(ResetAfterDeleteAll)
  /\ \A w \in Workers : WF_vars(Work(w))

---------------------------------------------------------------------------
(* Properties. *)

(* The row, the clock, the handlers and the workers have their types. *)
TypeOK ==
  /\ successes \in Nat /\ failures \in Nat
  /\ cpc \in [Creates -> CreatePCs]
  /\ counts \in [Creates -> [total : Nat, failed : Nat]]
  /\ owing \in Nat /\ clearing \in Nat
  /\ queued \in BOOLEAN /\ deleted \in BOOLEAN
  /\ aux \in Aux \union {NoAux}
  /\ clock \in Nat
  /\ wpc \in [Workers -> WorkerPCs]
  /\ count \in [Workers -> Nat]
  /\ old \in [Workers -> Aux \union {NoAux}]
  /\ counted \in [Workers -> Nat]
  /\ began \in [Workers -> Nat]
  /\ streamed \in [Workers -> Nat]
  /\ resetAt \in Nat
  /\ saved \in [counted : Nat, began : Nat]
  /\ budget \in [{"revisions", "resets", "failures"} -> Nat]

(* In whichever order the runs finish, the row is that of a run that began *)
(* after the observations of every run saved since the last reset had been *)
(* counted, and, unless that run has only copied what it found, it rests   *)
(* on observations streamed after every one of these runs had begun: what  *)
(* was revised before any of them began is in it.  This is what the where  *)
(* clause of persist_hyperparameters is for, with the clock that           *)
(* trigger_hyperparameter_optimization reads between counting the          *)
(* observations and streaming them.  The counts themselves may be older    *)
(* than those of a run that was refused.                                   *)
LaterRunWins ==
  aux # NoAux =>
    /\ saved.counted < aux.began
    /\ aux.computed = aux.began => saved.began <= aux.streamed

(* After an experiment update has reset the row, the row comes to hold the *)
(* result of a run that began after the reset, also when a worker that     *)
(* began before it has written the deleted row again, unless the           *)
(* experiment is deleted or there is another reset.                        *)
ResetIsHealed ==
  \A n \in 0..(Cardinality(Creates) + MaxRevisions + MaxResets) :
    (resetAt = n /\ aux = NoAux /\ owing > 0 /\ budget["failures"] = 0)
      ~> (deleted \/ resetAt # n \/ (aux # NoAux /\ aux.began > n))

(* What the NOTE on execute_gp_hyper_opt_call_based_on_lag says: the calls *)
(* lag by the number of observations, whether they are failures or not.    *)
LagCountsObservations ==
  \A c \in Creates : cpc[c] = "enqueue" => (Asks(c) <=> ExecuteOnLag(NumObservations(c)))

(* What the docstring of get_hyperparameters says: the hyperparameters a   *)
(* run has fitted are stored, unless a later run has computed others.      *)
FitIsStored ==
  [][\A w \in Workers :
       wpc[w] = "upsert" /\ wpc'[w] = "idle" /\ Fits(w) /\ budget' = budget
       => aux'.computed >= began[w]]_vars
==============================================================================
