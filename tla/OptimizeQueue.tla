---------------------------- MODULE OptimizeQueue ----------------------------
(***************************************************************************)
(* How a change of an experiment reaches the optimizer.                    *)
(*                                                                         *)
(* A handler commits a change of the observations, then tells the workers  *)
(* through Redis: it stores the body of one message per key and adds the   *)
(* keys to a sorted set, where a key that is already there stays as it is. *)
(* A worker pops a key, fetches the body, reads the experiment and its     *)
(* observations, computes, and saves what it computed: suggestions, which  *)
(* are added to those of other runs, or hyperparameters, one row that the  *)
(* run with the latest stamp keeps.  The queue holds no copy of a popped   *)
(* key, a rejected message is dropped, and errors while enqueueing are     *)
(* tolerated: only a later message makes up for a lost one.                *)
(*                                                                         *)
(* One experiment, whose id is the group key; the keys of different        *)
(* experiments never meet.  An experiment update may set the experiment's  *)
(* state and, unless it says no_optimize, resets the hyperparameters and   *)
(* enqueues again.                                                         *)
(*                                                                         *)
(* A run is taken to have read what it could count.  The observations are  *)
(* streamed later, which may show it a revision more, never a change less. *)
(***************************************************************************)
EXTENDS Naturals

CONSTANTS
  Changes,   \* calls that create, update or delete observations
  Updates,   \* calls that may reset: experiment updates, deletions of the
             \* hyperparameters, and deletions of all observations
  Workers,
  NoKey,
  MaxFaults  \* bound on the faults of a behaviour

(* The two message types that share the optimization queue. *)
Keys == {"next_points", "optimize"}
Handlers == Changes \union Updates

ASSUME HandlerAssumption == Changes \cap Updates = {}
ASSUME KeyAssumption == NoKey \notin Keys
ASSUME FaultAssumption == MaxFaults \in Nat

VARIABLES
  deleted,   \* the experiment's deleted flag
  committed, \* changes the database holds, until all observations are deleted
  wants,     \* the keys a handler enqueues
  hpc,       \* the next step of each handler
  toPersist, \* the keys whose body a handler has yet to store
  content,   \* keys whose body is stored and has not expired
  queue,     \* the sorted set
  wpc,       \* the next step of each worker
  wkey,      \* the key a worker popped
  seen,      \* the changes a worker counted
  clock,     \* the latest stamp
  stamp,     \* current_aux_date_updated of a worker
  row,       \* date_updated of the hyperparameters, 0 if there are none
  begun,     \* changes counted by the optimize runs that have taken a stamp
  missed,    \* those of them a worker had not counted when it took its own
  overtaken, \* what the run that wrote the row had missed
  covered,   \* changes counted by the runs that stored suggestions, and by
             \* the one that wrote the row
  lost,      \* per key, changes whose message or row is gone: after a fault, as
             \* the experiment was deleted, or with all observations
  faults     \* faults still to come

handlerVars == <<committed, wants, hpc, toPersist>>
workerVars == <<wpc, wkey, seen, stamp, missed>>
stampVars == <<clock, begun>>
resultVars == <<row, overtaken, covered>>
vars == <<deleted, committed, wants, hpc, toPersist, content, queue, wpc, wkey, seen,
          clock, stamp, row, begun, missed, overtaken, covered, lost, faults>>

HandlerPCs == {"idle", "commit", "reset", "clear", "persist", "add", "done"}
WorkerPCs == {"pop", "fetch", "find", "read", "stamp", "save"}

(* The messages of enqueue_optimization: none with no_optimize, and the    *)
(* hyperparameter message only when should_execute_hyper_opt.              *)
MessageSets == {{}, {"next_points"}, Keys}

(* Changes whose handler asks for key k, and those no run made up for yet. *)
Due(k) == {h \in committed : k \in wants[h]}
Pending(k) == Due(k) \ covered[k]

InFlight(h) == hpc[h] \in {"reset", "persist", "add"}
Lose(k, hs) == lost' = [lost EXCEPT ![k] = @ \union hs]

Init ==
  /\ deleted = FALSE
  /\ committed = {}
  /\ wants = [h \in Handlers |-> {}]
  /\ hpc = [h \in Handlers |-> "idle"]
  /\ toPersist = [h \in Handlers |-> {}]
  /\ content = {}
  /\ queue = {}
  /\ wpc = [w \in Workers |-> "pop"]
  /\ wkey = [w \in Workers |-> NoKey]
  /\ seen = [w \in Workers |-> {}]
  /\ clock = 0
  /\ stamp = [w \in Workers |-> 0]
  /\ row = 0
  /\ begun = {}
  /\ missed = [w \in Workers |-> {}]
  /\ overtaken = {}
  /\ covered = [k \in Keys |-> {}]
  /\ lost = [k \in Keys |-> {}]
  /\ faults = MaxFaults

---------------------------------------------------------------------------
(* The handlers. *)

(* A change is refused when the experiment that the handler loaded is      *)
(* deleted; it may be deleted right after.                                 *)
Accept(h) ==
  /\ h \in Changes
  /\ hpc[h] = "idle"
  /\ ~deleted
  /\ hpc' = [hpc EXCEPT ![h] = "commit"]
  /\ UNCHANGED <<deleted, committed, wants, toPersist, content, queue, workerVars,
                 stampVars, resultVars, lost, faults>>

(* insert_observations (or update_one, set_delete) and the choice of messages *)
Commit(h) ==
  /\ h \in Changes
  /\ hpc[h] = "commit"
  /\ committed' = committed \union {h}
  /\ \E messages \in MessageSets :
       /\ wants' = [wants EXCEPT ![h] = messages]
       /\ toPersist' = [toPersist EXCEPT ![h] = messages]
       /\ hpc' = [hpc EXCEPT ![h] = IF messages = {} THEN "done" ELSE "persist"]
  /\ UNCHANGED <<deleted, content, queue, workerVars, stampVars, resultVars, lost, faults>>

(* The update of the experiment row; its state may be set either way.  A   *)
(* call that says no_optimize ends here.                                   *)
UpdateExperiment(u) ==
  /\ u \in Updates
  /\ hpc[u] = "idle"
  /\ deleted' \in BOOLEAN
  /\ \E no_optimize \in BOOLEAN :
       hpc' = [hpc EXCEPT ![u] = IF no_optimize THEN "done" ELSE "reset"]
  /\ UNCHANGED <<committed, wants, toPersist, content, queue, workerVars, stampVars, resultVars,
                 lost, faults>>

(* reset_hyperparameters: the row is deleted. *)
RowDeleted ==
  /\ row' = 0
  /\ overtaken' = {}
  /\ covered' = [covered EXCEPT !["optimize"] = {}]

(* _reset_hyperparameters, and the messages it is about to enqueue *)
ResetHyperparameters(u) ==
  /\ u \in Updates
  /\ hpc[u] = "reset"
  /\ RowDeleted
  /\ wants' = [wants EXCEPT ![u] = Keys]
  /\ toPersist' = [toPersist EXCEPT ![u] = Keys]
  /\ hpc' = [hpc EXCEPT ![u] = "persist"]
  /\ UNCHANGED <<deleted, committed, content, queue, workerVars, stampVars, lost, faults>>

(* ObservationsDeleteAllHandler: delete_all_for_experiment ... *)
DeleteAllObservations(u) ==
  /\ u \in Updates
  /\ hpc[u] = "idle"
  /\ committed' = {}
  /\ hpc' = [hpc EXCEPT ![u] = "clear"]
  /\ UNCHANGED <<deleted, wants, toPersist, content, queue, workerVars, stampVars, resultVars,
                 lost, faults>>

(* ... then reset_hyperparameters, after which nothing is enqueued.  What  *)
(* was committed in between loses its row.                                 *)
ClearHyperparameters(u) ==
  /\ u \in Updates
  /\ hpc[u] = "clear"
  /\ RowDeleted
  /\ Lose("optimize", Due("optimize"))
  /\ hpc' = [hpc EXCEPT ![u] = "done"]
  /\ UNCHANGED <<deleted, committed, wants, toPersist, content, queue, workerVars,
                 stampVars, faults>>

(* _persist_message_contents, one SET with a time to live per message *)
FirstBody(k) == IF content = {} THEN {k} ELSE content \* mutant: one body per batch
WithBody(k) == content \union {k}

PersistContent(h) ==
  /\ hpc[h] = "persist"
  /\ \E k \in toPersist[h] :
       /\ content' = WithBody(k)
       /\ toPersist' = [toPersist EXCEPT ![h] = @ \ {k}]
       /\ hpc' = [hpc EXCEPT ![h] = IF toPersist[h] = {k} THEN "add" ELSE "persist"]
  /\ UNCHANGED <<deleted, committed, wants, queue, workerVars, stampVars, resultVars,
                 lost, faults>>

(* _add_to_queue: one ZADD NX with every key of the batch *)
QueueWithIfEmpty(keys) == IF queue = {} THEN keys ELSE queue \* mutant: a batch is one member
QueueWith(keys) == queue \union keys

AddToQueue(h) ==
  /\ hpc[h] = "add"
  /\ queue' = QueueWith(wants[h])
  /\ hpc' = [hpc EXCEPT ![h] = "done"]
  /\ UNCHANGED <<deleted, committed, wants, toPersist, content, workerVars, stampVars,
                 resultVars, lost, faults>>

(* The changes that count on handler h: its own, and every pending one when *)
(* it is about to reset and enqueue.                                        *)
DependOn(h, k) ==
  IF ~InFlight(h) THEN {}
  ELSE IF h \in Updates THEN Pending(k) ELSE IF k \in wants[h] THEN {h} ELSE {}

(* robust_enqueue tolerates every exception, or the API worker dies. *)
EnqueueFails(h) ==
  /\ faults > 0
  /\ InFlight(h) \/ hpc[h] = "clear"
  /\ hpc' = [hpc EXCEPT ![h] = "done"]
  /\ lost' = [k \in Keys |-> lost[k] \union DependOn(h, k)]
  /\ faults' = faults - 1
  /\ UNCHANGED <<deleted, committed, wants, toPersist, content, queue, workerVars,
                 stampVars, resultVars>>

(* ExperimentService.delete *)
DeleteExperiment ==
  /\ ~deleted
  /\ deleted' = TRUE
  /\ UNCHANGED <<handlerVars, content, queue, workerVars, stampVars, resultVars, lost, faults>>

---------------------------------------------------------------------------
(* The workers. *)

(* blocking_pop_min_from_sorted_set takes the oldest key, the model any. *)
QueueEmptied(k) == {} \* mutant: the whole sorted set is taken
QueueWithout(k) == queue \ {k}

Pop(w) ==
  /\ wpc[w] = "pop"
  /\ \E k \in queue :
       /\ queue' = QueueWithout(k)
       /\ wkey' = [wkey EXCEPT ![w] = k]
       /\ wpc' = [wpc EXCEPT ![w] = "fetch"]
  /\ UNCHANGED <<deleted, handlerVars, content, seen, stamp, missed, stampVars, resultVars,
                 lost, faults>>

BackToPop(w) ==
  /\ wpc' = [wpc EXCEPT ![w] = "pop"]
  /\ wkey' = [wkey EXCEPT ![w] = NoKey]
  /\ seen' = [seen EXCEPT ![w] = {}]
  /\ stamp' = [stamp EXCEPT ![w] = 0]
  /\ missed' = [missed EXCEPT ![w] = {}]

(* _retrieve_message_contents: without a body there is no message. *)
FetchContent(w) ==
  /\ wpc[w] = "fetch"
  /\ \/ /\ wkey[w] \in content
        /\ wpc' = [wpc EXCEPT ![w] = "find"]
        /\ UNCHANGED <<wkey, seen, stamp, missed, lost>>
     \/ /\ wkey[w] \notin content
        /\ BackToPop(w)
        /\ Lose(wkey[w], Pending(wkey[w]))
  /\ UNCHANGED <<deleted, handlerVars, content, queue, stampVars, resultVars, faults>>

(* _handle_message: the message of a deleted experiment is skipped. *)
FindExperiment(w) ==
  /\ wpc[w] = "find"
  /\ \/ /\ ~deleted
        /\ wpc' = [wpc EXCEPT ![w] = "read"]
        /\ UNCHANGED <<wkey, seen, stamp, missed, lost>>
     \/ /\ deleted
        /\ BackToPop(w)
        /\ Lose(wkey[w], Pending(wkey[w]))
  /\ UNCHANGED <<deleted, handlerVars, content, queue, stampVars, resultVars, faults>>

(* fetch_optimization_args counts the observations, up to max_observation_id. *)
AnnouncedChanges == \* mutant: the message carries the changes to read
  committed \ UNION {lost[k] : k \in Keys}
VisibleChanges == committed

ReadArgs(w) ==
  /\ wpc[w] = "read"
  /\ seen' = [seen EXCEPT ![w] = VisibleChanges]
  /\ wpc' = [wpc EXCEPT ![w] = IF wkey[w] = "optimize" THEN "stamp" ELSE "save"]
  /\ UNCHANGED <<deleted, handlerVars, content, queue, wkey, stamp, missed, stampVars,
                 resultVars, lost, faults>>

(* trigger_hyperparameter_optimization reads the clock. *)
TakeStamp(w) ==
  /\ wpc[w] = "stamp"
  /\ clock' = clock + 1
  /\ stamp' = [stamp EXCEPT ![w] = clock + 1]
  /\ begun' = begun \union seen[w]
  /\ missed' = [missed EXCEPT ![w] = begun \ seen[w]]
  /\ wpc' = [wpc EXCEPT ![w] = "save"]
  /\ UNCHANGED <<deleted, handlerVars, content, queue, wkey, seen, resultVars, lost, faults>>

Stored(w) ==
  IF wkey[w] = "optimize"
  THEN /\ row' = stamp[w]
       /\ overtaken' = missed[w]
       /\ covered' = [covered EXCEPT !["optimize"] = seen[w]]
  ELSE /\ covered' = [covered EXCEPT ![wkey[w]] = @ \union seen[w]]
       /\ UNCHANGED <<row, overtaken>>

(* The where clause of persist_hyperparameters *)
Refused(w) == wkey[w] = "optimize" /\ row > stamp[w]

(* persist_suggestions or persist_hyperparameters, both only when the      *)
(* experiment is not deleted at that moment.                               *)
SaveResult(w) ==
  /\ wpc[w] = "save"
  /\ \/ /\ deleted
        /\ Lose(wkey[w], Pending(wkey[w]))
        /\ UNCHANGED resultVars
     \/ /\ ~deleted /\ ~Refused(w)
        /\ Stored(w)
        /\ lost' = [lost EXCEPT ![wkey[w]] = @ \ seen[w]]
     \/ /\ ~deleted /\ Refused(w)
        /\ UNCHANGED <<resultVars, lost>>
  /\ BackToPop(w)
  /\ UNCHANGED <<deleted, handlerVars, content, queue, stampVars, faults>>

(* The run raises or the process dies; it is started again.  reject and     *)
(* delete of the Redis provider do nothing: the message is gone.            *)
WorkerFails(w) ==
  /\ faults > 0
  /\ wpc[w] # "pop"
  /\ Lose(wkey[w], Pending(wkey[w]))
  /\ BackToPop(w)
  /\ faults' = faults - 1
  /\ UNCHANGED <<deleted, handlerVars, content, queue, stampVars, resultVars>>

(* queue.redis_key_expiry_time has passed since the body was stored. *)
Expire(k) ==
  /\ faults > 0
  /\ k \in content
  /\ content' = content \ {k}
  /\ faults' = faults - 1
  /\ UNCHANGED <<deleted, handlerVars, queue, workerVars, stampVars, resultVars, lost>>

---------------------------------------------------------------------------
Handle(h) ==
  \/ Accept(h) \/ Commit(h) \/ UpdateExperiment(h) \/ ResetHyperparameters(h)
  \/ DeleteAllObservations(h) \/ ClearHyperparameters(h)
  \/ PersistContent(h) \/ AddToQueue(h)

Work(w) ==
  Pop(w) \/ FetchContent(w) \/ FindExperiment(w) \/ ReadArgs(w) \/ TakeStamp(w) \/ SaveResult(w)

Next ==
  \/ \E h \in Handlers : Handle(h) \/ EnqueueFails(h)
  \/ \E w \in Workers : Work(w) \/ WorkerFails(w)
  \/ \E k \in Keys : Expire(k)
  \/ DeleteExperiment

Spec == Init /\ [][Next]_vars

(* Accepted calls are executed to their end, and workers take messages as  *)
(* long as there are any.                                                  *)
FairSpec ==
  /\ Spec
  /\ \A h \in Handlers : WF_vars(hpc[h] # "idle" /\ Handle(h))
  /\ \A w \in Workers : WF_vars(Work(w))

---------------------------------------------------------------------------
(* Properties. *)

(* Handlers, workers, Redis and the history have the types they should. *)
TypeOK ==
  /\ deleted \in BOOLEAN
  /\ committed \in SUBSET Changes
  /\ wants \in [Handlers -> SUBSET Keys]
  /\ hpc \in [Handlers -> HandlerPCs]
  /\ toPersist \in [Handlers -> SUBSET Keys]
  /\ content \in SUBSET Keys
  /\ queue \in SUBSET Keys
  /\ wpc \in [Workers -> WorkerPCs]
  /\ wkey \in [Workers -> Keys \union {NoKey}]
  /\ seen \in [Workers -> SUBSET Changes]
  /\ clock \in Nat /\ stamp \in [Workers -> Nat] /\ row \in Nat
  /\ begun \in SUBSET Changes /\ overtaken \in SUBSET Changes
  /\ missed \in [Workers -> SUBSET Changes]
  /\ covered \in [Keys -> SUBSET Changes]
  /\ lost \in [Keys -> SUBSET Changes]
  /\ faults \in 0..MaxFaults

(* A worker that has popped k and will still read the database. *)
WillRead(w, k) == wkey[w] = k /\ wpc[w] \in {"fetch", "find", "read"}
WillSave(w, k, h) == wkey[w] = k /\ wpc[w] \in {"stamp", "save"} /\ h \in seen[w]

(* The run that wrote the row had counted before h was committed, but took *)
(* its stamp after another one that had counted h: it has the later date.  *)
Overtaken(k, h) == k = "optimize" /\ h \in overtaken

(* A committed change that no stored result rests on is never forgotten:   *)
(* its key is queued, some handler will still queue it, or some worker     *)
(* holds the key and will read or has read the change.  Otherwise its      *)
(* message is gone with a fault or with the experiment, or all             *)
(* observations were deleted around it, or the row is from a run that      *)
(* overtook the one that had read it, between its own count and its stamp. *)
(* This is what the ZADD NX of a key that is already queued, and the order *)
(* commit, SET, ZADD and pop, GET, read rely on.                           *)
NoLostWakeup ==
  \A k \in Keys : \A h \in Pending(k) :
    \/ h \in lost[k] \/ Overtaken(k, h)
    \/ k \in queue
    \/ InFlight(h) \/ \E u \in Updates : InFlight(u)
    \/ \E w \in Workers : WillRead(w, k) \/ WillSave(w, k, h)

(* When handlers and workers are at rest, without faults, everything has   *)
(* been read: in the end the optimizer has caught up with every change     *)
(* whose message was not skipped, but for what the row's run overtook.     *)
CatchesUp ==
  <>[](\A k \in Keys : \A h \in Pending(k) : h \in lost[k] \/ Overtaken(k, h))

(* A message lost to a fault is made up for by any later message with the  *)
(* same key, once no fault hits that one; the row may again be from a run  *)
(* that overtook the one that had read the change.                         *)
LostIsHealed ==
  \A h \in Changes, k \in Keys :
    (h \in lost[k] /\ k \in queue /\ k \in content /\ faults = 0)
      ~> (h \in covered[k] \/ Overtaken(k, h) \/ deleted \/ h \notin committed)

(* Storing the bodies before the keys is what keeps a popped key readable: *)
(* without expiry no worker pops a key that has no body.                   *)
BodyBeforeKey == MaxFaults = 0 => queue \subseteq content
==============================================================================
