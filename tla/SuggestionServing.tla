-------------------------- MODULE SuggestionServing --------------------------
(***************************************************************************)
(* Concurrent calls of BaseBroker.serve_suggestion for one experiment.     *)
(*                                                                         *)
(* Every database statement and every Redis command of the code commits on *)
(* its own, so requests handled by different API workers interleave        *)
(* between any two of them.  A request carries what it has read in local   *)
(* variables; the tables suggestions (unprocessed), suggestions_processed, *)
(* observations and queued_suggestions and the Redis pool of computed      *)
(* suggestions are shared.  One action is one statement of a request, or   *)
(* one operation of the user or of the queue workers on the shared data.   *)
(*                                                                         *)
(* The experiment is one for which random replacement is allowed           *)
(* (BaseBroker.allow_random_replacement_on_conflict): not a grid and not   *)
(* in development mode.  Configuration flags have their defaults.          *)
(***************************************************************************)
EXTENDS Naturals, FiniteSets

CONSTANTS
  Requests,         \* suggestion-create calls
  QueuedIds,        \* rows of queued_suggestions
  Uuids,            \* suggestions a queue worker stored in Redis
  Assignments,      \* parameter assignments, compared by equality only
  SuggestionIds,    \* primary keys suggestions_id_seq hands out, a bound
  QueuedAssignment, \* the assignments of each queued suggestion
  PoolAssignment,   \* the assignments of each suggestion in Redis
  NoRow, NoUuid, NoId, NoQueued,
  MaxQueuedSuggestionFetches, \* features.maxQueuedSuggestionFetches, 3
  MaxAttempts,      \* the for _ in range(5) of SuggestionBroker.next_suggestion
  LdsCounts,        \* how many low discrepancy suggestions are still owed
  CrashingRequests, \* requests whose process may die
  FaultyRequests,   \* requests whose Redis or database calls may raise
  Truncatable,      \* pool entries a worker may truncate
  Reportable        \* suggestions the user reports or deletes

ASSUME QueuedAssumption == QueuedAssignment \in [QueuedIds -> Assignments]
ASSUME PoolAssumption == PoolAssignment \in [Uuids -> Assignments]
ASSUME NullAssumption ==
  /\ NoUuid \notin Uuids
  /\ NoId \notin SuggestionIds
  /\ NoQueued \notin QueuedIds
(* The tickets of the ledger below tell queued suggestions, suggestions and *)
(* the lack of an answer apart.                                             *)
ASSUME TicketAssumption ==
  /\ QueuedIds \cap SuggestionIds = {}
  /\ \A t \in QueuedIds \union SuggestionIds : t \notin {"waiting", "refused"}
ASSUME BoundAssumption ==
  /\ MaxQueuedSuggestionFetches \in Nat \ {0}
  /\ MaxAttempts \in Nat \ {0}
  /\ LdsCounts \subseteq Nat

(* UnprocessedSuggestion.Source, the members the broker tells apart. *)
Sources == {"QUEUED_SUGGESTION", "SPE", "LATIN_HYPERCUBE", "PADDING_RANDOM",
            "FALLBACK_RANDOM", "HIGH_CONTENTION_RANDOM",
            "CONFLICT_REPLACEMENT_RANDOM"}

UnprocessedRow == [uuid : Uuids \union {NoUuid}, asg : Assignments, source : Sources]
ProcessedRow == [queued : QueuedIds \union {NoQueued}, deleted : BOOLEAN]
ASSUME RowAssumption == NoRow \notin UnprocessedRow /\ NoRow \notin ProcessedRow

VARIABLES
  unprocessed, \* table suggestions, by id
  processed,   \* table suggestions_processed, by suggestion_id
  observed,    \* ids some row of observations references
  queue,       \* table queued_suggestions: live or deleted
  pool,        \* uuids in the Redis hash of computed suggestions
  pc,          \* the next statement of each request
  fetches,     \* queued suggestions a request has lost to others
  attempts,    \* iterations of next_suggestion used up
  skip,        \* suggestions_to_skip
  avoid,       \* assignments of optimization_args a request read
  claimed,     \* claimed_ids a request read
  queued,      \* queued_suggestion.id of a request
  cand,        \* the unprocessed suggestion a request holds
  sid,         \* its id, which becomes the suggestion_id of the answer
  contended,   \* fallback_source is HIGH_CONTENTION_RANDOM
  rep          \* id of the replacement suggestion

tables == <<unprocessed, processed, observed, queue, pool>>
locals == <<pc, fetches, attempts, skip, avoid, claimed, queued, cand, sid, contended, rep>>
vars == <<unprocessed, processed, observed, queue, pool, pc, fetches, attempts,
          skip, avoid, claimed, queued, cand, sid, contended, rep>>

PCs == {"idle", "read_claimed", "find_next", "create_unprocessed", "process_queued",
        "retire_queued", "fetch_args", "pick", "should_ignore", "insert", "process",
        "remove_from_available", "drop", "fallback", "process_fallback",
        "find_matching", "insert_replacement", "replace", "done",
        "could_not_process", "integrity_error", "crashed"}

Terminal == {"done", "could_not_process", "integrity_error", "crashed"}

---------------------------------------------------------------------------
(* What the queries return. *)

Allocated == {i \in SuggestionIds : unprocessed[i] # NoRow}
Processed == {i \in SuggestionIds : processed[i] # NoRow}

(* ProcessedSuggestionService.query_by_experiment, deleted rows left out *)
Undeleted == {i \in Processed : ~processed[i].deleted}
(* query_open_by_experiment: no observation references the row, not even a deleted one *)
Open == Undeleted \ observed

(* The queued_id column of suggestions_processed, NULL left out. *)
ClaimedIds == {processed[i].queued : i \in Processed} \ {NoQueued}

AssignmentsOf(ids) == {unprocessed[i].asg : i \in ids}

(* find_matching_suggestion or the observation query of should_ignore *)
HasMatch(asg) == asg \in AssignmentsOf(Undeleted) \union AssignmentsOf(Processed \cap observed)

(* The two constraints an insert into suggestions_processed can violate. *)
NoConstraint(x) == FALSE \* mutant: the constraint does not exist
HasProcessedRow(i) == i \in Processed
IsClaimed(q) == q \in ClaimedIds

(* QueuedSuggestionService.find_next given the claimed ids it has read. *)
LiveQueued(ids) == {q \in QueuedIds : queue[q] = "live"} \* mutant: claimed ones offered
Unclaimed(ids) == {q \in QueuedIds : queue[q] = "live"} \ ids

(* Mutant: the outer join's filter inverted, only reported ones compared. *)
MatchingReported(i) ==
  {j \in Undeleted \cap observed : j # i /\ unprocessed[j].asg = unprocessed[i].asg}

(* find_matching_open_suggestion for the suggestion with id i *)
MatchingOpen(i) == {j \in Open : j # i /\ unprocessed[j].asg = unprocessed[i].asg}

Fresh(asg, source) == [uuid |-> NoUuid, asg |-> asg, source |-> source]

(* nextval on suggestions_id_seq *)
NewId == CHOOSE i \in SuggestionIds : i \notin Allocated
HasNewId == Allocated # SuggestionIds

Goto(r, label) == pc' = [pc EXCEPT ![r] = label]

(* continue in the loop of next_suggestion *)
SameAttempt(r) == Goto(r, "fetch_args") /\ UNCHANGED attempts \* mutant: while True
NextAttempt(r) ==
  /\ attempts' = [attempts EXCEPT ![r] = @ + 1]
  /\ Goto(r, "fetch_args")

(* delete_by_id of the queued suggestion *)
WrittenBack(q) == UNCHANGED queue \* mutant: the copied meta without the flag
MarkDeleted(q) == queue' = [queue EXCEPT ![q] = "deleted"]

---------------------------------------------------------------------------
Init ==
  /\ unprocessed = [i \in SuggestionIds |-> NoRow]
  /\ processed = [i \in SuggestionIds |-> NoRow]
  /\ observed = {}
  /\ queue = [q \in QueuedIds |-> "live"]
  /\ pool = Uuids
  /\ pc = [r \in Requests |-> "idle"]
  /\ fetches = [r \in Requests |-> 0]
  /\ attempts = [r \in Requests |-> 0]
  /\ skip = [r \in Requests |-> 0]
  /\ avoid = [r \in Requests |-> {}]
  /\ claimed = [r \in Requests |-> {}]
  /\ queued = [r \in Requests |-> NoQueued]
  /\ cand = [r \in Requests |-> NoRow]
  /\ sid = [r \in Requests |-> NoId]
  /\ contended = [r \in Requests |-> FALSE]
  /\ rep = [r \in Requests |-> NoId]

---------------------------------------------------------------------------
(* retrieve_queued_suggestions_if_exists *)

Start(r) ==
  /\ pc[r] = "idle"
  /\ Goto(r, "read_claimed")
  /\ UNCHANGED <<tables, fetches, attempts, skip, avoid, claimed, queued, cand, sid, contended, rep>>

(* First statement of QueuedSuggestionService.find_next. *)
ReadClaimed(r) ==
  /\ pc[r] = "read_claimed"
  /\ claimed' = [claimed EXCEPT ![r] = ClaimedIds]
  /\ Goto(r, "find_next")
  /\ UNCHANGED <<tables, fetches, attempts, skip, avoid, queued, cand, sid, contended, rep>>

(* Second statement: the code takes the smallest id left, the model any. *)
FindNext(r) ==
  LET available == Unclaimed(claimed[r])
  IN  /\ pc[r] = "find_next"
      /\ \/ \E q \in available :
              /\ queued' = [queued EXCEPT ![r] = q]
              /\ Goto(r, "create_unprocessed")
         \/ /\ available = {}
            /\ queued' = [queued EXCEPT ![r] = NoQueued]
            /\ Goto(r, "fetch_args")
      /\ claimed' = [claimed EXCEPT ![r] = {}]
      /\ UNCHANGED <<tables, fetches, attempts, skip, avoid, cand, sid, contended, rep>>

CreateUnprocessed(r) ==
  /\ pc[r] = "create_unprocessed"
  /\ HasNewId
  /\ unprocessed' = [unprocessed EXCEPT
       ![NewId] = Fresh(QueuedAssignment[queued[r]], "QUEUED_SUGGESTION")]
  /\ sid' = [sid EXCEPT ![r] = NewId]
  /\ Goto(r, "process_queued")
  /\ UNCHANGED <<processed, observed, queue, pool, fetches, attempts, skip, avoid,
                 claimed, queued, cand, contended, rep>>

(* The insert fails when another row already has this queued_id; after the *)
(* last fetch the for loop's else raises CouldNotProcessSuggestionError.   *)
ProcessQueued(r) ==
  /\ pc[r] = "process_queued"
  /\ \/ /\ ~IsClaimed(queued[r])
        /\ processed' = [processed EXCEPT ![sid[r]] = [queued |-> queued[r], deleted |-> FALSE]]
        /\ Goto(r, "retire_queued")
        /\ UNCHANGED <<fetches, sid>>
     \/ /\ IsClaimed(queued[r])
        /\ fetches' = [fetches EXCEPT ![r] = @ + 1]
        /\ sid' = [sid EXCEPT ![r] = NoId]
        /\ Goto(r, IF fetches[r] + 1 < MaxQueuedSuggestionFetches
                   THEN "read_claimed" ELSE "could_not_process")
        /\ UNCHANGED processed
  /\ UNCHANGED <<unprocessed, observed, queue, pool, attempts, skip, avoid, claimed,
                 queued, cand, contended, rep>>

(* The end of UnprocessedSuggestionService.process: nothing to remove from *)
(* Redis for this source, then the queued suggestion is marked deleted.    *)
RetireQueued(r) ==
  /\ pc[r] = "retire_queued"
  /\ MarkDeleted(queued[r])
  /\ Goto(r, "done")
  /\ UNCHANGED <<unprocessed, processed, observed, pool, fetches, attempts, skip, avoid,
                 claimed, queued, cand, sid, contended, rep>>

---------------------------------------------------------------------------
(* SuggestionBroker.next_suggestion *)

(* OptimizerService.fetch_optimization_args: the open suggestions and the  *)
(* latest observation, as should_ignore will compare them.                 *)
FetchArgs(r) ==
  /\ pc[r] = "fetch_args"
  /\ \/ /\ attempts[r] < MaxAttempts
        /\ \E last \in {{}} \union {{a} : a \in AssignmentsOf(Processed \cap observed)} :
             avoid' = [avoid EXCEPT ![r] = AssignmentsOf(Open) \union last]
        /\ Goto(r, "pick")
     \/ /\ attempts[r] >= MaxAttempts
        /\ Goto(r, "fallback")
        /\ UNCHANGED avoid
  /\ UNCHANGED <<tables, fetches, attempts, skip, claimed, queued, cand, sid, contended, rep>>

(* sampler.best_suggestion(skip): the low discrepancy sampler fills the     *)
(* first n places of the list and the Redis pool, or the random padding it  *)
(* is ranked with, fills exactly one more place (SequentialSampler with     *)
(* counts n and 1); past those, or when every score is too low, it is None. *)
Pick(r) ==
  /\ pc[r] = "pick"
  /\ \E n \in LdsCounts :
       \/ /\ skip[r] < n
          /\ \E a \in Assignments : cand' = [cand EXCEPT ![r] = Fresh(a, "LATIN_HYPERCUBE")]
          /\ Goto(r, "should_ignore")
       \/ /\ skip[r] = n
          /\ \/ \E u \in pool : cand' = [cand EXCEPT
                  ![r] = [uuid |-> u, asg |-> PoolAssignment[u], source |-> "SPE"]]
             \/ \E a \in Assignments : cand' = [cand EXCEPT ![r] = Fresh(a, "PADDING_RANDOM")]
          /\ Goto(r, "should_ignore")
       \/ /\ skip[r] >= n
          /\ Goto(r, "fallback")
          /\ UNCHANGED cand
  /\ UNCHANGED <<tables, fetches, attempts, skip, avoid, claimed, queued, sid, contended, rep>>

ShouldIgnore(r) ==
  /\ pc[r] = "should_ignore"
  /\ IF cand[r].asg \in avoid[r] \/ HasMatch(cand[r].asg)
     THEN /\ skip' = [skip EXCEPT ![r] = @ + 1]
          /\ NextAttempt(r)
     ELSE /\ Goto(r, "insert")
          /\ UNCHANGED <<skip, attempts>>
  /\ avoid' = [avoid EXCEPT ![r] = {}]
  /\ UNCHANGED <<tables, fetches, claimed, queued, cand, sid, contended, rep>>

(* insert_suggestions_to_be_processed; on DuplicateUnprocessedSuggestionError *)
(* the row that already has this uuid is used instead.                        *)
InsertUnprocessed(r) ==
  LET duplicates == {i \in Allocated : unprocessed[i].uuid = cand[r].uuid /\ cand[r].uuid # NoUuid}
  IN  /\ pc[r] = "insert"
      /\ \/ \E i \in duplicates :
              /\ sid' = [sid EXCEPT ![r] = i]
              /\ UNCHANGED unprocessed
         \/ /\ duplicates = {}
            /\ HasNewId
            /\ unprocessed' = [unprocessed EXCEPT ![NewId] = cand[r]]
            /\ sid' = [sid EXCEPT ![r] = NewId]
      /\ Goto(r, "process")
      /\ UNCHANGED <<processed, observed, queue, pool, fetches, attempts, skip, avoid,
                     claimed, queued, cand, contended, rep>>

(* ProcessedSuggestionService.insert: the primary key admits one row per   *)
(* suggestion, and SuggestionAlreadyProcessedError drops the candidate.    *)
ProcessSuggestion(r) ==
  /\ pc[r] = "process"
  /\ \/ /\ ~HasProcessedRow(sid[r])
        /\ processed' = [processed EXCEPT ![sid[r]] = [queued |-> NoQueued, deleted |-> FALSE]]
        /\ Goto(r, "remove_from_available")
     \/ /\ HasProcessedRow(sid[r])
        /\ Goto(r, "drop")
        /\ UNCHANGED processed
  /\ UNCHANGED <<unprocessed, observed, queue, pool, fetches, attempts, skip, avoid,
                 claimed, queued, cand, sid, contended, rep>>

(* Mutant: the entry to remove is found by its assignments. *)
RemovedByAssignments(r) == pool' = {u \in pool : PoolAssignment[u] # cand[r].asg}

(* A Redis error is logged and tolerated: the entry then stays in the pool. *)
RemovedFromPool(r) ==
  \/ pool' = pool \ {cand[r].uuid}
  \/ r \in FaultyRequests /\ UNCHANGED pool

RemoveFromAvailable(r) ==
  /\ pc[r] = "remove_from_available"
  /\ RemovedFromPool(r)
  /\ Goto(r, "find_matching")
  /\ UNCHANGED <<unprocessed, processed, observed, queue, fetches, attempts, skip, avoid,
                 claimed, queued, cand, sid, contended, rep>>

(* The except clause of next_suggestion. *)
DropAlreadyProcessed(r) ==
  /\ pc[r] = "drop"
  /\ RemovedFromPool(r)
  /\ sid' = [sid EXCEPT ![r] = NoId]
  /\ contended' = [contended EXCEPT ![r] = TRUE]
  /\ NextAttempt(r)
  /\ UNCHANGED <<unprocessed, processed, observed, queue, fetches, skip, avoid, claimed,
                 queued, cand, rep>>

(* tolerate_exceptions(Exception) around the loop: any error in it leads to *)
(* the fallback, also one raised after the processed row was committed (the *)
(* acknowledgement of the commit was lost), whose row is then nobody's.     *)
TolerateException(r) ==
  /\ r \in FaultyRequests
  /\ pc[r] \in {"fetch_args", "pick", "should_ignore", "insert", "process",
                "remove_from_available", "drop"}
  /\ sid' = [sid EXCEPT ![r] = NoId]
  /\ avoid' = [avoid EXCEPT ![r] = {}]
  /\ Goto(r, "fallback")
  /\ UNCHANGED <<tables, fetches, attempts, skip, claimed, queued, cand, contended, rep>>

(* fallback_suggestion: a random suggestion is inserted, then processed. *)
Fallback(r) ==
  /\ pc[r] = "fallback"
  /\ HasNewId
  /\ \E a \in Assignments :
       unprocessed' = [unprocessed EXCEPT ![NewId] = Fresh(a,
         IF contended[r] THEN "HIGH_CONTENTION_RANDOM" ELSE "FALLBACK_RANDOM")]
  /\ sid' = [sid EXCEPT ![r] = NewId]
  /\ Goto(r, "process_fallback")
  /\ UNCHANGED <<processed, observed, queue, pool, fetches, attempts, skip, avoid,
                 claimed, queued, cand, contended, rep>>

ProcessFallback(r) ==
  /\ pc[r] = "process_fallback"
  /\ processed' = [processed EXCEPT ![sid[r]] = [queued |-> NoQueued, deleted |-> FALSE]]
  /\ Goto(r, "find_matching")
  /\ UNCHANGED <<unprocessed, observed, queue, pool, fetches, attempts, skip, avoid,
                 claimed, queued, cand, sid, contended, rep>>

---------------------------------------------------------------------------
(* replace_with_random_if_necessary *)

FindMatching(r) ==
  /\ pc[r] = "find_matching"
  /\ Goto(r, IF MatchingOpen(sid[r]) = {} THEN "done" ELSE "insert_replacement")
  /\ UNCHANGED <<tables, fetches, attempts, skip, avoid, claimed, queued, cand, sid, contended, rep>>

InsertReplacement(r) ==
  /\ pc[r] = "insert_replacement"
  /\ HasNewId
  /\ \E a \in Assignments :
       unprocessed' = [unprocessed EXCEPT ![NewId] = Fresh(a, "CONFLICT_REPLACEMENT_RANDOM")]
  /\ rep' = [rep EXCEPT ![r] = NewId]
  /\ Goto(r, "replace")
  /\ UNCHANGED <<processed, observed, queue, pool, fetches, attempts, skip, avoid,
                 claimed, queued, cand, sid, contended>>

(* replace_unprocessed changes the primary key of the processed row, which *)
(* fails when an observation already references it.                        *)
ReplaceUnprocessed(r) ==
  /\ pc[r] = "replace"
  /\ \/ /\ sid[r] \notin observed
        /\ processed' = [processed EXCEPT ![rep[r]] = processed[sid[r]], ![sid[r]] = NoRow]
        /\ sid' = [sid EXCEPT ![r] = rep[r]]
        /\ Goto(r, "done")
     \/ /\ sid[r] \in observed
        /\ Goto(r, "integrity_error")
        /\ UNCHANGED <<processed, sid>>
  /\ UNCHANGED <<unprocessed, observed, queue, pool, fetches, attempts, skip, avoid,
                 claimed, queued, cand, contended, rep>>

(* The process serving the request dies between two statements. *)
Crash(r) ==
  /\ r \in CrashingRequests
  /\ pc[r] \notin Terminal \union {"idle"}
  /\ Goto(r, "crashed")
  /\ UNCHANGED <<tables, fetches, attempts, skip, avoid, claimed, queued, cand, sid, contended, rep>>

---------------------------------------------------------------------------
(* Operations of the user and of the queue workers. *)

(* ObservationService.insert_observations for a suggestion. *)
Observe(i) ==
  /\ i \in Undeleted \ observed
  /\ observed' = observed \union {i}
  /\ UNCHANGED <<unprocessed, processed, queue, pool, locals>>

(* ProcessedSuggestionService.set_delete_by_ids *)
DeleteSuggestion(i) ==
  /\ i \in Undeleted
  /\ processed' = [processed EXCEPT ![i].deleted = TRUE]
  /\ UNCHANGED <<unprocessed, observed, queue, pool, locals>>

(* QueuedSuggestionService.delete_by_id *)
DeleteQueued(q) ==
  /\ queue[q] = "live"
  /\ MarkDeleted(q)
  /\ UNCHANGED <<unprocessed, processed, observed, pool, locals>>

(* _truncate_suggestion_length by a worker storing newer suggestions. *)
Truncate(u) ==
  /\ u \in pool \cap Truncatable
  /\ pool' = pool \ {u}
  /\ UNCHANGED <<unprocessed, processed, observed, queue, locals>>

---------------------------------------------------------------------------
Serve(r) ==
  \/ Start(r) \/ ReadClaimed(r) \/ FindNext(r) \/ CreateUnprocessed(r)
  \/ ProcessQueued(r) \/ RetireQueued(r)
  \/ FetchArgs(r) \/ Pick(r) \/ ShouldIgnore(r) \/ InsertUnprocessed(r)
  \/ ProcessSuggestion(r) \/ RemoveFromAvailable(r) \/ DropAlreadyProcessed(r)
  \/ TolerateException(r) \/ Fallback(r) \/ ProcessFallback(r)
  \/ FindMatching(r) \/ InsertReplacement(r) \/ ReplaceUnprocessed(r)

User ==
  \/ \E i \in Reportable : Observe(i) \/ DeleteSuggestion(i)
  \/ \E q \in QueuedIds : DeleteQueued(q)

Next ==
  \/ \E r \in Requests : Serve(r) \/ Crash(r)
  \/ User
  \/ \E u \in Uuids : Truncate(u)

Spec == Init /\ [][Next]_vars

(* An API worker that has taken a request keeps executing its statements. *)
FairSpec == Spec /\ \A r \in Requests : WF_vars(Serve(r))
---------------------------------------------------------------------------
(* Properties. *)

(* Every table row and every local variable of a request has its type. *)
TypeOK ==
  /\ unprocessed \in [SuggestionIds -> UnprocessedRow \union {NoRow}]
  /\ processed \in [SuggestionIds -> ProcessedRow \union {NoRow}]
  /\ observed \in SUBSET SuggestionIds
  /\ queue \in [QueuedIds -> {"live", "deleted"}]
  /\ pool \in SUBSET Uuids
  /\ pc \in [Requests -> PCs]
  /\ fetches \in [Requests -> Nat]
  /\ attempts \in [Requests -> Nat]
  /\ skip \in [Requests -> Nat]
  /\ avoid \in [Requests -> SUBSET Assignments]
  /\ claimed \in [Requests -> SUBSET QueuedIds]
  /\ queued \in [Requests -> QueuedIds \union {NoQueued}]
  /\ cand \in [Requests -> UnprocessedRow \union {NoRow}]
  /\ sid \in [Requests -> SuggestionIds \union {NoId}]
  /\ contended \in [Requests -> BOOLEAN]
  /\ rep \in [Requests -> SuggestionIds \union {NoId}]

(* Two calls of serve_suggestion never return the same suggestion, however *)
(* their statements interleave: the answer's processed row was inserted, or *)
(* given a new primary key, by the call that returns it.                    *)
NoSharedSuggestion ==
  \A r1, r2 \in Requests :
    r1 # r2 /\ pc[r1] = "done" /\ pc[r2] = "done" => sid[r1] # sid[r2]

(* A call whose answer came from the user's queue. *)
AnsweredFromQueue(r) ==
  pc[r] = "done" /\ unprocessed[sid[r]].source = "QUEUED_SUGGESTION"

(* A queued suggestion is returned by at most one call, also when a call   *)
(* dies between claiming it and marking it deleted, and also when the user *)
(* deletes it in between.                                                  *)
QueuedServedOnce ==
  \A r1, r2 \in Requests :
    r1 # r2 /\ AnsweredFromQueue(r1) /\ AnsweredFromQueue(r2) => queued[r1] # queued[r2]

(* retrieve_queued_suggestions_if_exists gives up only under contention:   *)
(* by then as many queued suggestions as it tried were claimed by others.  *)
GivingUpMeansContention ==
  \A r \in Requests :
    pc[r] = "could_not_process" =>
      Cardinality(ClaimedIds) >= MaxQueuedSuggestionFetches

(* The row that answers r was not replaced by a random suggestion and did  *)
(* not come from the user's queue.                                         *)
Kept(r) ==
  /\ pc[r] = "done"
  /\ unprocessed[sid[r]].source \notin {"QUEUED_SUGGESTION", "CONFLICT_REPLACEMENT_RANDOM"}

(* Of two suggestions with the same assignments that concurrent calls      *)
(* computed, replace_with_random_if_necessary lets at most one stay open:  *)
(* the check comes after the insert, so one of the two sees the other.     *)
NoOpenTwins ==
  \A r1, r2 \in Requests :
    /\ r1 # r2 /\ Kept(r1) /\ Kept(r2)
    /\ unprocessed[sid[r1]].asg = unprocessed[sid[r2]].asg
    => sid[r1] \notin Open \/ sid[r2] \notin Open

(* The rows inserted for a suggestion of the Redis pool. *)
RowsOf(u) == {i \in Allocated : unprocessed[i].uuid = u}

(* A computed suggestion leaves the pool only by truncation or once it has *)
(* been turned into a processed suggestion: a call that dies or fails      *)
(* between the two inserts does not lose it.                               *)
AvailableUntilProcessed ==
  \A u \in Uuids \ (Truncatable \union pool) :
    \E i \in RowsOf(u) :
      \/ i \in Processed
      \/ \E r \in Requests : cand[r] # NoRow /\ cand[r].uuid = u /\ rep[r] \in Processed

(* Every call of serve_suggestion ends, by an answer or by an error: both  *)
(* retry loops are bounded whatever the other calls and the user do.       *)
EveryCallEnds == \A r \in Requests : <>(pc[r] \in Terminal)

(* Unless a call dies, a queued suggestion that was claimed disappears     *)
(* from the user's queue (the delete_by_id that ends process).             *)
ClaimedIsRetired ==
  \A q \in QueuedIds :
    q \in ClaimedIds ~> (queue[q] = "deleted" \/ \E r \in Requests : pc[r] = "crashed")

(* Which suggestions of the pool already have a processed row. *)
AlreadyProcessed == {unprocessed[i].uuid : i \in Processed} \ {NoUuid}

(* What the comment on the except clause of next_suggestion says: after an *)
(* error between process and remove_from_available_suggestions, the next   *)
(* call that meets the suggestion again, with nobody else left to do it,   *)
(* removes it from the pool.                                               *)
StaleEntryDropped ==
  [][\A r \in Requests :
       /\ pc[r] \in {"should_ignore", "drop"} /\ pc'[r] = "fetch_args"
       /\ cand[r].uuid \in AlreadyProcessed
       /\ \A r2 \in Requests : pc[r2] # "remove_from_available"
       => cand[r].uuid \notin pool']_vars

---------------------------------------------------------------------------
(* Refinement: the tables are a ledger that hands out each ticket once.    *)

Ticket(i) == IF processed[i].queued # NoQueued THEN processed[i].queued ELSE i

Answer(r) ==
  CASE pc[r] = "done" -> Ticket(sid[r])
    [] pc[r] \in Terminal \ {"done"} -> "refused"
    [] OTHER -> "waiting"

Ledger == INSTANCE SuggestionLedger WITH
  Tickets <- SuggestionIds \union QueuedIds,
  spent <- {Ticket(i) : i \in Processed},
  answer <- [r \in Requests |-> Answer(r)]

(* serve_suggestion implements the ledger. *)
ImplementsLedger == Ledger!Spec
==============================================================================
