# A TLA+ model of the SigOpt server

SigOpt is an optimization service. A user describes an *experiment* (parameters,
metrics, a budget), asks the API for a *suggestion* (an assignment of the parameters),
evaluates it, and reports an *observation*. Workers read the observations from a message
queue's prompting, fit models, and leave computed suggestions behind for later API calls.
The server is a Python web application (`src/src/python/zigopt`) over PostgreSQL, Redis
and an object store; API processes and queue workers run in parallel, and nearly every
database statement and every Redis command commits on its own. That is where the
difficulty of the code lies: there are few locks and few long transactions, and the
correctness rests on unique constraints, on the order of statements, on idempotent
commands, and on the next message making up for a lost one. The modules here model those
protocols statement by statement.

Paths below are relative to `src/src/python/zigopt` unless they start with `src/`.

## 1. The system's parts

| part | state | operations | who calls it |
|---|---|---|---|
| Serving suggestions: `suggestion/broker`, `suggestion/processed`, `suggestion/unprocessed`, `queued_suggestion` | tables `suggestions`, `suggestions_processed`, `queued_suggestions`; a Redis hash and sorted set of computed suggestions per experiment | `serve_suggestion`, `process`, `find_next`, `replace_unprocessed`, deletions | the suggestion-create handler, concurrently |
| Optimization queue: `queue/redis`, `queue/monitor.py`, `queue/message_groups.py`, `optimize/queue.py`, `optimize/worker.py` | Redis sorted set of message keys, one body per key | `enqueue_optimization`, `dequeue`, `ExperimentWorker.handle_message` | observation handlers, experiment update, workers |
| Hyperparameters: `optimization_aux`, `optimize/optimizer.py` | table `experiment_optimization_aux`, one row per experiment and source | `persist_hyperparameters`, `insert_or_update` (newest wins), `reset_hyperparameters` | the workers; the experiment update handler |
| Pool of computed suggestions: `suggestion/unprocessed/service.py` | Redis hash `uuid -> suggestion`, sorted set `uuid -> time` | `insert_unprocessed_suggestions`, `_truncate_suggestion_length`, `get_suggestions_per_source`, `remove_from_available_suggestions` | workers store, API calls read and remove |
| Hyperparameter trigger: `optimize/sources/base.py`, `optimize/queue.py` | none (a function of observation counts read by the handler) | `should_execute_hyper_opt`, `execute_gp_hyper_opt_call_based_on_lag` | the observation handlers |
| Worker process: `queue/workers.py`, `queue/monitor.py`, `queue/local`, `queue/message_tracking` | loop state, a Redis counter of messages in flight | `_consumption_loop`, `_consume_message_from_queue`, alerts | docker restarts it on failure |
| Observations: `observation/service.py`, `observation/data.py`, `handlers/experiments/observations` | table `observations` (with tombstones), id sequence | `insert_observations`, `set_delete`, `delete_all`, update | the API |
| Suggestion lifecycle: `handlers/experiments/suggestions` | `processed_suggestion.deleted`, `automatic` | create, update, delete one or all | the API |
| Experiments: `experiment/service.py`, `handlers/experiments` | table `experiments`; Redis count for billing | insert, delete, restore, `mark_as_updated`, `incr_count` | the API |
| Training runs and checkpoints: `training_run`, `checkpoint`, `handlers/training_runs` | tables `training_runs`, `checkpoints` | create, update (merge), `set_deleted`, observation of a finished run | the API |
| AI experiments: `aiexperiment`-handlers, `optimize`, `handlers/training_runs/update.py` | an experiment whose observations are training runs | create run from a suggestion, report | the API |
| Tokens and sessions: `token/service.py`, `handlers/users/sessions.py`, `authentication` | table `tokens` | get-or-create role token, renew, rotate, expiry, session limit | login, every authenticated call |
| Invites, memberships, permissions: `invite`, `membership`, `permission`, `handlers/*/invite*`, `organization` | tables `invites`, `pending_permissions`, `memberships`, `permissions` | invite, uninvite, accept, change role, remove | the API |
| Users and clients: `user`, `client`, `profile` | tables `users`, `clients`, `organizations` | create, verify email, delete, merge meta | the API |
| Projects, tags, notes, web data: `project`, `tag`, `note`, `web_data` | one table each | create, update, list | the API |
| Files: `file`, `handlers/files`, `file_storage` | table `files` and an object store | signed upload, delete | the API |
| Rate limiter: `ratelimit`, `redis/service.py` | one Redis counter per window | `increment_and_check` | every API call |
| Pagination: `pagination` | markers handed to the client | `fetch_page` | list handlers |
| Database access: `db` | SQLAlchemy session, retries | `one`, `insert`, `update_one`, `upsert`, `retry` | everything |
| Authorization: `authorization` | a token's rights | `can_act_on_*` | every handler |
| JSON views and parameter handling: `json`, `api`, `parameters`, `assignments`, `conditionals`, `handlers/validate` | none | conversions and validation | handlers |
| Compute: `sigoptcompute`, `optimize/sources`, `libsigopt` | none (numerical code) | GP fitting, sampling | workers |
| Web pages that follow the server: `src/web/js/pagination`, `src/web/js/net/poller.js`, `src/web/js/pages/experiment` | the rows received, requests in flight, the poller's timers | page, sort, reverse, refresh; poll, pause, stop; refetch on change | the browser, one page at a time |
| Rest of the web UI, tools, tests: `src/web`, `src/tools`, `src/test`, `src/scripts`, `src/docker` | - | - | - |

How they interact on the main path:

1. An API call inserts an observation (`observations/create.py`), then enqueues
   `next_points` and, when the lag rule says so, `optimize` messages
   (`optimize/queue.py`). The queue is a Redis sorted set of *keys*; bodies are stored
   beside it and expire. Enqueue failures are tolerated (`queue/monitor.py`).
2. A worker pops the oldest key, reads the body, loads the experiment, reads the
   observations up to the present, computes, and writes either hyperparameters
   (`optimization_aux`) or a batch of suggestions into the Redis pool
   (`insert_unprocessed_suggestions`), which it truncates to the newest.
3. `serve_suggestion` prefers a suggestion the user queued; otherwise it reads the
   optimization arguments, ranks the pool and a low discrepancy sampler, inserts the
   unprocessed row, and *processes* it: one insert into `suggestions_processed`, whose
   primary key and unique `queued_id` arbitrate between concurrent calls. Whatever goes
   wrong is answered by a random fallback suggestion.
4. Deleting or updating an observation, or updating the experiment, enqueues again unless
   the call says `no_optimize`; an update of the experiment also deletes the stored
   hyperparameters then. Deleting all observations deletes them and enqueues nothing.
5. In an AI experiment a training run is created with a suggestion of its own; the update
   that completes the run inserts its observation. Deleting a run, a suggestion, an
   observation or the experiment reaches the same rows through different services.
6. Pages of the web application poll the experiment and its open suggestions, and page
   through its observations by markers, while all of this goes on.
7. Who may call any of it is decided by memberships and permissions, which invitations,
   their acceptance and their revocation change.

### What is hard, and what makes each part correct

* **Serving.** Several calls, each a long sequence of statements on shared tables; an
  exception between any two is caught and turned into a fallback; a process may die
  between any two. Correct means: no suggestion is handed to two calls; a queued one is
  handed out at most once and disappears from the queue afterwards; two open suggestions
  are not equal; a computed suggestion is not lost before it is served; the loops end.
* **Queue.** Keys are deduplicated, messages carry no data, rejects are no-ops, bodies
  expire, handlers and workers die, and of two runs for hyperparameters the date decides
  whose result is kept. Correct means: no committed change is forgotten while nothing
  fails, except that one can be overtaken by a run with a later date (section 7), and what
  a fault loses the next message repairs.
* **Hyperparameters.** Two workers may fit the same experiment from different data, which
  they count before and stream after the moment that dates their result; the row must not
  go back in time, and a reset must not be undone for good by a worker that started before
  it.
* **Pool.** Three unguarded operations on two Redis structures (hash, sorted set, truncation) against
  concurrent removals. Correct means: hash and set agree when nobody is at work, the
  size stays bounded, and new suggestions are not the ones cut off.
* **Trigger.** Handlers count observations at different moments than they insert; a
  fixed lag must neither skip nor repeat.
* **Worker process.** Fatal errors and recoverable ones; a counter of messages in flight
  that must return to zero; alerts that are raised once.
* **Training runs.** Three tables whose rows belong together are written one after the
  other, and some rows are written back whole as they were read. Correct means: a completed
  run is reported, and by the handlers of runs once; what belongs together is deleted and
  restored together; what was deleted stays deleted; and where the statements cannot
  guarantee that, only calls that really overlapped, or died, or a client that names the
  suggestion of an observation itself, may break it.
* **Invitations.** Memberships and permissions change by sequences of reads and writes,
  and an invitation is replaced by deletion and insertion. Correct means: no power without
  somebody who had it, revocations stand, owners and verified addresses stay, and nobody
  who was invited is forgotten, except by calls about the same user that overlapped.
* **Web pages.** Answers come late, twice, or not at all while the user clicks and the
  data move. Correct means: a table shows each row once, in order, and skips none; a page
  that stays visible shows the truth in the end; a hidden one stops asking.
* **Tokens, billing count.** Check-then-act sequences of two statements without locks.


## 2. Plan

The order follows what the server is for: handing out suggestions first, then what feeds
them, then the life of the data, then the accounts around it. Modules marked *done* are in
this directory.

| order | module | models | composes / implements | theorems |
|---|---|---|---|---|
| 1 | `SuggestionServing` *done* | `serve_suggestion` of concurrent calls | implements `SuggestionLedger` *done*, the abstract "each ticket is handed out once" | types; no suggestion answered twice; no queued suggestion answered twice; no equal suggestions left open; computed suggestions are not lost; giving up means contention; the ledger is implemented |
| 2 | `OptimizeQueue` *done* | from a committed change to the worker that reads it | the handlers, the queue and the workers together | types; no change is forgotten; a key in the queue has its body |
| 3 | `HyperparameterAux` *done* | when hyperparameters are fitted, and which fit is kept | refines what `OptimizeQueue` calls an `optimize` message | types; a later run wins |
| 4 | `SuggestionPool` *done* | hash and sorted set of computed suggestions | the pool that `SuggestionServing` takes as one set | types; truncation keeps the newest and bounds the pool; entries without a date are explained |
| 5 | `TrainingRuns` *done* | runs of an AI experiment with their suggestions, observations and checkpoints: creation, updates, reports, deletions | `suggestions_processed`, `observations` and `training_runs` under the handlers that write them | types; a completed run is reported, once; a run, its suggestion and its observation are deleted together; deletions stand; an experiment takes its runs along; edits are kept; checkpoints are bounded |
| 6 | `Invitations` *done* | invitations, memberships, permissions, pending permissions | - | types; owners are made by owners and stay; verifications stay; grants are backed; owners need no permissions; who is uninvited stays out |
| 7 | `PagedTable`, `Poller`, `PolledList`, `PolledView` *done* | the paged table, the poller and two pages that use it | `MCWebPages` composes them; `PolledList` and `PolledView` extend `Poller` | of the table: rows in order, none skipped, none back from the dead; pages match the listing |

Abstract specifications worth stating: the ledger (done), and for 2 and 3 together a
register "the optimizer knows changes up to n" of which `OptimizeQueue` is one
implementation. What an earlier version of this plan called `ObservationLifecycle` (updates
and deletions of observations and suggestions that write back what they read) has become
part of `TrainingRuns`, where those rows have more than one writer. Left for later are the
worker loop, tokens and the billing count (8).

## 3. The modules and the code

### 3.1 `SuggestionServing`

A behaviour is any number of concurrent `serve_suggestion` calls for one experiment. One
action is one statement of one call: `services.database_service` commits each of them, and
each Redis command stands alone.

State. The tables `suggestions`, `suggestions_processed` (a function from id to row or
`NoRow`: the primary key), the set of ids some observation references, the queued
suggestions (live or deleted), and the Redis pool; per call a program counter `pc` and
what the call has read (`claimed`, `avoid`, `cand`, ...).

| code | actions |
|---|---|
| `queued.py` `retrieve_queued_suggestions_if_exists`, `queued_suggestion/service.py` `find_next` | `ReadClaimed` and `FindNext` (two statements), `CreateUnprocessed`, `ProcessQueued`, `RetireQueued` |
| `SuggestionBroker.next_suggestion` | `FetchArgs`, `Pick`, `ShouldIgnore`, `InsertUnprocessed`, `ProcessSuggestion`, `RemoveFromAvailable`, `DropAlreadyProcessed` |
| `tolerate_exceptions` around it | `TolerateException`, then `Fallback`, `ProcessFallback` |
| `replace_with_random_if_necessary`, `replace_unprocessed` | `FindMatching`, `InsertReplacement`, `ReplaceUnprocessed` |
| user and workers | `Observe`, `DeleteSuggestion`, `DeleteQueued`, `Truncate`; `Crash` of the process |

Which suggestion ranks first is numerical and so left open: `Pick` may take any entry of
the pool, a padding suggestion, a low discrepancy one, or none. Assignments are compared
by equality and nothing else. `ReplaceUnprocessed` changes a primary key in place, as the
code does, and fails when an observation references it.

`SuggestionLedger` is what callers rely on. A ticket is a queued suggestion, or the id of
a processed row without one. `Spend`, `Give`, `GiveInstead` and `Refuse` say that an
answer is a ticket claimed before and never handed out. The refinement maps `spent` to
the tickets of the processed rows and `answer` to the result of each finished call.

### 3.2 `OptimizeQueue`

`Accept` .. `AddToQueue` are the handlers: commit the change, choose the messages
(`MessageSets`), store one body per key (`PersistContent`), then one `ZADD NX` with all
keys. `UpdateExperiment` is the experiment update, which may set the experiment's state
either way; `ResetHyperparameters`, which deletes the hyperparameters and enqueues both
keys, follows unless the call says `no_optimize`. `DeleteAllObservations` and
`ClearHyperparameters` are the deletion of all observations, which enqueues nothing.
`Pop`, `FetchContent`, `FindExperiment`, `ReadArgs`, `TakeStamp` (of a hyperparameter run
only), `SaveResult` are a worker. A save stores suggestions; or it writes the row of the
hyperparameters with the run's stamp, unless the row has a later one (`Refused`).
`EnqueueFails` (everything in `robust_enqueue` is tolerated), `WorkerFails` (`reject` and
`delete` of the Redis provider are empty), `Expire` (`queue.redis_key_expiry_time`) are the
faults, `MaxFaults` of them.

`covered` is what the results that are kept rest on: for suggestions, what any saved run
had counted, for hyperparameters only what the run that wrote the row had counted. `lost`
are the changes whose message or row is gone. `begun`, `missed` and `overtaken` say what
the run of the row had not counted although a run with an earlier stamp had. A run is
taken to have read what it counted: what it streams later may be more, never less.

### 3.3 `HyperparameterAux`

The creates (`ReadCounts`, `InsertObservation`, `EnqueueOptimization`) count *before* they
insert and ask for a run by the lag rule (`ExecuteOnLag` with both lag tables, the
dimension and size limits). `Revise`, `Reset`, `EnqueueAnyway`, `DeleteAllObservations`
and `ResetAfterDeleteAll` are the other handlers. A worker: `Take`, `CountObservations`,
`ReadAux`, `Stamp` (`current_aux_date_updated`), `StreamObservations`, `FindExperiment`,
`Upsert` with the where clause of `persist_hyperparameters`. `fetch_observation_iter`
counts at once but returns a generator; the query behind it is sent when
`get_hyperparameters` draws the first observation, which is after the stamp and does not
happen where the defaults are forced (`Defaults`). So a run may be stamped first and read
newer data than one stamped later. A row is abstracted to its date, when the run that wrote
it began and when it had streamed, and when the run that *computed* its content began.

### 3.4 `SuggestionPool`

Calls of `_store_unprocessed_suggestions` command by command (`SetHashFields`,
`AddSortedSetNew`, `GetSortedSetRange`, `DropFromHash`, `DropFromSortedSet`), requests that
choose and remove (`Choose`, `RemoveFromHash`, `RemoveFromSortedSet`). `Advance` is
`retry_on_failure`: a command whose answer was lost is sent again. `StoreStops` and
`ConsumerStops` end a call between two commands. Scores order the set, and Redis orders
equal scores by member, which is why suggestions are numbers.

### 3.5 `TrainingRuns`

Each element of `Calls` is one API call, made once, with a request from `Requests`. A
request is a record: its kind, the rows it names, and the `state` and `deleted` that an
update may give. `pc` says which statement of its handler comes next; `held`, `marked`,
`kept` and `copies` are what the call has read and acts on later.

| code | actions |
|---|---|
| `aiexperiments/training_runs/create.py` | `BeginCreate`, `ServeSuggestion` or `ServeObservation`, `InsertRun` |
| `TrainingRunService.set_deleted` (delete, or update with another flag) | `Reread`, `FlagSuggestions`, `ReadObservations`, `WriteObservations`, `FlagRun` |
| `training_runs/update.py` | `BeginUpdate`, the above if the flag changes, `Write`, then always `Examine`; `Recheck`, `InsertObservation`, `NameObservation` if the run is to be reported |
| `experiments/delete.py` with `include_runs` | `FlagRuns`, then as above for all rows, `FlagExperiment` |
| `experiments/update.py` with `state` | `BeginRestoreExperiment`, `FlagExperiment` |
| `suggestions/update.py`, `observations/update.py` | `Upsert`, `Rewrite`: the row as it was read, with this call's change; an observation may be moved to another suggestion, or to none |
| `observations/create.py`, a batch | `BeginObservationCreate`, `InsertReported`: an observation of any suggestion in use |
| deletions of suggestions and observations | `FlagSuggestions`; `ReadObservations` and `WriteObservations` |
| `checkpoints/create.py` | `BeginCheckpoint`, `InsertCheckpoint` |

The handler that creates one observation refuses experiments that take runs only
(`create.py:152`); the one that creates a batch does not, nor does the update of an
observation, so both are calls here. Both look up the suggestion that the request names
and accept any that is in use (`Nameable`), reported or not. A batch of several is like
that many calls of one, whose inserts nothing distinguishes from overlapping ones.

`edits` of a row stands for its data: the set of calls whose changes it contains, so that
writing back an old copy shows as a missing element. `met` records which calls were under
way together. It is history, like `author` and `revived`: the properties use it to say that
a wrong outcome needs calls that really overlapped. A serial execution must get everything
right, and of overlapping ones the properties name the pairs that may go wrong.

### 3.6 `Invitations`

One organization, its users and clients; at most one invitation per address, so
invitations and pending permissions are kept by user. Calls are made once, as above.

| code | actions |
|---|---|
| `clients/invite.py`, `organizations/invite/create.py`, `update.py` | `BeginInvite`, `BeginOrgInvite`, `BeginModify`; `DropPending`, `DropInvite` when an invitation is replaced; `Decide`; then `InsertMembership` or `Elevate` and `DropPermissions`, `Upsert`, `UpsertWrite` for a user who is taken at once, `InsertInvite`, `InsertPending`, `Unverify` for others |
| `clients/invite.py` and `organizations/invite/delete.py`, uninvite | `BeginUninvite`, `BeginOrgUninvite`, `DeletePermission`, `Count`, `DeleteMembership`, `FindInvite`, `DeletePending`, `Recheck`, `DeleteInvite` |
| `users/sessions.py` `verify_email`, `users/create.py` | `Declare`, `FindValid` or `CreateUser`; `TakeInvite`, `AssertValid`, then memberships and permissions; `Visible` |
| `users/email.py`, for the user who is logged in and for any unverified address | `BeginResend`, `Resend` |
| `users/permissions.py`, `users/delete.py`, `clients/delete.py` | `BeginJoin`; `PurgePermissions` .. `FlagUser`; `ClientPending` .. `StrayInvites` |

`Valid` is `_filter_to_valid_invites`: the inviter must still have the power. `power`
collects who could administer what at any moment of a call, `did` what a call has written,
`out` and `promised` who was uninvited or invited while nothing else was under way.

### 3.7 `PagedTable`

The component made by `make-pageable.js`, with the buttons of `paging-block.js` and the
history table's sorting and modal, over the list endpoint. `table` is the component's
state, `calls` its requests. `Request`, `Kicks`, `Limit` and `FarthestPage` are the
functions of the same purpose; `Count` and `Fetch` the two statements of the endpoint;
`Receive` is `_receivePage`, which may ask for the next page. `Click`, `Sort`,
`ModalDelete`, `Refresh`, `Unmount` are the user. `Change` is other people, who add a batch
of `Batches` or delete the rows of one of `Removals`, all of them in the delete-all
handler. The random nonce is a counter. `kept`, `since`, `steady` and `outgrown` are
history: the rows that were listed all the time since the table was emptied, those listed
at some time, whether nothing moved, and whether an answer that counted two pages more than
the one before numbered the next page, in paging from the last page, above pages that are
loaded.

### 3.8 `Poller`, `PolledList`, `PolledView`

`Poller` has the functions of `net/poller.js` on a record (phase of the request, last data,
`cooling` for the wait of `_.throttle`, `timer` for its trailing call, `deferred` for
the next poll, `paused`, `stopped`). `_.throttle` is modelled from its documentation.
`PolledList` is the suggestions page: the poller's data and the answers to the user's own
requests go into one list. `PolledView` is the overview page and the server's side of it:
a report takes the time, inserts, and marks the experiment with that second only if it is
newer; the page fetches all its parts when a poll shows a newer mark. `MCWebPages` composes
the pages: one of them is opened, and its behaviours are explored.

## 4. What the runs check

| run | instance | shows |
|---|---|---|
| `serving_queue` | 3 calls, 2 queued suggestions and one in the pool that a worker may truncate | `QueuedServedOnce`, and `GivingUpMeansContention`: a call that raises `CouldNotProcessSuggestionError` really lost as many suggestions to others |
| `serving_ledger` | 2 calls (one may die, one meets errors), 1 queued, 1 computed suggestion, 2 assignments, the user reports and deletes | `ImplementsLedger`, `NoSharedSuggestion`, `NoOpenTwins` (check after insert: of two equal answers at most one stays open), `AvailableUntilProcessed`; and that it ends: `EveryCallEnds`, `ClaimedIsRetired` |
| `serving_stale` | one call dies after processing | *violation* of `StaleEntryDropped`, see 7 |
| `wakeup_safe` | 2 changes, 1 update or deletion of all observations, 2 workers, no faults | `NoLostWakeup`, `BodyBeforeKey` |
| `wakeup_live` | 1 change, 1 update or deletion of all observations, 2 workers, 1 fault | `CatchesUp`, `LostIsHealed` |
| `aux_safe` | 1 create, 2 workers, 1 revision, 1 reset, 1 failure | `LaterRunWins`, `ResetIsHealed` |
| `aux_lag`, `aux_fit` | 2 creates of which one failed; 2 workers | *violations* of `LagCountsObservations` and `FitIsStored`, see 7 |
| `pool_faults` | 2 calls with batches of 1 and 2, 1 request, 2 clock readings, 1 repeated command, 1 failure | `NewestKept`, `UndatedHasCause`, `TruncatedWhenDone` |
| `training_runs` | 3 calls, one of which may die, on one run (at work, completed, or at work and deleted) with room for another; updates, deletions, batches, a deletion and a restoration of the experiment | `CompletedIsReported`, `ReportedOnce`, `DeletedTogether`, `ExperimentTakesItsRuns`, `DeletionStands`, `EditsKept`, `CheckpointsBounded` |
| `invitations` | 3 calls, one of which may die, about one user in 4 situations, 2 clients, an owner and an administrator | `OwnersMadeByOwners`, `GrantsAreBacked`, `OwnersAreKept`, `VerifiedStays`, `OwnersNeedNoPermission`, `MembersHaveClients`, `UninvitedStaysOut`, `PromisesAreKept` |
| `web_pages` | a table of 5 rows on pages of 2 to which a batch of 4 may come and from which one or all may go, 2 columns, 2 requests in flight, 3 moves of user, others and failures; a list of up to 3 suggestions; a page with one part and 2 reports | `RowsInOrder`, `NoRowSkipped`, `GoneStaysGone`, `PagesMatchListing`, `PageArrives`; `ListCatchesUp`; `ViewCatchesUp` |

### Bounds

* **Serving.** `SuggestionIds` bounds `suggestions_id_seq`. The instances hold more ids
  than their calls can use (each call makes at most one row for a queued suggestion per
  fetch, one or two candidates, a fallback and a replacement, and duplicates of a uuid
  share one), so the bound never blocks a step. `MaxQueuedSuggestionFetches` is 2 for the
  3 of the default configuration and `MaxAttempts` 1 or 2 for 5: one more iteration
  repeats the same statements, and two are enough to lose one candidate and take another.
* **Queue.** Two changes and one update suffice for every overlap of an enqueue with a
  pop and a read that differ in what the read sees; two workers, for one to overtake the
  other between its count and its stamp, which the run reaches. With liveness the instance
  has one change: a worker that counted before it and one that counted after it are still
  both there, since the update enqueues too. A fault hits any step of any actor, and the
  update's message is the one that repairs it. Changes and workers are symmetric in
  `wakeup_safe`, which has no liveness property.
* **Hyperparameters.** `Dimension` 11 has a lag of 2, so one observation more or less
  decides; `InitialCount` 23 is just above the `2 * Dimension` below which defaults are
  forced, and one deletion falls below. A second worker is the one that overtakes.
* **Pool.** `GenerationSize` and `BacklogMultiplier` 1 make the limit the size of the
  batch, so a batch of two and a batch of one disagree on how much to keep. Two clock
  readings make batches equal in time, ordered, or ordered against the order of the
  commands.

* **Training runs.** A call is made once, and every wrong outcome the code is exposed to
  needs at most two calls that overlap and one that comes after. `Requests` gives the first
  call everything, the second what changes rows of the run, and the third what can follow:
  a completion, a deletion, a checkpoint. One run exists at the start, in
  three situations; ids leave room for one more run and suggestion and two more
  observations, as many as three calls can use at once with the given requests.
  `MaxCheckpoints` is 1 for 200. Only `Mortal` calls die.
* **Invitations.** The same scheme: a first call that may be nearly anything, a second that
  changes the same invitation or membership, a third that accepts. The user is unknown,
  unknown and invited, unverified and invited as an owner, or a member already. Two clients, so
  that a permission can remain when another one goes.
* **Web pages.** Five rows on pages of two make three pages, of which the last is partly
  filled. A batch of four adds two pages at once, which is what `outgrown` needs, and with
  `EachSide` 1 (3 in the code) both ellipses appear then. A second column
  orders the rows otherwise. `IndexBound` cuts off requests beyond index 5 (see 7).
  Two requests in flight are what a double request and a late answer need. The parts of the
  overview page are fetched alike and wait for each other, so one stands for all. Three
  suggestions, three acts, one lost answer; two reports in the same second or in two.

The theorems of section 6 remove the bounds for the safety properties they state.

The largest instances are `serving_queue` (3.4 million distinct states), `training_runs`
and `invitations` (0.7 million each) and `web_pages` (0.4 million, with liveness). They are
sized to be checked in a minute or so each on two cores.

Type invariants are theorems (`TypeCorrect`, section 6) and are not repeated in the runs,
except that of `Invitations`.

### Deadlock

Every run has `CHECK_DEADLOCK FALSE`: all calls end, each is made once, and the bounded
environment is used up, so the models stop.

## 5. Fairness

* `serving_ledger` (`FairSpec`): `WF_vars(Serve(r))` for each call. An API process that
  has accepted a request executes its statements until it answers; nothing in
  `serve_suggestion` waits for another call. A call whose process died is exempt.
* `wakeup_live`, `aux_safe`: a handler that has accepted a request goes on
  (`hpc[h] # "idle" /\ Handle(h)`); no user is obliged to make a call. `Work(w)` of each
  worker: `_consumption_loop` polls for ever, and the compose files restart a worker that
  dies, which is why `WorkerFails` returns to `pop`. Weak fairness is enough because a
  worker is the only one that disables its own step, except `Pop`, for which another
  worker's pop is as good. No fairness is put on faults, deletions or user calls.
* `web_pages`: a request that was sent is answered and the answer is delivered
  (`Count`, `Fetch`, `Receive`, `ListServed`, ...), timers fire (`ListTick`, `WatchTick`),
  and a report that has begun is carried out. The user, other people, failures and the
  browser's hiding of the page are not fair. A request that fails is an answer too: it is
  then the code that asks again, or does not.
* `wakeup_safe`, `training_runs`, `invitations`: safety only, no fairness.

## 6. What is proved

All theorems hold for every value of the constants that satisfies the modules' named
assumptions: distinct null values, natural bounds, disjoint batches, functions of the
stated types, and tables that are in order at the start. None assumes a number of calls,
workers, suggestions or rows. Of the properties of the runs that are not about liveness,
all but two are theorems.

The proofs of one module share a scheme. `TypeCorrect` comes first. A lemma per kind of
statement says what it leaves alone (the other calls' variables, the rows of other tables);
the invariant is then carried by one lemma per conjunct that a statement can disturb, one
step per action.

**`SuggestionServing_proofs`** - `TypeCorrect`; `SuggestionServedOnce` (`NoSharedSuggestion`).
That two finished calls differ in their answer is not inductive: it must be known already
while they work that the row each holds is its own. `IInv` says that every processed row
has an unprocessed one (`ForeignKey`), that a call past its insert (`OwningPCs`) holds a
processed row and one before it an allocated one (`HoldsRow`), that the rows of queued and
fallback suggestions, and a replacement not yet swapped in, are known to their call alone
(`PrivateRows`), and `DistinctOwners`: two calls past their insert hold different rows.
Before the insert two calls may well hold the same row: the pool hands out one row per
uuid. Statements that touch no table are one lemma (`QuietStep`), inserts of unprocessed
rows another (`InsertStep`), inserts of processed rows a third (`ProcessStep`).

On top of `IInv`: `NoTwinsStayOpen` (`NoOpenTwins`), by `TwinInv`. Of two calls that
processed equal suggestions, the one that looked for a match later saw the other's row;
`SourceRole` fixes the sources of the rows that are exempt from the look. `ComputedNotLost`
(`AvailableUntilProcessed`), by `PoolInv`: a computed suggestion leaves the pool when a row
of its uuid is `Accounted` for, processed or replaced by a row that is. `CandidateRole` ties
the row a call holds to the pool entry it chose, and `ReplacementRole` keeps a replacement
with the call that inserted it, so that the witness survives the change of primary key.

**`QueuedServing_proofs`** - `QueuedSuggestionServedOnce` (`QueuedServedOnce`), on top of
`IInv`. `OneRowPerQueued` is the unique constraint on `queued_id`, kept also by the change
of primary key in `replace_unprocessed`; `QueueRole` says which labels of a call exclude
that its row came from the queue (a replacement is computed, a duplicate uuid names a
computed row by `ComputedRows`), and that a settled answer from the queue is the row of the
queued suggestion its call had found. Two answers that came from the same queued
suggestion would then be one row, which `DistinctOwners` excludes.

`ServingImplementsLedger` (`ImplementsLedger`) is the refinement, step by step: inserting a
processed row is `Spend`; the last statement of a call is `Give` or `Refuse`, or
`GiveInstead` where it is the change of a primary key, which exchanges the ticket;
everything else stutters. `TicketsDiffer` gives every processed row a ticket of its own,
from `OneRowPerQueued` and from `TicketAssumption` (ids of the two tables are told apart).

`GivesUpUnderContention` (`GivingUpMeansContention`) counts: `Contention` says that each
fetch a call has lost is one more queued suggestion that is claimed, where a suggestion it
was offered was not among those claimed when it read, and an insert fails only on one that
is. A call that gives up after n fetches has lost n suggestions to others.

**`OptimizeQueue_proofs`** - `TypeCorrect`; `ChangesRemembered` (`NoLostWakeup`).
`NoLostWakeup` is inductive together with `BusyHoldsKey` (a worker at work has a key),
`UpdateWantsAll` (an update that enqueues does so for every key, which is what lets it take
over the changes whose coverage it has erased) and `DatesInv`. The last is about refused
saves: a change that only a refused run had counted must count as overtaken by the row.
`StampsInThePast` says that stamps are dated before the clock and that what was counted for
them is in `begun`; `InOrderOfStamps`, that of two runs, or of a run and the row, the one
with the later stamp has counted or missed whatever the other one has. It is proved by what
a step does to dates: nothing (`DatesKept`), a reset (`DatesReset`), a stamp (`DatesTaken`)
or a save (`DatesStored`). `PoppedKeysHaveBodies` (`BodyBeforeKey`):
without expiry a stored body stays, and a handler that comes to the `ZADD` has stored all
its bodies (`Stored`).

**`HyperparameterAux_proofs`** - `TypeCorrect`; `LaterRunsWin` (`LaterRunWins`). The
strengthening is `RowIsDated` (the row's date is when its run began, which is no earlier
than any saved run began, later than any of them counted, and no later than the row's run
streamed), `CountedThenBegan` and `BeganThenRead` (a run counts, takes its date, and streams,
in this order) and `InThePast`. The upsert then compares dates that order the runs
(`UpsertIsDated`).

**`SuggestionPool_proofs`** - `TypeCorrect`; `TruncationKeepsNewest` (`NewestKept`);
`UndatedExplained` (`UndatedHasCause`); `TruncationBounds` (`TruncatedWhenDone`).
Concurrent truncations act on a range read earlier. `DropsOld` says that whatever a call is
about to drop had enough newer entries when it read them, counted in the history `everAt`,
in which entries are never removed; `NewerGrows` and `NewerCount` show that this can only
become more true. `GoneIsDropped` then explains each missing entry. `UndatedInv` adds that a
batch is stored by its call only, that the hash is written first, and why a score can be
missing. `LastLeaves` bounds the pool: from its range on, the call that added last is to
leave no more than it keeps, whatever the others remove meanwhile.

**`TrainingRuns_proofs`** - `TypeCorrect`; `ReportCorrect` (`CompletedIsReported`). The
invariant is `TypeOK`, `ShapeInv`, `OwnSuggestion` and the property. `ShapeInv` says what a
call knows where it stands: an update on its way to look has a run, one that reports holds
a row with the run's suggestion, one that writes back has a row. It needs that runs and
suggestions stay and that a run keeps its suggestion (`RunsStay`, `SuggestionsStay`), and
that a step of one call leaves the others' variables alone (`OthersKeep`). `OwnSuggestion`
is the unique constraint on `suggestion_id`: two runs, stored or about to be, never share
a suggestion. It is needed where an update restores the suggestion of its run: any run that
becomes reportable by that is then the one the update will look at. `Becomes` shows that
whatever step makes a run reportable belongs to an update that still has to look, or is the
write-back that `revived` remembers; `LooksOn` that an update does not stop looking while
there is something to see, unless it dies. The order of the statements in `update.py`
carries the theorem: the look comes after the last write of every update.

The other theorems of this module say who may be to blame, and rest on `MetInv`: calls that
are under way together have met, and those that met are remembered. Each has an invariant
about what calls hold between two statements.

* `CheckpointLimit` (`CheckpointsBounded`), by `CheckpointInv`: a call about to insert still
  has room but for checkpoints of calls it has met (`RoomFor`).
* `DeletedStaysDeleted` (`DeletionStands`), by `CopyInv`: a copy to be written back is of a
  row that was in use when it was read, and if the row is deleted by now, a deletion met
  the call (`CopyOf`). `PurposeInv` says who flags and who writes back.
* `EditsNotLost` (`EditsKept`), by `EditInv`: what a finished call has put into a row is in
  the row and in every copy that will be written, unless it met a call that wrote over it.
* `OneReport` (`ReportedOnce`), by `ReportInv`: an observation of a suggestion that no
  client has named (`Named`) is named by its run or has a reporter that is still to name it
  or died (`Backed`), and a call about to report has met that reporter (`MetReporter`). Since an update writes back an
  observation with the suggestion it had when it was read, this must hold of every version
  of an observation, stored or in a call's hands (`Version`, `Reports`), and two such
  versions of different observations have reporters that met or died (`Overlapping`).
* `DeletionTakesRuns` (`ExperimentTakesItsRuns`), by `CourseInv` and `SweepInv`: behind the
  statement the deletion has reached, every row in use comes from a call it has met, or
  from one that serves a suggestion of such a call (`Sweep`, `Brings`), or, once an update
  has made the experiment active again (`Reopened`), from a call that came later; until
  then the experiment takes no new rows, and whoever is creating one has met the deletion.
* `RunsDeletedTogether` (`DeletedTogether`), by `TogetherInv`: while nothing disturbs (no row
  deleted on its own, no process dead, no deletion met by a call that restores, creates or
  writes back), a run's flag differs from its suggestion's or its observation's only while
  a call that will set the one that lags is under way (`SuggestionMatches`,
  `ObservationMatches`), and a run to be reported is looked at by an update that does not
  delete it (`IsLookedAt`). That is inductive only together with what each call holds
  between two statements (`Calm`): the rows flagged so far follow the order of the
  statements, and whatever is reported, inserted or written back is of a row in use. Two
  invariants hold whether or not anything disturbs: `OwnObservation` (an observation, stored
  or carried, belongs to one run) and `AimsInv` (a call flags the suggestion and the
  observation that its run names). That flags agree in the starting tables is
  `TogetherAssumption`, kept apart from `StartAssumption` since no other theorem uses it.

**`Invitations_proofs`** - `TypeCorrect`, by `ShapeInv` (what a call was asked for and holds
where it stands); then, with `MetInv` as above:

* `OwnersComeFromOwners` (`OwnersMadeByOwners`), by `OwnerSponsors`: whoever is about to
  become an owner has had a sponsor in power since the call began, or since the invitation
  was found valid.
* `OwnersStay`, `VerificationsStay` (`OwnersAreKept`, `VerifiedStays`), by `Overtaken`: a
  revocation that is past its check and finds an owner has met the call that made the
  owner, and an invitation, or a resend that somebody else asked for, that will unverify
  somebody verified has met the verification.
* `GrantsHaveSponsors` (`GrantsAreBacked`), by `GrantSponsors` and the foreign keys `Keys`:
  what an acceptance read was in the inviter's power, or was written since it began; when
  the power is asserted, it is backed, or somebody else withdrew it (`Crossed`).
* `UninvitedAreOut` (`UninvitedStaysOut`), by `Outside`: an uninvitation that met nobody has
  left neither membership nor invitation, and no call on its way to the tables is about who
  is out.
* `OwnersHaveNone` (`OwnersNeedNoPermission`), by a conjunction of facts that need each
  other. `StoredAgrees` and `HeldAgree`: invitations with the same id, in the table or in a
  call's hands, are of one type unless one replaces the other. `OwnerGrants`,
  `OwnersPending`: whoever invites or becomes an owner has no clients to grant.
  `Cleared`, `Inserts`, `InvitedOwners`: an invitation that meets an owner was written by a
  call that met the one that made the owner. `Deletion`, `DeletedOwners`: nor does the
  deletion of the account make an exception. `Settled`: a call that is past its reads and
  finds the user an owner has met the call that made the owner. So a permission that
  `UpsertWrite` gives to an owner is a contest of the two (`Contested`, `Reissued`).

The starting tables are assumed to satisfy the foreign keys (`InputAssumption`), and the
owners in them to have no permission and no invitation and to exist, which is how the
handlers leave them (`StartAssumption`).

**`PagedTable_proofs`** - `PageInvariant`; `PagesStayInOrder` (`RowsInOrder`),
`RowsAreNotSkipped` (`NoRowSkipped`), `GoneRowsStayGone` (`GoneStaysGone`). `PageInv` has
three parts. `TypeInv` is the types. `CallsInv` is about requests: one that is still wanted
asks for the page to fill, from the table's marker (`Fits`), and its answer has the rows
next beyond the marker, in order and none left out of those that were listed all the time
(`Answers`). `TableInv` is about the table: it shows what comes up to its marker and nothing
else (`UpToMarker`), the page to fill is next to those loaded (`FillsNext`, except when
`outgrown`), the pages are ordered, and without gaps. `RankAssumption` is what the sort
guarantees: ids break ties, so a column orders the rows totally.

`SteadyPagesMatch` (`PagesMatchListing`) is a theorem about counting and needs an invariant
of its own: `SteadyInv` says that while nothing moves, each page loaded is that segment of
the sorted listing, and that the marker a request carries is the last row before the
segment it asks for. The lemmas compute with places in the listing: a row's place is the
number of rows above it, the page asked for after the m-th row begins with the next one,
the descending listing is the ascending one turned round, and the last page takes the
remainder of the division by the page size, which is any positive number
(`TableAssumption`, with finitely many rows).

**Only model-checked**: the liveness properties (`EveryCallEnds`, `ClaimedIsRetired`,
`CatchesUp`, `LostIsHealed`, `ResetIsHealed`, `PageArrives`, `ListCatchesUp`,
`ViewCatchesUp`), which are out of the prover's reach, and the safety properties
`MembersHaveClients` and `PromisesAreKept` of `Invitations`. These two follow a promise of a
client from the request to the permission through every reason that excuses its loss; their
invariant would have to say, for each call and each label, where the promise is at that
moment. It is not worked out yet.

## 7. Where the code and its comments disagree

* **`StaleEntryDropped`** (`serving_stale`). The comment in `suggestion/broker/queued.py`
  says that the except clause drops from Redis a suggestion that an earlier call processed
  without removing. That call has left a processed row with equal assignments, so
  `should_ignore` skips the entry first, and it stays until truncation.
* **`LagCountsObservations`** (`aux_lag`). The note in `optimize/sources/base.py` says the
  lag counts observations, not successful ones; both callers pass successes.
* **`FitIsStored`** (`aux_fit`). The docstring of `get_hyperparameters` says computed
  hyperparameters are stored. A run that computes nothing stores the old ones under its
  own, later date, and the fit of a slower run is rejected or overwritten.

### What the models show beside that

These are outcomes that the code can reach and nothing in the repository denies; the
properties are stated so that they are the only exceptions.

*Optimization queue.* A run for hyperparameters counts the observations, and reads the
clock next. Of two runs the one that counted less may read the clock later, and then its
row is kept: the save of the other is refused without an error, no message is queued, and
the change that only the refused run had counted is forgotten until the next message
(`Overtaken`). No fault is needed. An update that restores the experiment with
`no_optimize` asks for nothing, so that what was skipped while it was deleted waits for the
next change. What is committed between the two statements that delete all observations
loses its hyperparameters in the same way.

*Hyperparameters.* The count that decides whether a run fits is older than the data it
fits, and may be older than that of a run whose result was refused; `LaterRunWins` claims
no more than the dates give.

*Training runs.* A batch of observations, or an update of an observation, may report a
suggestion that a run has or will have reported: nothing forbids the second observation,
and no overlap is needed (`NamedByClient`). Restoring an experiment restores none of its
runs. Two completing updates that overlap, or one that dies before it names its
observation and a later one, leave two observations of one suggestion: no constraint
forbids it (`ReportedOnce`). A deletion that overlaps a completing update, or the deletion
of an experiment with its runs, can leave an observation in use on a deleted run
(`DeletedTogether`, `ExperimentTakesItsRuns`). Updates of suggestions and observations,
and the deletion flags of observations, write back whole rows and undo what others did in
between (`EditsKept`, `DeletionStands`). An observation can survive the deletion of its
experiment although the call that made it came later and met nothing: it is enough that the
suggestion it reports was made by a call that overlapped the deletion (`Origins`); this
case came up in the proof of `ExperimentTakesItsRuns`. Checkpoints exceed the limit, or come after the
observation, only by overlap (`CheckpointsBounded`). The route that creates checkpoints
passes no experiment, so that the handler's check of a deleted experiment never applies.

*Invitations.* A user who is logged in and asks for the verification email again becomes
unverified, whether verified before or not, until the new code is used (`VerifiedStays`).
An invitation that is replaced, and an acceptance of it that overlaps, can
lose or keep pending permissions halfway; an uninvitation that overlaps an invitation can
remove a membership together with the permission just granted; an owner can be removed by
an uninvitation that began before (`PromisesAreKept`, `MembersHaveClients`,
`OwnersAreKept`). An acceptance reads the pending permissions, then asserts that the
inviters still have their power over those that are pending at that moment: one that was
written and withdrawn around the read is granted unasserted (`Crossed`, found in the proof
of `GrantsAreBacked`). An invitation that began before its user was made an owner is
inserted afterwards, and grants the owner a permission when it is accepted; it takes a
fourth call, and came up in the proof of `OwnersNeedNoPermission`. A deleted user's address can keep a membership that a call about it
wrote while the account was deleted, which no handler finds again (`UninvitedStaysOut`
speaks of accounts that exist). `delete_stray_invites_by_organization` deletes the invitations of owners
when any client is deleted, since they have no pending permissions.

*Web pages.* Pages loaded from the last page on are numbered by the number of pages in
the latest answer: when that has grown by two or more between two answers, the next
page, whose rows come before, gets a number above those loaded, and the rows are out of
order (`outgrown`, found in the proof of `RowsInOrder`). Growth by one only names a page
that is loaded already. In reverse paging over a listing that has shrunk, pages can be
asked for at index -1, and pages of the middle can be missing, because the index is
counted from a number of pages that each answer renews. An empty page keeps the marker
it was asked with, so that the table goes on paging; with `farthestPage` 0, which counts
as not set, it goes on without end (`IndexBound`). A page that fails is not asked for
again, since the history table passes no error handler. A change of the sort column asks
for its first page twice. A poll may start on a hidden page, by the trailing call of the
throttle, though `poller.js:50-51` says that it pauses. A suggestion the user created
and another client closed before any poll stays on the page (`ListCatchesUp`). An
observation whose report is marked with a second the page has acted on already is not
fetched; two refetches that end in the wrong order leave the older data; a part whose
request failed stays empty (`ViewCatchesUp`).

## 8. What is not modelled

* Numbers: ranking, sampling, fitting. The models leave open what they return and say only
  when they run and on which data.
* `explicit_suggestion`, grid experiments and development mode in `SuggestionServing`;
  importances messages in `OptimizeQueue`; the SPE source, which keeps no hyperparameters,
  and clocks of worker hosts that differ, in `HyperparameterAux`; the expiry of the pool
  after 31 days.
* In `TrainingRuns`: runs outside AI experiments, the values and the failure flag of an
  observation (a failed run is treated as a completed one), timestamps, and the messages
  that the handlers enqueue, which are those of `OptimizeQueue`.
* In `Invitations`: the deletion of the last client, which deletes the organization; signing
  up with the address of a deleted user; a change of address (the new one is another
  account of the model, unverified); password resets (`user/service.py:72`) and edits of
  the profile (`users/update.py:95-130`), which write back the meta data they read as the
  invitation and the resend do, and can so undo a verification that overlaps; `features.requireInvite`; other organizations;
  mail and the IAM log.
* In the web pages: an update of a row that moves it in the order (one row leaves and
  another comes), `queuedSuggestions`, and what the browser renders. Charts, forms and
  editors are functions of one page's state.
* The worker loop and the tracking of messages, the list queue, tokens and sessions, the
  billing count, the rate limiter, and the experiment update in two statements. They have
  hazards of their own that no property here covers: a retry after a timeout pushes a
  message of the list queue twice (`redis/service.py:392`); a worker that dies leaves the
  tracking of its message (`message_tracking/service.py:30`); sessions are counted before
  one more is inserted, and a role's token is looked up and inserted (`token/service.py:168`
  and `74`); the cached count of experiments is tested, computed and set while creations
  increment it (`experiment/service.py:143`); an experiment deleted after
  `ensure_not_deleted` gets suggestions and hyperparameters (`optimize/optimizer.py:123`).
* Parsing, validation, authorization, JSON, mail, files and the rest of the web
  application: functions of one request, or input and output only.
