----------------------------- MODULE PolledView -----------------------------
(***************************************************************************)
(* The overview page of an experiment                                      *)
(* (web/js/pages/experiment/common/view/page.js): a poller watches the     *)
(* experiment; when its `updated` is newer the page fetches what it shows  *)
(* - best assignments, observations, ... - all at once, and replaces it    *)
(* when the last of the answers is there. The server inserts an            *)
(* observation and then marks the experiment as updated, with the time at  *)
(* which the request began, in seconds, and only if that is newer          *)
(* (handlers/experiments/observations/create.py, experiment/service.py).   *)
(***************************************************************************)
EXTENDS Poller, Sequences

CONSTANTS Pending,  \* a request that is not answered yet
  Parts, Reports, MaxFetches, MaxClock, MaxFailed, MaxPauses  \* bounds

VARIABLES
  watcher,  \* this.experimentPoller
  seenAt,   \* state.experiment.updated
  parts,    \* state: for each part, the observations it was made from; Null if none
  fetches,  \* the onUpdate calls in flight, in the order they were made
  clock,    \* the server's clock, in seconds
  total,    \* the observations of the experiment
  updated,  \* date_updated, in seconds
  reports,  \* the requests that report an observation: step, and when they began
  failed, pauses,  \* how much of the bounds is used
  wiped,    \* history: a part could not be fetched
  tied,     \* history: a report came with a time the page had already acted on
  crossed   \* history: onUpdate calls ended in another order than they were made

viewVars == <<watcher, seenAt, parts, fetches, clock, total, updated, reports,
              failed, pauses, wiped, tied, crossed>>

Showing == ~watcher.stopped
Asked == [q \in Parts |-> Pending]
PageKeeps == UNCHANGED <<watcher, seenAt, parts, fetches, pauses, crossed>>
ExperimentKeeps == UNCHANGED <<clock, total, updated, reports, tied>>
-----------------------------------------------------------------------------
ViewInit ==
  /\ watcher = NewPoller /\ seenAt = 0
  /\ parts = [q \in Parts |-> Null] /\ fetches = <<>>
  /\ clock = 0 /\ total = 0 /\ updated = 0
  /\ reports = [r \in Reports |-> [step |-> "waiting", at |-> 0]]
  /\ failed = 0 /\ pauses = 0 /\ wiped = FALSE /\ tied = FALSE /\ crossed = FALSE

\* componentDidMount: the first poll and the first fetch start together.
MountView ==
  /\ ~watcher.once /\ watcher' = StartOnce(watcher) /\ fetches' = <<Asked>>
  /\ ExperimentKeeps /\ UNCHANGED <<seenAt, parts, failed, pauses, wiped, crossed>>

\* The server: a report takes the time, inserts, marks.
Second ==
  /\ clock < MaxClock /\ clock' = clock + 1
  /\ \E r \in Reports : reports[r].step = "waiting"  \* nothing else reads the clock
  /\ UNCHANGED <<total, updated, reports, failed, wiped, tied>> /\ PageKeeps
Begin(r) ==
  /\ reports[r].step = "waiting"
  /\ \A p \in Reports : p < r => reports[p].step # "waiting"  \* they are alike
  /\ reports' = [reports EXCEPT ![r] = [step |-> "begun", at |-> clock]]
  /\ UNCHANGED <<clock, total, updated, failed, wiped, tied>> /\ PageKeeps
Insert(r) ==
  /\ reports[r].step = "begun"
  /\ reports' = [reports EXCEPT ![r].step = "inserted"]
  /\ total' = total + 1
  /\ UNCHANGED <<clock, updated, failed, wiped, tied>> /\ PageKeeps
IsNewer(at) == updated < at
MarkAsUpdated(r) ==
  /\ reports[r].step = "inserted"
  /\ reports' = [reports EXCEPT ![r].step = "done"]
  /\ updated' = IF IsNewer(reports[r].at) THEN reports[r].at ELSE updated
  /\ tied' = (tied \/ (updated >= reports[r].at /\ seenAt >= updated))
  /\ UNCHANGED <<clock, total, failed, wiped>> /\ PageKeeps

\* The poller of the experiment, of which the page uses `updated` only; progress, and
\* so the number of observations, is part of the data compared.
WatchServed ==
  /\ watcher.phase = "sent" /\ watcher' = Answered(watcher, <<updated, total>>)
  /\ ExperimentKeeps
  /\ UNCHANGED <<seenAt, parts, fetches, failed, pauses, wiped, crossed>>
\* onChange calls onUpdate, which fetches everything anew.
WatchArrives ==
  /\ watcher.phase = "answered" /\ watcher' = PollSuccess(watcher)
  /\ IF IsChange(watcher) /\ watcher.data[1] > seenAt
     THEN /\ Len(fetches) < MaxFetches
          /\ seenAt' = watcher.data[1] /\ fetches' = Append(fetches, Asked)
     ELSE UNCHANGED <<seenAt, fetches>>
  /\ ExperimentKeeps /\ UNCHANGED <<parts, failed, pauses, wiped, crossed>>
WatchFails ==
  /\ watcher.phase = "sent" /\ watcher' = PollError(watcher)
  /\ failed < MaxFailed /\ failed' = failed + 1
  /\ ExperimentKeeps /\ UNCHANGED <<seenAt, parts, fetches, pauses, wiped, crossed>>
WatchTick ==
  /\ \/ watcher.cooling /\ watcher' = WaitEnds(watcher)
     \/ watcher.deferred /\ watcher' = Deferred(watcher)
  /\ ExperimentKeeps
  /\ UNCHANGED <<seenAt, parts, fetches, failed, pauses, wiped, crossed>>

FetchPart(i, q) ==
  /\ fetches[i][q] = Pending
  /\ fetches' = [fetches EXCEPT ![i][q] = total]
  /\ ExperimentKeeps
  /\ UNCHANGED <<watcher, seenAt, parts, failed, pauses, wiped, crossed>>
\* logAndIgnoreErrors: a request that fails leaves null, which the page then shows.
PartFails(i, q) ==
  /\ fetches[i][q] = Pending /\ failed < MaxFailed
  /\ fetches' = [fetches EXCEPT ![i][q] = Null]
  /\ failed' = failed + 1 /\ wiped' = TRUE
  /\ ExperimentKeeps /\ UNCHANGED <<watcher, seenAt, parts, pauses, crossed>>
\* Promise.all(...).then(setState): whichever call ends last is what remains.
AllThere(i) ==
  /\ \A q \in Parts : fetches[i][q] # Pending
  /\ parts' = fetches[i]
  /\ fetches' = SubSeq(fetches, 1, i - 1) \o SubSeq(fetches, i + 1, Len(fetches))
  /\ crossed' = (crossed \/ i > 1)
  /\ ExperimentKeeps /\ UNCHANGED <<watcher, seenAt, failed, pauses, wiped>>

HideOrShow ==
  /\ pauses < MaxPauses /\ pauses' = pauses + 1
  /\ watcher' = SetPaused(watcher, ~watcher.paused)
  /\ ExperimentKeeps /\ UNCHANGED <<seenAt, parts, fetches, failed, wiped, crossed>>
LeaveView ==
  /\ Showing /\ watcher' = Stop(watcher)
  /\ ExperimentKeeps
  /\ UNCHANGED <<seenAt, parts, fetches, failed, pauses, wiped, crossed>>

Report(r) == Begin(r) \/ Insert(r) \/ MarkAsUpdated(r)
Fetched(i) == AllThere(i) \/ \E q \in Parts : FetchPart(i, q)
AnyFetched == \E i \in DOMAIN fetches : Fetched(i)
ViewStep ==
  \/ Second \/ (\E r \in Reports : Report(r))
  \/ WatchServed \/ WatchArrives \/ WatchFails \/ WatchTick \/ HideOrShow \/ LeaveView
  \/ AnyFetched
  \/ \E i \in DOMAIN fetches, q \in Parts : PartFails(i, q)
ViewNext == MountView \/ ViewStep

\* Time passes, requests are answered, and a report that has begun is carried out.
ViewFairness ==
  /\ WF_viewVars(WatchServed) /\ WF_viewVars(WatchArrives)
  /\ WF_viewVars(WatchTick) /\ WF_viewVars(AnyFetched)
  /\ \A r \in Reports : WF_viewVars(Insert(r) \/ MarkAsUpdated(r))
ViewSpec == ViewInit /\ [][ViewNext]_viewVars /\ ViewFairness
-----------------------------------------------------------------------------
(* A page that stays visible shows, in the end, all the observations of the
   experiment in each of its parts, however the polls, the fetches and the reports
   interleave. Three things defeat that, and nothing else: a part could not be fetched,
   two onUpdate calls ended in the wrong order, or a report was marked with a second
   that the page had acted on already. A poll that fails does not. *)
ViewCatchesUp ==
  <>[](\/ watcher.paused \/ ~Showing
       \/ wiped \/ crossed \/ tied
       \/ \A q \in Parts : parts[q] = total)
=============================================================================
