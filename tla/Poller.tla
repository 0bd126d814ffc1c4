------------------------------- MODULE Poller -------------------------------
(***************************************************************************)
(* The poller of the web pages (web/js/net/poller.js): it asks the server  *)
(* every waitTime while the page is visible, and reports what differs from *)
(* the answer before. doPoll is throttled by underscore: called while the  *)
(* wait runs, it sets a timer and runs at the end of the wait instead. A   *)
(* poller is a record; the pages that own one are modelled in PolledList   *)
(* and PolledView.                                                         *)
(***************************************************************************)
EXTENDS Naturals

CONSTANT Null   \* lastData before the first answer

\* phase "idle" is ~isPolling; data is what the server has answered.
NewPoller ==
  [phase |-> "idle", data |-> Null, last |-> Null, stopped |-> TRUE,
   paused |-> FALSE, cooling |-> FALSE, timer |-> FALSE, deferred |-> FALSE,
   once |-> FALSE]

PollNow(p) ==
  IF p.phase = "idle" /\ ~p.stopped
  THEN [p EXCEPT !.phase = "sent"] ELSE p
DoPoll(p) ==
  IF p.cooling THEN [p EXCEPT !.timer = TRUE] ELSE [PollNow(p) EXCEPT !.cooling = TRUE]
NextPoll(p) == IF p.stopped \/ p.paused THEN p ELSE DoPoll(p)

TimerLost(p) == [p EXCEPT !.timer = FALSE, !.cooling = FALSE]  \* mutant
\* The wait ends: the timer runs the poll, which starts another wait.
WaitEnds(p) ==
  IF p.timer THEN [PollNow(p) EXCEPT !.timer = FALSE] ELSE [p EXCEPT !.cooling = FALSE]

SetPaused(p, b) ==
  LET q == [p EXCEPT !.paused = b] IN IF b THEN q ELSE NextPoll(q)
StartOnce(p) ==
  IF p.once THEN p ELSE NextPoll([p EXCEPT !.stopped = FALSE, !.once = TRUE])
Stop(p) == [p EXCEPT !.stopped = TRUE]

Answered(p, data) == [p EXCEPT !.phase = "answered", !.data = data]
\* onChange is called by the page, when IsChange.
IsChange(p) == ~p.stopped /\ p.data # p.last
PollSuccess(p) ==
  IF p.stopped THEN [p EXCEPT !.phase = "idle", !.data = Null]
  ELSE [p EXCEPT !.phase = "idle", !.data = Null, !.last = p.data, !.deferred = TRUE]
NoRetry(p) == [p EXCEPT !.phase = "idle", !.data = Null]  \* mutant
PollError(p) == [p EXCEPT !.phase = "idle", !.data = Null, !.deferred = TRUE]
Deferred(p) == NextPoll([p EXCEPT !.deferred = FALSE])
=============================================================================
