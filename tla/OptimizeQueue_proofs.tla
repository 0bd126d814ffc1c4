------------------------- MODULE OptimizeQueue_proofs -------------------------
(***************************************************************************)
(* No committed change is forgotten, for any number of handlers, workers   *)
(* and faults.  The inductive invariant adds to NoLostWakeup what it needs *)
(* to know of the actors: a busy worker holds a key, an experiment update  *)
(* that is about to enqueue enqueues both keys, and the later the stamp of *)
(* a run, the more changes it has counted or overtaken.                    *)
(***************************************************************************)
EXTENDS OptimizeQueue, TLAPS

(* Every worker past pop holds a key. *)
BusyHoldsKey == \A w \in Workers : wpc[w] # "pop" => wkey[w] \in Keys

(* An experiment update wakes both kinds of run. *)
UpdateWantsAll == \A u \in Updates : hpc[u] \in {"persist", "add"} => wants[u] = Keys

(* A run that has taken a stamp and is about to save, and the changes that *)
(* were counted by then: by the run itself or by one before it.            *)
Stamped(w) == wpc[w] = "save" /\ wkey[w] = "optimize"
Counted(w) == seen[w] \union missed[w]
CountedForRow == covered["optimize"] \union overtaken

StampsInThePast ==
  /\ \A w \in Workers : Stamped(w) =>
       stamp[w] > 0 /\ stamp[w] <= clock /\ Counted(w) \subseteq begun
  /\ row <= clock /\ CountedForRow \subseteq begun

(* Of two runs, the one with the later stamp has counted or overtaken what *)
(* the other one has. *)
InOrderOfStamps ==
  /\ \A v, w \in Workers :
       Stamped(v) /\ Stamped(w) /\ stamp[v] <= stamp[w] => Counted(v) \subseteq Counted(w)
  /\ \A w \in Workers : Stamped(w) =>
       /\ row <= stamp[w] => CountedForRow \subseteq Counted(w)
       /\ stamp[w] <= row => Counted(w) \subseteq CountedForRow

DatesInv == StampsInThePast /\ InOrderOfStamps

IInv == TypeOK /\ BusyHoldsKey /\ UpdateWantsAll /\ DatesInv /\ NoLostWakeup

LEMMA InitIInv == Init => IInv
<1> SUFFICES ASSUME Init PROVE IInv
  OBVIOUS
<1>1. TypeOK
  <2>1. faults \in 0..MaxFaults
    BY FaultAssumption DEF Init
  <2>2. /\ deleted \in BOOLEAN
        /\ committed \in SUBSET Changes /\ content \in SUBSET Keys /\ queue \in SUBSET Keys
        /\ covered \in [Keys -> SUBSET Changes] /\ lost \in [Keys -> SUBSET Changes]
        /\ clock \in Nat /\ row \in Nat /\ begun \in SUBSET Changes /\ overtaken \in SUBSET Changes
    BY DEF Init
  <2>3. /\ wants \in [Handlers -> SUBSET Keys] /\ toPersist \in [Handlers -> SUBSET Keys]
        /\ hpc \in [Handlers -> HandlerPCs]
    BY DEF Init, HandlerPCs
  <2>4. /\ wpc \in [Workers -> WorkerPCs] /\ wkey \in [Workers -> Keys \union {NoKey}]
        /\ seen \in [Workers -> SUBSET Changes]
        /\ stamp \in [Workers -> Nat] /\ missed \in [Workers -> SUBSET Changes]
    BY DEF Init, WorkerPCs
  <2>5. QED
    BY <2>1, <2>2, <2>3, <2>4 DEF TypeOK
<1>2. BusyHoldsKey /\ UpdateWantsAll
  BY DEF Init, BusyHoldsKey, UpdateWantsAll, Handlers
<1>3. NoLostWakeup
  BY DEF Init, NoLostWakeup, Pending, Due
<1>4. DatesInv
  BY DEF Init, DatesInv, StampsInThePast, InOrderOfStamps, Stamped, CountedForRow, Keys
<1>5. QED
  BY <1>1, <1>2, <1>3, <1>4 DEF IInv

(* A step of a handler or of a worker keeps the types. *)
LEMMA TypeStep == TypeOK /\ BusyHoldsKey /\ [Next]_vars => TypeOK'
<1> SUFFICES ASSUME TypeOK, BusyHoldsKey, [Next]_vars PROVE TypeOK'
  OBVIOUS
<1> USE HandlerAssumption, KeyAssumption, FaultAssumption
    DEF TypeOK, Keys, HandlerPCs, WorkerPCs, handlerVars, workerVars, stampVars, resultVars
<1>1. ASSUME NEW h \in Handlers, Handle(h) PROVE TypeOK'
  <2>1. CASE Accept(h)
    BY <2>1 DEF Accept
  <2>2. CASE Commit(h)
    BY <2>2 DEF Commit, MessageSets
  <2>3. CASE UpdateExperiment(h)
    BY <2>3 DEF UpdateExperiment
  <2>4. CASE ResetHyperparameters(h)
    BY <2>4 DEF ResetHyperparameters, RowDeleted
  <2>5. CASE PersistContent(h)
    BY <2>5 DEF PersistContent, WithBody
  <2>6. CASE AddToQueue(h)
    BY <2>6 DEF AddToQueue, QueueWith
  <2>7. CASE DeleteAllObservations(h)
    BY <2>7 DEF DeleteAllObservations
  <2>8. CASE ClearHyperparameters(h)
    BY <2>8 DEF ClearHyperparameters, RowDeleted, Lose, Due
  <2>9. QED
    BY <1>1, <2>1, <2>2, <2>3, <2>4, <2>5, <2>6, <2>7, <2>8 DEF Handle
<1>2. ASSUME NEW h \in Handlers, EnqueueFails(h) PROVE TypeOK'
  <2>1. \A k \in Keys : DependOn(h, k) \in SUBSET Changes
    BY <1>2 DEF DependOn, Pending, Due, Handlers
  <2>2. lost' \in [Keys -> SUBSET Changes]
    BY <1>2, <2>1 DEF EnqueueFails
  <2>3. QED
    BY <1>2, <2>2 DEF EnqueueFails
<1>3. ASSUME NEW w \in Workers, Work(w) PROVE TypeOK'
  <2>1. CASE Pop(w)
    BY <2>1 DEF Pop, QueueWithout
  <2>2. CASE FetchContent(w)
    BY <2>2 DEF FetchContent, BackToPop, Lose, Pending, Due
  <2>3. CASE FindExperiment(w)
    BY <2>3 DEF FindExperiment, BackToPop, Lose, Pending, Due
  <2>4. CASE ReadArgs(w)
    BY <2>4 DEF ReadArgs, VisibleChanges
  <2>5. CASE TakeStamp(w)
    BY <2>5 DEF TakeStamp
  <2>6. CASE SaveResult(w)
    <3>1. row' \in Nat /\ overtaken' \in SUBSET Changes /\ covered' \in [Keys -> SUBSET Changes]
      BY <2>6 DEF SaveResult, Stored
    <3>2. lost' \in [Keys -> SUBSET Changes]
      BY <2>6 DEF SaveResult, Lose, Pending, Due
    <3> QED
      BY <2>6, <3>1, <3>2 DEF SaveResult, BackToPop
  <2>7. QED
    BY <1>3, <2>1, <2>2, <2>3, <2>4, <2>5, <2>6 DEF Work
<1>4. ASSUME NEW w \in Workers, WorkerFails(w) PROVE TypeOK'
  <2>1. lost' \in [Keys -> SUBSET Changes]
    BY <1>4 DEF WorkerFails, Lose, Pending, Due
  <2>2. faults' \in 0..MaxFaults
    BY <1>4 DEF WorkerFails
  <2>3. QED
    BY <1>4, <2>1, <2>2 DEF WorkerFails, BackToPop
<1>5. ASSUME NEW k \in Keys, Expire(k) PROVE TypeOK'
  BY <1>5 DEF Expire
<1>6. CASE DeleteExperiment
  BY <1>6 DEF DeleteExperiment
<1>7. CASE UNCHANGED vars
  BY <1>7 DEF vars
<1>8. QED
  BY <1>1, <1>2, <1>3, <1>4, <1>5, <1>6, <1>7 DEF Next

(* What a step does to the program counters of handlers and workers. *)
LEMMA ActorStep ==
  TypeOK /\ BusyHoldsKey /\ UpdateWantsAll /\ [Next]_vars => BusyHoldsKey' /\ UpdateWantsAll'
<1> SUFFICES ASSUME TypeOK, BusyHoldsKey, UpdateWantsAll, [Next]_vars
             PROVE BusyHoldsKey' /\ UpdateWantsAll'
  OBVIOUS
<1> USE HandlerAssumption, KeyAssumption
    DEF TypeOK, BusyHoldsKey, UpdateWantsAll, handlerVars, workerVars, stampVars, Handlers
<1>1. ASSUME NEW h \in Handlers, Handle(h) \/ EnqueueFails(h)
      PROVE BusyHoldsKey' /\ UpdateWantsAll'
  <2>1. CASE Accept(h) \/ Commit(h)
    BY <2>1 DEF Accept, Commit
  <2>2. CASE UpdateExperiment(h) \/ ResetHyperparameters(h)
    BY <2>2 DEF UpdateExperiment, ResetHyperparameters
  <2>3. CASE PersistContent(h)
    BY <2>3 DEF PersistContent
  <2>4. CASE AddToQueue(h) \/ EnqueueFails(h)
    BY <2>4 DEF AddToQueue, EnqueueFails
  <2>5. CASE DeleteAllObservations(h) \/ ClearHyperparameters(h)
    BY <2>5 DEF DeleteAllObservations, ClearHyperparameters
  <2>6. QED
    BY <1>1, <2>1, <2>2, <2>3, <2>4, <2>5 DEF Handle
<1>2. ASSUME NEW w \in Workers, Work(w) \/ WorkerFails(w)
      PROVE BusyHoldsKey' /\ UpdateWantsAll'
  BY <1>2 DEF Work, Pop, FetchContent, FindExperiment, ReadArgs, TakeStamp, SaveResult,
              WorkerFails, BackToPop
<1>3. CASE (\E k \in Keys : Expire(k)) \/ DeleteExperiment \/ UNCHANGED vars
  BY <1>3 DEF Expire, DeleteExperiment, vars
<1>4. QED
  BY <1>1, <1>2, <1>3 DEF Next

(* Steps that leave rows and stamps alone, and keep or end the runs that   *)
(* have taken a stamp, keep the order of the dates.                        *)
LEMMA DatesKept ==
  ASSUME DatesInv, UNCHANGED <<stampVars, resultVars>>,
         \A v \in Workers : Stamped(v)' => Stamped(v) /\ UNCHANGED <<seen[v], missed[v], stamp[v]>>
  PROVE  DatesInv'
BY DEF DatesInv, StampsInThePast, InOrderOfStamps, Counted, CountedForRow, stampVars, resultVars

(* A reset leaves no row, dated before every stamp. *)
LEMMA DatesReset ==
  ASSUME TypeOK, DatesInv, RowDeleted, UNCHANGED <<stampVars, workerVars>>
  PROVE  DatesInv'
<1>1. CountedForRow' = {} /\ row' = 0
  BY DEF RowDeleted, TypeOK, Keys, CountedForRow
<1> QED
  BY <1>1 DEF TypeOK, DatesInv, StampsInThePast, InOrderOfStamps, Stamped, Counted, workerVars,
              stampVars

(* A run that takes its stamp has counted or overtaken whatever was        *)
(* counted for a stamp before.                                             *)
LEMMA DatesTaken ==
  ASSUME TypeOK, DatesInv, NEW w \in Workers, TakeStamp(w)
  PROVE  DatesInv'
<1> USE DEF TypeOK, Keys, DatesInv, StampsInThePast, InOrderOfStamps, Stamped, Counted, CountedForRow,
            resultVars
<1>1. /\ clock' = clock + 1 /\ stamp'[w] = clock + 1
      /\ begun' = begun \union seen[w] /\ Counted(w)' = begun'
      /\ UNCHANGED <<resultVars, wkey, seen>>
  BY DEF TakeStamp
<1>2. \A v \in Workers \ {w} : UNCHANGED <<wpc[v], stamp[v], missed[v]>>
  BY DEF TakeStamp
<1>3. StampsInThePast'
  BY <1>1, <1>2
<1>4. InOrderOfStamps'
  <2>1. \A v \in Workers : Stamped(v)' => Counted(v)' \subseteq begun'
    BY <1>3
  <2>2. \A v \in Workers \ {w} : Stamped(v)' => Stamped(v) /\ Counted(v)' = Counted(v)
    BY <1>1, <1>2
  <2>3. \A v \in Workers \ {w} : Stamped(v)' => stamp'[v] <= clock
    BY <1>2, <2>2
  <2>4. row' <= clock /\ CountedForRow' \subseteq begun'
    BY <1>1
  <2> QED
    BY <1>1, <1>2, <2>1, <2>2, <2>3, <2>4
<1> QED
  BY <1>3, <1>4

(* The run that stores its row leaves the one with the latest stamp. *)
LEMMA DatesStored ==
  ASSUME TypeOK, DatesInv, NEW w \in Workers, SaveResult(w), ~deleted, Stamped(w), row <= stamp[w]
  PROVE  DatesInv'
<1>1. /\ row' = stamp[w] /\ CountedForRow' = Counted(w)
      /\ UNCHANGED stampVars
  BY DEF SaveResult, Refused, Stored, Stamped, TypeOK, Keys, CountedForRow, Counted
<1>2. \A v \in Workers : Stamped(v)' =>
        v # w /\ Stamped(v) /\ UNCHANGED <<seen[v], missed[v], stamp[v]>>
  BY DEF SaveResult, BackToPop, Stamped, TypeOK
<1> QED
  BY <1>1, <1>2 DEF TypeOK, DatesInv, StampsInThePast, InOrderOfStamps, Counted, stampVars

(* Every step keeps the order of the dates. *)
LEMMA DatesStep == TypeOK /\ BusyHoldsKey /\ DatesInv /\ [Next]_vars => DatesInv'
<1> SUFFICES ASSUME TypeOK, BusyHoldsKey, DatesInv, [Next]_vars PROVE DatesInv'
  OBVIOUS
<1>1. ASSUME UNCHANGED <<workerVars, stampVars, resultVars>> PROVE DatesInv'
  BY <1>1, DatesKept DEF workerVars, Stamped
<1>2. ASSUME NEW h \in Handlers, Handle(h) PROVE DatesInv'
  <2>1. CASE ResetHyperparameters(h) \/ ClearHyperparameters(h)
    BY <2>1, DatesReset DEF ResetHyperparameters, ClearHyperparameters
  <2>2. CASE ~(ResetHyperparameters(h) \/ ClearHyperparameters(h))
    BY <1>1, <1>2, <2>2
       DEF Handle, Accept, Commit, UpdateExperiment, DeleteAllObservations, PersistContent, AddToQueue
  <2> QED
    BY <2>1, <2>2
<1>3. CASE \/ \E h \in Handlers : EnqueueFails(h)
           \/ \E k \in Keys : Expire(k)
           \/ DeleteExperiment \/ UNCHANGED vars
  BY <1>1, <1>3 DEF EnqueueFails, Expire, DeleteExperiment, vars, workerVars, stampVars, resultVars
<1>4. ASSUME NEW w \in Workers, Pop(w) \/ FetchContent(w) \/ FindExperiment(w) PROVE DatesInv'
  <2>1. UNCHANGED <<stampVars, resultVars>>
    BY <1>4 DEF Pop, FetchContent, FindExperiment
  <2>2. \A v \in Workers : Stamped(v)' => Stamped(v) /\ UNCHANGED <<seen[v], missed[v], stamp[v]>>
    BY <1>4 DEF Pop, FetchContent, FindExperiment, BackToPop, Stamped, TypeOK
  <2> QED
    BY <2>1, <2>2, DatesKept
<1>5. ASSUME NEW w \in Workers, ReadArgs(w) PROVE DatesInv'
  <2>1. UNCHANGED <<stampVars, resultVars>>
    BY <1>5 DEF ReadArgs
  <2>2. \A v \in Workers : Stamped(v)' => Stamped(v) /\ UNCHANGED <<seen[v], missed[v], stamp[v]>>
    BY <1>5 DEF ReadArgs, Stamped, TypeOK
  <2> QED
    BY <2>1, <2>2, DatesKept
<1>6. ASSUME NEW w \in Workers, TakeStamp(w) PROVE DatesInv'
  BY <1>6, DatesTaken
<1>7. ASSUME NEW w \in Workers, SaveResult(w) PROVE DatesInv'
  <2>0. UNCHANGED stampVars
    BY <1>7 DEF SaveResult
  <2>1. \A v \in Workers : Stamped(v)' => Stamped(v) /\ UNCHANGED <<seen[v], missed[v], stamp[v]>>
    BY <1>7 DEF SaveResult, BackToPop, Stamped, TypeOK
  <2>2. CASE ~deleted /\ Stamped(w) /\ row <= stamp[w]
    BY <1>7, <2>2, DatesStored
  <2>3. CASE ~deleted /\ wkey[w] = "next_points"
    <3>1. UNCHANGED <<row, overtaken>> /\ covered'["optimize"] = covered["optimize"]
      BY <1>7, <2>3 DEF SaveResult, Refused, Stored, TypeOK, Keys
    <3> QED
      BY <2>0, <2>1, <3>1
         DEF DatesInv, StampsInThePast, InOrderOfStamps, Counted, CountedForRow, stampVars
  <2>4. CASE deleted \/ Refused(w)
    <3>1. UNCHANGED resultVars
      BY <1>7, <2>4 DEF SaveResult
    <3> QED
      BY <2>0, <2>1, <3>1, DatesKept
  <2>5. wkey[w] \in Keys /\ row \in Nat /\ stamp[w] \in Nat /\ wpc[w] = "save"
    BY <1>7 DEF SaveResult, BusyHoldsKey, TypeOK
  <2> QED
    BY <2>2, <2>3, <2>4, <2>5 DEF Stamped, Refused, Keys
<1>8. ASSUME NEW w \in Workers, WorkerFails(w) PROVE DatesInv'
  <2>1. UNCHANGED <<stampVars, resultVars>>
    BY <1>8 DEF WorkerFails
  <2>2. \A v \in Workers : Stamped(v)' => Stamped(v) /\ UNCHANGED <<seen[v], missed[v], stamp[v]>>
    BY <1>8 DEF WorkerFails, BackToPop, Stamped, TypeOK
  <2> QED
    BY <2>1, <2>2, DatesKept
<1> QED
  BY <1>2, <1>3, <1>4, <1>5, <1>6, <1>7, <1>8 DEF Next, Work

(* The step from one state to the next for one key and one pending change. *)
Remembered(k, h) ==
  \/ h \in lost[k] \/ Overtaken(k, h)
  \/ k \in queue
  \/ InFlight(h) \/ \E u \in Updates : InFlight(u)
  \/ \E w \in Workers : WillRead(w, k) \/ WillSave(w, k, h)

(* A run of optimize that stores its row, or is refused, leaves a change   *)
(* pending only if the run of the row has overtaken it, or if something    *)
(* else remembers it.                                                      *)
LEMMA SaveRemembers ==
  ASSUME IInv, NEW w \in Workers, SaveResult(w), NEW k \in Keys, NEW h \in Pending(k)'
  PROVE  Remembered(k, h)'
<1> USE DEF TypeOK, IInv, handlerVars, InFlight, WillRead, WillSave, Remembered, Overtaken
<1>0. /\ wkey[w] \in Keys /\ wpc[w] = "save" /\ UNCHANGED <<handlerVars, queue>>
      /\ \A v \in Workers \ {w} : UNCHANGED <<wpc[v], wkey[v], seen[v]>>
  BY DEF SaveResult, BackToPop, BusyHoldsKey
<1>1. CASE deleted
  <2>1. UNCHANGED resultVars /\ lost' = [lost EXCEPT ![wkey[w]] = @ \union Pending(wkey[w])]
    BY <1>1 DEF SaveResult, Lose
  <2>2. h \in Pending(k)
    BY <1>0, <2>1 DEF Pending, Due, resultVars
  <2>3. CASE k = wkey[w]
    BY <2>1, <2>2, <2>3
  <2>4. CASE k # wkey[w]
    BY <1>0, <2>1, <2>2, <2>4 DEF NoLostWakeup, resultVars
  <2> QED
    BY <2>3, <2>4
<1>2. CASE ~deleted /\ wkey[w] = "next_points"
  <2>1. /\ UNCHANGED <<row, overtaken>> /\ lost' = [lost EXCEPT !["next_points"] = @ \ seen[w]]
        /\ covered' = [covered EXCEPT !["next_points"] = @ \union seen[w]]
    BY <1>2 DEF SaveResult, Refused, Stored
  <2> QED
    BY <1>0, <1>2, <2>1 DEF NoLostWakeup, Pending, Due
<1>3. CASE ~deleted /\ Stamped(w) /\ ~Refused(w)
  <2>1. /\ row' = stamp[w] /\ overtaken' = missed[w]
        /\ lost' = [lost EXCEPT !["optimize"] = @ \ seen[w]]
        /\ covered' = [covered EXCEPT !["optimize"] = seen[w]]
    BY <1>3 DEF SaveResult, Stored, Stamped
  <2>2. CountedForRow \subseteq seen[w] \union missed[w]
    BY <1>3 DEF DatesInv, InOrderOfStamps, Stamped, Refused, Counted
  <2>3. CASE k = "optimize"
    <3>1. h \notin seen[w] /\ h \in Due(k)
      BY <1>0, <2>1, <2>3 DEF Pending, Due, Keys
    <3>2. CASE h \in CountedForRow
      BY <2>1, <2>2, <2>3, <3>1, <3>2
    <3>3. CASE h \notin CountedForRow
      <4>1. h \in Pending(k) /\ h \notin overtaken
        BY <2>3, <3>1, <3>3 DEF CountedForRow, Pending
      <4>2. Remembered(k, h)
        BY <4>1 DEF NoLostWakeup
      <4> QED
        BY <1>0, <2>1, <2>3, <3>1, <4>1, <4>2 DEF Keys
    <3> QED
      BY <3>2, <3>3
  <2>4. CASE k = "next_points"
    BY <1>0, <1>3, <2>1, <2>4 DEF NoLostWakeup, Pending, Due, Stamped
  <2> QED
    BY <2>3, <2>4 DEF Keys
<1>4. CASE ~deleted /\ Stamped(w) /\ Refused(w)
  <2>1. UNCHANGED <<row, overtaken, covered, lost>>
    BY <1>4 DEF SaveResult, resultVars
  <2>2. seen[w] \subseteq CountedForRow
    BY <1>4 DEF DatesInv, InOrderOfStamps, Refused, Counted
  <2>3. h \in Pending(k)
    BY <1>0, <2>1 DEF Pending, Due
  <2>4. Remembered(k, h)
    BY <2>3 DEF NoLostWakeup
  <2>5. CASE WillSave(w, k, h)
    <3>1. k = "optimize" /\ h \in CountedForRow
      BY <1>4, <2>2, <2>5 DEF Stamped
    <3> QED
      BY <2>1, <2>3, <3>1 DEF CountedForRow, Pending
  <2>6. CASE ~WillSave(w, k, h)
    BY <1>0, <2>1, <2>4, <2>6
  <2> QED
    BY <2>5, <2>6
<1> QED
  BY <1>0, <1>1, <1>2, <1>3, <1>4 DEF Keys, Stamped

LEMMA WakeupStep == IInv /\ [Next]_vars => NoLostWakeup'
<1> SUFFICES ASSUME IInv, [Next]_vars, NEW k \in Keys, NEW h \in Pending(k)' PROVE Remembered(k, h)'
  BY DEF NoLostWakeup, Remembered
<1> USE HandlerAssumption, KeyAssumption
    DEF TypeOK, IInv, handlerVars, workerVars, resultVars, Handlers, InFlight, WillRead, WillSave,
        Remembered, Overtaken
<1>1. ASSUME NEW g \in Handlers, Handle(g) PROVE Remembered(k, h)'
  <2>1. CASE Accept(g)
    BY <2>1 DEF Accept, NoLostWakeup, Pending, Due
  <2>2. CASE Commit(g)
    BY <2>2 DEF Commit, NoLostWakeup, Pending, Due
  <2>3. CASE UpdateExperiment(g)
    BY <2>3 DEF UpdateExperiment, NoLostWakeup, Pending, Due
  <2>4. CASE ResetHyperparameters(g)
    BY <2>4 DEF ResetHyperparameters
  <2>5. CASE PersistContent(g)
    BY <2>5 DEF PersistContent, NoLostWakeup, Pending, Due
  <2>6. CASE AddToQueue(g)
    <3>1. CASE g \in Updates
      BY <2>6, <3>1 DEF AddToQueue, QueueWith, UpdateWantsAll
    <3>2. CASE g \notin Updates
      BY <2>6, <3>2 DEF AddToQueue, QueueWith, NoLostWakeup, Pending, Due
    <3>3. QED
      BY <3>1, <3>2
  <2>7. CASE DeleteAllObservations(g)
    BY <2>7 DEF DeleteAllObservations, Pending, Due
  <2>8. CASE ClearHyperparameters(g)
    <3>1. CASE k = "optimize"
      BY <2>8, <3>1 DEF ClearHyperparameters, Lose, Pending, Due
    <3>2. CASE k = "next_points"
      BY <2>8, <3>2 DEF ClearHyperparameters, RowDeleted, Lose, NoLostWakeup, Pending, Due
    <3> QED
      BY <3>1, <3>2 DEF Keys
  <2>9. QED
    BY <1>1, <2>1, <2>2, <2>3, <2>4, <2>5, <2>6, <2>7, <2>8 DEF Handle
<1>2. ASSUME NEW g \in Handlers, EnqueueFails(g) PROVE Remembered(k, h)'
  BY <1>2 DEF EnqueueFails, DependOn, NoLostWakeup, Pending, Due
<1>3. ASSUME NEW w \in Workers, Work(w) PROVE Remembered(k, h)'
  <2>1. CASE Pop(w)
    BY <2>1 DEF Pop, QueueWithout, NoLostWakeup, Pending, Due
  <2>2. CASE FetchContent(w)
    BY <2>2 DEF FetchContent, BackToPop, Lose, NoLostWakeup, BusyHoldsKey, Pending, Due
  <2>3. CASE FindExperiment(w)
    BY <2>3 DEF FindExperiment, BackToPop, Lose, NoLostWakeup, BusyHoldsKey, Pending, Due
  <2>4. CASE ReadArgs(w)
    BY <2>4 DEF ReadArgs, VisibleChanges, NoLostWakeup, Pending, Due
  <2>5. CASE TakeStamp(w)
    BY <2>5 DEF TakeStamp, NoLostWakeup, Pending, Due
  <2>6. CASE SaveResult(w)
    BY <2>6, SaveRemembers
  <2>7. QED
    BY <1>3, <2>1, <2>2, <2>3, <2>4, <2>5, <2>6 DEF Work
<1>4. ASSUME NEW w \in Workers, WorkerFails(w) PROVE Remembered(k, h)'
  BY <1>4 DEF WorkerFails, BackToPop, Lose, NoLostWakeup, BusyHoldsKey, Pending, Due
<1>5. CASE (\E j \in Keys : Expire(j)) \/ DeleteExperiment \/ UNCHANGED vars
  BY <1>5 DEF Expire, DeleteExperiment, vars, NoLostWakeup, Pending, Due
<1>6. QED
  BY <1>1, <1>2, <1>3, <1>4, <1>5 DEF Next

(* IInv is inductive and so holds in every reachable state. *)
LEMMA Inductive == Spec => []IInv
<1>1. IInv /\ [Next]_vars => IInv'
  BY TypeStep, ActorStep, DatesStep, WakeupStep DEF IInv
<1>2. QED
  BY InitIInv, <1>1, PTL DEF Spec

(* The state of handlers, workers and Redis always has its type. *)
THEOREM TypeCorrect == Spec => []TypeOK
<1>1. IInv => TypeOK
  BY DEF IInv
<1>2. QED
  BY Inductive, <1>1, PTL

(* No committed change is forgotten by enqueue_optimization and the        *)
(* workers, whatever the interleaving, unless its message is gone with a   *)
(* fault or with the experiment, all observations are deleted around it,   *)
(* or the run that wrote the row has overtaken, between its count and its  *)
(* stamp, one that had counted the change: the date of the row can lose a  *)
(* change in no other way.                                                 *)
THEOREM ChangesRemembered == Spec => []NoLostWakeup
<1>1. IInv => NoLostWakeup
  BY DEF IInv
<1>2. QED
  BY Inductive, <1>1, PTL

---------------------------------------------------------------------------
(* Bodies.  Without expiry a stored body stays, so that a handler that has *)
(* stored all of its bodies queues only keys that have one.                *)
BodiesStored(h) ==
  /\ hpc[h] = "persist" => wants[h] \ toPersist[h] \subseteq content
  /\ hpc[h] = "add" => wants[h] \subseteq content

BodyInv ==
  /\ TypeOK /\ BusyHoldsKey
  /\ MaxFaults = 0 => queue \subseteq content /\ \A h \in Handlers : BodiesStored(h)

LEMMA BodyStep == BodyInv /\ UpdateWantsAll /\ [Next]_vars => BodyInv'
<1> SUFFICES ASSUME BodyInv, UpdateWantsAll, [Next]_vars, MaxFaults = 0
             PROVE  queue' \subseteq content' /\ \A h \in Handlers : BodiesStored(h)'
  BY TypeStep, ActorStep DEF BodyInv
<1>0. TypeOK /\ faults = 0 /\ queue \subseteq content /\ \A h \in Handlers : BodiesStored(h)
  BY DEF BodyInv, TypeOK
<1> USE <1>0 DEF TypeOK, BodiesStored, handlerVars, workerVars
<1>1. ASSUME NEW g \in Handlers, Handle(g)
      PROVE  queue' \subseteq content' /\ \A h \in Handlers : BodiesStored(h)'
  <2>1. CASE Accept(g) \/ Commit(g)
    BY <2>1 DEF Accept, Commit
  <2>2. CASE UpdateExperiment(g)
    <3>1. /\ \E next \in {"done", "reset"} : hpc' = [hpc EXCEPT ![g] = next]
          /\ UNCHANGED <<wants, toPersist, content, queue>>
      BY <2>2 DEF UpdateExperiment
    <3> QED
      BY <3>1
  <2>5. CASE ResetHyperparameters(g)
    <3>1. /\ hpc' = [hpc EXCEPT ![g] = "persist"]
          /\ wants' = [wants EXCEPT ![g] = Keys]
          /\ toPersist' = [toPersist EXCEPT ![g] = Keys]
          /\ UNCHANGED <<content, queue>>
      BY <2>5 DEF ResetHyperparameters
    <3>2. \A h \in Handlers \ {g} : hpc'[h] = hpc[h] /\ wants'[h] = wants[h] /\ toPersist'[h] = toPersist[h]
      BY <3>1
    <3>3. hpc'[g] = "persist" /\ wants'[g] = Keys /\ toPersist'[g] = Keys
      BY <3>1
    <3> HIDE DEF Keys
    <3> QED
      BY <3>1, <3>2, <3>3
  <2>6. CASE DeleteAllObservations(g) \/ ClearHyperparameters(g)
    BY <2>6 DEF DeleteAllObservations, ClearHyperparameters
  <2>3. CASE PersistContent(g)
    <3>1. PICK k \in toPersist[g] :
            /\ content' = content \union {k}
            /\ toPersist' = [toPersist EXCEPT ![g] = @ \ {k}]
            /\ hpc' = [hpc EXCEPT ![g] = IF toPersist[g] = {k} THEN "add" ELSE "persist"]
      BY <2>3 DEF PersistContent, WithBody
    <3>2. hpc[g] = "persist" /\ wants' = wants /\ queue' = queue
      BY <2>3 DEF PersistContent
    <3> QED
      BY <3>1, <3>2
  <2>4. CASE AddToQueue(g)
    BY <2>4 DEF AddToQueue, QueueWith
  <2> QED
    BY <1>1, <2>1, <2>2, <2>3, <2>4, <2>5, <2>6 DEF Handle
<1>2. ASSUME NEW w \in Workers, Work(w)
      PROVE  queue' \subseteq content' /\ \A h \in Handlers : BodiesStored(h)'
  <2>1. queue' \subseteq queue /\ UNCHANGED <<handlerVars, content>>
    BY <1>2 DEF Work, Pop, QueueWithout, FetchContent, FindExperiment, ReadArgs, TakeStamp, SaveResult
  <2> QED
    BY <2>1
<1>3. CASE \/ \E h \in Handlers : EnqueueFails(h)
           \/ \E w \in Workers : WorkerFails(w)
           \/ \E k \in Keys : Expire(k)
  BY <1>3 DEF EnqueueFails, WorkerFails, Expire
<1>4. CASE DeleteExperiment \/ UNCHANGED vars
  BY <1>4 DEF DeleteExperiment, vars
<1> QED
  BY <1>1, <1>2, <1>3, <1>4 DEF Next

(* Without expiry no worker pops a key whose message body is not there:    *)
(* enqueue_optimization stores every body of a batch before its ZADD.      *)
THEOREM PoppedKeysHaveBodies == Spec => []BodyBeforeKey
<1>1. Init /\ IInv => BodyInv
  BY DEF Init, IInv, BodyInv, BodiesStored
<1>2. IInv => UpdateWantsAll
  BY DEF IInv
<1>3. BodyInv => BodyBeforeKey
  BY DEF BodyInv, BodyBeforeKey
<1> QED
  BY <1>1, <1>2, <1>3, BodyStep, Inductive, PTL DEF Spec
==============================================================================
