------------------------ MODULE HyperparameterAux_proofs ------------------------
(***************************************************************************)
(* Proofs about HyperparameterAux, for every dimension and lag rule, any   *)
(* number of creates and workers and any bounds.                           *)
(***************************************************************************)
EXTENDS HyperparameterAux, TLAPS

(* The counts a revision leaves are natural numbers. *)
LEMMA RevisedType ==
  ASSUME NEW s \in Nat, NEW f \in Nat, NEW r \in Revised(s, f)
  PROVE  r[1] \in Nat /\ r[2] \in Nat
BY DEF Revised

(* The row a run would store *)
Row(w) == [date |-> began[w], began |-> began[w], streamed |-> ReadAt(w),
           computed |-> IF Computes(w) THEN began[w] ELSE old[w].computed]

(* A run copies only a row it has read. *)
LEMMA RowType ==
  ASSUME TypeOK, NEW w \in Workers
  PROVE  Row(w) \in Aux
<1>1. began[w] \in Nat /\ ReadAt(w) \in Nat
  BY DEF TypeOK, ReadAt
<1>2. CASE Computes(w)
  BY <1>1, <1>2 DEF Row, Aux
<1>3. CASE ~Computes(w)
  <2>1. old[w] # NoAux
    BY <1>3 DEF Computes, Defaults, ForceDefault
  <2>2. old[w] \in Aux
    BY <2>1 DEF TypeOK
  <2> QED BY <1>1, <1>3, <2>2 DEF Row, Aux
<1> QED BY <1>2, <1>3

(* What a run that is saved leaves *)
LEMMA Saved ==
  ASSUME TypeOK, NEW w \in Workers, Upsert(w)
  PROVE  /\ aux' = IF aux = NoAux \/ aux.date <= began[w] THEN Row(w) ELSE aux
         /\ saved' \in [counted : Nat, began : Nat]
         /\ saved'.counted = Later(counted[w], saved.counted)
         /\ saved'.began = Later(began[w], saved.began)
<1>1. aux' = IF aux = NoAux \/ aux.date <= began[w] THEN Row(w) ELSE aux
  BY DEF Upsert, DateOf, NotLater, Row
<1> QED BY <1>1 DEF Upsert, TypeOK, Later

(* Every step keeps the types. *)
LEMMA TypeStep == TypeOK /\ [Next]_vars => TypeOK'
<1> SUFFICES ASSUME TypeOK, [Next]_vars PROVE TypeOK'
  OBVIOUS
<1> USE DEF TypeOK, CreatePCs, WorkerPCs, Spend, handlerVars, workerVars
<1>1. ASSUME NEW c \in Creates, ReadCounts(c) PROVE TypeOK'
  <2>1. counts' \in [Creates -> [total : Nat, failed : Nat]]
    BY <1>1 DEF ReadCounts
  <2> QED BY <1>1, <2>1 DEF ReadCounts
<1>2. ASSUME NEW c \in Creates, InsertObservation(c) PROVE TypeOK'
  BY <1>2 DEF InsertObservation
<1>3. ASSUME NEW c \in Creates, EnqueueOptimization(c) PROVE TypeOK'
  <2>1. queued' \in BOOLEAN
    BY <1>3, Zenon DEF EnqueueOptimization
  <2> QED BY <1>3, <2>1 DEF EnqueueOptimization
<1>4. CASE Revise
  <2>1. successes' \in Nat /\ failures' \in Nat
    BY <1>4, RevisedType DEF Revise
  <2>2. budget' \in [{"revisions", "resets", "failures"} -> Nat]
    BY <1>4 DEF Revise
  <2> QED BY <1>4, <2>1, <2>2 DEF Revise
<1>5. CASE Reset
  BY <1>5 DEF Reset, AuxDeleted, NoneSaved
<1>6. CASE EnqueueAnyway
  BY <1>6 DEF EnqueueAnyway
<1>7. CASE DeleteAllObservations
  BY <1>7 DEF DeleteAllObservations
<1>8. CASE ResetAfterDeleteAll
  BY <1>8 DEF ResetAfterDeleteAll, AuxDeleted, NoneSaved
<1>9. CASE DeleteExperiment
  BY <1>9 DEF DeleteExperiment
<1>10. ASSUME NEW w \in Workers, Take(w) PROVE TypeOK'
  BY <1>10 DEF Take, Goto
<1>11. ASSUME NEW w \in Workers, CountObservations(w) PROVE TypeOK'
  BY <1>11 DEF CountObservations, Goto
<1>12. ASSUME NEW w \in Workers, ReadAux(w) PROVE TypeOK'
  BY <1>12 DEF ReadAux, Goto
<1>13. ASSUME NEW w \in Workers, Stamp(w) PROVE TypeOK'
  BY <1>13 DEF Stamp, Goto
<1>14. ASSUME NEW w \in Workers, FindExperiment(w) PROVE TypeOK'
  BY <1>14 DEF FindExperiment, Goto
<1>15. ASSUME NEW w \in Workers, Upsert(w) PROVE TypeOK'
  <2>1. aux' \in Aux \union {NoAux} /\ saved' \in [counted : Nat, began : Nat]
    BY <1>15, Saved, RowType
  <2> QED BY <1>15, <2>1 DEF Upsert, Goto
<1>16. ASSUME NEW w \in Workers, RunFails(w) PROVE TypeOK'
  <2>1. budget' \in [{"revisions", "resets", "failures"} -> Nat]
    BY <1>16 DEF RunFails
  <2> QED BY <1>16, <2>1 DEF RunFails, Goto
<1>17. ASSUME NEW w \in Workers, StreamObservations(w) PROVE TypeOK'
  BY <1>17 DEF StreamObservations, Goto
<1>18. CASE UNCHANGED vars
  BY <1>18 DEF vars
<1> QED
  BY <1>1, <1>2, <1>3, <1>4, <1>5, <1>6, <1>7, <1>8, <1>9, <1>10, <1>11, <1>12, <1>13,
     <1>14, <1>15, <1>16, <1>17, <1>18 DEF Next, Handle, Work

(* At first there is no row and nobody runs. *)
LEMMA InitType == Init => TypeOK
<1> SUFFICES ASSUME Init PROVE TypeOK
  OBVIOUS
<1>1. budget \in [{"revisions", "resets", "failures"} -> Nat]
  BY BoundAssumption DEF Init
<1>2. /\ cpc \in [Creates -> CreatePCs]
      /\ counts \in [Creates -> [total : Nat, failed : Nat]]
  BY DEF Init, CreatePCs
<1>3. wpc \in [Workers -> WorkerPCs] /\ old \in [Workers -> Aux \union {NoAux}]
  BY DEF Init, WorkerPCs
<1> QED BY <1>1, <1>2, <1>3, BoundAssumption DEF Init, NoneSaved, TypeOK

(* The experiment, its row, the handlers and the workers keep their types: *)
(* no revision takes a count below zero, and no run stores a copy of a row *)
(* that was not there.                                                     *)
THEOREM TypeCorrect == Spec => []TypeOK
BY InitType, TypeStep, PTL DEF Spec

---------------------------------------------------------------------------
(* A row carries the date at which its run began, and no run saved since   *)
(* the last reset began later; its run read the observations after that    *)
(* date and all these runs counted them before it.  Without a row there    *)
(* are no such runs.                                                       *)
RowIsDated ==
  IF aux = NoAux THEN saved = NoneSaved
  ELSE /\ aux.date = aux.began
       /\ saved.counted < aux.began /\ saved.began <= aux.began
       /\ aux.began <= aux.streamed

(* A run begins after it has counted ... *)
CountedThenBegan == \A w \in Workers : wpc[w] \in {"stream", "find", "upsert"} => counted[w] < began[w]

(* ... and before it streams. *)
BeganThenRead == \A w \in Workers : wpc[w] \in {"find", "upsert"} => began[w] <= ReadAt(w)

(* Nothing was counted and nobody began in the future. *)
InThePast == \A w \in Workers : counted[w] <= clock /\ began[w] <= clock

IInv == TypeOK /\ RowIsDated /\ CountedThenBegan /\ BeganThenRead /\ InThePast

(* A run that is saved leaves a row that is dated. *)
LEMMA UpsertIsDated ==
  ASSUME IInv, NEW w \in Workers, Upsert(w)
  PROVE  RowIsDated'
<1> USE DEF IInv
<1>1. /\ counted[w] \in Nat /\ began[w] \in Nat /\ ReadAt(w) \in Nat
      /\ saved.counted \in Nat /\ saved.began \in Nat
  BY DEF TypeOK, ReadAt
<1>2. counted[w] < began[w] /\ began[w] <= ReadAt(w)
  BY DEF Upsert, CountedThenBegan, BeganThenRead
<1>3. CASE aux = NoAux \/ aux.date <= began[w]
  <2>1. aux' = Row(w) /\ Row(w) # NoAux
    BY <1>3, Saved, RowType, AuxAssumption
  <2>2. saved.counted < began[w] /\ saved.began <= began[w]
    <3>1. CASE aux = NoAux
      BY <3>1, <1>1, <1>2 DEF RowIsDated, NoneSaved
    <3>2. CASE aux # NoAux
      <4>1. aux \in Aux
        BY <3>2 DEF TypeOK
      <4> QED BY <1>3, <3>2, <4>1, <1>1 DEF RowIsDated, Aux
    <3> QED BY <3>1, <3>2
  <2>3. saved'.counted < began[w] /\ saved'.began <= began[w]
    BY <1>1, <1>2, <2>2, Saved DEF Later
  <2> QED BY <2>1, <2>3, <1>2 DEF RowIsDated, Row
<1>4. CASE ~(aux = NoAux \/ aux.date <= began[w])
  <2>1. aux' = aux /\ aux \in Aux
    BY <1>4, Saved DEF TypeOK
  <2>2. /\ counted[w] < aux.began /\ began[w] <= aux.began
        /\ saved.counted < aux.began /\ saved.began <= aux.began
    BY <1>1, <1>2, <1>4, <2>1 DEF RowIsDated, Aux
  <2> QED BY <1>4, <2>1, <2>2, Saved DEF RowIsDated, Later
<1> QED BY <1>3, <1>4

LEMMA InductiveStep == IInv /\ [Next]_vars => IInv'
<1> SUFFICES ASSUME IInv, [Next]_vars PROVE IInv'
  OBVIOUS
<1> USE DEF IInv, handlerVars, workerVars
<1> USE DEF ReadAt, Defaults
<1>t. TypeOK'
  BY TypeStep
<1>1. ASSUME UNCHANGED <<aux, saved, clock, workerVars>> PROVE IInv'
  BY <1>1, <1>t DEF RowIsDated, CountedThenBegan, BeganThenRead, InThePast
<1>2. ASSUME AuxDeleted, UNCHANGED <<clock, workerVars>> PROVE IInv'
  BY <1>2, <1>t DEF AuxDeleted, RowIsDated, CountedThenBegan, BeganThenRead, InThePast
<1>3. ASSUME NEW w \in Workers, Take(w) \/ RunFails(w) PROVE IInv'
  BY <1>3, <1>t DEF Take, RunFails, Goto, TypeOK, RowIsDated, CountedThenBegan, BeganThenRead,
                    InThePast
<1>4. ASSUME NEW w \in Workers, CountObservations(w) PROVE IInv'
  <2>1. CountedThenBegan' /\ BeganThenRead'
    BY <1>4 DEF CountObservations, Goto, TypeOK, CountedThenBegan, BeganThenRead
  <2>2. InThePast'
    BY <1>4 DEF CountObservations, TypeOK, InThePast
  <2> QED BY <1>4, <1>t, <2>1, <2>2 DEF CountObservations, RowIsDated
<1>5. ASSUME NEW w \in Workers, Stamp(w) PROVE IInv'
  <2>1. InThePast'
    BY <1>5 DEF Stamp, TypeOK, InThePast
  <2>2. CountedThenBegan'
    <3> SUFFICES ASSUME NEW v \in Workers, wpc'[v] \in {"stream", "find", "upsert"}
                 PROVE  counted'[v] < began'[v]
      BY DEF CountedThenBegan
    <3>1. CASE v = w
      BY <1>5, <3>1 DEF Stamp, TypeOK, InThePast
    <3>2. CASE v # w
      BY <1>5, <3>2 DEF Stamp, Goto, TypeOK, CountedThenBegan
    <3> QED BY <3>1, <3>2
  <2>3. BeganThenRead'
    <3> SUFFICES ASSUME NEW v \in Workers, wpc'[v] \in {"find", "upsert"}
                 PROVE  began'[v] <= ReadAt(v)'
      BY DEF BeganThenRead
    <3>1. CASE v = w
      BY <1>5, <3>1 DEF Stamp, Goto, TypeOK
    <3>2. CASE v # w
      BY <1>5, <3>2 DEF Stamp, Goto, TypeOK, BeganThenRead
    <3> QED BY <3>1, <3>2
  <2> QED BY <1>5, <1>t, <2>1, <2>2, <2>3 DEF Stamp, RowIsDated
<1>6. ASSUME NEW w \in Workers, StreamObservations(w) PROVE IInv'
  <2>1. BeganThenRead'
    <3> SUFFICES ASSUME NEW v \in Workers, wpc'[v] \in {"find", "upsert"}
                 PROVE  began'[v] <= ReadAt(v)'
      BY DEF BeganThenRead
    <3>1. CASE v = w
      BY <1>6, <3>1 DEF StreamObservations, TypeOK, InThePast
    <3>2. CASE v # w
      BY <1>6, <3>2 DEF StreamObservations, Goto, TypeOK, BeganThenRead
    <3> QED BY <3>1, <3>2
  <2>2. CountedThenBegan' /\ InThePast'
    BY <1>6 DEF StreamObservations, Goto, TypeOK, CountedThenBegan, InThePast
  <2> QED BY <1>6, <1>t, <2>1, <2>2 DEF StreamObservations, RowIsDated
<1>7. ASSUME NEW w \in Workers, ReadAux(w) PROVE IInv'
  BY <1>7, <1>t DEF ReadAux, Goto, TypeOK, RowIsDated, CountedThenBegan, BeganThenRead, InThePast
<1>8. ASSUME NEW w \in Workers, FindExperiment(w) PROVE IInv'
  <2>1. BeganThenRead'
    BY <1>8 DEF FindExperiment, Goto, TypeOK, BeganThenRead
  <2> QED BY <1>8, <1>t, <2>1
             DEF FindExperiment, Goto, TypeOK, RowIsDated, CountedThenBegan, InThePast
<1>9. ASSUME NEW w \in Workers, Upsert(w) PROVE IInv'
  <2>1. CountedThenBegan' /\ BeganThenRead' /\ InThePast'
    BY <1>9 DEF Upsert, Goto, TypeOK, CountedThenBegan, BeganThenRead, InThePast
  <2> QED BY <1>9, <1>t, <2>1, UpsertIsDated
<1>10. ASSUME NEW c \in Creates, Handle(c) PROVE IInv'
  BY <1>10, <1>1 DEF Handle, ReadCounts, InsertObservation, EnqueueOptimization
<1>11. CASE Revise \/ EnqueueAnyway \/ DeleteAllObservations \/ DeleteExperiment
  BY <1>11, <1>1 DEF Revise, EnqueueAnyway, DeleteAllObservations, DeleteExperiment
<1>12. CASE Reset \/ ResetAfterDeleteAll
  BY <1>12, <1>2 DEF Reset, ResetAfterDeleteAll
<1>13. CASE UNCHANGED vars
  BY <1>13, <1>1 DEF vars
<1> QED
  BY <1>3, <1>4, <1>5, <1>6, <1>7, <1>8, <1>9, <1>10, <1>11, <1>12, <1>13 DEF Next, Work

(* Which run's row stays does not depend on the order in which the runs    *)
(* finish, for any number of workers, resets and failures: it began after  *)
(* every saved run had counted, and what it computed rests on observations *)
(* it streamed after they had all begun.  The where clause of              *)
(* persist_hyperparameters and the date that                               *)
(* trigger_hyperparameter_optimization takes between the two reads give it. *)
THEOREM LaterRunsWin == Spec => []LaterRunWins
<1>1. Init => IInv
  BY InitType DEF Init, IInv, RowIsDated, CountedThenBegan, BeganThenRead, InThePast
<1>2. IInv => LaterRunWins
  <2> SUFFICES ASSUME IInv, aux # NoAux
               PROVE  saved.counted < aux.began /\ saved.began <= aux.streamed
    BY DEF LaterRunWins
  <2>1. aux \in Aux /\ saved \in [counted : Nat, began : Nat]
    BY DEF IInv, TypeOK
  <2> QED BY <2>1 DEF IInv, RowIsDated, Aux
<1> QED BY <1>1, <1>2, InductiveStep, PTL DEF Spec
=================================================================================
