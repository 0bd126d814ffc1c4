----------------------- MODULE SuggestionServing_proofs -----------------------
(***************************************************************************)
(* Proofs about SuggestionServing, for any number of requests, queued      *)
(* suggestions, pool entries and ids.                                      *)
(*                                                                         *)
(* The invariants of the runs are not inductive: two answers differ because *)
(* of who inserted which row and when.  IInv adds what each label of a     *)
(* request implies about the row it works on (HoldsRow), the foreign key   *)
(* between the two tables, and that a row a request has just inserted for  *)
(* itself is known to no other request (Private).                          *)
(***************************************************************************)
EXTENDS SuggestionServing, TLAPS

---------------------------------------------------------------------------
(* The inductive invariant. *)

(* Labels at which the processed row of sid[r] was inserted by r. *)
OwningPCs == {"retire_queued", "remove_from_available", "find_matching",
              "insert_replacement", "replace", "done"}

(* Labels at which sid[r] names a row of table suggestions. *)
HoldingPCs == OwningPCs \union {"process_queued", "process", "drop", "process_fallback"}

(* The foreign key of suggestions_processed. *)
ForeignKey == Processed \subseteq Allocated

HoldsRow(r) ==
  /\ pc[r] \in {"create_unprocessed", "process_queued", "retire_queued"} => queued[r] \in QueuedIds
  /\ pc[r] \in {"should_ignore", "insert"} => cand[r] \in UnprocessedRow
  /\ sid[r] \in Allocated \union {NoId} /\ rep[r] \in Allocated \union {NoId}
  /\ pc[r] \in HoldingPCs => sid[r] \in Allocated
  /\ pc[r] = "replace" => rep[r] \in Allocated
  /\ pc[r] \in OwningPCs => sid[r] \in Processed

(* Row i is known to r alone, and not processed yet. *)
Private(r, i) ==
  /\ i \in Allocated
  /\ unprocessed[i].uuid = NoUuid
  /\ i \notin Processed
  /\ \A s \in Requests \ {r} : sid[s] # i /\ rep[s] # i

PrivateRows(r) ==
  /\ pc[r] \in {"process_queued", "process_fallback"} => Private(r, sid[r])
  /\ pc[r] = "replace" => Private(r, rep[r]) /\ sid[r] # rep[r]

(* No two requests own the same processed row. *)
DistinctOwners ==
  \A r, s \in Requests :
    r # s /\ pc[r] \in OwningPCs /\ pc[s] \in OwningPCs => sid[r] # sid[s]

IInv ==
  /\ TypeOK
  /\ ForeignKey
  /\ \A r \in Requests : HoldsRow(r)
  /\ \A r \in Requests : PrivateRows(r)
  /\ DistinctOwners

---------------------------------------------------------------------------
(* A new id names no row yet. *)
LEMMA NewIdFresh ==
  ASSUME TypeOK, HasNewId
  PROVE  NewId \in SuggestionIds /\ NewId \notin Allocated
<1>1. Allocated \subseteq SuggestionIds
  BY DEF Allocated
<1>2. \E i \in SuggestionIds : i \notin Allocated
  BY <1>1 DEF HasNewId
<1> QED
  BY <1>2 DEF NewId

(* The values rows can take are told apart from their absence. *)
LEMMA FreshTyped ==
  ASSUME NEW a \in Assignments, NEW s \in Sources
  PROVE  Fresh(a, s) \in UnprocessedRow /\ Fresh(a, s) # NoRow /\ Fresh(a, s).uuid = NoUuid
                   /\ Fresh(a, s).source = s /\ Fresh(a, s).asg = a
  BY RowAssumption DEF Fresh, UnprocessedRow

(* The initial state satisfies the inductive invariant. *)
LEMMA InitInv == Init => IInv
<1> SUFFICES ASSUME Init PROVE IInv
  OBVIOUS
<1>1. TypeOK
  BY DEF Init, TypeOK, PCs
<1>2. ForeignKey
  BY DEF Init, ForeignKey, Processed
<1>3. \A r \in Requests : pc[r] = "idle"
  BY DEF Init
<1>4. \A r \in Requests : HoldsRow(r) /\ PrivateRows(r)
  BY <1>3 DEF Init, HoldsRow, PrivateRows, HoldingPCs, OwningPCs
<1>5. DistinctOwners
  BY <1>3 DEF DistinctOwners, OwningPCs
<1> QED
  BY <1>1, <1>2, <1>4, <1>5 DEF IInv

---------------------------------------------------------------------------
(* Statements of r that insert no row, and give r no row it did not have.  *)
LEMMA QuietStep ==
  ASSUME IInv, TypeOK', NEW r \in Requests,
         unprocessed' = unprocessed, processed' = processed, rep' = rep,
         sid' = sid \/ sid' = [sid EXCEPT ![r] = NoId],
         \A s \in Requests \ {r} : pc'[s] = pc[s] /\ queued'[s] = queued[s] /\ cand'[s] = cand[s],
         HoldsRow(r)',
         pc'[r] \notin {"process_queued", "process_fallback", "replace"},
         pc'[r] \in OwningPCs => pc[r] \in OwningPCs /\ sid'[r] = sid[r]
  PROVE  IInv'
<1>0. /\ Allocated' = Allocated /\ Processed' = Processed
      /\ \A s \in Requests \ {r} : sid'[s] = sid[s]
      /\ sid'[r] = sid[r] \/ sid'[r] = NoId
  BY DEF IInv, TypeOK, Allocated, Processed
<1>2. ForeignKey'
  BY <1>0 DEF IInv, ForeignKey
<1>3. ASSUME NEW s \in Requests PROVE HoldsRow(s)'
  BY <1>0 DEF IInv, HoldsRow
<1>4. ASSUME NEW s \in Requests PROVE PrivateRows(s)'
  <2>1. CASE s = r
    BY <2>1 DEF PrivateRows
  <2>2. CASE s # r
    <3>1. ASSUME NEW i, i \in Allocated, Private(s, i) PROVE Private(s, i)'
      BY <1>0, <3>1, NullAssumption DEF Private, Allocated
    <3> QED
      BY <1>0, <2>2, <3>1 DEF IInv, PrivateRows, Private
  <2> QED
    BY <2>1, <2>2
<1>5. DistinctOwners'
  BY <1>0 DEF IInv, DistinctOwners
<1> QED
  BY <1>2, <1>3, <1>4, <1>5 DEF IInv

(* The quiet actions of a request. *)
Quiet(r) ==
  \/ Start(r) \/ ReadClaimed(r) \/ FindNext(r) \/ RetireQueued(r)
  \/ FetchArgs(r) \/ Pick(r) \/ ShouldIgnore(r) \/ RemoveFromAvailable(r)
  \/ DropAlreadyProcessed(r) \/ TolerateException(r) \/ FindMatching(r) \/ Crash(r)

LEMMA ClaimedTyped == ASSUME TypeOK PROVE ClaimedIds \subseteq QueuedIds
  BY RowAssumption DEF TypeOK, ClaimedIds, Processed, ProcessedRow

(* The assignments of processed suggestions, by the foreign key. *)
LEMMA AssignmentsTyped ==
  ASSUME IInv, NEW ids \in SUBSET Processed
  PROVE  AssignmentsOf(ids) \subseteq Assignments
<1>1. \A i \in ids : unprocessed[i] \in UnprocessedRow
  BY DEF IInv, TypeOK, ForeignKey, Allocated
<1> QED
  BY <1>1 DEF AssignmentsOf, UnprocessedRow

LEMMA QuietInv == ASSUME IInv, NEW r \in Requests, Quiet(r) PROVE IInv'
<1> USE DEF Goto, tables
<1>1. CASE Start(r)
  <2>1. TypeOK'
    BY <1>1 DEF Start, IInv, TypeOK, PCs
  <2> QED
    BY <1>1, <2>1, QuietStep
    DEF Start, IInv, TypeOK, HoldsRow, OwningPCs, HoldingPCs, Processed, Allocated
<1>2. CASE ReadClaimed(r)
  <2>1. TypeOK'
    BY <1>2, ClaimedTyped DEF ReadClaimed, IInv, TypeOK, PCs
  <2> QED
    BY <1>2, <2>1, QuietStep
    DEF ReadClaimed, IInv, TypeOK, HoldsRow, OwningPCs, HoldingPCs, Processed, Allocated
<1>3. CASE FindNext(r)
  <2>1. TypeOK'
    BY <1>3 DEF FindNext, Unclaimed, IInv, TypeOK, PCs
  <2> QED
    BY <1>3, <2>1, QuietStep
    DEF FindNext, Unclaimed, IInv, TypeOK, HoldsRow, OwningPCs, HoldingPCs, Processed, Allocated
<1>4. CASE RetireQueued(r)
  <2>1. TypeOK'
    BY <1>4 DEF RetireQueued, MarkDeleted, IInv, TypeOK, PCs
  <2> QED
    BY <1>4, <2>1, QuietStep
    DEF RetireQueued, IInv, TypeOK, HoldsRow, OwningPCs, HoldingPCs, Processed, Allocated
<1>5. CASE FetchArgs(r)
  <2>1. AssignmentsOf(Open) \subseteq Assignments
    BY AssignmentsTyped DEF Open, Undeleted
  <2>2. AssignmentsOf(Processed \cap observed) \subseteq Assignments
    BY AssignmentsTyped
  <2>0. \/ avoid' = avoid
        \/ \E A \in SUBSET Assignments : avoid' = [avoid EXCEPT ![r] = A]
    <3>1. ASSUME NEW last \in {{}} \union {{a} : a \in AssignmentsOf(Processed \cap observed)}
          PROVE  AssignmentsOf(Open) \union last \in SUBSET Assignments
      BY <2>1, <2>2
    <3> QED
      BY <1>5, <3>1 DEF FetchArgs
  <2>4. pc' = [pc EXCEPT ![r] = "pick"] \/ pc' = [pc EXCEPT ![r] = "fallback"]
    BY <1>5 DEF FetchArgs
  <2>3. TypeOK'
    BY <1>5, <2>0, <2>4 DEF FetchArgs, IInv, TypeOK, PCs
  <2> QED
    BY <1>5, <2>3, QuietStep
    DEF FetchArgs, IInv, TypeOK, HoldsRow, OwningPCs, HoldingPCs, Processed, Allocated
<1>6. CASE Pick(r)
  <2>1. PICK n \in LdsCounts :
          \/ /\ \E a \in Assignments : cand' = [cand EXCEPT ![r] = Fresh(a, "LATIN_HYPERCUBE")]
             /\ Goto(r, "should_ignore")
          \/ /\ \/ \E u \in pool : cand' = [cand EXCEPT
                     ![r] = [uuid |-> u, asg |-> PoolAssignment[u], source |-> "SPE"]]
                \/ \E a \in Assignments : cand' = [cand EXCEPT ![r] = Fresh(a, "PADDING_RANDOM")]
             /\ Goto(r, "should_ignore")
          \/ Goto(r, "fallback") /\ UNCHANGED cand
    BY <1>6 DEF Pick
  <2>2. \A u \in pool : [uuid |-> u, asg |-> PoolAssignment[u], source |-> "SPE"] \in UnprocessedRow
    BY PoolAssumption DEF IInv, TypeOK, UnprocessedRow, Sources
  <2>3. \A a \in Assignments :
          Fresh(a, "LATIN_HYPERCUBE") \in UnprocessedRow /\ Fresh(a, "PADDING_RANDOM") \in UnprocessedRow
    BY FreshTyped DEF Sources
  <2>4. \/ pc' = [pc EXCEPT ![r] = "fallback"] /\ cand' = cand
        \/ /\ pc' = [pc EXCEPT ![r] = "should_ignore"]
           /\ \E c \in UnprocessedRow : cand' = [cand EXCEPT ![r] = c]
    BY <2>1, <2>2, <2>3
  <2>5. TypeOK'
    BY <1>6, <2>4 DEF Pick, IInv, TypeOK, PCs
  <2>6. UNCHANGED <<unprocessed, processed, rep, sid, queued>>
    BY <1>6 DEF Pick
  <2>7. /\ pc'[r] = "fallback" \/ (pc'[r] = "should_ignore" /\ cand'[r] \in UnprocessedRow)
        /\ \A s \in Requests \ {r} : pc'[s] = pc[s] /\ cand'[s] = cand[s]
    BY <2>4 DEF IInv, TypeOK
  <2>8. HoldsRow(r)'
    BY <2>6, <2>7 DEF IInv, HoldsRow, OwningPCs, HoldingPCs, Allocated
  <2> QED
    BY <2>5, <2>6, <2>7, <2>8, QuietStep DEF OwningPCs
<1>7. CASE ShouldIgnore(r)
  <2>1. TypeOK'
    BY <1>7 DEF ShouldIgnore, NextAttempt, IInv, TypeOK, PCs
  <2> QED
    BY <1>7, <2>1, QuietStep
    DEF ShouldIgnore, NextAttempt, IInv, TypeOK, HoldsRow, OwningPCs, HoldingPCs, Processed, Allocated
<1>8. CASE RemoveFromAvailable(r)
  <2>1. TypeOK'
    BY <1>8 DEF RemoveFromAvailable, RemovedFromPool, IInv, TypeOK, PCs
  <2> QED
    BY <1>8, <2>1, QuietStep
    DEF RemoveFromAvailable, IInv, TypeOK, HoldsRow, OwningPCs, HoldingPCs, Processed, Allocated
<1>9. CASE DropAlreadyProcessed(r)
  <2>1. TypeOK'
    BY <1>9 DEF DropAlreadyProcessed, NextAttempt, RemovedFromPool, IInv, TypeOK, PCs
  <2>2. /\ pc'[r] = "fetch_args" /\ sid' = [sid EXCEPT ![r] = NoId] /\ sid'[r] = NoId
        /\ UNCHANGED <<unprocessed, processed, rep, queued, cand>>
        /\ \A s \in Requests \ {r} : pc'[s] = pc[s]
    BY <1>9 DEF DropAlreadyProcessed, NextAttempt, IInv, TypeOK
  <2>3. HoldsRow(r)'
    BY <2>2 DEF IInv, HoldsRow, OwningPCs, HoldingPCs, Allocated
  <2> QED
    BY <2>1, <2>2, <2>3, QuietStep DEF OwningPCs
<1>10. CASE TolerateException(r)
  <2>1. TypeOK'
    BY <1>10 DEF TolerateException, IInv, TypeOK, PCs
  <2>2. /\ pc'[r] = "fallback" /\ sid' = [sid EXCEPT ![r] = NoId] /\ sid'[r] = NoId
        /\ UNCHANGED <<unprocessed, processed, rep, queued, cand>>
        /\ \A s \in Requests \ {r} : pc'[s] = pc[s]
    BY <1>10 DEF TolerateException, IInv, TypeOK
  <2>3. HoldsRow(r)'
    BY <2>2 DEF IInv, HoldsRow, OwningPCs, HoldingPCs, Allocated
  <2> QED
    BY <2>1, <2>2, <2>3, QuietStep DEF OwningPCs
<1>11. CASE FindMatching(r)
  <2>1. TypeOK'
    BY <1>11 DEF FindMatching, IInv, TypeOK, PCs
  <2> QED
    BY <1>11, <2>1, QuietStep
    DEF FindMatching, IInv, TypeOK, HoldsRow, OwningPCs, HoldingPCs, Processed, Allocated
<1>12. CASE Crash(r)
  <2>1. TypeOK'
    BY <1>12 DEF Crash, IInv, TypeOK, PCs
  <2> QED
    BY <1>12, <2>1, QuietStep
    DEF Crash, IInv, TypeOK, HoldsRow, OwningPCs, HoldingPCs, Processed, Allocated
<1> QED
  BY <1>1, <1>2, <1>3, <1>4, <1>5, <1>6, <1>7, <1>8, <1>9, <1>10, <1>11, <1>12 DEF Quiet

---------------------------------------------------------------------------
(* Statements of r that insert a row of table suggestions under a new id,  *)
(* which becomes sid[r] or, for a replacement, rep[r].                     *)
LEMMA InsertStep ==
  ASSUME IInv, TypeOK', NEW r \in Requests, HasNewId, NEW row \in UnprocessedRow,
         unprocessed' = [unprocessed EXCEPT ![NewId] = row], processed' = processed,
         \/ sid' = [sid EXCEPT ![r] = NewId] /\ rep' = rep /\ pc'[r] # "replace"
                                             /\ pc'[r] \notin OwningPCs
         \/ /\ rep' = [rep EXCEPT ![r] = NewId] /\ sid' = sid
            /\ pc[r] \in OwningPCs /\ pc'[r] = "replace",
         pc'[r] \in {"process_queued", "process_fallback", "replace"} => row.uuid = NoUuid,
         pc'[r] \notin {"should_ignore", "insert", "create_unprocessed", "retire_queued"},
         pc'[r] = "process_queued" => queued'[r] \in QueuedIds,
         \A s \in Requests \ {r} : pc'[s] = pc[s] /\ queued'[s] = queued[s] /\ cand'[s] = cand[s]
  PROVE  IInv'
<1>0. NewId \in SuggestionIds /\ NewId \notin Allocated
  BY NewIdFresh DEF IInv
<1>1. Allocated' = Allocated \union {NewId} /\ Processed' = Processed
  BY <1>0, RowAssumption DEF IInv, TypeOK, Allocated, Processed
<1>2. /\ \A s \in Requests \ {r} : sid'[s] = sid[s] /\ rep'[s] = rep[s]
      /\ sid'[r] = NewId \/ (sid'[r] = sid[r] /\ pc[r] \in OwningPCs /\ pc'[r] = "replace")
      /\ pc'[r] = "replace" => rep'[r] = NewId
      /\ unprocessed'[NewId] = row
      /\ \A i \in Allocated : unprocessed'[i] = unprocessed[i] /\ i # NewId
  BY <1>0 DEF IInv, TypeOK, Allocated
<1>3. ForeignKey'
  BY <1>1 DEF IInv, ForeignKey
<1>4. ASSUME NEW s \in Requests PROVE HoldsRow(s)'
  <2>1. CASE s = r
    BY <1>1, <1>2, <2>1 DEF IInv, HoldsRow, OwningPCs, HoldingPCs
  <2>2. CASE s # r
    BY <1>1, <1>2, <2>2 DEF IInv, HoldsRow
  <2> QED
    BY <2>1, <2>2
<1>5. NewId \notin Processed
  BY <1>0 DEF IInv, ForeignKey
<1>6. ASSUME NEW s \in Requests PROVE PrivateRows(s)'
  <2>1. CASE s = r
    <3>1. \A t \in Requests \ {r} : sid'[t] # NewId /\ rep'[t] # NewId
      BY <1>0, <1>2, NullAssumption DEF IInv, HoldsRow
    <3> QED
      BY <1>0, <1>1, <1>2, <1>5, <2>1, <3>1 DEF PrivateRows, Private, IInv, HoldsRow, OwningPCs
  <2>2. CASE s # r
    <3>1. ASSUME NEW i, i \in Allocated, Private(s, i) PROVE Private(s, i)'
      BY <1>0, <1>1, <1>2, <3>1 DEF Private
    <3> QED
      BY <1>2, <2>2, <3>1 DEF IInv, PrivateRows, Private
  <2> QED
    BY <2>1, <2>2
<1>7. DistinctOwners'
  BY <1>1, <1>2 DEF IInv, DistinctOwners, OwningPCs
<1> QED
  BY <1>3, <1>4, <1>6, <1>7 DEF IInv

LEMMA CreateUnprocessedInv == ASSUME IInv, NEW r \in Requests, CreateUnprocessed(r) PROVE IInv'
<1> DEFINE row == Fresh(QueuedAssignment[queued[r]], "QUEUED_SUGGESTION")
<1>0. pc[r] = "create_unprocessed" /\ HasNewId /\ queued[r] \in QueuedIds
  BY DEF CreateUnprocessed, IInv, HoldsRow
<1>1. row \in UnprocessedRow /\ row.uuid = NoUuid
  BY <1>0, FreshTyped, QueuedAssumption DEF Sources
<1>2. NewId \in SuggestionIds
  BY <1>0, NewIdFresh DEF IInv
<1> HIDE DEF row
<1>3. TypeOK'
  BY <1>1, <1>2 DEF CreateUnprocessed, Goto, IInv, TypeOK, PCs, row
<1> QED
  BY <1>0, <1>1, <1>3, InsertStep DEF CreateUnprocessed, Goto, IInv, TypeOK, OwningPCs, row

LEMMA InsertUnprocessedInv == ASSUME IInv, NEW r \in Requests, InsertUnprocessed(r) PROVE IInv'
<1>0. pc[r] = "insert" /\ cand[r] \in UnprocessedRow
  BY DEF InsertUnprocessed, IInv, HoldsRow
<1>1. CASE /\ HasNewId
           /\ unprocessed' = [unprocessed EXCEPT ![NewId] = cand[r]]
           /\ sid' = [sid EXCEPT ![r] = NewId]
  <2>1. NewId \in SuggestionIds
    BY <1>1, NewIdFresh DEF IInv
  <2>2. TypeOK'
    BY <1>0, <1>1, <2>1 DEF InsertUnprocessed, Goto, IInv, TypeOK, PCs
  <2> QED
    BY <1>0, <1>1, <2>2, InsertStep DEF InsertUnprocessed, Goto, IInv, TypeOK, OwningPCs
<1>2. CASE \E i \in Allocated : /\ unprocessed[i].uuid = cand[r].uuid /\ cand[r].uuid # NoUuid
                                /\ sid' = [sid EXCEPT ![r] = i]
                                /\ unprocessed' = unprocessed
  (* The row with this uuid is private to nobody. *)
  <2>0. PICK i \in Allocated : unprocessed[i].uuid # NoUuid /\ sid' = [sid EXCEPT ![r] = i]
    BY <1>2
  <2>1. i \in SuggestionIds
    BY DEF Allocated
  <2>2. TypeOK'
    BY <1>2, <2>0, <2>1 DEF InsertUnprocessed, Goto, IInv, TypeOK, PCs
  <2>3. /\ Allocated' = Allocated /\ Processed' = Processed /\ unprocessed' = unprocessed /\ rep' = rep
        /\ \A s \in Requests \ {r} : sid'[s] = sid[s] /\ pc'[s] = pc[s] /\ queued'[s] = queued[s]
                                  /\ cand'[s] = cand[s]
        /\ sid'[r] = i /\ pc'[r] = "process"
    BY <1>2, <2>0 DEF InsertUnprocessed, Goto, IInv, TypeOK, Allocated, Processed
  <2>4. ForeignKey'
    BY <2>3 DEF IInv, ForeignKey
  <2>5. ASSUME NEW s \in Requests PROVE HoldsRow(s)'
    BY <2>3 DEF IInv, HoldsRow, OwningPCs, HoldingPCs
  <2>6. ASSUME NEW s \in Requests PROVE PrivateRows(s)'
    <3>1. ASSUME NEW j, Private(s, j) PROVE Private(s, j)'
      BY <2>0, <2>3, <3>1 DEF Private
    <3> QED
      BY <2>3, <3>1 DEF IInv, PrivateRows
  <2>7. DistinctOwners'
    BY <2>3 DEF IInv, DistinctOwners, OwningPCs
  <2> QED
    BY <2>2, <2>4, <2>5, <2>6, <2>7 DEF IInv
<1> QED
  BY <1>1, <1>2 DEF InsertUnprocessed

LEMMA FallbackInv == ASSUME IInv, NEW r \in Requests, Fallback(r) PROVE IInv'
<1>0. pc[r] = "fallback" /\ HasNewId
  BY DEF Fallback
<1>1. PICK row \in UnprocessedRow :
        row.uuid = NoUuid /\ unprocessed' = [unprocessed EXCEPT ![NewId] = row]
  <2>1. PICK a \in Assignments, source \in {"HIGH_CONTENTION_RANDOM", "FALLBACK_RANDOM"} :
          unprocessed' = [unprocessed EXCEPT ![NewId] = Fresh(a, source)]
    BY DEF Fallback
  <2>2. Fresh(a, source) \in UnprocessedRow /\ Fresh(a, source).uuid = NoUuid
    BY FreshTyped DEF Sources
  <2> QED
    BY <2>1, <2>2
<1>2. NewId \in SuggestionIds
  BY <1>0, NewIdFresh DEF IInv
<1>3. TypeOK'
  BY <1>1, <1>2 DEF Fallback, Goto, IInv, TypeOK, PCs
<1> QED
  BY <1>0, <1>1, <1>3, InsertStep DEF Fallback, Goto, IInv, TypeOK, OwningPCs

LEMMA InsertReplacementInv == ASSUME IInv, NEW r \in Requests, InsertReplacement(r) PROVE IInv'
<1>0. pc[r] = "insert_replacement" /\ HasNewId
  BY DEF InsertReplacement
<1>1. PICK row \in UnprocessedRow :
        row.uuid = NoUuid /\ unprocessed' = [unprocessed EXCEPT ![NewId] = row]
  <2>1. PICK a \in Assignments :
          unprocessed' = [unprocessed EXCEPT ![NewId] = Fresh(a, "CONFLICT_REPLACEMENT_RANDOM")]
    BY DEF InsertReplacement
  <2>2. /\ Fresh(a, "CONFLICT_REPLACEMENT_RANDOM") \in UnprocessedRow
        /\ Fresh(a, "CONFLICT_REPLACEMENT_RANDOM").uuid = NoUuid
    BY FreshTyped DEF Sources
  <2> QED
    BY <2>1, <2>2
<1>2. NewId \in SuggestionIds
  BY <1>0, NewIdFresh DEF IInv
<1>3. TypeOK'
  BY <1>1, <1>2 DEF InsertReplacement, Goto, IInv, TypeOK, PCs
<1> QED
  BY <1>0, <1>1, <1>3, InsertStep DEF InsertReplacement, Goto, IInv, TypeOK, OwningPCs

---------------------------------------------------------------------------
(* Statements that insert the processed row of sid[r]. *)
LEMMA ProcessStep ==
  ASSUME IInv, NEW r \in Requests, NEW row \in ProcessedRow,
         sid[r] \in Allocated, sid[r] \notin Processed,
         processed' = [processed EXCEPT ![sid[r]] = row],
         UNCHANGED <<unprocessed, observed, queue, pool, fetches, attempts, skip, avoid,
                     claimed, queued, cand, sid, contended, rep>>,
         \/ pc' = [pc EXCEPT ![r] = "remove_from_available"]
         \/ pc' = [pc EXCEPT ![r] = "find_matching"]
         \/ pc' = [pc EXCEPT ![r] = "retire_queued"] /\ queued[r] \in QueuedIds
  PROVE  IInv'
<1>1. TypeOK'
  BY DEF IInv, TypeOK, PCs
<1>2. Allocated' = Allocated /\ Processed' = Processed \union {sid[r]}
  BY RowAssumption DEF IInv, TypeOK, Allocated, Processed
<1>3. ForeignKey'
  BY <1>2 DEF IInv, ForeignKey
<1>4. ASSUME NEW s \in Requests PROVE HoldsRow(s)'
  BY <1>2 DEF IInv, TypeOK, HoldsRow, OwningPCs, HoldingPCs
<1>5. ASSUME NEW s \in Requests PROVE PrivateRows(s)'
  <2>1. CASE s = r
    BY <2>1 DEF IInv, TypeOK, PrivateRows
  <2>2. CASE s # r
    <3>1. pc'[s] = pc[s]
      BY <2>2 DEF IInv, TypeOK
    <3>2. ASSUME NEW j, Private(s, j) PROVE Private(s, j)'
      BY <1>2, <2>2, <3>2 DEF Private
    <3> QED
      BY <3>1, <3>2 DEF IInv, PrivateRows
  <2> QED
    BY <2>1, <2>2
<1>6. DistinctOwners'
  BY DEF IInv, TypeOK, HoldsRow, DistinctOwners, OwningPCs
<1> QED
  BY <1>1, <1>3, <1>4, <1>5, <1>6 DEF IInv

LEMMA ProcessQueuedInv == ASSUME IInv, NEW r \in Requests, ProcessQueued(r) PROVE IInv'
<1>0. pc[r] = "process_queued" /\ queued[r] \in QueuedIds /\ sid[r] \in Allocated /\ sid[r] \notin Processed
  BY DEF ProcessQueued, IInv, HoldsRow, HoldingPCs, PrivateRows, Private
<1>1. CASE ~IsClaimed(queued[r])
  BY <1>0, <1>1, ProcessStep DEF ProcessQueued, Goto, ProcessedRow
<1>2. CASE IsClaimed(queued[r])
  <2>1. TypeOK'
    BY <1>2 DEF ProcessQueued, Goto, IInv, TypeOK, PCs
  <2>2. /\ pc'[r] \in {"read_claimed", "could_not_process"}
        /\ sid' = [sid EXCEPT ![r] = NoId] /\ sid'[r] = NoId
        /\ UNCHANGED <<unprocessed, processed, rep, queued, cand>>
        /\ \A s \in Requests \ {r} : pc'[s] = pc[s]
    BY <1>2 DEF ProcessQueued, Goto, IInv, TypeOK
  <2>3. HoldsRow(r)'
    BY <2>2 DEF IInv, HoldsRow, OwningPCs, HoldingPCs, Allocated
  <2> QED
    BY <2>1, <2>2, <2>3, QuietStep DEF OwningPCs
<1> QED
  BY <1>1, <1>2

LEMMA ProcessSuggestionInv == ASSUME IInv, NEW r \in Requests, ProcessSuggestion(r) PROVE IInv'
<1>0. pc[r] = "process" /\ sid[r] \in Allocated
  BY DEF ProcessSuggestion, IInv, HoldsRow, HoldingPCs
<1>1. CASE ~HasProcessedRow(sid[r])
  BY <1>0, <1>1, ProcessStep DEF ProcessSuggestion, HasProcessedRow, Goto, ProcessedRow
<1>2. CASE HasProcessedRow(sid[r])
  <2>1. TypeOK'
    BY <1>2 DEF ProcessSuggestion, Goto, IInv, TypeOK, PCs
  <2> QED
    BY <1>2, <2>1, QuietStep
    DEF ProcessSuggestion, Goto, IInv, TypeOK, HoldsRow, OwningPCs, HoldingPCs, Allocated
<1> QED
  BY <1>1, <1>2

LEMMA ProcessFallbackInv == ASSUME IInv, NEW r \in Requests, ProcessFallback(r) PROVE IInv'
<1>0. pc[r] = "process_fallback" /\ sid[r] \in Allocated /\ sid[r] \notin Processed
  BY DEF ProcessFallback, IInv, HoldsRow, HoldingPCs, PrivateRows, Private
<1> QED
  BY <1>0, ProcessStep DEF ProcessFallback, Goto, ProcessedRow

(* replace_unprocessed moves the processed row of r to the id rep[r].      *)
LEMMA ReplaceUnprocessedInv == ASSUME IInv, NEW r \in Requests, ReplaceUnprocessed(r) PROVE IInv'
<1>0. /\ pc[r] = "replace" /\ sid[r] \in Processed /\ rep[r] \in Allocated \ Processed
      /\ Private(r, rep[r])
  BY DEF ReplaceUnprocessed, IInv, HoldsRow, PrivateRows, Private, OwningPCs
<1>1. CASE sid[r] \notin observed
  <2>1. TypeOK'
    BY <1>0, <1>1 DEF ReplaceUnprocessed, Goto, IInv, TypeOK, PCs, Processed, Allocated
  <2>2. /\ Allocated' = Allocated
        /\ Processed' = (Processed \ {sid[r]}) \union {rep[r]}
    BY <1>0, <1>1 DEF ReplaceUnprocessed, Goto, IInv, TypeOK, Processed, Allocated
  <2>3. /\ \A s \in Requests \ {r} : sid'[s] = sid[s] /\ pc'[s] = pc[s]
        /\ sid'[r] = rep[r] /\ pc'[r] = "done"
        /\ rep' = rep /\ queued' = queued /\ cand' = cand /\ unprocessed' = unprocessed
    BY <1>0, <1>1 DEF ReplaceUnprocessed, Goto, IInv, TypeOK
  <2>4. ForeignKey'
    BY <1>0, <2>2 DEF IInv, ForeignKey
  <2>5. ASSUME NEW s \in Requests PROVE HoldsRow(s)'
    <3>1. CASE s = r
      BY <1>0, <2>2, <2>3, <3>1 DEF IInv, HoldsRow, OwningPCs, HoldingPCs
    <3>2. CASE s # r
      <4>1. pc[s] \in OwningPCs => sid[s] # sid[r]
        BY <1>0, <3>2 DEF IInv, DistinctOwners, OwningPCs
      <4> QED
        BY <2>2, <2>3, <3>2, <4>1 DEF IInv, HoldsRow
    <3> QED
      BY <3>1, <3>2
  <2>6. ASSUME NEW s \in Requests PROVE PrivateRows(s)'
    <3>1. CASE s = r
      BY <2>3, <3>1 DEF PrivateRows
    <3>2. CASE s # r
      <4>1. ASSUME NEW j, Private(s, j) PROVE Private(s, j)'
        BY <2>2, <2>3, <3>2, <4>1 DEF Private
      <4> QED
        BY <2>3, <3>2, <4>1 DEF IInv, PrivateRows
    <3> QED
      BY <3>1, <3>2
  <2>7. DistinctOwners'
    BY <1>0, <2>3 DEF IInv, DistinctOwners, OwningPCs, Private
  <2> QED
    BY <2>1, <2>4, <2>5, <2>6, <2>7 DEF IInv
<1>2. CASE sid[r] \in observed
  <2>1. TypeOK'
    BY <1>2 DEF ReplaceUnprocessed, Goto, IInv, TypeOK, PCs
  <2> QED
    BY <1>2, <2>1, QuietStep
    DEF ReplaceUnprocessed, Goto, IInv, TypeOK, HoldsRow, OwningPCs, HoldingPCs, Allocated
<1> QED
  BY <1>1, <1>2

(* The user and the queue workers keep every row, and no local changes.    *)
LEMMA EnvironmentInv ==
  ASSUME IInv, User \/ \E u \in Uuids : Truncate(u)
  PROVE  IInv'
<1>1. TypeOK' /\ Processed' = Processed /\ Allocated' = Allocated
  <2>1. CASE \E i \in Reportable : Observe(i)
    BY <2>1 DEF Observe, locals, IInv, TypeOK, Processed, Allocated, Undeleted
  <2>2. CASE \E i \in Reportable : DeleteSuggestion(i)
    <3>1. PICK i \in Undeleted : DeleteSuggestion(i)
      BY <2>2 DEF DeleteSuggestion
    <3>2. i \in SuggestionIds /\ processed[i] \in ProcessedRow
      BY DEF IInv, TypeOK, Undeleted, Processed
    <3>3. PICK row \in ProcessedRow : processed' = [processed EXCEPT ![i] = row]
      <4>1. [processed[i] EXCEPT !.deleted = TRUE] \in ProcessedRow
        BY <3>2 DEF ProcessedRow
      <4> QED
        BY <3>1, <4>1 DEF DeleteSuggestion
    <3>4. TypeOK'
      BY <3>1, <3>2, <3>3 DEF DeleteSuggestion, locals, IInv, TypeOK
    <3>5. Processed' = Processed
      BY <3>2, <3>3, RowAssumption DEF IInv, TypeOK, Processed
    <3> QED
      BY <3>1, <3>4, <3>5 DEF DeleteSuggestion, Allocated
  <2>3. CASE \E q \in QueuedIds : DeleteQueued(q)
    BY <2>3 DEF DeleteQueued, MarkDeleted, locals, IInv, TypeOK, Processed, Allocated
  <2>4. CASE \E u \in Uuids : Truncate(u)
    BY <2>4 DEF Truncate, locals, IInv, TypeOK, Processed, Allocated
  <2> QED
    BY <2>1, <2>2, <2>3, <2>4 DEF User
<1>2. UNCHANGED <<unprocessed, locals>>
  BY DEF User, Observe, DeleteSuggestion, DeleteQueued, Truncate
<1>3. ForeignKey' /\ DistinctOwners'
  BY <1>1, <1>2 DEF IInv, ForeignKey, DistinctOwners, locals
<1>4. ASSUME NEW s \in Requests PROVE HoldsRow(s)' /\ PrivateRows(s)'
  BY <1>1, <1>2 DEF IInv, HoldsRow, PrivateRows, Private, locals
<1> QED
  BY <1>1, <1>3, <1>4 DEF IInv

LEMMA NextInv == IInv /\ [Next]_vars => IInv'
<1> SUFFICES ASSUME IInv, [Next]_vars PROVE IInv'
  OBVIOUS
<1>1. CASE UNCHANGED vars
  <2>1. Processed' = Processed /\ Allocated' = Allocated
    BY <1>1 DEF vars, Processed, Allocated
  <2> QED
    BY <1>1, <2>1 DEF vars, IInv, TypeOK, ForeignKey, HoldsRow, PrivateRows, Private, DistinctOwners
<1>2. ASSUME NEW r \in Requests, Serve(r) \/ Crash(r) PROVE IInv'
  BY <1>2, QuietInv, CreateUnprocessedInv, ProcessQueuedInv, InsertUnprocessedInv, ProcessSuggestionInv,
     FallbackInv, ProcessFallbackInv, InsertReplacementInv, ReplaceUnprocessedInv
  DEF Serve, Quiet
<1> QED
  BY <1>1, <1>2, EnvironmentInv DEF Next

---------------------------------------------------------------------------
LEMMA InductiveInvariant == Spec => []IInv
  BY InitInv, NextInv, PTL DEF Spec

(* Tables and local variables keep their types; in particular no request   *)
(* ever reads an assignment of a row that does not exist.                  *)
THEOREM TypeCorrect == Spec => []TypeOK
<1>1. IInv => TypeOK
  BY DEF IInv
<1> QED
  BY <1>1, InductiveInvariant, PTL

(* No suggestion is the answer of two calls, for any number of calls.      *)
THEOREM SuggestionServedOnce == Spec => []NoSharedSuggestion
<1>1. IInv => NoSharedSuggestion
  BY DEF IInv, DistinctOwners, NoSharedSuggestion, OwningPCs
<1> QED
  BY <1>1, InductiveInvariant, PTL

---------------------------------------------------------------------------
(* What any step leaves alone. *)

(* Nothing that is known of the other calls has changed. *)
OthersKept(r) ==
  \A s \in Requests \ {r} :
    /\ pc'[s] = pc[s] /\ sid'[s] = sid[s] /\ rep'[s] = rep[s]
    /\ queued'[s] = queued[s] /\ cand'[s] = cand[s]

RowsKept == \A i \in Allocated : i \in Allocated' /\ unprocessed'[i] = unprocessed[i]

LEMMA CallStep ==
  ASSUME IInv, NEW r \in Requests, Serve(r) \/ Crash(r)
  PROVE  OthersKept(r) /\ pc[r] \notin Terminal
BY DEF Serve, Start, ReadClaimed, FindNext, CreateUnprocessed, ProcessQueued, RetireQueued,
       FetchArgs, Pick, ShouldIgnore, InsertUnprocessed, ProcessSuggestion, RemoveFromAvailable,
       DropAlreadyProcessed, TolerateException, Fallback, ProcessFallback, FindMatching,
       InsertReplacement, ReplaceUnprocessed, Crash, NextAttempt, Terminal, Goto, tables,
       OthersKept, IInv, TypeOK

(* The statements of a call that change table suggestions. *)
Inserts(r) ==
  CreateUnprocessed(r) \/ InsertUnprocessed(r) \/ Fallback(r) \/ InsertReplacement(r)

(* ... and table suggestions_processed. *)
Processes(r) ==
  ProcessQueued(r) \/ ProcessSuggestion(r) \/ ProcessFallback(r) \/ ReplaceUnprocessed(r)

LEMMA CallWrites ==
  ASSUME NEW r \in Requests, Serve(r) \/ Crash(r)
  PROVE  /\ Inserts(r) \/ unprocessed' = unprocessed
         /\ Processes(r) \/ processed' = processed
         /\ observed' = observed
         /\ InsertReplacement(r) \/ rep' = rep
         /\ Pick(r) \/ cand' = cand
         /\ pool' = pool \/ RemoveFromAvailable(r) \/ DropAlreadyProcessed(r)
BY DEF Serve, Start, ReadClaimed, FindNext, CreateUnprocessed, ProcessQueued, RetireQueued,
       FetchArgs, Pick, ShouldIgnore, InsertUnprocessed, ProcessSuggestion, RemoveFromAvailable,
       DropAlreadyProcessed, TolerateException, Fallback, ProcessFallback, FindMatching,
       InsertReplacement, ReplaceUnprocessed, Crash, tables, Inserts, Processes

(* A row of table suggestions is written once. *)
LEMMA RowsStay == ASSUME IInv, [Next]_vars PROVE RowsKept
<1>1. CASE unprocessed' = unprocessed
  BY <1>1 DEF RowsKept, Allocated
<1>2. ASSUME NEW r \in Requests, Inserts(r), unprocessed' # unprocessed PROVE RowsKept
  <2>1. HasNewId /\ \E row : row # NoRow /\ unprocessed' = [unprocessed EXCEPT ![NewId] = row]
    <3>1. pc[r] = "insert" => cand[r] # NoRow
      BY RowAssumption DEF IInv, HoldsRow
    <3>2. \A a \in Assignments, s \in Sources : Fresh(a, s) # NoRow
      BY FreshTyped
    <3>3. pc[r] = "create_unprocessed" => QueuedAssignment[queued[r]] \in Assignments
      BY QueuedAssumption DEF IInv, HoldsRow
    <3> QED
      BY <1>2, <3>1, <3>2, <3>3
      DEF Inserts, CreateUnprocessed, InsertUnprocessed, Fallback, InsertReplacement, Sources
  <2>2. NewId \in SuggestionIds /\ NewId \notin Allocated
    BY <2>1, NewIdFresh DEF IInv
  <2> QED
    BY <2>1, <2>2 DEF RowsKept, Allocated, IInv, TypeOK
<1>3. CASE UNCHANGED vars \/ User \/ \E u \in Uuids : Truncate(u)
  BY <1>1, <1>3 DEF vars, User, Observe, DeleteSuggestion, DeleteQueued, Truncate
<1>4. ASSUME NEW r \in Requests, Serve(r) \/ Crash(r) PROVE RowsKept
  BY <1>1, <1>2, <1>4, CallWrites
<1> QED
  BY <1>3, <1>4 DEF Next

(* How the processed rows change: a call inserts the row of its sid, or    *)
(* moves the row of its sid to its rep.                                    *)
LEMMA ProcessedChanges ==
  ASSUME IInv, NEW r \in Requests, Serve(r) \/ Crash(r)
  PROVE  \/ processed' = processed
         \/ /\ sid[r] \in SuggestionIds \ Processed
            /\ Processed' = Processed \union {sid[r]}
            /\ \A i \in Processed : processed'[i] = processed[i]
         \/ /\ ReplaceUnprocessed(r) /\ pc[r] = "replace" /\ pc'[r] = "done" /\ sid'[r] = rep[r]
            /\ sid[r] \in Processed /\ rep[r] \in Allocated \ Processed /\ sid[r] # rep[r]
            /\ Processed' = (Processed \ {sid[r]}) \union {rep[r]}
            /\ processed'[rep[r]] = processed[sid[r]]
            /\ \A i \in Processed \ {sid[r]} : processed'[i] = processed[i]
<1>1. CASE ReplaceUnprocessed(r)
  <2>1. /\ pc[r] = "replace" /\ sid[r] \in Processed /\ sid[r] # rep[r]
        /\ rep[r] \in Allocated \ Processed
    BY <1>1 DEF ReplaceUnprocessed, IInv, HoldsRow, PrivateRows, Private, OwningPCs
  <2>2. CASE processed' # processed
    <3>1. /\ processed' = [processed EXCEPT ![rep[r]] = processed[sid[r]], ![sid[r]] = NoRow]
          /\ pc'[r] = "done" /\ sid'[r] = rep[r]
      BY <1>1, <2>2 DEF ReplaceUnprocessed, Goto, IInv, TypeOK
    <3>2. /\ processed'[rep[r]] = processed[sid[r]] /\ processed'[sid[r]] = NoRow
          /\ \A i \in SuggestionIds \ {sid[r], rep[r]} : processed'[i] = processed[i]
      BY <2>1, <3>1 DEF IInv, TypeOK, Processed, Allocated
    <3>3. /\ Processed' = (Processed \ {sid[r]}) \union {rep[r]}
          /\ \A i \in Processed \ {sid[r]} : processed'[i] = processed[i]
      BY <2>1, <3>2 DEF Processed, Allocated
    <3> QED
      BY <1>1, <2>1, <3>1, <3>2, <3>3
  <2> QED
    BY <2>2
<1>2. CASE ProcessQueued(r) \/ ProcessSuggestion(r) \/ ProcessFallback(r)
  <2>1. \/ processed' = processed
        \/ /\ sid[r] \in SuggestionIds \ Processed
           /\ \E row \in ProcessedRow : processed' = [processed EXCEPT ![sid[r]] = row]
    <3>1. sid[r] \in SuggestionIds /\ (pc[r] \in {"process_queued", "process_fallback"} => sid[r] \notin Processed)
      BY <1>2 DEF ProcessQueued, ProcessSuggestion, ProcessFallback, IInv, HoldsRow, HoldingPCs,
                  PrivateRows, Private, Allocated
    <3>2. /\ pc[r] = "process_queued" => [queued |-> queued[r], deleted |-> FALSE] \in ProcessedRow
          /\ [queued |-> NoQueued, deleted |-> FALSE] \in ProcessedRow
      BY DEF IInv, HoldsRow, ProcessedRow
    <3> QED
      BY <1>2, <3>1, <3>2 DEF ProcessQueued, ProcessSuggestion, ProcessFallback, HasProcessedRow
  <2>2. ASSUME sid[r] \in SuggestionIds \ Processed, NEW row \in ProcessedRow,
               processed' = [processed EXCEPT ![sid[r]] = row]
        PROVE  /\ Processed' = Processed \union {sid[r]}
               /\ \A i \in Processed : processed'[i] = processed[i]
    BY <2>2, RowAssumption DEF IInv, TypeOK, Processed
  <2> QED
    BY <2>1, <2>2
<1> QED
  BY <1>1, <1>2, CallWrites DEF Processes

(* The user and the queue workers keep the rows, but for their deleted flag. *)
LEMMA EnvironmentKeepsRows ==
  ASSUME IInv, User \/ \E u \in Uuids : Truncate(u)
  PROVE  /\ Processed' = Processed
         /\ \A i \in Processed : /\ processed'[i].queued = processed[i].queued
                                 /\ processed[i].deleted => processed'[i].deleted
         /\ observed \subseteq observed'
<1>1. CASE processed' = processed
  BY <1>1 DEF Processed, User, Observe, DeleteSuggestion, DeleteQueued, Truncate
<1>2. ASSUME NEW i, DeleteSuggestion(i)
      PROVE  /\ Processed' = Processed
             /\ \A j \in Processed : /\ processed'[j].queued = processed[j].queued
                                     /\ processed[j].deleted => processed'[j].deleted
             /\ observed' = observed
  <2>1. i \in SuggestionIds /\ processed[i] \in ProcessedRow
    BY <1>2 DEF DeleteSuggestion, Undeleted, Processed, IInv, TypeOK
  <2>2. /\ processed'[i] \in ProcessedRow /\ processed'[i].queued = processed[i].queued
        /\ processed'[i].deleted = TRUE
        /\ \A j \in SuggestionIds \ {i} : processed'[j] = processed[j]
        /\ observed' = observed
    BY <1>2, <2>1 DEF DeleteSuggestion, ProcessedRow, IInv, TypeOK
  <2> QED
    BY <2>1, <2>2, RowAssumption DEF Processed
<1> QED
  BY <1>1, <1>2 DEF User, Observe, DeleteQueued, Truncate

(* A processed suggestion that is deleted or reported stays so. *)
LEMMA NeverReopened ==
  ASSUME IInv, [Next]_vars
  PROVE  \A i \in Processed : i \in Open' => i \in Open
<1>1. CASE UNCHANGED vars
  BY <1>1 DEF vars, Open, Undeleted, Processed
<1>2. ASSUME NEW r \in Requests, Serve(r) \/ Crash(r), NEW i \in Processed, i \in Open'
      PROVE  i \in Open
  <2>1. observed' = observed /\ i \in Processed'
    BY <1>2, CallWrites DEF Open, Undeleted
  <2>2. processed'[i] = processed[i]
    BY <1>2, <2>1, ProcessedChanges
  <2> QED
    BY <1>2, <2>1, <2>2 DEF Open, Undeleted
<1>3. CASE User \/ \E u \in Uuids : Truncate(u)
  BY <1>3, EnvironmentKeepsRows DEF Open, Undeleted
<1> QED
  BY <1>1, <1>2, <1>3 DEF Next

---------------------------------------------------------------------------
(* Twins.  The last of two calls to look for a match sees the processed    *)
(* row of the other, and nothing opens that row again.                     *)
SourceRole(r) ==
  /\ pc[r] \in {"process_queued", "retire_queued"} => unprocessed[sid[r]].source = "QUEUED_SUGGESTION"
  /\ pc[r] = "replace" => unprocessed[rep[r]].source = "CONFLICT_REPLACEMENT_RANDOM"

TwinInv ==
  /\ IInv
  /\ \A r \in Requests : SourceRole(r)
  /\ NoOpenTwins

LEMMA OwnSource ==
  ASSUME TwinInv, NEW r \in Requests, Serve(r) \/ Crash(r)
  PROVE  SourceRole(r)'
<1> USE DEF Goto
<1>0. IInv /\ RowsKept
  BY RowsStay DEF TwinInv, Next
<1>1. CASE CreateUnprocessed(r)
  <2>1. pc'[r] = "process_queued" /\ sid'[r] = NewId /\ HasNewId
    BY <1>0, <1>1 DEF CreateUnprocessed, IInv, TypeOK
  <2>2. unprocessed'[NewId].source = "QUEUED_SUGGESTION"
    BY <1>0, <1>1, <2>1, NewIdFresh DEF CreateUnprocessed, IInv, TypeOK, Fresh
  <2> QED
    BY <2>1, <2>2 DEF SourceRole
<1>2. CASE ProcessQueued(r)
  <2>1. /\ pc[r] = "process_queued" /\ unprocessed' = unprocessed /\ pc'[r] # "replace"
        /\ pc'[r] = "retire_queued" => sid' = sid
        /\ pc'[r] # "process_queued"
    BY <1>0, <1>2 DEF ProcessQueued, IInv, TypeOK
  <2> QED
    BY <2>1 DEF TwinInv, SourceRole
<1>3. CASE InsertReplacement(r)
  <2>1. pc'[r] = "replace" /\ rep'[r] = NewId /\ HasNewId
    BY <1>0, <1>3 DEF InsertReplacement, IInv, TypeOK
  <2>2. unprocessed'[NewId].source = "CONFLICT_REPLACEMENT_RANDOM"
    BY <1>0, <1>3, <2>1, NewIdFresh DEF InsertReplacement, IInv, TypeOK, Fresh
  <2> QED
    BY <2>1, <2>2 DEF SourceRole
<1>4. CASE ~(CreateUnprocessed(r) \/ ProcessQueued(r) \/ InsertReplacement(r))
  <2>1. pc'[r] \notin {"process_queued", "retire_queued", "replace"}
    BY <1>0, <1>4 DEF Serve, Start, ReadClaimed, FindNext, RetireQueued, FetchArgs, Pick, ShouldIgnore,
         InsertUnprocessed, ProcessSuggestion, RemoveFromAvailable, DropAlreadyProcessed,
         TolerateException, Fallback, ProcessFallback, FindMatching, ReplaceUnprocessed, Crash,
         NextAttempt, IInv, TypeOK
  <2> QED
    BY <2>1 DEF SourceRole
<1> QED
  BY <1>1, <1>2, <1>3, <1>4

(* A call that becomes Kept has just found no open match. *)
LEMMA BecomesKept ==
  ASSUME TwinInv, NEW r \in Requests, Serve(r) \/ Crash(r), Kept(r)'
  PROVE  /\ FindMatching(r) /\ MatchingOpen(sid[r]) = {}
         /\ UNCHANGED <<unprocessed, processed, observed, sid>>
<1>0. IInv /\ SourceRole(r) /\ pc'[r] = "done"
  BY DEF TwinInv, Kept
<1>1. CASE RetireQueued(r)
  BY <1>0, <1>1 DEF RetireQueued, SourceRole, Kept
<1>2. CASE ReplaceUnprocessed(r)
  <2>1. sid'[r] = rep[r] /\ unprocessed' = unprocessed /\ pc[r] = "replace"
    BY <1>0, <1>2 DEF ReplaceUnprocessed, Goto, IInv, TypeOK
  <2> QED
    BY <1>0, <2>1 DEF SourceRole, Kept
<1>3. CASE FindMatching(r)
  BY <1>0, <1>3 DEF FindMatching, Goto, IInv, TypeOK, tables
<1>4. CASE ~(RetireQueued(r) \/ ReplaceUnprocessed(r) \/ FindMatching(r))
  BY <1>0, <1>4 DEF Serve, Start, ReadClaimed, FindNext, CreateUnprocessed, ProcessQueued, FetchArgs,
       Pick, ShouldIgnore, InsertUnprocessed, ProcessSuggestion, RemoveFromAvailable,
       DropAlreadyProcessed, TolerateException, Fallback, ProcessFallback, InsertReplacement, Crash,
       NextAttempt, Goto, IInv, TypeOK
<1> QED
  BY <1>1, <1>2, <1>3, <1>4

(* The answers that are settled already stay as they are. *)
LEMMA KeptStays ==
  ASSUME TwinInv, NEW r \in Requests, pc[r] = "done", RowsKept,
         pc'[r] = pc[r], sid'[r] = sid[r]
  PROVE  /\ Kept(r)' = Kept(r)
         /\ sid[r] \in Processed
         /\ unprocessed'[sid'[r]] = unprocessed[sid[r]]
<1>1. sid[r] \in Processed /\ sid[r] \in Allocated
  BY DEF TwinInv, IInv, HoldsRow, HoldingPCs, OwningPCs
<1> QED
  BY <1>1 DEF RowsKept, Kept

LEMMA TwinsNext == TwinInv /\ [Next]_vars => TwinInv'
<1> SUFFICES ASSUME TwinInv, [Next]_vars PROVE TwinInv'
  OBVIOUS
<1>0. IInv' /\ RowsKept /\ IInv
  BY NextInv, RowsStay DEF TwinInv
<1>1. ASSUME NEW r \in Requests, pc'[r] = pc[r], sid'[r] = sid[r], rep'[r] = rep[r]
      PROVE  SourceRole(r)'
  BY <1>0, <1>1 DEF TwinInv, SourceRole, RowsKept, IInv, HoldsRow, HoldingPCs, OwningPCs
<1>2. ASSUME NEW r1 \in Requests, NEW r2 \in Requests, r1 # r2, Kept(r1)', Kept(r2)',
             pc[r1] = "done", pc[r2] = "done",
             sid'[r1] = sid[r1], sid'[r2] = sid[r2],
             (unprocessed[sid[r1]].asg = unprocessed[sid[r2]].asg)'
      PROVE  sid'[r1] \notin Open' \/ sid'[r2] \notin Open'
  <2>1. /\ Kept(r1) /\ Kept(r2) /\ sid[r1] \in Processed /\ sid[r2] \in Processed
        /\ unprocessed[sid[r1]].asg = unprocessed[sid[r2]].asg
    BY <1>0, <1>2, KeptStays DEF Kept
  <2>2. sid[r1] \notin Open \/ sid[r2] \notin Open
    BY <1>2, <2>1 DEF TwinInv, NoOpenTwins
  <2> QED
    BY <1>0, <1>2, <2>1, <2>2, NeverReopened
<1>3. CASE UNCHANGED vars \/ User \/ \E u \in Uuids : Truncate(u)
  <2>1. UNCHANGED <<pc, sid, rep>>
    BY <1>3 DEF vars, User, Observe, DeleteSuggestion, DeleteQueued, Truncate, locals
  <2>2. \A r \in Requests : Kept(r)' => pc[r] = "done"
    BY <2>1 DEF Kept
  <2>3. NoOpenTwins'
    BY <1>2, <2>1, <2>2 DEF NoOpenTwins
  <2> QED
    BY <1>0, <1>1, <2>1, <2>3 DEF TwinInv
<1>4. ASSUME NEW r \in Requests, Serve(r) \/ Crash(r) PROVE TwinInv'
  <2>1. OthersKept(r) /\ pc[r] \notin Terminal
    BY <1>0, <1>4, CallStep
  <2>2. \A s \in Requests : SourceRole(s)'
    BY <1>1, <1>4, <2>1, OwnSource DEF OthersKept
  <2>3. ASSUME NEW s \in Requests, s # r, Kept(r)', Kept(s)',
               (unprocessed[sid[r]].asg = unprocessed[sid[s]].asg)'
        PROVE  sid'[s] \notin Open'
    <3>1. /\ MatchingOpen(sid[r]) = {}
          /\ UNCHANGED <<unprocessed, processed, observed, sid>>
      BY <1>4, <2>3, BecomesKept
    <3>2. pc[s] = "done" /\ pc[r] \in OwningPCs
      BY <1>4, <2>1, <2>3, BecomesKept DEF OthersKept, Kept, FindMatching, OwningPCs
    <3>3. sid[s] # sid[r]
      BY <1>0, <2>3, <3>2 DEF IInv, DistinctOwners, OwningPCs
    <3>4. sid[s] \notin Open
      BY <2>3, <3>1, <3>3 DEF MatchingOpen
    <3> QED
      BY <3>1, <3>4 DEF Open, Undeleted, Processed
  <2>4. \A s \in Requests \ {r} : Kept(s)' => pc[s] = "done" /\ sid'[s] = sid[s]
    BY <2>1 DEF OthersKept, Kept
  <2>5. NoOpenTwins'
    BY <1>2, <2>3, <2>4 DEF NoOpenTwins
  <2> QED
    BY <1>0, <2>2, <2>5 DEF TwinInv
<1> QED
  BY <1>3, <1>4 DEF Next

(* Of two computed suggestions with the same assignments at most one stays *)
(* open, whatever the interleaving of the calls that answer with them and  *)
(* whoever dies: replace_with_random_if_necessary sees the earlier one.    *)
THEOREM NoTwinsStayOpen == Spec => []NoOpenTwins
<1>1. Init => TwinInv
  BY InitInv DEF Init, TwinInv, SourceRole, NoOpenTwins, Kept
<1>2. TwinInv => NoOpenTwins
  BY DEF TwinInv
<1> QED
  BY <1>1, <1>2, TwinsNext, PTL DEF Spec

---------------------------------------------------------------------------
(* Computed suggestions.  Whoever removes one from the pool holds a row of *)
(* it that is processed, or was before it was replaced; and the call that  *)
(* replaced it keeps both its candidate and its replacement for ever.      *)

Accounted(u) ==
  \E i \in RowsOf(u) :
    \/ i \in Processed
    \/ \E r \in Requests : cand[r] # NoRow /\ cand[r].uuid = u /\ rep[r] \in Processed

(* The row of sid[r] is that of the candidate. *)
CandidateRole(r) ==
  /\ pc[r] \in {"process", "drop", "remove_from_available"} =>
       cand[r] # NoRow /\ unprocessed[sid[r]].uuid = cand[r].uuid
  /\ pc[r] \in {"find_matching", "insert_replacement", "replace"}
     /\ unprocessed[sid[r]].uuid # NoUuid =>
       cand[r] # NoRow /\ unprocessed[sid[r]].uuid = cand[r].uuid
  /\ pc[r] = "drop" /\ cand[r].uuid # NoUuid => Accounted(cand[r].uuid)

(* A replacement belongs to the call that inserted it. *)
ReplacementRole(r) ==
  rep[r] # NoId =>
    /\ pc[r] \in {"replace", "done", "integrity_error", "crashed"}
    /\ unprocessed[rep[r]].uuid = NoUuid
    /\ \A s \in Requests : sid[s] = rep[r] => s = r /\ pc[r] = "done"
    /\ rep[r] \in Processed => sid[r] = rep[r]

PoolInv ==
  /\ IInv
  /\ \A r \in Requests : CandidateRole(r)
  /\ \A r \in Requests : ReplacementRole(r)
  /\ AvailableUntilProcessed

(* The row a call works on next is its own, a new one, none, the one with  *)
(* the uuid of its candidate, or its replacement.                          *)
LEMMA NextRow ==
  ASSUME IInv, NEW r \in Requests, Serve(r) \/ Crash(r)
  PROVE  \/ sid'[r] = sid[r]
         \/ sid'[r] = NoId
         \/ sid'[r] \notin Allocated
         \/ unprocessed[sid'[r]].uuid # NoUuid
         \/ ReplaceUnprocessed(r) /\ pc[r] = "replace" /\ pc'[r] = "done" /\ sid'[r] = rep[r]
<1> USE DEF IInv, TypeOK
<1>1. HasNewId => NewId \notin Allocated
  BY NewIdFresh
<1>2. CASE CreateUnprocessed(r) \/ Fallback(r)
  BY <1>1, <1>2 DEF CreateUnprocessed, Fallback
<1>3. CASE InsertUnprocessed(r)
  BY <1>1, <1>3 DEF InsertUnprocessed
<1>4. CASE ReplaceUnprocessed(r)
  BY <1>4 DEF ReplaceUnprocessed, Goto
<1>5. CASE ProcessQueued(r) \/ DropAlreadyProcessed(r) \/ TolerateException(r)
  BY <1>5 DEF ProcessQueued, DropAlreadyProcessed, TolerateException
<1>6. CASE ~(\/ CreateUnprocessed(r) \/ Fallback(r) \/ InsertUnprocessed(r) \/ ReplaceUnprocessed(r)
             \/ ProcessQueued(r) \/ DropAlreadyProcessed(r) \/ TolerateException(r))
  BY <1>6 DEF Serve, Start, ReadClaimed, FindNext, RetireQueued, FetchArgs, Pick, ShouldIgnore,
       ProcessSuggestion, RemoveFromAvailable, ProcessFallback, FindMatching, InsertReplacement, Crash
<1> QED
  BY <1>2, <1>3, <1>4, <1>5, <1>6

(* A computed suggestion that is accounted for stays so. *)
LEMMA AccountedStays ==
  ASSUME PoolInv, [Next]_vars, NEW u \in Uuids, Accounted(u)
  PROVE  Accounted(u)'
<1>0. RowsKept /\ IInv
  BY RowsStay DEF PoolInv
<1>1. PICK i \in RowsOf(u) :
        \/ i \in Processed
        \/ \E s \in Requests : cand[s] # NoRow /\ cand[s].uuid = u /\ rep[s] \in Processed
  BY DEF Accounted
<1>2. i \in RowsOf(u)' /\ unprocessed[i].uuid = u
  BY <1>0, <1>1 DEF RowsOf, RowsKept
<1>3. CASE UNCHANGED vars \/ User \/ \E v \in Uuids : Truncate(v)
  <2>1. UNCHANGED <<cand, rep>> /\ Processed' = Processed
    BY <1>0, <1>3, EnvironmentKeepsRows
    DEF vars, User, Observe, DeleteSuggestion, DeleteQueued, Truncate, locals, Processed
  <2> QED
    BY <1>1, <1>2, <2>1 DEF Accounted
<1>4. ASSUME NEW r \in Requests, Serve(r) \/ Crash(r) PROVE Accounted(u)'
  <2>0. OthersKept(r) /\ pc[r] \notin Terminal
    BY <1>0, <1>4, CallStep
  <2>1. CASE i \in Processed
    <3>1. CASE i \in Processed'
      BY <1>2, <3>1 DEF Accounted
    <3>2. CASE i \notin Processed'
      <4>1. /\ ReplaceUnprocessed(r) /\ pc[r] = "replace" /\ i = sid[r] /\ rep[r] \in Processed'
        BY <1>0, <1>4, <2>1, <3>2, ProcessedChanges DEF Processed
      <4>2. cand'[r] # NoRow /\ cand'[r].uuid = u /\ rep'[r] \in Processed'
        BY <1>2, <4>1, NullAssumption DEF PoolInv, CandidateRole, ReplaceUnprocessed
      <4> QED
        BY <1>2, <4>2 DEF Accounted
    <3> QED
      BY <3>1, <3>2
  <2>2. ASSUME NEW s \in Requests, cand[s] # NoRow, cand[s].uuid = u, rep[s] \in Processed
        PROVE  Accounted(u)'
    <3>1. rep[s] # NoId
      BY <2>2, NullAssumption DEF Processed
    <3>2. sid[s] = rep[s] /\ pc[s] = "done"
      BY <2>2, <3>1 DEF PoolInv, ReplacementRole
    <3>3. s # r /\ cand'[s] = cand[s] /\ rep'[s] = rep[s]
      BY <2>0, <3>2 DEF OthersKept, Terminal
    <3>4. sid[r] # rep[s]
      BY <2>0, <3>1, <3>3 DEF PoolInv, ReplacementRole
    <3>5. rep[s] \in Processed'
      BY <1>0, <1>4, <2>2, <3>4, ProcessedChanges DEF Processed
    <3> QED
      BY <1>2, <2>2, <3>3, <3>5 DEF Accounted
  <2> QED
    BY <1>1, <2>1, <2>2
<1> QED
  BY <1>3, <1>4 DEF Next

(* The statements of a call that move it to the labels of CandidateRole. *)
LEMMA OwnCandidate ==
  ASSUME PoolInv, NEW r \in Requests, Serve(r) \/ Crash(r)
  PROVE  CandidateRole(r)'
<1> USE DEF Goto
<1>0. IInv /\ CandidateRole(r) /\ RowsKept /\ Next
  BY RowsStay DEF PoolInv, Next
<1>1. CASE InsertUnprocessed(r)
  <2>1. /\ pc'[r] = "process" /\ cand' = cand /\ cand[r] # NoRow
    BY <1>0, <1>1, RowAssumption DEF InsertUnprocessed, IInv, TypeOK, HoldsRow
  <2>2. unprocessed'[sid'[r]].uuid = cand[r].uuid
    <3>1. HasNewId => NewId \in SuggestionIds
      BY <1>0, NewIdFresh DEF IInv
    <3> QED
      BY <1>0, <1>1, <3>1 DEF InsertUnprocessed, IInv, TypeOK
  <2> QED
    BY <2>1, <2>2 DEF CandidateRole
<1>2. CASE ProcessSuggestion(r)
  <2>1. /\ pc[r] = "process" /\ UNCHANGED <<unprocessed, cand, sid>> /\ sid[r] \in Allocated
        /\ pc'[r] \in {"remove_from_available", "drop"}
        /\ pc'[r] = "drop" => sid[r] \in Processed /\ processed' = processed
    BY <1>0, <1>2 DEF ProcessSuggestion, HasProcessedRow, IInv, TypeOK, HoldsRow, HoldingPCs
  <2>2. pc'[r] = "drop" => Accounted(cand[r].uuid)'
    BY <1>0, <2>1 DEF CandidateRole, Accounted, RowsOf, Allocated, Processed
  <2> QED
    BY <1>0, <2>1, <2>2 DEF CandidateRole
<1>3. CASE RemoveFromAvailable(r) \/ FindMatching(r)
  <2>1. /\ pc[r] \in {"remove_from_available", "find_matching"}
        /\ pc'[r] \in {"find_matching", "insert_replacement", "done"}
        /\ UNCHANGED <<unprocessed, cand, sid>>
    BY <1>0, <1>3 DEF RemoveFromAvailable, FindMatching, IInv, TypeOK, tables
  <2> QED
    BY <1>0, <2>1 DEF CandidateRole
<1>4. CASE InsertReplacement(r)
  <2>1. /\ pc[r] = "insert_replacement" /\ pc'[r] = "replace" /\ UNCHANGED <<cand, sid>>
        /\ sid[r] \in Allocated
    BY <1>0, <1>4 DEF InsertReplacement, IInv, TypeOK, HoldsRow, HoldingPCs, OwningPCs
  <2> QED
    BY <1>0, <2>1 DEF CandidateRole, RowsKept
<1>5. CASE ProcessFallback(r)
  <2>1. /\ pc'[r] = "find_matching" /\ UNCHANGED <<unprocessed, sid>>
        /\ unprocessed[sid[r]].uuid = NoUuid
    BY <1>0, <1>5 DEF ProcessFallback, IInv, TypeOK, PrivateRows, Private
  <2> QED
    BY <2>1 DEF CandidateRole
<1>6. CASE ~(\/ InsertUnprocessed(r) \/ ProcessSuggestion(r) \/ RemoveFromAvailable(r)
             \/ FindMatching(r) \/ InsertReplacement(r) \/ ProcessFallback(r))
  <2>1. pc'[r] \notin {"process", "drop", "remove_from_available", "find_matching",
                       "insert_replacement", "replace"}
    BY <1>0, <1>6 DEF Serve, Start, ReadClaimed, FindNext, CreateUnprocessed, ProcessQueued, RetireQueued,
         FetchArgs, Pick, ShouldIgnore, DropAlreadyProcessed, TolerateException, Fallback,
         ReplaceUnprocessed, Crash, NextAttempt, IInv, TypeOK
  <2> QED
    BY <2>1 DEF CandidateRole
<1> QED
  BY <1>1, <1>2, <1>3, <1>4, <1>5, <1>6

(* A replacement that was there before the step. *)
LEMMA OldReplacement ==
  ASSUME PoolInv, NEW r \in Requests, Serve(r) \/ Crash(r), NEW s \in Requests,
         rep[s] # NoId, rep'[s] = rep[s]
  PROVE  ReplacementRole(s)'
<1>0. /\ IInv /\ RowsKept /\ OthersKept(r) /\ pc[r] \notin Terminal
      /\ ReplacementRole(s) /\ rep[s] \in Allocated /\ unprocessed'[rep[s]].uuid = NoUuid
  BY RowsStay, CallStep DEF PoolInv, Next, IInv, HoldsRow, ReplacementRole, RowsKept
<1>1. pc'[s] \in {"replace", "done", "integrity_error", "crashed"} /\ (pc[s] = "done" => pc'[s] = "done")
  <2>1. CASE s = r
    <3>1. pc[r] = "replace"
      BY <1>0, <2>1 DEF ReplacementRole, Terminal
    <3>2. ReplaceUnprocessed(r) \/ Crash(r)
      BY <3>1 DEF Serve, Start, ReadClaimed, FindNext, CreateUnprocessed, ProcessQueued, RetireQueued,
           FetchArgs, Pick, ShouldIgnore, InsertUnprocessed, ProcessSuggestion, RemoveFromAvailable,
           DropAlreadyProcessed, TolerateException, Fallback, ProcessFallback, FindMatching, InsertReplacement
    <3> QED
      BY <1>0, <2>1, <3>1, <3>2 DEF ReplaceUnprocessed, Crash, Goto, IInv, TypeOK
  <2>2. CASE s # r
    BY <1>0, <2>2 DEF ReplacementRole, OthersKept
  <2> QED
    BY <2>1, <2>2
<1>2. ASSUME NEW q \in Requests, sid'[q] = rep[s] PROVE q = s /\ pc'[s] = "done"
  <2>1. CASE sid'[q] = sid[q]
    BY <1>0, <1>1, <1>2, <2>1 DEF ReplacementRole
  <2>2. CASE sid'[q] # sid[q]
    <3>1. q = r
      BY <1>0, <2>2 DEF OthersKept
    <3>2. pc[r] = "replace" /\ pc'[r] = "done" /\ sid'[r] = rep[r]
      BY <1>0, <1>2, <2>2, <3>1, NextRow DEF ReplacementRole
    <3>3. s = r
      BY <1>0, <1>2, <3>1, <3>2 DEF IInv, PrivateRows, Private
    <3> QED
      BY <3>1, <3>2, <3>3
  <2> QED
    BY <2>1, <2>2
<1>3. ASSUME rep[s] \in Processed' PROVE sid'[s] = rep[s]
  <2>1. CASE rep[s] \in Processed
    BY <1>0, <2>1 DEF ReplacementRole, OthersKept, Terminal
  <2>2. CASE rep[s] \notin Processed
    <3>1. sid[r] # rep[s]
      BY <1>0 DEF ReplacementRole, Terminal
    <3>2. pc[r] = "replace" /\ sid'[r] = rep[r] /\ rep[s] = rep[r]
      BY <1>0, <1>3, <2>2, <3>1, ProcessedChanges DEF Processed
    <3>3. s = r
      BY <1>0, <3>2 DEF IInv, PrivateRows, Private
    <3> QED
      BY <3>2, <3>3
  <2> QED
    BY <2>1, <2>2
<1> QED
  BY <1>0, <1>1, <1>2, <1>3 DEF ReplacementRole

LEMMA NewReplacement ==
  ASSUME PoolInv, NEW r \in Requests, InsertReplacement(r)
  PROVE  ReplacementRole(r)'
<1>1. HasNewId /\ IInv /\ IInv'
  BY NextInv DEF InsertReplacement, PoolInv, Next, Serve
<1>2. NewId \in SuggestionIds /\ NewId \notin Allocated
  BY <1>1, NewIdFresh DEF IInv
<1>3. pc'[r] = "replace" /\ rep'[r] = NewId /\ sid' = sid /\ processed' = processed
  BY <1>1 DEF InsertReplacement, Goto, IInv, TypeOK
<1>4. unprocessed'[NewId].uuid = NoUuid
  BY <1>1, <1>2 DEF InsertReplacement, Fresh, IInv, TypeOK
<1>5. \A s \in Requests : sid[s] # NewId
  BY <1>1, <1>2, NullAssumption DEF IInv, HoldsRow
<1>6. NewId \notin Processed'
  BY <1>1, <1>2, <1>3 DEF IInv, ForeignKey, Processed
<1> QED
  BY <1>3, <1>4, <1>5, <1>6 DEF ReplacementRole

LEMMA PoolNext == PoolInv /\ [Next]_vars => PoolInv'
<1> SUFFICES ASSUME PoolInv, [Next]_vars PROVE PoolInv'
  OBVIOUS
<1>0. IInv' /\ RowsKept /\ IInv
  BY NextInv, RowsStay DEF PoolInv
<1>1. ASSUME NEW r \in Requests, pc'[r] = pc[r], sid'[r] = sid[r], cand'[r] = cand[r]
      PROVE  CandidateRole(r)'
  <2>1. pc[r] \in {"process", "drop", "remove_from_available", "find_matching", "insert_replacement", "replace"}
          => sid[r] \in Allocated
    BY <1>0 DEF IInv, HoldsRow, HoldingPCs, OwningPCs
  <2>2. ASSUME NEW u, u = cand[r].uuid, u # NoUuid, pc[r] = "drop" PROVE Accounted(u)'
    <3>1. sid[r] \in Allocated /\ unprocessed[sid[r]].uuid = u /\ Accounted(u)
      BY <2>1, <2>2 DEF PoolInv, CandidateRole
    <3>2. u \in Uuids
      BY <1>0, <2>2, <3>1 DEF IInv, TypeOK, Allocated, UnprocessedRow
    <3> QED
      BY <3>1, <3>2, AccountedStays
  <2>3. /\ pc[r] \in {"process", "drop", "remove_from_available", "find_matching", "insert_replacement", "replace"}
             => unprocessed'[sid'[r]] = unprocessed[sid[r]]
        /\ \A u : u = cand'[r].uuid /\ u # NoUuid /\ pc'[r] = "drop" => Accounted(u)'
    BY <1>0, <1>1, <2>1, <2>2 DEF RowsKept
  <2>4. pc'[r] = "drop" /\ cand'[r].uuid # NoUuid => Accounted(cand[r].uuid)'
    BY <2>3
  <2> QED
    BY <1>0, <1>1, <2>3, <2>4 DEF PoolInv, CandidateRole
<1>2. CASE UNCHANGED vars \/ User \/ \E u \in Uuids : Truncate(u)
  <2>1. UNCHANGED <<pc, sid, rep, cand>> /\ Processed' = Processed
    BY <1>0, <1>2, EnvironmentKeepsRows
    DEF vars, User, Observe, DeleteSuggestion, DeleteQueued, Truncate, locals, Processed
  <2>2. \A r \in Requests : ReplacementRole(r)'
    BY <1>0, <2>1 DEF PoolInv, ReplacementRole, RowsKept, IInv, HoldsRow
  <2>3. ASSUME NEW u \in Uuids \ (Truncatable \union pool') PROVE Accounted(u)'
    <3>1. u \notin pool
      BY <1>2, <2>3 DEF vars, User, Observe, DeleteSuggestion, DeleteQueued, Truncate
    <3> QED
      BY <3>1, AccountedStays DEF PoolInv, AvailableUntilProcessed, Accounted
  <2>4. AvailableUntilProcessed'
    BY <2>3 DEF AvailableUntilProcessed, Accounted
  <2> QED
    BY <1>0, <1>1, <2>1, <2>2, <2>4 DEF PoolInv
<1>3. ASSUME NEW r \in Requests, Serve(r) \/ Crash(r) PROVE PoolInv'
  <2>1. OthersKept(r)
    BY <1>0, <1>3, CallStep
  <2>2. \A s \in Requests : CandidateRole(s)'
    BY <1>1, <1>3, <2>1, OwnCandidate DEF OthersKept
  <2>3. ASSUME NEW s \in Requests PROVE ReplacementRole(s)'
    <3>1. CASE InsertReplacement(r) /\ s = r
      BY <3>1, NewReplacement
    <3>2. CASE ~(InsertReplacement(r) /\ s = r)
      <4>1. rep'[s] = rep[s]
        BY <1>3, <2>1, <3>2, CallWrites DEF OthersKept
      <4> QED
        BY <1>3, <4>1, OldReplacement DEF ReplacementRole
    <3> QED
      BY <3>1, <3>2
  <2>4. ASSUME NEW u \in Uuids \ (Truncatable \union pool') PROVE Accounted(u)'
    <3>1. CASE u \notin pool
      BY <3>1, AccountedStays DEF PoolInv, AvailableUntilProcessed, Accounted
    <3>2. CASE u \in pool
      <4>1. /\ RemoveFromAvailable(r) \/ DropAlreadyProcessed(r)
            /\ u = cand[r].uuid
        BY <1>3, <2>4, <3>2, CallWrites DEF RemoveFromAvailable, DropAlreadyProcessed, RemovedFromPool
      <4>2. Accounted(u)
        <5>1. CASE pc[r] = "remove_from_available"
          <6>1. sid[r] \in Processed /\ sid[r] \in RowsOf(u)
            BY <1>0, <4>1, <5>1 DEF PoolInv, CandidateRole, IInv, HoldsRow, OwningPCs, HoldingPCs, RowsOf
          <6> QED
            BY <6>1 DEF Accounted
        <5>2. CASE pc[r] = "drop"
          BY <4>1, <5>2, NullAssumption DEF PoolInv, CandidateRole
        <5> QED
          BY <4>1, <5>1, <5>2 DEF RemoveFromAvailable, DropAlreadyProcessed
      <4> QED
        BY <4>2, AccountedStays
    <3> QED
      BY <3>1, <3>2
  <2>5. AvailableUntilProcessed'
    BY <2>4 DEF AvailableUntilProcessed, Accounted
  <2> QED
    BY <1>0, <2>2, <2>3, <2>5 DEF PoolInv
<1> QED
  BY <1>2, <1>3 DEF Next

(* No computed suggestion is lost: what left the pool was truncated by a   *)
(* worker, or has a row that is processed or was replaced by one that is,  *)
(* whatever calls died or failed between the two inserts.                  *)
THEOREM ComputedNotLost == Spec => []AvailableUntilProcessed
<1>1. Init => PoolInv
  <2> SUFFICES ASSUME Init PROVE PoolInv
    OBVIOUS
  <2>1. AvailableUntilProcessed
    BY DEF Init, AvailableUntilProcessed
  <2>2. \A r \in Requests : CandidateRole(r) /\ ReplacementRole(r)
    BY DEF Init, CandidateRole, ReplacementRole
  <2> QED
    BY <2>1, <2>2, InitInv DEF PoolInv
<1>2. PoolInv => AvailableUntilProcessed
  BY DEF PoolInv
<1> QED
  BY <1>1, <1>2, PoolNext, PTL DEF Spec
==============================================================================
