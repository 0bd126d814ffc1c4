------------------------- MODULE QueuedServing_proofs -------------------------
(***************************************************************************)
(* No suggestion of the user's queue is the answer of two calls, the calls *)
(* implement the ledger, and a call gives up only when others got what it  *)
(* tried: for any number of calls and queued suggestions.                  *)
(*                                                                         *)
(* The constraint on suggestions_processed.queued_id makes the rows of a   *)
(* queued suggestion unique (OneRowPerQueued).  What remains is that the   *)
(* row of an answer that came from the queue really names the queued       *)
(* suggestion of its call (QueueRole), through all that other calls and    *)
(* replacements do to the tables, and that a suggestion which did not come *)
(* from the queue is never taken for one that did.  The refinement and the *)
(* count of lost fetches rest on the same invariant.                       *)
(***************************************************************************)
EXTENDS SuggestionServing_proofs, FiniteSetTheorems

FromQueue(i) == unprocessed[i].source = "QUEUED_SUGGESTION"

(* The unique constraint on queued_id. *)
OneRowPerQueued ==
  \A i, j \in Processed :
    processed[i].queued = processed[j].queued /\ processed[i].queued # NoQueued => i = j

(* A row that was computed by a worker did not come from the queue. *)
ComputedRows == \A i \in Allocated : unprocessed[i].uuid # NoUuid => ~FromQueue(i)

(* Labels at which sid[r] did not come from the queue. *)
ComputedPCs == {"process", "remove_from_available", "drop", "process_fallback",
                "find_matching", "insert_replacement", "replace"}

QueueRole(r) ==
  /\ pc[r] \in {"should_ignore", "insert"} => cand[r].source # "QUEUED_SUGGESTION"
  /\ pc[r] \in ComputedPCs => ~FromQueue(sid[r])
  /\ pc[r] = "replace" => ~FromQueue(rep[r])
  /\ pc[r] \in ComputedPCs \cap OwningPCs => processed[sid[r]].queued = NoQueued
  /\ pc[r] = "retire_queued" \/ (pc[r] = "done" /\ FromQueue(sid[r])) =>
       processed[sid[r]].queued = queued[r] /\ queued[r] # NoQueued

QueuedInv ==
  /\ IInv
  /\ OneRowPerQueued
  /\ ComputedRows
  /\ \A r \in Requests : QueueRole(r)

LEMMA QueuedInit == Init => QueuedInv
<1> SUFFICES ASSUME Init PROVE QueuedInv
  OBVIOUS
<1>1. OneRowPerQueued /\ ComputedRows
  BY DEF Init, OneRowPerQueued, ComputedRows, Processed, Allocated
<1>2. \A r \in Requests : QueueRole(r)
  BY DEF Init, QueueRole, ComputedPCs
<1> QED
  BY <1>1, <1>2, InitInv DEF QueuedInv

---------------------------------------------------------------------------
(* The calls whose answer is settled keep their processed rows. *)
LEMMA RolesKept ==
  ASSUME QueuedInv, NEW r \in Requests, OthersKept(r), RowsKept,
         \A s \in Requests \ {r} : pc[s] \in OwningPCs =>
           processed'[sid[s]].queued = processed[sid[s]].queued
  PROVE  \A s \in Requests \ {r} : QueueRole(s)'
<1> TAKE s \in Requests \ {r}
<1>1. /\ pc[s] \in HoldingPCs => sid[s] \in Allocated
      /\ pc[s] = "replace" => rep[s] \in Allocated
  BY DEF QueuedInv, IInv, HoldsRow
<1>2. pc[s] \in HoldingPCs => FromQueue(sid[s])' = FromQueue(sid[s])
  BY <1>1 DEF OthersKept, RowsKept, FromQueue
<1>3. pc[s] = "replace" => FromQueue(rep[s])' = FromQueue(rep[s])
  BY <1>1 DEF OthersKept, RowsKept, FromQueue
<1>4. /\ ComputedPCs \subseteq HoldingPCs /\ OwningPCs \subseteq HoldingPCs
      /\ {"retire_queued", "done"} \subseteq OwningPCs
  BY DEF ComputedPCs, HoldingPCs, OwningPCs
<1> QED
  BY <1>2, <1>3, <1>4 DEF QueuedInv, QueueRole, OthersKept

(* A statement that inserts no row.  *)
LEMMA NoInsert ==
  ASSUME QueuedInv, NEW r \in Requests, OthersKept(r), IInv',
         unprocessed' = unprocessed, processed' = processed, QueueRole(r)'
  PROVE  QueuedInv'
<1>1. Allocated' = Allocated /\ Processed' = Processed
  BY DEF Allocated, Processed
<1>2. OneRowPerQueued' /\ ComputedRows'
  BY <1>1 DEF QueuedInv, OneRowPerQueued, ComputedRows, FromQueue
<1>3. RowsKept
  BY <1>1 DEF RowsKept
<1>4. \A s \in Requests \ {r} : QueueRole(s)'
  BY <1>3, RolesKept
<1> QED
  BY <1>2, <1>4 DEF QueuedInv

(* A statement that inserts a row of table suggestions. *)
LEMMA RowInserted ==
  ASSUME QueuedInv, NEW r \in Requests, OthersKept(r), IInv', HasNewId,
         NEW row \in UnprocessedRow, row.uuid # NoUuid => row.source # "QUEUED_SUGGESTION",
         unprocessed' = [unprocessed EXCEPT ![NewId] = row], processed' = processed,
         QueueRole(r)'
  PROVE  QueuedInv'
<1>1. NewId \in SuggestionIds /\ NewId \notin Allocated
  BY NewIdFresh DEF QueuedInv, IInv
<1>2. Allocated' = Allocated \union {NewId} /\ Processed' = Processed
  BY <1>1, RowAssumption DEF QueuedInv, IInv, TypeOK, Allocated, Processed
<1>3. /\ unprocessed'[NewId] = row
      /\ \A i \in Allocated : unprocessed'[i] = unprocessed[i]
  BY <1>1 DEF QueuedInv, IInv, TypeOK, Allocated
<1>4. RowsKept
  BY <1>2, <1>3 DEF RowsKept
<1>5. OneRowPerQueued'
  BY <1>2 DEF QueuedInv, OneRowPerQueued
<1>6. ComputedRows'
  BY <1>2, <1>3 DEF QueuedInv, ComputedRows, FromQueue
<1>7. \A s \in Requests \ {r} : QueueRole(s)'
  BY <1>4, RolesKept
<1> QED
  BY <1>5, <1>6, <1>7 DEF QueuedInv

(* A statement that inserts the processed row of sid[r]. *)
LEMMA RowProcessed ==
  ASSUME QueuedInv, NEW r \in Requests, OthersKept(r), IInv',
         sid[r] \in Allocated, sid[r] \notin Processed,
         NEW row \in ProcessedRow, row.queued = NoQueued \/ ~IsClaimed(row.queued),
         processed' = [processed EXCEPT ![sid[r]] = row], unprocessed' = unprocessed,
         QueueRole(r)'
  PROVE  QueuedInv'
<1>1. Processed' = Processed \union {sid[r]} /\ Allocated' = Allocated
  BY RowAssumption DEF QueuedInv, IInv, TypeOK, Allocated, Processed
<1>2. /\ processed'[sid[r]] = row
      /\ \A i \in Processed : processed'[i] = processed[i]
  BY DEF QueuedInv, IInv, TypeOK, Allocated, Processed
<1>3. \A i \in Processed : processed[i].queued = row.queued => row.queued = NoQueued
  BY DEF IsClaimed, ClaimedIds
<1>4. OneRowPerQueued'
  BY <1>1, <1>2, <1>3 DEF QueuedInv, OneRowPerQueued
<1>5. ComputedRows' /\ RowsKept
  BY <1>1 DEF QueuedInv, ComputedRows, FromQueue, RowsKept
<1>6. \A s \in Requests \ {r} : pc[s] \in OwningPCs =>
        processed'[sid[s]].queued = processed[sid[s]].queued
  BY <1>2 DEF QueuedInv, IInv, HoldsRow
<1>7. \A s \in Requests \ {r} : QueueRole(s)'
  BY <1>5, <1>6, RolesKept
<1> QED
  BY <1>4, <1>5, <1>7 DEF QueuedInv

---------------------------------------------------------------------------
(* The statements of the queue. *)
LEMMA QueueStatements ==
  ASSUME QueuedInv, IInv', NEW r \in Requests,
         \/ Start(r) \/ ReadClaimed(r) \/ FindNext(r)
         \/ CreateUnprocessed(r) \/ ProcessQueued(r) \/ RetireQueued(r)
  PROVE  QueuedInv'
<1> USE DEF Goto, tables
<1>1. CASE Start(r) \/ ReadClaimed(r) \/ FindNext(r)
  <2>1. /\ OthersKept(r) /\ UNCHANGED <<unprocessed, processed>>
        /\ pc'[r] \in {"read_claimed", "find_next", "create_unprocessed", "fetch_args"}
    BY <1>1 DEF Start, ReadClaimed, FindNext, OthersKept, QueuedInv, IInv, TypeOK
  <2>2. QueueRole(r)'
    BY <2>1 DEF QueueRole, ComputedPCs
  <2> QED
    BY <2>1, <2>2, NoInsert
<1>2. CASE CreateUnprocessed(r)
  <2>1. queued[r] \in QueuedIds
    BY <1>2 DEF CreateUnprocessed, QueuedInv, IInv, HoldsRow
  <2>2. PICK row \in UnprocessedRow :
          row.uuid = NoUuid /\ unprocessed' = [unprocessed EXCEPT ![NewId] = row]
    <3> DEFINE new == Fresh(QueuedAssignment[queued[r]], "QUEUED_SUGGESTION")
    <3>1. new \in UnprocessedRow /\ new.uuid = NoUuid
      BY <2>1, FreshTyped, QueuedAssumption DEF Sources
    <3> QED
      BY <1>2, <3>1 DEF CreateUnprocessed
  <2>3. QueueRole(r)' /\ OthersKept(r)
    BY <1>2 DEF CreateUnprocessed, OthersKept, QueuedInv, IInv, TypeOK, QueueRole, ComputedPCs
  <2> QED
    BY <1>2, <2>2, <2>3, RowInserted DEF CreateUnprocessed
<1>3. CASE ProcessQueued(r)
  <2>0. /\ pc[r] = "process_queued" /\ queued[r] \in QueuedIds
        /\ sid[r] \in Allocated /\ sid[r] \notin Processed /\ sid[r] \in SuggestionIds
    BY <1>3 DEF ProcessQueued, QueuedInv, IInv, HoldsRow, HoldingPCs, PrivateRows, Private, Allocated
  <2>1. OthersKept(r)
    BY <1>3 DEF ProcessQueued, OthersKept, QueuedInv, IInv, TypeOK
  <2>2. CASE ~IsClaimed(queued[r])
    <3> DEFINE row == [queued |-> queued[r], deleted |-> FALSE]
    <3>1. row \in ProcessedRow /\ row.queued = queued[r]
      BY <2>0 DEF ProcessedRow
    <3>2. processed' = [processed EXCEPT ![sid[r]] = row] /\ sid' = sid /\ queued' = queued
      BY <1>3, <2>2 DEF ProcessQueued
    <3>3. processed'[sid[r]] = row /\ pc'[r] = "retire_queued"
      BY <1>3, <2>0, <2>2, <3>2 DEF ProcessQueued, QueuedInv, IInv, TypeOK
    <3>4. QueueRole(r)'
      BY <2>0, <3>1, <3>2, <3>3, NullAssumption DEF QueueRole, ComputedPCs
    <3> QED
      BY <1>3, <2>0, <2>1, <2>2, <3>1, <3>2, <3>4, RowProcessed DEF ProcessQueued
  <2>3. CASE IsClaimed(queued[r])
    BY <1>3, <2>1, <2>3, NoInsert DEF ProcessQueued, QueuedInv, IInv, TypeOK, QueueRole, ComputedPCs
  <2> QED
    BY <2>2, <2>3
<1>4. CASE RetireQueued(r)
  <2>1. OthersKept(r) /\ pc'[r] = "done" /\ UNCHANGED <<unprocessed, processed, sid, queued>>
    BY <1>4 DEF RetireQueued, OthersKept, QueuedInv, IInv, TypeOK
  <2>2. QueueRole(r)'
    BY <1>4, <2>1 DEF RetireQueued, QueuedInv, QueueRole, ComputedPCs
  <2> QED
    BY <2>1, <2>2, NoInsert
<1> QED
  BY <1>1, <1>2, <1>3, <1>4
(* The statements of next_suggestion that insert a row.  A uuid is never   *)
(* the uuid of a row of the queue, so a duplicate did not come from it.    *)
LEMMA InsertUnprocessedQueued ==
  ASSUME QueuedInv, IInv', NEW r \in Requests, InsertUnprocessed(r)
  PROVE  QueuedInv'
<1>0. /\ pc[r] = "insert" /\ cand[r] \in UnprocessedRow /\ cand[r].source # "QUEUED_SUGGESTION"
      /\ pc'[r] = "process" /\ OthersKept(r) /\ processed' = processed /\ cand' = cand
  BY DEF InsertUnprocessed, Goto, OthersKept, QueuedInv, IInv, TypeOK, HoldsRow, QueueRole
<1>1. CASE /\ HasNewId
           /\ unprocessed' = [unprocessed EXCEPT ![NewId] = cand[r]]
           /\ sid' = [sid EXCEPT ![r] = NewId]
  <2>1. NewId \in SuggestionIds /\ sid'[r] = NewId
    BY <1>1, NewIdFresh DEF QueuedInv, IInv, TypeOK
  <2>2. unprocessed'[NewId] = cand[r]
    BY <1>1, <2>1 DEF QueuedInv, IInv, TypeOK
  <2>3. QueueRole(r)'
    BY <1>0, <2>1, <2>2 DEF QueueRole, ComputedPCs, OwningPCs, FromQueue
  <2> QED
    BY <1>0, <1>1, <2>3, RowInserted
<1>2. CASE \E i \in Allocated : /\ unprocessed[i].uuid = cand[r].uuid /\ cand[r].uuid # NoUuid
                                /\ sid' = [sid EXCEPT ![r] = i]
                                /\ unprocessed' = unprocessed
  <2>1. PICK i \in Allocated : ~FromQueue(i) /\ sid' = [sid EXCEPT ![r] = i]
    BY <1>2 DEF QueuedInv, ComputedRows
  <2>2. unprocessed' = unprocessed /\ sid'[r] = i
    BY <1>2, <2>1 DEF QueuedInv, IInv, TypeOK
  <2>3. QueueRole(r)'
    BY <1>0, <2>1, <2>2 DEF QueueRole, ComputedPCs, OwningPCs, FromQueue
  <2> QED
    BY <1>0, <2>2, <2>3, NoInsert
<1> QED
  BY <1>1, <1>2 DEF InsertUnprocessed

LEMMA RandomQueued ==
  ASSUME QueuedInv, IInv', NEW r \in Requests, Fallback(r) \/ InsertReplacement(r)
  PROVE  QueuedInv'
<1>1. HasNewId /\ OthersKept(r) /\ processed' = processed
  BY DEF Fallback, InsertReplacement, Goto, OthersKept, QueuedInv, IInv, TypeOK
<1>2. NewId \in SuggestionIds /\ NewId \notin Allocated
  BY <1>1, NewIdFresh DEF QueuedInv, IInv
<1>3. PICK row \in UnprocessedRow :
        /\ row.uuid = NoUuid /\ row.source # "QUEUED_SUGGESTION"
        /\ unprocessed' = [unprocessed EXCEPT ![NewId] = row]
  <2>1. PICK a \in Assignments,
             source \in {"HIGH_CONTENTION_RANDOM", "FALLBACK_RANDOM", "CONFLICT_REPLACEMENT_RANDOM"} :
          unprocessed' = [unprocessed EXCEPT ![NewId] = Fresh(a, source)]
    BY DEF Fallback, InsertReplacement
  <2>2. /\ Fresh(a, source) \in UnprocessedRow /\ Fresh(a, source).uuid = NoUuid
        /\ Fresh(a, source).source = source
    BY FreshTyped DEF Sources
  <2> QED
    BY <2>1, <2>2
<1>4. /\ unprocessed'[NewId] = row
      /\ \A i \in Allocated : unprocessed'[i] = unprocessed[i]
  BY <1>2, <1>3 DEF QueuedInv, IInv, TypeOK, Allocated
<1>5. CASE Fallback(r)
  <2>1. pc'[r] = "process_fallback" /\ sid'[r] = NewId
    BY <1>5 DEF Fallback, Goto, QueuedInv, IInv, TypeOK
  <2>2. QueueRole(r)'
    BY <1>3, <1>4, <2>1 DEF QueueRole, ComputedPCs, OwningPCs, FromQueue
  <2> QED
    BY <1>1, <1>3, <2>2, RowInserted
<1>6. CASE InsertReplacement(r)
  <2>1. /\ pc[r] = "insert_replacement" /\ pc'[r] = "replace" /\ sid' = sid /\ rep'[r] = NewId
        /\ sid[r] \in Allocated
    BY <1>6 DEF InsertReplacement, Goto, QueuedInv, IInv, TypeOK, HoldsRow, HoldingPCs, OwningPCs
  <2>2. QueueRole(r)'
    BY <1>1, <1>3, <1>4, <2>1 DEF QueuedInv, QueueRole, ComputedPCs, OwningPCs, FromQueue
  <2> QED
    BY <1>1, <1>3, <2>2, RowInserted
<1> QED
  BY <1>5, <1>6
LEMMA ProcessedQueued ==
  ASSUME QueuedInv, IInv', NEW r \in Requests, ProcessSuggestion(r) \/ ProcessFallback(r)
  PROVE  QueuedInv'
<1> DEFINE row == [queued |-> NoQueued, deleted |-> FALSE]
<1>1. /\ OthersKept(r) /\ UNCHANGED <<unprocessed, sid>>
      /\ pc[r] \in {"process", "process_fallback"} /\ sid[r] \in Allocated
      /\ pc'[r] \in {"remove_from_available", "find_matching", "drop"}
  BY DEF ProcessSuggestion, ProcessFallback, Goto, OthersKept, QueuedInv, IInv, TypeOK, HoldsRow, HoldingPCs
<1>2. CASE processed' = processed /\ pc'[r] = "drop"
  <2>1. QueueRole(r)'
    BY <1>1, <1>2 DEF QueuedInv, QueueRole, ComputedPCs, OwningPCs, FromQueue
  <2> QED
    BY <1>1, <1>2, <2>1, NoInsert
<1>3. CASE sid[r] \notin Processed /\ processed' = [processed EXCEPT ![sid[r]] = row]
  <2>1. row \in ProcessedRow /\ row.queued = NoQueued
    BY DEF ProcessedRow
  <2>2. processed'[sid[r]] = row
    BY <1>1, <1>3 DEF QueuedInv, IInv, TypeOK, Allocated
  <2>3. QueueRole(r)'
    BY <1>1, <2>1, <2>2 DEF QueuedInv, QueueRole, ComputedPCs, FromQueue
  <2> QED
    BY <1>1, <1>3, <2>1, <2>3, RowProcessed
<1>4. pc'[r] = "drop" \/ sid[r] \notin Processed
  BY DEF ProcessSuggestion, ProcessFallback, HasProcessedRow, Goto, QueuedInv, IInv, TypeOK, PrivateRows, Private
<1> QED
  BY <1>2, <1>3, <1>4 DEF ProcessSuggestion, ProcessFallback, HasProcessedRow, Goto, QueuedInv, IInv, TypeOK

(* The new primary key names a row that was computed, and the moved row of *)
(* suggestions_processed keeps its queued_id, which no other row has.      *)
LEMMA ReplaceQueued ==
  ASSUME QueuedInv, IInv', NEW r \in Requests, ReplaceUnprocessed(r)
  PROVE  QueuedInv'
<1>0. /\ pc[r] = "replace" /\ OthersKept(r) /\ unprocessed' = unprocessed
      /\ sid[r] \in Processed /\ rep[r] \in Allocated \ Processed
      /\ rep[r] \in SuggestionIds /\ sid[r] \in SuggestionIds
  BY DEF ReplaceUnprocessed, Goto, OthersKept, QueuedInv, IInv, TypeOK, HoldsRow, PrivateRows,
         Private, OwningPCs, Allocated, Processed
<1>1. CASE sid[r] \notin observed
  <2>1. pc'[r] = "done" /\ sid'[r] = rep[r]
    BY <1>1 DEF ReplaceUnprocessed, Goto, QueuedInv, IInv, TypeOK
  <2>2. QueueRole(r)'
    BY <1>0, <2>1 DEF QueuedInv, QueueRole, ComputedPCs, FromQueue
  <2>3. /\ processed'[rep[r]] = processed[sid[r]]
        /\ \A i \in SuggestionIds \ {sid[r], rep[r]} : processed'[i] = processed[i]
        /\ processed'[sid[r]] = NoRow
    BY <1>0, <1>1 DEF ReplaceUnprocessed, QueuedInv, IInv, TypeOK
  <2>4. Processed' = (Processed \ {sid[r]}) \union {rep[r]} /\ Allocated' = Allocated
    BY <1>0, <2>3 DEF Processed, Allocated
  <2>5. \A i \in Processed' :
          \E j \in Processed : /\ processed'[i] = processed[j]
                               /\ IF i = rep[r] THEN j = sid[r] ELSE j = i /\ j # sid[r]
    BY <1>0, <2>3, <2>4 DEF Processed
  <2>6. OneRowPerQueued'
    BY <2>5 DEF QueuedInv, OneRowPerQueued
  <2>7. ComputedRows' /\ RowsKept
    BY <1>0, <2>4 DEF QueuedInv, ComputedRows, FromQueue, RowsKept
  <2>8. \A s \in Requests \ {r} : pc[s] \in OwningPCs =>
          processed'[sid[s]].queued = processed[sid[s]].queued
    <3>1. \A s \in Requests \ {r} : pc[s] \in OwningPCs =>
            sid[s] \in Processed /\ sid[s] # sid[r]
      BY <1>0 DEF QueuedInv, IInv, HoldsRow, DistinctOwners, OwningPCs
    <3> QED
      BY <1>0, <2>3, <3>1 DEF Processed
  <2>9. \A s \in Requests \ {r} : QueueRole(s)'
    BY <1>0, <2>7, <2>8, RolesKept
  <2> QED
    BY <2>2, <2>6, <2>7, <2>9 DEF QueuedInv
<1>2. CASE sid[r] \in observed
  <2>1. pc'[r] = "integrity_error" /\ processed' = processed
    BY <1>2 DEF ReplaceUnprocessed, Goto, QueuedInv, IInv, TypeOK
  <2>2. QueueRole(r)'
    BY <2>1 DEF QueueRole, ComputedPCs
  <2> QED
    BY <1>0, <2>1, <2>2, NoInsert
<1> QED
  BY <1>1, <1>2

---------------------------------------------------------------------------
(* The statements of next_suggestion that insert no row. *)
LEMMA QuietQueued ==
  ASSUME QueuedInv, IInv', NEW r \in Requests,
         \/ FetchArgs(r) \/ Pick(r) \/ ShouldIgnore(r) \/ RemoveFromAvailable(r)
         \/ DropAlreadyProcessed(r) \/ TolerateException(r) \/ FindMatching(r) \/ Crash(r)
  PROVE  QueuedInv'
<1> USE DEF Goto, tables
<1>1. CASE FetchArgs(r) \/ TolerateException(r) \/ Crash(r) \/ DropAlreadyProcessed(r)
  <2>1. /\ OthersKept(r) /\ UNCHANGED <<unprocessed, processed>>
        /\ pc'[r] \in {"pick", "fallback", "crashed", "fetch_args"}
    BY <1>1 DEF FetchArgs, TolerateException, Crash, DropAlreadyProcessed, NextAttempt, OthersKept,
                QueuedInv, IInv, TypeOK
  <2>2. QueueRole(r)'
    BY <2>1 DEF QueueRole, ComputedPCs
  <2> QED
    BY <2>1, <2>2, NoInsert
<1>2. CASE ShouldIgnore(r)
  <2>1. /\ OthersKept(r) /\ UNCHANGED <<unprocessed, processed, cand>>
        /\ pc[r] = "should_ignore" /\ pc'[r] \in {"fetch_args", "insert"}
    BY <1>2 DEF ShouldIgnore, NextAttempt, OthersKept, QueuedInv, IInv, TypeOK
  <2>2. QueueRole(r)'
    BY <2>1 DEF QueuedInv, QueueRole, ComputedPCs
  <2> QED
    BY <2>1, <2>2, NoInsert
<1>3. CASE RemoveFromAvailable(r) \/ FindMatching(r)
  <2>1. /\ OthersKept(r) /\ UNCHANGED <<unprocessed, processed, sid, rep, queued>>
        /\ pc[r] \in {"remove_from_available", "find_matching"}
        /\ pc'[r] \in {"find_matching", "done", "insert_replacement"}
    BY <1>3 DEF RemoveFromAvailable, FindMatching, OthersKept, QueuedInv, IInv, TypeOK
  <2>2. QueueRole(r)'
    BY <2>1 DEF QueuedInv, QueueRole, ComputedPCs, OwningPCs, FromQueue
  <2> QED
    BY <2>1, <2>2, NoInsert
<1>4. CASE Pick(r)
  <2>1. UNCHANGED <<unprocessed, processed, sid, rep, queued>>
    BY <1>4 DEF Pick
  <2>2. \/ pc' = [pc EXCEPT ![r] = "fallback"] /\ cand' = cand
        \/ /\ pc' = [pc EXCEPT ![r] = "should_ignore"]
           /\ \E c : c.source # "QUEUED_SUGGESTION" /\ cand' = [cand EXCEPT ![r] = c]
    <3>1. \A a : /\ Fresh(a, "LATIN_HYPERCUBE").source # "QUEUED_SUGGESTION"
                 /\ Fresh(a, "PADDING_RANDOM").source # "QUEUED_SUGGESTION"
      BY DEF Fresh
    <3>2. \A u : [uuid |-> u, asg |-> PoolAssignment[u], source |-> "SPE"].source # "QUEUED_SUGGESTION"
      OBVIOUS
    <3> QED
      BY <1>4, <3>1, <3>2 DEF Pick
  <2>3. OthersKept(r) /\ QueueRole(r)'
    BY <2>1, <2>2 DEF OthersKept, QueuedInv, IInv, TypeOK, QueueRole, ComputedPCs
  <2> QED
    BY <2>1, <2>3, NoInsert
<1> QED
  BY <1>1, <1>2, <1>3, <1>4
(* Deleting a suggestion keeps its queued_id. *)
LEMMA EnvironmentQueued ==
  ASSUME QueuedInv, IInv', User \/ \E u \in Uuids : Truncate(u)
  PROVE  QueuedInv'
<1>1. UNCHANGED <<unprocessed, locals>>
  BY DEF User, Observe, DeleteSuggestion, DeleteQueued, Truncate
<1>2. /\ Processed' = Processed
      /\ \A i \in Processed : processed'[i].queued = processed[i].queued
  BY EnvironmentKeepsRows DEF QueuedInv
<1>3. OneRowPerQueued'
  BY <1>2 DEF QueuedInv, OneRowPerQueued
<1>4. ComputedRows'
  BY <1>1 DEF QueuedInv, ComputedRows, FromQueue, Allocated
<1>5. ASSUME NEW r \in Requests PROVE QueueRole(r)'
  <2>1. pc[r] \in OwningPCs => sid[r] \in Processed
    BY DEF QueuedInv, IInv, HoldsRow
  <2> QED
    BY <1>1, <1>2, <2>1 DEF QueuedInv, QueueRole, ComputedPCs, OwningPCs, FromQueue, locals
<1> QED
  BY <1>3, <1>4, <1>5 DEF QueuedInv

LEMMA NextQueued == QueuedInv /\ [Next]_vars => QueuedInv'
<1> SUFFICES ASSUME QueuedInv, [Next]_vars PROVE QueuedInv'
  OBVIOUS
<1>0. IInv'
  BY NextInv DEF QueuedInv
<1>1. CASE UNCHANGED vars
  BY <1>0, <1>1 DEF vars, QueuedInv, OneRowPerQueued, ComputedRows, QueueRole, ComputedPCs, FromQueue,
                    Processed, Allocated
<1>2. ASSUME NEW r \in Requests, Serve(r) \/ Crash(r) PROVE QueuedInv'
  BY <1>0, <1>2, QueueStatements, InsertUnprocessedQueued, RandomQueued, ProcessedQueued,
     ReplaceQueued, QuietQueued
  DEF Serve
<1> QED
  BY <1>0, <1>1, <1>2, EnvironmentQueued DEF Next

---------------------------------------------------------------------------
(* A suggestion the user queued is returned by at most one call of         *)
(* serve_suggestion: its row of suggestions_processed is unique, two       *)
(* answers have different rows, and an answer from the queue has the row   *)
(* of the queued suggestion its call had found.                            *)
THEOREM QueuedSuggestionServedOnce == Spec => []QueuedServedOnce
<1>1. QueuedInv => QueuedServedOnce
  <2> SUFFICES ASSUME QueuedInv, NEW r1 \in Requests, NEW r2 \in Requests, r1 # r2,
                      AnsweredFromQueue(r1), AnsweredFromQueue(r2)
               PROVE  queued[r1] # queued[r2]
    BY DEF QueuedServedOnce
  <2>1. sid[r1] # sid[r2] /\ sid[r1] \in Processed /\ sid[r2] \in Processed
    BY DEF AnsweredFromQueue, QueuedInv, IInv, DistinctOwners, HoldsRow, OwningPCs
  <2>2. /\ processed[sid[r1]].queued = queued[r1] /\ queued[r1] # NoQueued
        /\ processed[sid[r2]].queued = queued[r2]
    BY DEF AnsweredFromQueue, QueuedInv, QueueRole, FromQueue
  <2> QED
    BY <2>1, <2>2 DEF QueuedInv, OneRowPerQueued
<1> QED
  BY <1>1, QueuedInit, NextQueued, PTL DEF Spec
---------------------------------------------------------------------------
(* The refinement of SuggestionLedger.  Inserting a processed row spends a *)
(* ticket, changing its primary key exchanges the ticket, and the last     *)
(* statement of a call gives it away; every other statement stutters.      *)

Spent == {Ticket(i) : i \in Processed}
Answers == [r \in Requests |-> Answer(r)]
LedgerStep == [Ledger!Next]_<<Spent, Answers>>

(* Every processed row has a ticket of its own. *)
LEMMA TicketsDiffer ==
  ASSUME QueuedInv
  PROVE  /\ \A i \in Processed : Ticket(i) \in SuggestionIds \union QueuedIds
         /\ \A i, j \in Processed : Ticket(i) = Ticket(j) => i = j
<1>1. \A i \in Processed : i \in SuggestionIds /\ processed[i].queued \in QueuedIds \union {NoQueued}
  BY DEF QueuedInv, IInv, TypeOK, Processed, ProcessedRow
<1> QED
  BY <1>1, TicketAssumption DEF QueuedInv, OneRowPerQueued, Ticket

(* The queued_ids of the rows decide the tickets. *)
LEMMA TicketsKept ==
  ASSUME Processed' = Processed,
         \A i \in Processed : processed'[i].queued = processed[i].queued
  PROVE  Spent' = Spent /\ \A i \in Processed : Ticket(i)' = Ticket(i)
<1>1. \A i \in Processed : Ticket(i)' = Ticket(i)
  BY DEF Ticket
<1> QED
  BY <1>1 DEF Spent

(* What a call answers depends on its label and on its row. *)
LEMMA OthersAnswer ==
  ASSUME QueuedInv, NEW r \in Requests, OthersKept(r),
         \A s \in Requests \ {r} : pc[s] \in OwningPCs =>
           processed'[sid[s]].queued = processed[sid[s]].queued
  PROVE  \A s \in Requests \ {r} : Answer(s)' = Answer(s)
<1> TAKE s \in Requests \ {r}
<1>1. pc'[s] = pc[s] /\ sid'[s] = sid[s]
  BY DEF OthersKept
<1>2. pc[s] = "done" => processed'[sid[s]].queued = processed[sid[s]].queued
  BY DEF OwningPCs
<1>3. pc[s] = "done" => Ticket(sid[s])' = Ticket(sid[s])
  BY <1>1, <1>2 DEF Ticket
<1> QED
  BY <1>1, <1>3 DEF Answer, Terminal

(* A ticket that is given away is an answer, and answers differ. *)
LEMMA NotHandedOut ==
  ASSUME QueuedInv, NEW r \in Requests, pc[r] \in OwningPCs \ {"done"}
  PROVE  Ticket(sid[r]) \in Spent \ Ledger!HandedOut
<1>1. sid[r] \in Processed
  BY DEF QueuedInv, IInv, HoldsRow
<1>2. Ticket(sid[r]) \notin {"waiting", "refused"}
  BY <1>1, TicketsDiffer, TicketAssumption
<1>3. ASSUME NEW s \in Requests PROVE Answer(s) # Ticket(sid[r])
  <2>1. CASE pc[s] = "done"
    <3>1. sid[s] \in Processed /\ sid[s] # sid[r]
      BY <2>1 DEF QueuedInv, IInv, HoldsRow, DistinctOwners, OwningPCs
    <3> QED
      BY <1>1, <2>1, <3>1, TicketsDiffer DEF Answer
  <2>2. CASE pc[s] # "done"
    BY <1>2, <2>2 DEF Answer, Terminal
  <2> QED
    BY <2>1, <2>2
<1> QED
  BY <1>1, <1>3 DEF Spent, Ledger!HandedOut, Answers

(* Statements of r that insert or move no processed row: the ledger        *)
(* stutters, refuses r, or gives the ticket of the row to r.               *)
LEMMA KeepingStep ==
  ASSUME QueuedInv, NEW r \in Requests, OthersKept(r), processed' = processed,
         pc[r] \notin Terminal,
         pc'[r] = "done" => pc[r] \in OwningPCs /\ sid'[r] = sid[r]
  PROVE  LedgerStep
<1>1. /\ Spent' = Spent
      /\ \A i \in Processed : Ticket(i)' = Ticket(i)
      /\ \A s \in Requests \ {r} : Answer(s)' = Answer(s)
  BY TicketsKept, OthersAnswer DEF Processed
<1>2. Answer(r) = "waiting"
  BY DEF Answer, Terminal
<1>3. CASE pc'[r] \notin Terminal
  <2>1. Answer(r)' = "waiting"
    BY <1>3 DEF Answer, Terminal
  <2> QED
    BY <1>1, <1>2, <2>1 DEF LedgerStep, Answers
<1>4. CASE pc'[r] \in Terminal \ {"done"}
  <2>1. Answer(r)' = "refused"
    BY <1>4 DEF Answer
  <2>2. Ledger!Refuse(r)
    BY <1>1, <1>2, <2>1 DEF Ledger!Refuse, Answers, Spent
  <2> QED
    BY <2>2 DEF LedgerStep, Ledger!Next
<1>5. CASE pc'[r] = "done"
  <2>1. sid[r] \in Processed /\ pc[r] \in OwningPCs \ {"done"}
    BY <1>5 DEF QueuedInv, IInv, HoldsRow, Terminal
  <2>2. Answer(r)' = Ticket(sid[r])
    <3>1. Ticket(sid[r])' = Ticket(sid[r])
      BY <1>5 DEF Ticket
    <3> QED
      BY <1>5, <3>1 DEF Answer
  <2>3. Ledger!Give(r, Ticket(sid[r]))
    BY <1>1, <1>2, <2>1, <2>2, NotHandedOut DEF Ledger!Give, Answers, Spent
  <2>4. Ticket(sid[r]) \in SuggestionIds \union QueuedIds
    BY <2>1, TicketsDiffer
  <2> QED
    BY <2>3, <2>4 DEF LedgerStep, Ledger!Next
<1> QED
  BY <1>3, <1>4, <1>5

(* Statements that insert the processed row of sid[r]. *)
LEMMA SpendingStep ==
  ASSUME QueuedInv, NEW r \in Requests, OthersKept(r),
         sid[r] \in Allocated, sid[r] \notin Processed,
         NEW row \in ProcessedRow, row.queued = NoQueued \/ ~IsClaimed(row.queued),
         processed' = [processed EXCEPT ![sid[r]] = row],
         pc[r] \notin Terminal, pc'[r] \notin Terminal
  PROVE  LedgerStep
<1> DEFINE t == IF row.queued # NoQueued THEN row.queued ELSE sid[r]
<1>1. /\ Processed' = Processed \union {sid[r]}
      /\ processed'[sid[r]] = row
      /\ \A i \in Processed : processed'[i] = processed[i]
  BY RowAssumption DEF QueuedInv, IInv, TypeOK, Processed, Allocated
<1>2. /\ \A i \in Processed : Ticket(i)' = Ticket(i)
      /\ \A i : i = sid[r] => Ticket(i)' = t
  BY <1>1 DEF Ticket
<1>3. Spent' = Spent \union {t}
  BY <1>1, <1>2 DEF Spent
<1>4. t \in SuggestionIds \union QueuedIds
  BY DEF ProcessedRow, Allocated
<1>5. t \notin Spent
  <2>1. \A i \in Processed : i \in SuggestionIds /\ processed[i].queued \in QueuedIds \union {NoQueued}
    BY DEF QueuedInv, IInv, TypeOK, Processed, ProcessedRow
  <2>2. row.queued \in QueuedIds \union {NoQueued} /\ sid[r] \in SuggestionIds
    BY DEF ProcessedRow, Allocated
  <2>3. \A i \in Processed : row.queued # NoQueued => processed[i].queued # row.queued
    BY DEF IsClaimed, ClaimedIds
  <2> QED
    BY <2>1, <2>2, <2>3, TicketAssumption DEF Spent, Ticket
<1>6. \A s \in Requests : Answer(s)' = Answer(s)
  <2>1. \A s \in Requests \ {r} : pc[s] \in OwningPCs =>
          processed'[sid[s]].queued = processed[sid[s]].queued
    BY <1>1 DEF QueuedInv, IInv, HoldsRow
  <2>2. Answer(r)' = Answer(r)
    BY DEF Answer, Terminal
  <2> QED
    BY <2>1, <2>2, OthersAnswer
<1>7. Ledger!Spend(t)
  BY <1>3, <1>5, <1>6 DEF Ledger!Spend, Spent, Answers
<1> HIDE DEF t
<1> QED
  BY <1>4, <1>7 DEF LedgerStep, Ledger!Next

(* A replaced suggestion was computed, so that its ticket is its id, which *)
(* the call exchanges for the id of the replacement.                       *)
LEMMA ReplacingStep ==
  ASSUME QueuedInv, NEW r \in Requests, ReplaceUnprocessed(r), sid[r] \notin observed
  PROVE  LedgerStep
<1>1. /\ pc[r] = "replace" /\ OthersKept(r)
      /\ sid[r] \in Processed /\ sid[r] \in SuggestionIds /\ sid[r] # rep[r]
      /\ rep[r] \in SuggestionIds /\ rep[r] \notin Processed
      /\ processed[sid[r]].queued = NoQueued
  BY DEF ReplaceUnprocessed, Goto, OthersKept, QueuedInv, IInv, TypeOK, HoldsRow, PrivateRows,
         Private, QueueRole, ComputedPCs, OwningPCs, Allocated, Processed
<1>2. /\ processed'[rep[r]] = processed[sid[r]] /\ processed'[sid[r]] = NoRow
      /\ \A i \in SuggestionIds \ {sid[r], rep[r]} : processed'[i] = processed[i]
      /\ sid'[r] = rep[r] /\ pc'[r] = "done"
  BY <1>1 DEF ReplaceUnprocessed, Goto, QueuedInv, IInv, TypeOK
<1>3. Processed' = (Processed \ {sid[r]}) \union {rep[r]}
  BY <1>1, <1>2 DEF Processed
<1>4. /\ Ticket(sid[r]) = sid[r]
      /\ \A i : i = rep[r] => Ticket(i)' = rep[r]
      /\ \A i \in Processed \ {sid[r]} : Ticket(i)' = Ticket(i)
  BY <1>1, <1>2 DEF Ticket, Processed
<1>5. Spent' = (Spent \ {sid[r]}) \union {rep[r]}
  BY <1>1, <1>3, <1>4, TicketsDiffer DEF Spent
<1>6. sid[r] \in Spent \ Ledger!HandedOut
  BY <1>1, <1>4, NotHandedOut DEF OwningPCs
<1>7. rep[r] \notin Spent
  <2>1. \A i \in Processed : i \in SuggestionIds /\ processed[i].queued \in QueuedIds \union {NoQueued}
    BY DEF QueuedInv, IInv, TypeOK, Processed, ProcessedRow
  <2> QED
    BY <1>1, <2>1, TicketAssumption DEF Spent, Ticket
<1>8. \A s \in Requests : Answer(s) # rep[r]
  <2>1. \A s \in Requests : pc[s] = "done" => sid[s] \in Processed
    BY DEF QueuedInv, IInv, HoldsRow, OwningPCs
  <2>2. \A s \in Requests : pc[s] = "done" => Ticket(sid[s]) # rep[r]
    BY <1>7, <2>1 DEF Spent
  <2>3. rep[r] \notin {"waiting", "refused"}
    BY <1>1, TicketAssumption
  <2> QED
    BY <2>2, <2>3 DEF Answer, Terminal
<1>9. \A s \in Requests \ {r} : Answer(s)' = Answer(s)
  <2>1. \A s \in Requests \ {r} : pc[s] \in OwningPCs =>
          sid[s] \in Processed /\ sid[s] # sid[r]
    BY <1>1 DEF QueuedInv, IInv, HoldsRow, DistinctOwners, OwningPCs
  <2>2. \A s \in Requests \ {r} : pc[s] \in OwningPCs =>
          processed'[sid[s]].queued = processed[sid[s]].queued
    BY <1>1, <1>2, <2>1 DEF Processed
  <2> QED
    BY <1>1, <2>2, OthersAnswer
<1>10. Answer(r) = "waiting" /\ Answer(r)' = rep[r]
  <2>1. Ticket(sid[r])' = rep[r]
    BY <1>2, <1>4 DEF Ticket
  <2> QED
    BY <1>1, <1>2, <2>1 DEF Answer, Terminal
<1>11. Ledger!GiveInstead(r, sid[r], rep[r])
  BY <1>5, <1>6, <1>7, <1>8, <1>9, <1>10 DEF Ledger!GiveInstead, Ledger!HandedOut, Spent, Answers
<1> QED
  BY <1>1, <1>11 DEF LedgerStep, Ledger!Next

LEMMA EnvironmentStep ==
  ASSUME QueuedInv, User \/ \E u \in Uuids : Truncate(u)
  PROVE  LedgerStep
<1>1. UNCHANGED locals
  BY DEF User, Observe, DeleteSuggestion, DeleteQueued, Truncate
<1>2. /\ Processed' = Processed
      /\ \A i \in Processed : processed'[i].queued = processed[i].queued
  BY EnvironmentKeepsRows DEF QueuedInv
<1>3. Spent' = Spent /\ \A i \in Processed : Ticket(i)' = Ticket(i)
  BY <1>2, TicketsKept
<1>4. ASSUME NEW s \in Requests PROVE Answer(s)' = Answer(s)
  <2>1. pc'[s] = pc[s] /\ sid'[s] = sid[s]
    BY <1>1 DEF locals
  <2>2. pc[s] = "done" => sid[s] \in Processed
    BY DEF QueuedInv, IInv, HoldsRow, OwningPCs
  <2>3. pc[s] = "done" => Ticket(sid[s])' = Ticket(sid[s])
    BY <1>2, <2>1, <2>2 DEF Ticket
  <2> QED
    BY <2>1, <2>3 DEF Answer, Terminal
<1> QED
  BY <1>3, <1>4 DEF LedgerStep, Answers

LEMMA RequestStep ==
  ASSUME QueuedInv, NEW r \in Requests, Serve(r) \/ Crash(r)
  PROVE  LedgerStep
<1> USE DEF Goto, tables
<1>1. pc[r] \notin Terminal /\ OthersKept(r)
  BY CallStep DEF QueuedInv
<1>2. CASE ProcessQueued(r)
  <2>1. /\ pc[r] = "process_queued" /\ queued[r] \in QueuedIds
        /\ sid[r] \in Allocated /\ sid[r] \notin Processed
    BY <1>2 DEF ProcessQueued, QueuedInv, IInv, HoldsRow, HoldingPCs, PrivateRows, Private
  <2>2. CASE ~IsClaimed(queued[r])
    <3> DEFINE row == [queued |-> queued[r], deleted |-> FALSE]
    <3>1. row \in ProcessedRow /\ ~IsClaimed(row.queued)
      BY <2>1, <2>2 DEF ProcessedRow
    <3>2. pc'[r] = "retire_queued" /\ processed' = [processed EXCEPT ![sid[r]] = row]
      BY <1>2, <2>2 DEF ProcessQueued, QueuedInv, IInv, TypeOK
    <3> HIDE DEF row
    <3> QED
      BY <1>1, <2>1, <3>1, <3>2, SpendingStep DEF Terminal
  <2>3. CASE IsClaimed(queued[r])
    <3>1. processed' = processed /\ pc'[r] \in {"read_claimed", "could_not_process"}
      BY <1>2, <2>3 DEF ProcessQueued, QueuedInv, IInv, TypeOK
    <3> QED
      BY <1>1, <3>1, KeepingStep
  <2> QED
    BY <2>2, <2>3
<1>3. CASE ProcessSuggestion(r) \/ ProcessFallback(r)
  <2> DEFINE row == [queued |-> NoQueued, deleted |-> FALSE]
  <2>1. /\ row \in ProcessedRow /\ row.queued = NoQueued
        /\ sid[r] \in Allocated
        /\ pc'[r] \in {"remove_from_available", "find_matching", "drop"}
    BY <1>3 DEF ProcessSuggestion, ProcessFallback, ProcessedRow, QueuedInv, IInv, TypeOK, HoldsRow, HoldingPCs
  <2>2. \/ processed' = processed
        \/ sid[r] \notin Processed /\ processed' = [processed EXCEPT ![sid[r]] = row]
    BY <1>3 DEF ProcessSuggestion, ProcessFallback, HasProcessedRow, QueuedInv, IInv, PrivateRows, Private
  <2> HIDE DEF row
  <2> QED
    BY <1>1, <2>1, <2>2, KeepingStep, SpendingStep DEF Terminal
<1>4. CASE ReplaceUnprocessed(r)
  <2>1. CASE sid[r] \in observed
    <3>1. processed' = processed /\ pc'[r] = "integrity_error"
      BY <1>4, <2>1 DEF ReplaceUnprocessed, QueuedInv, IInv, TypeOK
    <3> QED
      BY <1>1, <3>1, KeepingStep
  <2> QED
    BY <1>4, <2>1, ReplacingStep
<1>5. CASE RetireQueued(r) \/ FindMatching(r)
  <2>1. processed' = processed /\ sid' = sid /\ pc[r] \in OwningPCs
    BY <1>5 DEF RetireQueued, FindMatching, OwningPCs
  <2> QED
    BY <1>1, <2>1, KeepingStep
<1>6. CASE \/ Start(r) \/ ReadClaimed(r) \/ FindNext(r) \/ CreateUnprocessed(r) \/ FetchArgs(r)
           \/ Pick(r) \/ ShouldIgnore(r) \/ InsertUnprocessed(r) \/ RemoveFromAvailable(r)
           \/ DropAlreadyProcessed(r) \/ TolerateException(r) \/ Fallback(r) \/ InsertReplacement(r)
           \/ Crash(r)
  <2>1. processed' = processed /\ pc'[r] # "done"
    BY <1>6 DEF Start, ReadClaimed, FindNext, CreateUnprocessed, FetchArgs, Pick, ShouldIgnore,
                InsertUnprocessed, RemoveFromAvailable, DropAlreadyProcessed, TolerateException,
                Fallback, InsertReplacement, Crash, NextAttempt, QueuedInv, IInv, TypeOK
  <2> QED
    BY <1>1, <2>1, KeepingStep
<1> QED
  BY <1>2, <1>3, <1>4, <1>5, <1>6 DEF Serve

(* Calls of serve_suggestion, whatever their interleaving, crashes and     *)
(* errors, implement the ledger: each ticket, a queued suggestion or an    *)
(* id, is the answer of at most one call, for ever.                        *)
THEOREM ServingImplementsLedger == Spec => ImplementsLedger
<1>1. Init => Ledger!Init
  BY DEF Init, Ledger!Init, Processed, Answer, Terminal
<1>2. QueuedInv /\ [Next]_vars => LedgerStep
  <2> SUFFICES ASSUME QueuedInv, [Next]_vars PROVE LedgerStep
    OBVIOUS
  <2>1. CASE UNCHANGED vars
    <3>1. UNCHANGED <<Spent, Answers>>
      BY <2>1 DEF vars, Spent, Answers, Answer, Ticket, Processed
    <3> QED
      BY <3>1 DEF LedgerStep
  <2> QED
    BY <2>1, RequestStep, EnvironmentStep DEF Next
<1>3. LedgerStep => [Ledger!Next]_<<{Ticket(i) : i \in Processed}, [r \in Requests |-> Answer(r)]>>
  BY DEF LedgerStep, Spent, Answers
<1> QED
  BY <1>1, <1>2, <1>3, QueuedInit, NextQueued, PTL DEF Spec, Ledger!Spec, ImplementsLedger

---------------------------------------------------------------------------
(* Giving up.  A call loses a queued suggestion only to a row that was not *)
(* there when it read the claimed ids, so that each fetch it loses is one  *)
(* more claimed queued suggestion.                                         *)
Contention(r) ==
  /\ Cardinality(ClaimedIds) >= fetches[r]
  /\ pc[r] = "find_next" => claimed[r] \subseteq ClaimedIds /\ Cardinality(claimed[r]) >= fetches[r]
  /\ pc[r] \in {"create_unprocessed", "process_queued"} =>
       Cardinality(ClaimedIds \ {queued[r]}) >= fetches[r]
  /\ pc[r] = "could_not_process" => fetches[r] >= MaxQueuedSuggestionFetches

ContentionInv ==
  /\ QueuedInv
  /\ IsFiniteSet(ClaimedIds)
  /\ \A r \in Requests : Contention(r)

LEMMA ContentionInit == Init => ContentionInv
<1> SUFFICES ASSUME Init PROVE ContentionInv
  OBVIOUS
<1>1. ClaimedIds = {}
  BY DEF Init, ClaimedIds, Processed
<1>2. \A r \in Requests : Contention(r)
  BY <1>1, FS_EmptySet DEF Init, Contention
<1> QED
  BY <1>1, <1>2, QueuedInit, FS_EmptySet DEF ContentionInv

(* A step claims at most one queued suggestion, and releases none. *)
LEMMA ClaimsGrow ==
  ASSUME QueuedInv, Next
  PROVE  ClaimedIds' = ClaimedIds \/ \E q : ClaimedIds' = ClaimedIds \union {q}
<1>0. IInv
  BY DEF QueuedInv
<1>1. CASE User \/ \E u \in Uuids : Truncate(u)
  BY <1>0, <1>1, EnvironmentKeepsRows DEF ClaimedIds
<1>2. CASE processed' = processed
  BY <1>2 DEF ClaimedIds, Processed
<1>3. ASSUME NEW i, Processed' = Processed \union {i}, \A j \in Processed : processed'[j] = processed[j]
      PROVE  ClaimedIds' = ClaimedIds \/ ClaimedIds' = ClaimedIds \union {processed'[i].queued}
  BY <1>3 DEF ClaimedIds
<1>4. ASSUME NEW i \in Processed, NEW j, j \notin Processed,
             Processed' = (Processed \ {i}) \union {j}, processed'[j] = processed[i],
             \A k \in Processed \ {i} : processed'[k] = processed[k]
      PROVE  ClaimedIds' = ClaimedIds
  BY <1>4 DEF ClaimedIds
<1>5. ASSUME NEW r \in Requests, Serve(r) \/ Crash(r)
      PROVE  ClaimedIds' = ClaimedIds \/ \E q : ClaimedIds' = ClaimedIds \union {q}
  <2>1. ASSUME Processed' = Processed \union {sid[r]}, \A j \in Processed : processed'[j] = processed[j]
        PROVE  ClaimedIds' = ClaimedIds \/ \E q : ClaimedIds' = ClaimedIds \union {q}
    BY <1>3, <2>1
  <2>2. ASSUME sid[r] \in Processed, rep[r] \notin Processed,
               Processed' = (Processed \ {sid[r]}) \union {rep[r]}, processed'[rep[r]] = processed[sid[r]],
               \A k \in Processed \ {sid[r]} : processed'[k] = processed[k]
        PROVE  ClaimedIds' = ClaimedIds
    BY <1>4, <2>2
  <2> QED
    BY <1>0, <1>2, <1>5, <2>1, <2>2, ProcessedChanges
<1> QED
  BY <1>1, <1>5 DEF Next

(* More claimed ids leave a call that does not move in its role. *)
LEMMA OthersContend ==
  ASSUME NEW r \in Requests, Contention(r), TypeOK,
         IsFiniteSet(ClaimedIds'), ClaimedIds \subseteq ClaimedIds',
         pc'[r] = pc[r], fetches'[r] = fetches[r], claimed'[r] = claimed[r], queued'[r] = queued[r]
  PROVE  Contention(r)'
<1>1. /\ fetches[r] \in Nat
      /\ IsFiniteSet(ClaimedIds) /\ IsFiniteSet(ClaimedIds \ {queued[r]})
      /\ IsFiniteSet(ClaimedIds' \ {queued[r]})
  BY FS_Subset DEF TypeOK
<1>2. /\ Cardinality(ClaimedIds) \in Nat /\ Cardinality(ClaimedIds') \in Nat
      /\ Cardinality(ClaimedIds) <= Cardinality(ClaimedIds')
  BY <1>1, FS_CardinalityType, FS_Subset
<1>3. /\ Cardinality(ClaimedIds \ {queued[r]}) \in Nat /\ Cardinality(ClaimedIds' \ {queued[r]}) \in Nat
      /\ Cardinality(ClaimedIds \ {queued[r]}) <= Cardinality(ClaimedIds' \ {queued[r]})
  <2>1. ClaimedIds \ {queued[r]} \in SUBSET (ClaimedIds' \ {queued[r]})
    OBVIOUS
  <2> QED
    BY <1>1, <2>1, FS_CardinalityType, FS_Subset
<1> QED
  BY <1>1, <1>2, <1>3 DEF Contention

(* What the statements of a call do to its own role. *)
LEMMA OwnContention ==
  ASSUME ContentionInv, NEW r \in Requests, Serve(r) \/ Crash(r),
         IsFiniteSet(ClaimedIds'), ClaimedIds \subseteq ClaimedIds'
  PROVE  Contention(r)'
<1> USE DEF Goto
<1>0. /\ TypeOK /\ IsFiniteSet(ClaimedIds) /\ Contention(r)
      /\ fetches[r] \in Nat
      /\ Cardinality(ClaimedIds) \in Nat /\ Cardinality(ClaimedIds') \in Nat
      /\ Cardinality(ClaimedIds) <= Cardinality(ClaimedIds')
  BY FS_CardinalityType, FS_Subset DEF ContentionInv, QueuedInv, IInv, TypeOK
<1>1. CASE ReadClaimed(r)
  <2>1. pc'[r] = "find_next" /\ claimed'[r] = ClaimedIds /\ fetches' = fetches
    BY <1>0, <1>1 DEF ReadClaimed, TypeOK
  <2>2. ClaimedIds \subseteq ClaimedIds'
    OBVIOUS
  <2> QED
    BY <1>0, <2>1, <2>2 DEF Contention
<1>2. CASE FindNext(r)
  <2>1. /\ pc[r] = "find_next" /\ ClaimedIds' = ClaimedIds /\ fetches' = fetches
        /\ \/ pc'[r] = "create_unprocessed" /\ queued'[r] \notin claimed[r]
           \/ pc'[r] = "fetch_args"
    BY <1>0, <1>2 DEF FindNext, Unclaimed, TypeOK, tables, ClaimedIds, Processed
  <2>2. ASSUME queued'[r] \notin claimed[r] PROVE Cardinality(ClaimedIds \ {queued'[r]}) >= fetches[r]
    <3> DEFINE rest == ClaimedIds \ {queued'[r]}
    <3>1. claimed[r] \in SUBSET rest /\ Cardinality(claimed[r]) >= fetches[r]
      BY <1>0, <2>1, <2>2 DEF Contention
    <3>2. IsFiniteSet(rest)
      BY <1>0, FS_Subset
    <3>3. IsFiniteSet(claimed[r]) /\ Cardinality(claimed[r]) <= Cardinality(rest)
      BY <3>1, <3>2, FS_Subset
    <3>4. Cardinality(rest) \in Nat /\ Cardinality(claimed[r]) \in Nat
      BY <3>2, <3>3, FS_CardinalityType
    <3> HIDE DEF rest
    <3>5. Cardinality(rest) >= fetches[r]
      BY <1>0, <3>1, <3>3, <3>4
    <3> QED
      BY <3>5 DEF rest
  <2> QED
    BY <1>0, <2>1, <2>2 DEF Contention
<1>3. CASE CreateUnprocessed(r)
  <2>1. /\ pc[r] = "create_unprocessed" /\ pc'[r] = "process_queued" /\ ClaimedIds' = ClaimedIds
        /\ fetches' = fetches /\ queued' = queued
    BY <1>0, <1>3 DEF CreateUnprocessed, TypeOK, ClaimedIds, Processed
  <2> QED
    BY <1>0, <2>1 DEF Contention
<1>4. CASE ProcessQueued(r)
  <2>1. CASE ~IsClaimed(queued[r])
    <3>1. pc'[r] = "retire_queued" /\ fetches' = fetches
      BY <1>0, <1>4, <2>1 DEF ProcessQueued, TypeOK
    <3> QED
      BY <1>0, <3>1 DEF Contention
  <2>2. CASE IsClaimed(queued[r])
    <3>1. /\ pc[r] = "process_queued" /\ ClaimedIds' = ClaimedIds /\ fetches'[r] = fetches[r] + 1
          /\ pc'[r] = IF fetches[r] + 1 < MaxQueuedSuggestionFetches THEN "read_claimed" ELSE "could_not_process"
      BY <1>0, <1>4, <2>2 DEF ProcessQueued, TypeOK, ClaimedIds, Processed
    <3>2. Cardinality(ClaimedIds \ {queued[r]}) = Cardinality(ClaimedIds) - 1
      BY <1>0, <2>2, FS_RemoveElement DEF IsClaimed
    <3>3. Cardinality(ClaimedIds) >= fetches[r] + 1
      BY <1>0, <3>1, <3>2 DEF Contention
    <3> QED
      BY <1>0, <3>1, <3>3, BoundAssumption DEF Contention
  <2> QED
    BY <2>1, <2>2
<1>5. CASE ~(ReadClaimed(r) \/ FindNext(r) \/ CreateUnprocessed(r) \/ ProcessQueued(r))
  <2>1. /\ fetches' = fetches
        /\ pc'[r] \notin {"find_next", "create_unprocessed", "process_queued", "could_not_process"}
    BY <1>0, <1>5 DEF Serve, Start, RetireQueued, FetchArgs, Pick, ShouldIgnore, InsertUnprocessed,
         ProcessSuggestion, RemoveFromAvailable, DropAlreadyProcessed, TolerateException, Fallback,
         ProcessFallback, FindMatching, InsertReplacement, ReplaceUnprocessed, Crash, NextAttempt, TypeOK
  <2> QED
    BY <1>0, <2>1 DEF Contention
<1> QED
  BY <1>1, <1>2, <1>3, <1>4, <1>5

LEMMA ContentionNext == ContentionInv /\ [Next]_vars => ContentionInv'
<1> SUFFICES ASSUME ContentionInv, [Next]_vars PROVE ContentionInv'
  OBVIOUS
<1>0. QueuedInv'
  BY NextQueued DEF ContentionInv
<1>1. IsFiniteSet(ClaimedIds') /\ ClaimedIds \subseteq ClaimedIds'
  <2>1. CASE UNCHANGED vars
    BY <2>1 DEF ContentionInv, vars, ClaimedIds, Processed
  <2>2. CASE Next
    BY <2>2, ClaimsGrow, FS_AddElement DEF ContentionInv
  <2> QED
    BY <2>1, <2>2
<1>2. ASSUME NEW r \in Requests, UNCHANGED <<pc, fetches, claimed, queued>> PROVE Contention(r)'
  BY <1>1, <1>2, OthersContend DEF ContentionInv, QueuedInv, IInv
<1>3. CASE UNCHANGED vars \/ User \/ \E u \in Uuids : Truncate(u)
  <2>1. UNCHANGED <<pc, fetches, claimed, queued>>
    BY <1>3 DEF vars, User, Observe, DeleteSuggestion, DeleteQueued, Truncate, locals
  <2> QED
    BY <1>0, <1>1, <1>2, <2>1 DEF ContentionInv
<1>4. ASSUME NEW r \in Requests, Serve(r) \/ Crash(r) PROVE ContentionInv'
  <2>1. ASSUME NEW s \in Requests \ {r}
        PROVE  pc'[s] = pc[s] /\ fetches'[s] = fetches[s] /\ claimed'[s] = claimed[s] /\ queued'[s] = queued[s]
    BY <1>4 DEF Serve, Start, ReadClaimed, FindNext, CreateUnprocessed, ProcessQueued, RetireQueued,
         FetchArgs, Pick, ShouldIgnore, InsertUnprocessed, ProcessSuggestion, RemoveFromAvailable,
         DropAlreadyProcessed, TolerateException, Fallback, ProcessFallback, FindMatching,
         InsertReplacement, ReplaceUnprocessed, Crash, NextAttempt, Goto, ContentionInv, QueuedInv, IInv, TypeOK
  <2>2. \A s \in Requests \ {r} : Contention(s)'
    BY <1>1, <2>1, OthersContend DEF ContentionInv, QueuedInv, IInv
  <2>3. Contention(r)'
    BY <1>1, <1>4, OwnContention
  <2> QED
    BY <1>0, <1>1, <2>2, <2>3 DEF ContentionInv
<1> QED
  BY <1>3, <1>4 DEF Next

(* A call answers "could not process" only when as many queued suggestions *)
(* as it tried have been claimed: with fewer of them, the loop of          *)
(* retrieve_queued_suggestions_if_exists never gives up.                   *)
THEOREM GivesUpUnderContention == Spec => []GivingUpMeansContention
<1>1. ContentionInv => GivingUpMeansContention
  <2> SUFFICES ASSUME ContentionInv, NEW r \in Requests, pc[r] = "could_not_process"
               PROVE  Cardinality(ClaimedIds) >= MaxQueuedSuggestionFetches
    BY DEF GivingUpMeansContention
  <2>1. Cardinality(ClaimedIds) \in Nat /\ fetches[r] \in Nat
    BY FS_CardinalityType DEF ContentionInv, QueuedInv, IInv, TypeOK
  <2>2. Cardinality(ClaimedIds) >= fetches[r] /\ fetches[r] >= MaxQueuedSuggestionFetches
    BY DEF ContentionInv, Contention
  <2> QED
    BY <2>1, <2>2, BoundAssumption
<1> QED
  BY <1>1, ContentionInit, ContentionNext, PTL DEF Spec
==============================================================================
