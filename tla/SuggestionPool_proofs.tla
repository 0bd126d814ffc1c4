------------------------- MODULE SuggestionPool_proofs -------------------------
(***************************************************************************)
(* Proofs about SuggestionPool, for any number of calls, requests and      *)
(* failures, any clocks and any sizes.                                     *)
(***************************************************************************)
EXTENDS SuggestionPool, FiniteSetTheorems, TLAPS

(* Every step keeps the types. *)
LEMMA TypeStep == TypeOK /\ [Next]_vars => TypeOK'
<1> SUFFICES ASSUME TypeOK, [Next]_vars PROVE TypeOK'
  OBVIOUS
<1> USE BatchAssumption, SizeAssumption DEF TypeOK, StorePCs, storeVars, consumerVars
<1>1. ASSUME NEW s \in Stores, NEW label \in StorePCs, Advance(s, label)
      PROVE  pc' \in [Stores -> StorePCs] /\ repeats' \in 0..MaxRepeats
  BY <1>1 DEF Advance
<1>2. ASSUME NEW us PROVE Without(us) \in [Suggestions -> Times \union {NoTime}]
  BY DEF Without
<1>3. ASSUME NEW s \in Stores, Begin(s) PROVE TypeOK'
  BY <1>3 DEF Begin
<1>4. ASSUME NEW s \in Stores, SetHashFields(s) PROVE TypeOK'
  BY <1>1, <1>4 DEF SetHashFields
<1>5. ASSUME NEW s \in Stores, AddSortedSetNew(s) PROVE TypeOK'
  <2>1. stamp' \in [Suggestions -> Times \union {NoTime}]
    BY <1>5 DEF AddSortedSetNew
  <2>2. everAt' \in [Suggestions -> Times \union {NoTime}]
    BY <1>5 DEF AddSortedSetNew
  <2> QED BY <1>1, <1>5, <2>1, <2>2 DEF AddSortedSetNew
<1>6. ASSUME NEW s \in Stores, GetSortedSetRange(s) PROVE TypeOK'
  <2>1. ToDrop(s) \subseteq Suggestions
    BY DEF ToDrop, Oldest, In
  <2> QED BY <1>1, <1>6, <2>1 DEF GetSortedSetRange
<1>7. ASSUME NEW s \in Stores, DropFromHash(s) PROVE TypeOK'
  BY <1>1, <1>7 DEF DropFromHash
<1>8. ASSUME NEW s \in Stores, DropFromSortedSet(s) PROVE TypeOK'
  BY <1>1, <1>2, <1>8 DEF DropFromSortedSet
<1>9. ASSUME NEW s \in Stores, StoreStops(s) PROVE TypeOK'
  BY <1>9 DEF StoreStops
<1>10. ASSUME NEW c \in Consumers, Choose(c) PROVE TypeOK'
  BY <1>10 DEF Choose
<1>11. ASSUME NEW c \in Consumers, RemoveFromHash(c) PROVE TypeOK'
  BY <1>11 DEF RemoveFromHash
<1>12. ASSUME NEW c \in Consumers, RemoveFromSortedSet(c) PROVE TypeOK'
  BY <1>2, <1>12 DEF RemoveFromSortedSet
<1>13. ASSUME NEW c \in Consumers, ConsumerStops(c) PROVE TypeOK'
  BY <1>13 DEF ConsumerStops
<1>14. CASE UNCHANGED vars
  BY <1>14 DEF vars
<1> QED
  BY <1>3, <1>4, <1>5, <1>6, <1>7, <1>8, <1>9, <1>10, <1>11, <1>12, <1>13, <1>14 DEF Next

LEMMA InitType == Init => TypeOK
BY SizeAssumption DEF Init, TypeOK, StorePCs

(* The two keys and everybody who works on them keep their types, whatever *)
(* fails: in particular only uuids of the hash are ever to be dropped.     *)
THEOREM TypeCorrect == Spec => []TypeOK
BY InitType, TypeStep, PTL DEF Spec

---------------------------------------------------------------------------
(* Truncation. *)

(* A call that has begun has a timestamp. *)
BegunIsTimed == \A s \in Stores : pc[s] # "begin" => time[s] \in Times

(* A score in the sorted set is the one its uuid got first; before its     *)
(* call comes to ZADD, a uuid has none.                                    *)
ScoresAreFirst ==
  /\ \A u \in Suggestions : stamp[u] # NoTime => stamp[u] = everAt[u]
  /\ \A s \in Stores : \A u \in Batch[s] :
       /\ everAt[u] \in {NoTime, time[s]}
       /\ pc[s] \in {"begin", "hset"} => everAt[u] = NoTime
       /\ everAt[u] = NoTime => pc[s] \in {"begin", "hset", "zadd", "stopped"}

(* What a call is to drop was in the sorted set, with enough newer ones.   *)
DropsOld ==
  \A t \in Stores : \A u \in drop[t] :
    everAt[u] # NoTime /\ Cardinality(NewerThan(u, everAt)) >= NumToKeep(t)

(* A suggestion that is gone was served, or truncation has taken it.       *)
GoneIsDropped ==
  \A s \in Stores : \A u \in Batch[s] :
    pc[s] \notin {"begin", "hset", "stopped"} =>
      \/ u \in hash \union consumed
      \/ \E t \in Stores : u \in drop[t] /\ pc[t] \in {"hdel", "zrem", "done", "stopped"}

TruncationInv == TypeOK /\ BegunIsTimed /\ ScoresAreFirst /\ DropsOld /\ GoneIsDropped

(* The uuids that were ever newer only become more. *)
LEMMA NewerGrows ==
  ASSUME NEW u \in Suggestions, NEW before, NEW after, before[u] # NoTime,
         \A v \in Suggestions : before[v] # NoTime => after[v] = before[v]
  PROVE  Cardinality(NewerThan(u, before)) <= Cardinality(NewerThan(u, after))
<1>1. NewerThan(u, before) \subseteq NewerThan(u, after)
  BY DEF NewerThan, In
<1>2. IsFiniteSet(NewerThan(u, after))
  <2>1. NewerThan(u, after) \subseteq Suggestions
    BY DEF NewerThan, In
  <2> QED BY <2>1, SuggestionAssumption, FS_Subset
<1> QED BY <1>1, <1>2, FS_Subset

(* Counting newer uuids gives a number. *)
LEMMA NewerCount ==
  ASSUME NEW u, NEW scores
  PROVE  Cardinality(NewerThan(u, scores)) \in Nat
<1>1. NewerThan(u, scores) \subseteq Suggestions
  BY DEF NewerThan, In
<1> QED BY <1>1, SuggestionAssumption, FS_Subset, FS_CardinalityType

LEMMA KeepType ==
  ASSUME NEW s \in Stores
  PROVE  NumToKeep(s) \in Nat
<1>1. Cardinality(Batch[s]) \in Nat
  <2>1. Batch[s] \subseteq Suggestions
    BY BatchAssumption
  <2> QED BY <2>1, SuggestionAssumption, FS_Subset, FS_CardinalityType
<1>2. MaxOf(Cardinality(Batch[s]), GenerationSize) \in Nat /\ MaxOf(BacklogMultiplier, 1) \in Nat
  BY <1>1, SizeAssumption DEF MaxOf
<1> QED BY <1>2 DEF NumToKeep

LEMMA TruncationStep == TruncationInv /\ [Next]_vars => TruncationInv'
<1> SUFFICES ASSUME TruncationInv, [Next]_vars PROVE TruncationInv'
  OBVIOUS
<1>t. TypeOK /\ TypeOK'
  BY TypeStep DEF TruncationInv
<1> USE <1>t, BatchAssumption, TimeAssumption DEF TruncationInv, storeVars, consumerVars
(* The steps that leave the scores, the timestamps and drop alone *)
<1>1. ASSUME UNCHANGED <<everAt, drop>> PROVE DropsOld'
  BY <1>1 DEF DropsOld, NewerThan, In
<1>2. ASSUME NEW us, stamp' = Without(us), UNCHANGED <<everAt, time>>,
             \A s \in Stores : pc'[s] = pc[s] \/ (pc[s] = "zrem" /\ pc'[s] = "done")
      PROVE  BegunIsTimed' /\ ScoresAreFirst'
  BY <1>2 DEF BegunIsTimed, ScoresAreFirst, Without
<1>3. ASSUME NEW s \in Stores, Begin(s) PROVE TruncationInv'
  <2>1. BegunIsTimed' /\ ScoresAreFirst' /\ GoneIsDropped'
    BY <1>3 DEF Begin, TypeOK, StorePCs, BegunIsTimed, ScoresAreFirst, GoneIsDropped
  <2>2. DropsOld'
    BY <1>1, <1>3 DEF Begin
  <2> QED BY <2>1, <2>2
<1>4. ASSUME NEW s \in Stores, SetHashFields(s) PROVE TruncationInv'
  <2>1. BegunIsTimed' /\ ScoresAreFirst' /\ GoneIsDropped'
    BY <1>4 DEF SetHashFields, Advance, TypeOK, StorePCs, BegunIsTimed, ScoresAreFirst, GoneIsDropped
  <2>2. DropsOld'
    BY <1>1, <1>4 DEF SetHashFields
  <2> QED BY <2>1, <2>2
<1>5. ASSUME NEW s \in Stores, AddSortedSetNew(s) PROVE TruncationInv'
  <2>1. time[s] # NoTime
    BY <1>5 DEF AddSortedSetNew, BegunIsTimed
  <2>2. \A u \in Suggestions : everAt[u] # NoTime => everAt'[u] = everAt[u]
    BY <1>5 DEF AddSortedSetNew, TypeOK, ScoresAreFirst
  <2>3. BegunIsTimed'
    BY <1>5 DEF AddSortedSetNew, Advance, TypeOK, BegunIsTimed
  <2>4. ScoresAreFirst'
    BY <1>5, <2>1 DEF AddSortedSetNew, Advance, TypeOK, StorePCs, ScoresAreFirst
  <2>5. DropsOld'
    <3> SUFFICES ASSUME NEW t \in Stores, NEW u \in drop[t]
                 PROVE  everAt'[u] # NoTime /\ Cardinality(NewerThan(u, everAt')) >= NumToKeep(t)
      BY <1>5 DEF AddSortedSetNew, DropsOld
    <3>1. u \in Suggestions /\ everAt[u] # NoTime
          /\ Cardinality(NewerThan(u, everAt)) >= NumToKeep(t)
      BY DEF TypeOK, DropsOld
    <3>2. Cardinality(NewerThan(u, everAt)) <= Cardinality(NewerThan(u, everAt'))
      BY <2>2, <3>1, NewerGrows
    <3> HIDE DEF NewerThan, NumToKeep
    <3> QED BY <2>2, <3>1, <3>2, NewerCount, KeepType
  <2>6. GoneIsDropped'
    BY <1>5 DEF AddSortedSetNew, Advance, TypeOK, GoneIsDropped
  <2> QED BY <2>3, <2>4, <2>5, <2>6
<1>6. ASSUME NEW s \in Stores, GetSortedSetRange(s) PROVE TruncationInv'
  <2>1. BegunIsTimed' /\ ScoresAreFirst'
    BY <1>6 DEF GetSortedSetRange, Advance, TypeOK, BegunIsTimed, ScoresAreFirst
  <2>2. GoneIsDropped'
    BY <1>6 DEF GetSortedSetRange, Advance, TypeOK, GoneIsDropped
  <2>3. DropsOld'
    <3> SUFFICES ASSUME NEW t \in Stores, NEW u \in drop'[t]
                 PROVE  everAt[u] # NoTime /\ Cardinality(NewerThan(u, everAt)) >= NumToKeep(t)
      BY <1>6 DEF GetSortedSetRange, DropsOld
    <3>1. CASE t # s
      BY <1>6, <3>1 DEF GetSortedSetRange, TypeOK, DropsOld
    <3>2. CASE t = s
      <4>1. u \in Suggestions /\ stamp[u] # NoTime
            /\ Cardinality(NewerThan(u, stamp)) >= NumToKeep(s)
        BY <1>6, <3>2 DEF GetSortedSetRange, TypeOK, ToDrop, Oldest, In
      <4>2. Cardinality(NewerThan(u, stamp)) <= Cardinality(NewerThan(u, everAt))
        BY <4>1, NewerGrows DEF ScoresAreFirst
      <4>3. everAt[u] # NoTime
        BY <4>1 DEF ScoresAreFirst
      <4> QED BY <3>2, <4>1, <4>2, <4>3, NewerCount, KeepType
    <3> QED BY <3>1, <3>2
  <2> QED BY <2>1, <2>2, <2>3
<1>7. ASSUME NEW s \in Stores, DropFromHash(s) PROVE TruncationInv'
  <2>1. BegunIsTimed' /\ ScoresAreFirst' /\ GoneIsDropped'
    BY <1>7 DEF DropFromHash, Advance, TypeOK, BegunIsTimed, ScoresAreFirst, GoneIsDropped
  <2>2. DropsOld'
    BY <1>1, <1>7 DEF DropFromHash
  <2> QED BY <2>1, <2>2
<1>8. ASSUME NEW s \in Stores, DropFromSortedSet(s) PROVE TruncationInv'
  <2>1. BegunIsTimed' /\ ScoresAreFirst'
    BY <1>2, <1>8 DEF DropFromSortedSet, ToUndate, Advance, TypeOK
  <2>2. GoneIsDropped'
    BY <1>8 DEF DropFromSortedSet, Advance, TypeOK, GoneIsDropped
  <2>3. DropsOld'
    BY <1>1, <1>8 DEF DropFromSortedSet
  <2> QED BY <2>1, <2>2, <2>3
<1>9. ASSUME NEW s \in Stores, StoreStops(s) PROVE TruncationInv'
  <2>1. BegunIsTimed' /\ ScoresAreFirst' /\ GoneIsDropped'
    BY <1>9 DEF StoreStops, TypeOK, BegunIsTimed, ScoresAreFirst, GoneIsDropped
  <2>2. DropsOld'
    BY <1>1, <1>9 DEF StoreStops
  <2> QED BY <2>1, <2>2
<1>10. ASSUME NEW c \in Consumers, Choose(c) \/ RemoveFromHash(c) \/ ConsumerStops(c)
       PROVE  TruncationInv'
  <2>1. UNCHANGED <<stamp, pc, time, drop, everAt>>
        /\ hash \union consumed \subseteq hash' \union consumed'
    BY <1>10 DEF Choose, RemoveFromHash, ConsumerStops
  <2>2. BegunIsTimed' /\ ScoresAreFirst' /\ GoneIsDropped'
    BY <2>1 DEF BegunIsTimed, ScoresAreFirst, GoneIsDropped
  <2> QED BY <1>1, <2>1, <2>2
<1>11. ASSUME NEW c \in Consumers, RemoveFromSortedSet(c) PROVE TruncationInv'
  <2>1. BegunIsTimed' /\ ScoresAreFirst'
    BY <1>2, <1>11 DEF RemoveFromSortedSet
  <2>2. GoneIsDropped'
    BY <1>11 DEF RemoveFromSortedSet, GoneIsDropped
  <2>3. DropsOld'
    BY <1>1, <1>11 DEF RemoveFromSortedSet
  <2> QED BY <2>1, <2>2, <2>3
<1>12. CASE UNCHANGED vars
  <2>1. BegunIsTimed' /\ ScoresAreFirst' /\ GoneIsDropped'
    BY <1>12 DEF vars, BegunIsTimed, ScoresAreFirst, GoneIsDropped
  <2>2. DropsOld'
    BY <1>1, <1>12 DEF vars
  <2> QED BY <2>1, <2>2
<1> QED
  BY <1>3, <1>4, <1>5, <1>6, <1>7, <1>8, <1>9, <1>10, <1>11, <1>12 DEF Next

LEMMA TruncationKeeps == TruncationInv => NewestKept
<1> SUFFICES ASSUME TruncationInv, NEW s \in Stores, NEW u \in Batch[s],
                    pc[s] \notin {"begin", "hset", "stopped"}, u \notin hash \union consumed
             PROVE  \E t \in Stores : Cardinality(NewerThan(u, everAt)) >= NumToKeep(t)
  BY DEF NewestKept
<1>1. PICK t \in Stores : u \in drop[t]
  BY DEF TruncationInv, GoneIsDropped
<1> QED BY <1>1 DEF TruncationInv, DropsOld

(* However many workers store and truncate at the same time, and whatever  *)
(* fails, truncation only takes a suggestion once as many newer ones have  *)
(* been stored as one of these calls keeps.                                *)
THEOREM TruncationKeepsNewest == Spec => []NewestKept
<1>1. Init => TruncationInv
  BY InitType, BatchAssumption
  DEF Init, TruncationInv, BegunIsTimed, ScoresAreFirst, DropsOld, GoneIsDropped
<1> QED BY <1>1, TruncationStep, TruncationKeeps, PTL DEF Spec

---------------------------------------------------------------------------
(* Entries without a score. *)

(* Only what a call has put into the hash is there, or was there for a     *)
(* consumer to serve.                                                      *)
StoredByItsCall ==
  \A s \in Stores : \A u \in Batch[s] :
    u \in hash \union consumed \/ (\E c \in Consumers : u \in got[c]) =>
      pc[s] # "begin" /\ (pc[s] = "hset" => s \in repeated)

(* What is about to leave the sorted set has left the hash, unless an HSET *)
(* sent again has put it back behind the back of a consumer.               *)
HashFirst ==
  /\ \A t \in Stores : pc[t] = "zrem" => drop[t] \intersect hash = {}
  /\ \A c \in Consumers, s \in Stores : \A u \in Batch[s] :
       cpc[c] = "zrem" /\ u \in got[c] =>
         u \in consumed /\ (u \in hash => s \in repeated)

(* An entry that had a score and has none *)
LostScore ==
  \A s \in Stores : \A u \in Batch[s] :
    u \in hash /\ stamp[u] = NoTime /\ everAt[u] # NoTime => s \in repeated /\ u \in consumed

UndatedInv == TruncationInv /\ StoredByItsCall /\ HashFirst /\ LostScore

LEMMA UndatedStep == UndatedInv /\ [Next]_vars => UndatedInv'
<1> SUFFICES ASSUME UndatedInv, [Next]_vars PROVE UndatedInv'
  OBVIOUS
<1>t. TruncationInv /\ TruncationInv'
  BY TruncationStep DEF UndatedInv
<1>k. TypeOK /\ TypeOK'
  BY <1>t DEF TruncationInv
<1> USE <1>k, BatchAssumption, TimeAssumption DEF UndatedInv, storeVars, consumerVars
<1>1. ASSUME NEW s \in Stores, Begin(s) PROVE UndatedInv'
  BY <1>1, <1>t DEF Begin, TypeOK, StoredByItsCall, HashFirst, LostScore
<1>2. ASSUME NEW s \in Stores, SetHashFields(s) PROVE UndatedInv'
  <2>1. \A u \in Batch[s] : everAt[u] = NoTime
    BY <1>2, <1>t DEF SetHashFields, TruncationInv, ScoresAreFirst
  <2>2. pc[s] = "hset" /\ pc'[s] \in {"hset", "zadd"} /\ (pc'[s] = "hset" => s \in repeated')
        /\ repeated \subseteq repeated' /\ \A t \in Stores : t # s => pc'[t] = pc[t]
    BY <1>2 DEF SetHashFields, Advance, TypeOK
  <2>3. StoredByItsCall'
    BY <1>2, <2>2 DEF SetHashFields, StoredByItsCall
  <2>4. \A t \in Stores : drop[t] \intersect Batch[s] = {}
    BY <2>1, <1>t DEF TruncationInv, DropsOld
  <2>5. HashFirst'
    <3>1. ASSUME NEW t \in Stores, pc'[t] = "zrem" PROVE drop'[t] \intersect hash' = {}
      BY <1>2, <2>2, <2>4, <3>1 DEF SetHashFields, HashFirst
    <3>2. ASSUME NEW c \in Consumers, NEW t \in Stores, NEW u \in Batch[t],
                 cpc'[c] = "zrem", u \in got'[c]
          PROVE  u \in consumed' /\ (u \in hash' => t \in repeated')
      <4>1. cpc[c] = "zrem" /\ u \in got[c] /\ consumed' = consumed
        BY <1>2, <3>2 DEF SetHashFields
      <4>2. CASE t = s
        BY <2>2, <4>1, <4>2 DEF HashFirst, StoredByItsCall
      <4>3. CASE t # s
        BY <1>2, <2>2, <4>1, <4>3 DEF SetHashFields, HashFirst
      <4> QED BY <4>2, <4>3
    <3> QED BY <3>1, <3>2 DEF HashFirst
  <2>6. LostScore'
    BY <1>2, <2>1, <2>2 DEF SetHashFields, LostScore
  <2> QED BY <1>t, <2>3, <2>5, <2>6
<1>3. ASSUME NEW s \in Stores, AddSortedSetNew(s) PROVE UndatedInv'
  <2>1. time[s] # NoTime
    BY <1>3, <1>t DEF AddSortedSetNew, TruncationInv, BegunIsTimed
  <2>2. StoredByItsCall' /\ HashFirst'
    BY <1>3 DEF AddSortedSetNew, Advance, TypeOK, StoredByItsCall, HashFirst
  <2>3. LostScore'
    BY <1>3, <2>1 DEF AddSortedSetNew, LostScore
  <2> QED BY <1>t, <2>2, <2>3
<1>4. ASSUME NEW s \in Stores, GetSortedSetRange(s) PROVE UndatedInv'
  BY <1>4, <1>t DEF GetSortedSetRange, Advance, TypeOK, StoredByItsCall, HashFirst, LostScore
<1>5. ASSUME NEW s \in Stores, DropFromHash(s) PROVE UndatedInv'
  BY <1>5, <1>t DEF DropFromHash, Advance, TypeOK, StoredByItsCall, HashFirst, LostScore
<1>6. ASSUME NEW s \in Stores, DropFromSortedSet(s) PROVE UndatedInv'
  <2>1. StoredByItsCall' /\ HashFirst'
    BY <1>6 DEF DropFromSortedSet, Advance, TypeOK, StoredByItsCall, HashFirst
  <2>2. LostScore'
    BY <1>6 DEF DropFromSortedSet, ToUndate, Without, HashFirst, LostScore
  <2> QED BY <1>t, <2>1, <2>2
<1>7. ASSUME NEW s \in Stores, StoreStops(s) PROVE UndatedInv'
  BY <1>7, <1>t DEF StoreStops, TypeOK, StoredByItsCall, HashFirst, LostScore
<1>8. ASSUME NEW c \in Consumers, Choose(c) PROVE UndatedInv'
  <2>1. PICK u \in hash : got' = [got EXCEPT ![c] = {u}]
    BY <1>8 DEF Choose
  <2>2. \A d \in Consumers : got'[d] \subseteq got[d] \union hash
    BY <2>1 DEF TypeOK
  <2>3. StoredByItsCall'
    BY <1>8, <2>2 DEF Choose, StoredByItsCall
  <2>4. HashFirst' /\ LostScore'
    BY <1>8 DEF Choose, TypeOK, HashFirst, LostScore
  <2> QED BY <1>t, <2>3, <2>4
<1>9. ASSUME NEW c \in Consumers, RemoveFromHash(c) PROVE UndatedInv'
  <2>1. StoredByItsCall'
    BY <1>9 DEF RemoveFromHash, StoredByItsCall
  <2>2. HashFirst' /\ LostScore'
    BY <1>9 DEF RemoveFromHash, TypeOK, HashFirst, LostScore
  <2> QED BY <1>t, <2>1, <2>2
<1>10. ASSUME NEW c \in Consumers, RemoveFromSortedSet(c) PROVE UndatedInv'
  <2>1. \A d \in Consumers : got'[d] \subseteq got[d]
    BY <1>10 DEF RemoveFromSortedSet, TypeOK
  <2>2. StoredByItsCall'
    BY <1>10, <2>1 DEF RemoveFromSortedSet, StoredByItsCall
  <2>3. HashFirst' /\ LostScore'
    BY <1>10 DEF RemoveFromSortedSet, Without, TypeOK, HashFirst, LostScore
  <2> QED BY <1>t, <2>2, <2>3
<1>11. ASSUME NEW c \in Consumers, ConsumerStops(c) PROVE UndatedInv'
  <2>1. \A d \in Consumers : got'[d] \subseteq got[d]
    BY <1>11 DEF ConsumerStops, TypeOK
  <2>2. StoredByItsCall'
    BY <1>11, <2>1 DEF ConsumerStops, StoredByItsCall
  <2>3. HashFirst' /\ LostScore'
    BY <1>11 DEF ConsumerStops, TypeOK, HashFirst, LostScore
  <2> QED BY <1>t, <2>2, <2>3
<1>12. CASE UNCHANGED vars
  BY <1>12, <1>t DEF vars, StoredByItsCall, HashFirst, LostScore
<1> QED
  BY <1>1, <1>2, <1>3, <1>4, <1>5, <1>6, <1>7, <1>8, <1>9, <1>10, <1>11, <1>12 DEF Next

LEMMA UndatedCause == UndatedInv => UndatedHasCause
BY BatchAssumption DEF UndatedInv, TruncationInv, TypeOK, StorePCs, ScoresAreFirst, StoredByItsCall, LostScore,
   UndatedHasCause

(* Every suggestion that truncation cannot see was left by a call that     *)
(* failed before its ZADD, or put back by an HSET that was sent again.     *)
THEOREM UndatedExplained == Spec => []UndatedHasCause
<1>1. Init => UndatedInv
  <2>1. Init => TruncationInv
    BY InitType, BatchAssumption
    DEF Init, TruncationInv, BegunIsTimed, ScoresAreFirst, DropsOld, GoneIsDropped
  <2> QED BY <2>1 DEF Init, UndatedInv, StoredByItsCall, HashFirst, LostScore
<1> QED BY <1>1, UndatedStep, UndatedCause, PTL DEF Spec

---------------------------------------------------------------------------
(* How many entries truncation leaves. *)

(* Older entries have more newer ones: the order of the sorted set is total. *)
LEMMA NewerNested ==
  ASSUME TypeOK, NEW u \in In(stamp), NEW v \in In(stamp), u # v
  PROVE  Cardinality(NewerThan(u, stamp)) # Cardinality(NewerThan(v, stamp))
<1>1. /\ u \in Nat /\ v \in Nat /\ stamp[u] \in Nat /\ stamp[v] \in Nat
      /\ \A w \in In(stamp) : w \in Nat /\ stamp[w] \in Nat
  BY SuggestionAssumption, TimeAssumption DEF TypeOK, In
<1>2. ASSUME NEW x \in In(stamp), NEW y \in NewerThan(x, stamp)
      PROVE  Cardinality(NewerThan(x, stamp)) # Cardinality(NewerThan(y, stamp))
  <2>1. y \in In(stamp) /\ y \notin NewerThan(y, stamp)
    BY <1>1 DEF NewerThan
  <2>2. NewerThan(y, stamp) \in SUBSET NewerThan(x, stamp)
    <3>1. y \in In(stamp) /\ (stamp[y] > stamp[x] \/ (stamp[y] = stamp[x] /\ y > x))
      BY DEF NewerThan
    <3>2. ASSUME NEW z \in NewerThan(y, stamp) PROVE z \in NewerThan(x, stamp)
      <4>1. z \in In(stamp) /\ (stamp[z] > stamp[y] \/ (stamp[z] = stamp[y] /\ z > y))
        BY <3>2 DEF NewerThan
      <4>2. stamp[z] > stamp[x] \/ (stamp[z] = stamp[x] /\ z > x)
        BY <1>1, <3>1, <4>1
      <4> QED
        BY <4>1, <4>2 DEF NewerThan
    <3> QED
      BY <3>2
  <2>3. NewerThan(x, stamp) \subseteq Suggestions
    BY DEF NewerThan, In
  <2>4. IsFiniteSet(NewerThan(x, stamp))
    BY <2>3, SuggestionAssumption, FS_Subset
  <2> QED
    BY <2>1, <2>2, <2>4, FS_Subset
<1>3. v \in NewerThan(u, stamp) \/ u \in NewerThan(v, stamp)
  BY <1>1 DEF NewerThan
<1> QED
  BY <1>2, <1>3

(* What ZRANGE leaves out is at most what the call keeps. *)
LEMMA OldestLeaves ==
  ASSUME TypeOK, NEW s \in Stores
  PROVE  Cardinality(In(stamp) \ Oldest(s)) <= NumToKeep(s)
<1> DEFINE kept == In(stamp) \ Oldest(s)
           n == NumToKeep(s)
           rank == [u \in kept |-> Cardinality(NewerThan(u, stamp))]
<1>1. n \in Nat
  BY KeepType
<1>2. \A u \in kept : Cardinality(NewerThan(u, stamp)) \in 0..(n - 1)
  <2>1. \A u \in kept : ~(Cardinality(NewerThan(u, stamp)) >= n)
    BY DEF Oldest
  <2>2. \A u \in kept : Cardinality(NewerThan(u, stamp)) \in Nat
    BY NewerCount
  <2> HIDE DEF kept, n
  <2> QED
    BY <1>1, <2>1, <2>2
<1>3. rank \in Injection(kept, 0..(n - 1))
  <2>1. \A u, v \in kept : u # v => rank[u] # rank[v]
    BY NewerNested
  <2> HIDE DEF kept, n
  <2>2. rank \in [kept -> 0..(n - 1)]
    BY <1>2
  <2> QED
    BY <2>1, <2>2 DEF Injection, IsInjective
<1>4. IsFiniteSet(0..(n - 1)) /\ Cardinality(0..(n - 1)) = n
  BY <1>1, FS_Interval
<1> HIDE DEF kept, n, rank
<1>5. Cardinality(kept) <= n
  BY <1>3, <1>4, FS_Injection
<1> QED
  BY <1>5 DEF kept, n

(* From its ZRANGE on, the call that last added is to leave few enough.    *)
LastLeaves ==
  last # NoStore =>
    /\ pc[last] \in {"hdel", "zrem"} => Cardinality(In(stamp) \ drop[last]) <= NumToKeep(last)
    /\ pc[last] = "done" => Cardinality(In(stamp)) <= NumToKeep(last)

LengthInv == TypeOK /\ LastLeaves

(* Fewer entries are few enough, too. *)
LEMMA FewerEntries ==
  ASSUME NEW n \in Nat, NEW T \in SUBSET Suggestions, NEW U \in SUBSET T, Cardinality(T) <= n
  PROVE  Cardinality(U) <= n
<1>1. IsFiniteSet(T)
  BY SuggestionAssumption, FS_Subset
<1>2. Cardinality(U) <= Cardinality(T) /\ IsFiniteSet(U)
  BY <1>1, FS_Subset
<1>3. Cardinality(T) \in Nat /\ Cardinality(U) \in Nat
  BY <1>1, <1>2, FS_CardinalityType
<1> QED
  BY <1>2, <1>3

(* A step after which fewer uuids have a score, and the last call is where *)
(* it was. *)
LEMMA ShrinkingStep ==
  ASSUME LengthInv, In(stamp') \subseteq In(stamp), last' = last,
         last # NoStore => pc'[last] \in {pc[last], "stopped"} /\ drop'[last] = drop[last]
  PROVE  LastLeaves'
<1> SUFFICES ASSUME last # NoStore PROVE LastLeaves'
  BY DEF LastLeaves
<1>1. last \in Stores /\ NumToKeep(last) \in Nat
  BY KeepType DEF LengthInv, TypeOK
<1>2. In(stamp) \in SUBSET Suggestions
  BY DEF In
<1>3. In(stamp') \in SUBSET In(stamp) /\ In(stamp') \ drop[last] \in SUBSET (In(stamp) \ drop[last])
  OBVIOUS
<1>4. pc'[last] \in {"hdel", "zrem"} => Cardinality(In(stamp') \ drop[last]) <= NumToKeep(last)
  BY <1>1, <1>2, <1>3, FewerEntries DEF LengthInv, LastLeaves
<1>5. pc'[last] = "done" => Cardinality(In(stamp')) <= NumToKeep(last)
  BY <1>1, <1>2, <1>3, FewerEntries DEF LengthInv, LastLeaves
<1> QED
  BY <1>4, <1>5 DEF LastLeaves, NumToKeep

LEMMA LengthStep == LengthInv /\ [Next]_vars => LengthInv'
<1> SUFFICES ASSUME LengthInv, [Next]_vars PROVE LastLeaves'
  BY TypeStep DEF LengthInv
<1> USE DEF storeVars, consumerVars
<1>0. TypeOK /\ TypeOK'
  BY TypeStep DEF LengthInv
<1>1. \A us : In(Without(us)) = In(stamp) \ us
  BY DEF In, Without
<1>2. ASSUME NEW s \in Stores, Begin(s) \/ SetHashFields(s) \/ StoreStops(s) PROVE LastLeaves'
  <2>1. UNCHANGED <<stamp, drop, last>>
    BY <1>2 DEF Begin, SetHashFields, StoreStops
  <2>2. last # NoStore => pc'[last] \in {pc[last], "hset", "zadd", "stopped"}
    BY <1>0, <1>2 DEF Begin, SetHashFields, StoreStops, Advance, TypeOK
  <2>3. CASE last # NoStore /\ pc'[last] \in {"hset", "zadd"}
    BY <2>1, <2>3 DEF LastLeaves
  <2> QED
    BY <2>1, <2>2, <2>3, ShrinkingStep DEF LastLeaves
<1>3. ASSUME NEW s \in Stores, AddSortedSetNew(s) PROVE LastLeaves'
  BY <1>0, <1>3 DEF AddSortedSetNew, Advance, TypeOK, LastLeaves
<1>4. ASSUME NEW s \in Stores, GetSortedSetRange(s) PROVE LastLeaves'
  <2>1. CASE last = s
    <3>1. /\ stamp' = stamp /\ last' = s /\ drop'[s] = Oldest(s)
          /\ \/ pc'[s] = "zrange"
             \/ pc'[s] = "done" /\ Oldest(s) = {}
             \/ pc'[s] = "hdel"
      BY <1>0, <1>4, <2>1 DEF GetSortedSetRange, ToDrop, Advance, TypeOK
    <3>2. Cardinality(In(stamp) \ Oldest(s)) <= NumToKeep(s)
      BY <1>0, OldestLeaves
    <3>3. pc'[s] = "done" => In(stamp) \ Oldest(s) = In(stamp)
      BY <3>1
    <3> QED
      BY <3>1, <3>2, <3>3 DEF LastLeaves, NumToKeep
  <2>2. CASE last # s
    BY <1>0, <1>4, <2>2, ShrinkingStep DEF GetSortedSetRange, Advance, TypeOK
  <2> QED
    BY <2>1, <2>2
<1>5. ASSUME NEW s \in Stores, DropFromHash(s) PROVE LastLeaves'
  <2>1. CASE last = s
    <3>1. /\ UNCHANGED <<stamp, drop, last>> /\ pc[s] = "hdel" /\ pc'[s] \in {"hdel", "zrem"}
      BY <1>0, <1>5 DEF DropFromHash, Advance, TypeOK
    <3> QED
      BY <2>1, <3>1 DEF LengthInv, LastLeaves, NumToKeep
  <2>2. CASE last # s
    BY <1>0, <1>5, <2>2, ShrinkingStep DEF DropFromHash, Advance, TypeOK
  <2> QED
    BY <2>1, <2>2
<1>6. ASSUME NEW s \in Stores, DropFromSortedSet(s) PROVE LastLeaves'
  <2>1. /\ In(stamp') = In(stamp) \ drop[s] /\ UNCHANGED <<drop, last>>
        /\ pc[s] = "zrem" /\ pc'[s] \in {"zrem", "done"}
        /\ \A t \in Stores \ {s} : pc'[t] = pc[t]
    BY <1>0, <1>1, <1>6 DEF DropFromSortedSet, ToUndate, Advance, TypeOK
  <2>2. CASE last = s
    <3>1. In(stamp') \ drop[s] = In(stamp) \ drop[s]
      BY <2>1
    <3>2. Cardinality(In(stamp) \ drop[s]) <= NumToKeep(s)
      <4>1. last # NoStore /\ pc[last] = "zrem" /\ LastLeaves
        BY <2>1, <2>2, StoreAssumption DEF LengthInv
      <4>2. Cardinality(In(stamp) \ drop[last]) <= NumToKeep(last)
        BY <4>1 DEF LastLeaves
      <4> QED
        BY <4>2, <2>2
    <3> QED
      BY <2>1, <2>2, <3>1, <3>2 DEF LastLeaves, NumToKeep
  <2>3. CASE last # s
    BY <1>0, <2>1, <2>3, ShrinkingStep DEF TypeOK
  <2> QED
    BY <2>2, <2>3
<1>7. ASSUME NEW c \in Consumers, Choose(c) \/ RemoveFromHash(c) \/ RemoveFromSortedSet(c) \/ ConsumerStops(c)
      PROVE  LastLeaves'
  <2>1. In(stamp') \subseteq In(stamp)
    BY <1>1, <1>7 DEF Choose, RemoveFromHash, RemoveFromSortedSet, ConsumerStops
  <2>2. UNCHANGED <<pc, drop, last>>
    BY <1>7 DEF Choose, RemoveFromHash, RemoveFromSortedSet, ConsumerStops
  <2> QED
    BY <2>1, <2>2, ShrinkingStep
<1>8. CASE UNCHANGED vars
  BY <1>8, ShrinkingStep DEF vars
<1> QED
  BY <1>2, <1>3, <1>4, <1>5, <1>6, <1>7, <1>8 DEF Next

(* Whatever other calls add, drop and remove at the same time, and however *)
(* often a command is sent again: when the call that last added to the     *)
(* sorted set is done, at most what that call keeps has a score.           *)
THEOREM TruncationBounds == Spec => []TruncatedWhenDone
<1>1. Init => LengthInv
  BY InitType DEF Init, LengthInv, LastLeaves
<1>2. LengthInv => TruncatedWhenDone
  BY DEF LengthInv, LastLeaves, TruncatedWhenDone
<1> QED
  BY <1>1, <1>2, LengthStep, PTL DEF Spec
================================================================================
