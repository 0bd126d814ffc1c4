---------------------------- MODULE SuggestionPool ----------------------------
(***************************************************************************)
(* How computed suggestions are stored in Redis and taken out of it.       *)
(*                                                                         *)
(* The suggestions of one experiment and one source are two keys: a hash   *)
(* from uuid to suggestion, and a sorted set of the uuids by the time at   *)
(* which they were stored.  Nothing makes a change of both atomic.         *)
(* _store_unprocessed_suggestions adds to the hash, adds to the sorted     *)
(* set, reads the oldest uuids off the sorted set, and takes these out of  *)
(* the hash and out of the sorted set; remove_from_available_suggestions   *)
(* takes one uuid out of the hash and out of the sorted set.  Workers that *)
(* store and requests that remove run at the same time; each may fail      *)
(* between any two commands, and a command whose answer was lost is sent   *)
(* again by retry_on_failure.                                              *)
(*                                                                         *)
(* The expiry of the keys after 31 days is left out.                       *)
(***************************************************************************)
EXTENDS Integers, FiniteSets

CONSTANTS
  Stores,            \* calls of _store_unprocessed_suggestions
  NoStore,           \* none of them
  Suggestions,       \* uuids: numbers, ordered as Redis orders members of equal score
  Batch,             \* the uuids of each call
  Consumers,         \* requests that serve suggestions
  Times,             \* timestamps
  NoTime,            \* not in the sorted set
  GenerationSize,    \* model.num_suggestions
  BacklogMultiplier, \* model.backlog_multiplier
  MaxRepeats,        \* bound on the commands sent again
  MaxStops           \* bound on the calls that fail half way

ASSUME SuggestionAssumption == Suggestions \subseteq Nat /\ IsFiniteSet(Suggestions)
ASSUME StoreAssumption == NoStore \notin Stores
ASSUME BatchAssumption ==
  /\ Batch \in [Stores -> SUBSET Suggestions]
  /\ \A s, t \in Stores : s # t => Batch[s] \intersect Batch[t] = {}
ASSUME TimeAssumption == Times \subseteq Nat /\ NoTime \notin Times
ASSUME SizeAssumption ==
  /\ GenerationSize \in Nat /\ BacklogMultiplier \in Nat
  /\ MaxRepeats \in Nat /\ MaxStops \in Nat

VARIABLES
  hash,     \* the uuids in the hash
  stamp,    \* the sorted set: the score of each uuid, or NoTime
  pc,       \* the next command of each call that stores
  time,     \* the timestamp of each call that stores
  drop,     \* suggestions_to_drop
  cpc,      \* the next command of each consumer
  got,      \* the uuid a consumer serves
  repeats,  \* what the bounds leave
  stops,
  everAt,   \* history: the score with which a uuid was ever in the sorted set
  consumed, \* history: the uuids consumers have taken out of the hash
  repeated, \* history: the calls that have sent HSET again
  last      \* history: the call that last added to the sorted set

storeVars == <<pc, time, drop>>
consumerVars == <<cpc, got>>
vars == <<hash, stamp, pc, time, drop, cpc, got, repeats, stops, everAt, consumed, repeated, last>>

StorePCs == {"begin", "hset", "zadd", "zrange", "hdel", "zrem", "done", "stopped"}

Init ==
  /\ hash = {}
  /\ stamp = [u \in Suggestions |-> NoTime]
  /\ pc = [s \in Stores |-> "begin"]
  /\ time = [s \in Stores |-> NoTime]
  /\ drop = [s \in Stores |-> {}]
  /\ cpc = [c \in Consumers |-> "idle"]
  /\ got = [c \in Consumers |-> {}]
  /\ repeats = MaxRepeats
  /\ stops = MaxStops
  /\ everAt = [u \in Suggestions |-> NoTime]
  /\ consumed = {}
  /\ repeated = {}
  /\ last = NoStore

---------------------------------------------------------------------------
(* The sorted set. *)

In(scores) == {u \in Suggestions : scores[u] # NoTime}
NewerThan(u, scores) ==
  {v \in In(scores) : scores[u] < scores[v] \/ (scores[u] = scores[v] /\ u < v)}

(* ZREM *)
Without(us) == [u \in Suggestions |-> IF u \in us THEN NoTime ELSE stamp[u]]

MaxOf(i, j) == IF i < j THEN j ELSE i
NumToKeep(s) ==
  MaxOf(Cardinality(Batch[s]), GenerationSize) * MaxOf(BacklogMultiplier, 1)

(* ZRANGE 0 stop_index, with stop_index = -num_to_keep - 1 *)
Oldest(s) == {u \in In(stamp) : Cardinality(NewerThan(u, stamp)) >= NumToKeep(s)}
OldestAndOne(s) == \* mutant: stop_index = -num_to_keep
  {u \in In(stamp) : Cardinality(NewerThan(u, stamp)) >= NumToKeep(s) - 1}
OldestButOne(s) == \* mutant: stop_index = -num_to_keep - 2
  {u \in In(stamp) : Cardinality(NewerThan(u, stamp)) > NumToKeep(s)}
ToDrop(s) == Oldest(s)

(* What truncation takes out of the sorted set *)
OldestAgain(s) == Oldest(s) \* mutant: ZREMRANGEBYRANK
ToUndate(s) == drop[s]

---------------------------------------------------------------------------
(* A call of _store_unprocessed_suggestions. *)

(* The command is over, or its answer is lost and it is sent again. *)
Advance(s, label) ==
  \/ pc' = [pc EXCEPT ![s] = label] /\ UNCHANGED repeats
  \/ repeats > 0 /\ repeats' = repeats - 1 /\ UNCHANGED pc

(* The timestamp is given by the caller or read from the host's clock. *)
Begin(s) ==
  /\ pc[s] = "begin"
  /\ \E t \in Times : time' = [time EXCEPT ![s] = t]
  /\ pc' = [pc EXCEPT ![s] = "hset"]
  /\ UNCHANGED <<hash, stamp, drop, consumerVars, repeats, stops, everAt, consumed, repeated, last>>

SetHashFields(s) ==
  /\ pc[s] = "hset"
  /\ hash' = hash \union Batch[s]
  /\ Advance(s, "zadd")
  /\ repeated' = IF pc' = pc THEN repeated \union {s} ELSE repeated
  /\ UNCHANGED <<stamp, time, drop, consumerVars, stops, everAt, consumed, last>>

(* ZADD NX: a uuid that is in the set keeps its score. *)
AddSortedSetNew(s) ==
  /\ pc[s] = "zadd"
  /\ stamp' = [u \in Suggestions |->
               IF u \in Batch[s] /\ stamp[u] = NoTime THEN time[s] ELSE stamp[u]]
  /\ everAt' = [u \in Suggestions |-> IF u \in Batch[s] THEN time[s] ELSE everAt[u]]
  /\ last' = s
  /\ Advance(s, "zrange")
  /\ UNCHANGED <<hash, time, drop, consumerVars, stops, consumed, repeated>>

GetSortedSetRange(s) ==
  /\ pc[s] = "zrange"
  /\ drop' = [drop EXCEPT ![s] = ToDrop(s)]
  /\ Advance(s, IF ToDrop(s) = {} THEN "done" ELSE "hdel")
  /\ UNCHANGED <<hash, stamp, time, consumerVars, stops, everAt, consumed, repeated, last>>

DropFromHash(s) ==
  /\ pc[s] = "hdel"
  /\ hash' = hash \ drop[s]
  /\ Advance(s, "zrem")
  /\ UNCHANGED <<stamp, time, drop, consumerVars, stops, everAt, consumed, repeated, last>>

DropFromSortedSet(s) ==
  /\ pc[s] = "zrem"
  /\ stamp' = Without(ToUndate(s))
  /\ Advance(s, "done")
  /\ UNCHANGED <<hash, time, drop, consumerVars, stops, everAt, consumed, repeated, last>>

(* The worker dies, or a command fails for good; persist_suggestions       *)
(* reports a timeout and goes on.                                          *)
StoreStops(s) ==
  /\ stops > 0
  /\ pc[s] \notin {"begin", "done", "stopped"}
  /\ stops' = stops - 1
  /\ pc' = [pc EXCEPT ![s] = "stopped"]
  /\ UNCHANGED <<hash, stamp, time, drop, consumerVars, repeats, everAt, consumed, repeated, last>>

---------------------------------------------------------------------------
(* A request: get_suggestions_per_source, then, when the suggestion it has *)
(* chosen is processed, remove_from_available_suggestions.                 *)

Choose(c) ==
  /\ cpc[c] = "idle"
  /\ \E u \in hash : got' = [got EXCEPT ![c] = {u}]
  /\ cpc' = [cpc EXCEPT ![c] = "hdel"]
  /\ UNCHANGED <<hash, stamp, storeVars, repeats, stops, everAt, consumed, repeated, last>>

RemoveFromHash(c) ==
  /\ cpc[c] = "hdel"
  /\ hash' = hash \ got[c]
  /\ consumed' = consumed \union got[c]
  /\ cpc' = [cpc EXCEPT ![c] = "zrem"]
  /\ UNCHANGED <<stamp, storeVars, got, repeats, stops, everAt, repeated, last>>

RemoveFromSortedSet(c) ==
  /\ cpc[c] = "zrem"
  /\ stamp' = Without(got[c])
  /\ got' = [got EXCEPT ![c] = {}]
  /\ cpc' = [cpc EXCEPT ![c] = "idle"]
  /\ UNCHANGED <<hash, storeVars, repeats, stops, everAt, consumed, repeated, last>>

(* A failure to remove is tolerated, and a request may die. *)
ConsumerStops(c) ==
  /\ stops > 0
  /\ cpc[c] # "idle"
  /\ stops' = stops - 1
  /\ got' = [got EXCEPT ![c] = {}]
  /\ cpc' = [cpc EXCEPT ![c] = "idle"]
  /\ UNCHANGED <<hash, stamp, storeVars, repeats, everAt, consumed, repeated, last>>

---------------------------------------------------------------------------
Next ==
  \/ \E s \in Stores :
       \/ Begin(s) \/ SetHashFields(s) \/ AddSortedSetNew(s) \/ GetSortedSetRange(s)
       \/ DropFromHash(s) \/ DropFromSortedSet(s) \/ StoreStops(s)
  \/ \E c \in Consumers :
       Choose(c) \/ RemoveFromHash(c) \/ RemoveFromSortedSet(c) \/ ConsumerStops(c)

Spec == Init /\ [][Next]_vars

---------------------------------------------------------------------------
(* Properties. *)

(* The two keys, the calls and the requests have their types. *)
TypeOK ==
  /\ hash \subseteq Suggestions
  /\ stamp \in [Suggestions -> Times \union {NoTime}]
  /\ pc \in [Stores -> StorePCs]
  /\ time \in [Stores -> Times \union {NoTime}]
  /\ drop \in [Stores -> SUBSET Suggestions]
  /\ cpc \in [Consumers -> {"idle", "hdel", "zrem"}]
  /\ got \in [Consumers -> SUBSET Suggestions]
  /\ repeats \in 0..MaxRepeats /\ stops \in 0..MaxStops
  /\ everAt \in [Suggestions -> Times \union {NoTime}]
  /\ consumed \subseteq Suggestions
  /\ repeated \subseteq Stores
  /\ last \in Stores \union {NoStore}

(* Truncation never takes a suggestion for which there were not enough     *)
(* newer ones, however many calls truncate at the same time: one that was  *)
(* stored and is gone was served, or num_to_keep newer ones were stored.   *)
NewestKept ==
  \A s \in Stores : \A u \in Batch[s] :
    pc[s] \notin {"begin", "hset", "stopped"} =>
      \/ u \in hash \union consumed
      \/ \E t \in Stores : Cardinality(NewerThan(u, everAt)) >= NumToKeep(t)

(* A suggestion in the hash that truncation cannot see, for want of a      *)
(* score, is one whose call has not come to its ZADD, or stopped before,   *)
(* or one that was served and that an HSET sent again has put back.        *)
UndatedHasCause ==
  \A s \in Stores : \A u \in Batch[s] :
    u \in hash /\ stamp[u] = NoTime =>
      \/ pc[s] \in {"hset", "zadd"}
      \/ pc[s] = "stopped" /\ everAt[u] = NoTime
      \/ s \in repeated /\ u \in consumed

(* Truncation works: when the call that last added to the sorted set is    *)
(* done, the set holds at most what that call keeps, whatever the calls    *)
(* that ran at the same time saw, and dropped.                             *)
TruncatedWhenDone ==
  last # NoStore /\ pc[last] = "done" => Cardinality(In(stamp)) <= NumToKeep(last)
==============================================================================
