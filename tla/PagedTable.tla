----------------------------- MODULE PagedTable -----------------------------
(***************************************************************************)
(* A paged table of the web application (web/js/pagination/make-pageable.js*)
(* with the paging control paging-block.js), as the history page of an     *)
(* experiment uses it (experiment/history/table.js), over the endpoint     *)
(* that lists the observations: the count is one statement and the page    *)
(* another, and pages are addressed by a marker, the last row received.    *)
(* Pages arrive one by one, from the first (increment 1) or from the last  *)
(* (increment -1), while the user clicks and other people add and delete   *)
(* rows.                                                                   *)
(***************************************************************************)
EXTENDS Integers, FiniteSets, Sequences

CONSTANTS
  Rows, Keys,     \* rows that may be listed; the columns to sort by
  FirstKey,       \* the column the table is sorted by when it is mounted
  Rank,           \* Rank[k][r]: the place of row r in the order of column k
  PageSize,       \* props.pageSize
  EachSide,       \* NUM_PAGES_EACH_SIDE
  StartPages,     \* props.startPage: pages the URL may name
  Starts,         \* what the experiment may list when the table is mounted
  Batches,        \* bound: the rows that others add in one call
  Removals,       \* bound: the rows that others delete in one call
  CallIds,        \* bound: requests in flight at once
  IndexBound,     \* bound: no page beyond this index (or below -1) is requested
  MaxClicks, MaxChanges, MaxFailures, MaxMoves,  \* bounds: each, and all of them
  NoRow           \* null: no marker

\* Every column orders the rows totally: the id breaks ties (detail.py).
ASSUME RankAssumption ==
  /\ Rank \in [Keys -> [Rows -> Int]]
  /\ \A k \in Keys : \A r, s \in Rows : r # s => Rank[k][r] # Rank[k][s]

ASSUME TableAssumption ==
  /\ IsFiniteSet(Rows) /\ NoRow \notin Rows
  /\ FirstKey \in Keys
  /\ PageSize \in Nat \ {0} /\ EachSide \in Nat
  /\ StartPages \subseteq Nat
  /\ Starts \subseteq SUBSET Rows /\ Batches \subseteq SUBSET Rows

VARIABLES
  table,     \* the component's state
  calls,     \* the requests of the table
  listing,   \* rows of the experiment that are not deleted
  mounted,   \* _isMounted
  toRefresh, \* the modal has deleted a row: its answer is yet to refresh the table
  clicks, changes, failures,  \* how much of the bounds is used
  kept,      \* history: the rows listed ever since the table was last emptied
  since,     \* history: the rows listed at some time since then
  steady,    \* history: neither the rows nor their number moved since then
  outgrown   \* history: a count was received that moves the pages to fill, from the
             \* last on, past those already filled

history == <<kept, since, steady, outgrown>>
tableVars == <<table, calls, listing, mounted, toRefresh, clicks, changes,
               failures, history>>
-----------------------------------------------------------------------------
\* What the user sees first: column k, ascending or descending.
Above(r, s, k, asc) == IF asc THEN Rank[k][r] < Rank[k][s] ELSE Rank[k][r] > Rank[k][s]
NotReversed(q) == q  \* mutant
Reversed(q) == [i \in DOMAIN q |-> q[Len(q) + 1 - i]]
Higher(S, r, k, asc) == {s \in S : Above(s, r, k, asc)}
\* The i-th of the rows S is the one with i - 1 of them above it.
Sorted ==
  [k \in Keys |-> [asc \in BOOLEAN |-> [S \in SUBSET Rows |->
     [i \in 1..Cardinality(S) |->
        CHOOSE r \in S : Cardinality(Higher(S, r, k, asc)) = i - 1]]]]
InOrder(S, k, asc) == Sorted[k][asc][S]
RowsOf(q) == {q[i] : i \in DOMAIN q}
CeilDiv(n, d) == (n + d - 1) \div d

\* calculateEllipsisFlags
EllipsisNeeded(n) == n > 2 * EachSide + 1
FirstEllipsis(n, page) == EllipsisNeeded(n) /\ page > EachSide
SecondEllipsis(n, page) == EllipsisNeeded(n) /\ n - 1 - page > EachSide

\* The last page to load before the user asks for more.
FarthestPage(page, n, inc) ==
  IF FirstEllipsis(n, page) /\ SecondEllipsis(n, page) THEN page + inc
  ELSE IF inc = 1 THEN IF SecondEllipsis(n, page) THEN EachSide + 1 ELSE n - 1
  ELSE IF FirstEllipsis(n, page) THEN n - 1 - EachSide - 1 ELSE 0

NoPages == [i \in {} |-> <<>>]
Loaded(t) == DOMAIN t.pages
PageWithBefore(t) == (t.asc /\ t.increment = -1) \/ (~t.asc /\ t.increment = 1)
ToFill(t) ==
  IF t.increment = 1 THEN Cardinality(Loaded(t))
  ELSE t.numPages - 1 - Cardinality(Loaded(t))
\* Mutant: a click that moves on asks for nothing more.
KicksAtFirst(t) == t.isPaging /\ t.farthest = 0 /\ ToFill(t) \in -1..IndexBound
\* farthestPage is null, here 0, until a page has come; a farthest page 0 counts as
\* none as well.
Kicks(t) ==
  /\ t.isPaging
  /\ \/ t.farthest = 0
     \/ t.increment = 1 /\ ToFill(t) <= t.farthest
     \/ t.increment = -1 /\ ToFill(t) >= t.farthest
  /\ ToFill(t) \in -1..IndexBound
\* Mutant: no remainder.
LimitNever(t) == PageSize
\* In reverse the last page is asked for first, and takes the remainder only.
Limit(t) ==
  IF /\ t.increment = -1
     /\ ToFill(t) = t.numPages - 1
     /\ t.numResults % PageSize # 0
  THEN t.numResults % PageSize
  ELSE PageSize

NoCall ==
  [phase |-> "idle", nonce |-> 0, index |-> 0, descending |-> FALSE,
   key |-> FirstKey, marker |-> NoRow, limit |-> 0,
   count |-> 0, data |-> <<>>, next |-> NoRow]
Request(t) ==
  [NoCall EXCEPT !.phase = "sent", !.nonce = t.nonce, !.index = ToFill(t),
     !.descending = PageWithBefore(t), !.key = t.key, !.marker = t.marker,
     !.limit = Limit(t)]
FreeCalls(cs) == {c \in CallIds : cs[c].phase = "idle"}
\* The n free call records with the lowest numbers.
Lowest(cs, n) ==
  {c \in FreeCalls(cs) : Cardinality({d \in FreeCalls(cs) : d < c}) < n}
\* The table becomes t, and asks n times for the page it lacks.
Kick(t, cs, n) ==
  /\ table' = t
  /\ Kicks(t) => n <= Cardinality(FreeCalls(cs))
  /\ calls' = [c \in CallIds |->
                 IF Kicks(t) /\ c \in Lowest(cs, n) THEN Request(t) ELSE cs[c]]
-----------------------------------------------------------------------------
EmptiedButMarker(t) ==  \* mutant
  [t EXCEPT !.farthest = 0, !.increment = 1, !.isPaging = TRUE, !.numPages = 0,
            !.numResults = 0, !.pages = NoPages, !.nonce = t.nonce + 1]
\* _initialPagingState; the nonce is a random number there, the next one here.
Emptied(t) ==
  [t EXCEPT !.marker = NoRow, !.farthest = 0, !.increment = 1, !.isPaging = TRUE,
            !.numPages = 0, !.numResults = 0, !.pages = NoPages,
            !.nonce = t.nonce + 1]
Reload(t, page) == [Emptied(t) EXCEPT !.page = page]
Forget(isSteady) ==
  kept' = listing /\ since' = listing /\ steady' = isSteady /\ outgrown' = FALSE
Sees == UNCHANGED <<listing, changes, failures>>

Navigate(p) ==
  /\ Kick([table EXCEPT !.page = p,
                        !.farthest = FarthestPage(p, table.numPages, table.increment)],
          calls, 1)
  /\ UNCHANGED history

\* The number of pages and of results survives, though it may be out of date.
Reverse ==
  LET inc == -table.increment
      p   == IF inc = 1 THEN 0 ELSE table.numPages - 1
  IN /\ Kick([Emptied(table) EXCEPT
                !.increment = inc, !.page = p, !.numPages = table.numPages,
                !.farthest = FarthestPage(p, table.numPages, inc),
                !.numResults = table.numResults],
             calls, 1)
     /\ Forget(table.numResults = Cardinality(listing))

Move == clicks + changes + failures < MaxMoves
UserMove == mounted /\ clicks < MaxClicks /\ Move /\ clicks' = clicks + 1

\* The buttons of the paging control.
IsEmpty == ~table.isPaging /\ \A i \in Loaded(table) : table.pages[i] = <<>>
Interior ==
  LET n == table.numPages
      first == FirstEllipsis(n, table.page)
      second == SecondEllipsis(n, table.page)
  IN IF first /\ second THEN table.page - 1 .. table.page + 1
     ELSE IF first THEN n - 1 - EachSide - 1 .. n - 2
     ELSE IF second THEN 1 .. EachSide + 1
     ELSE 0 .. n - 1
Adjacent == {p \in {table.page - 1, table.page + 1} :
               {p, table.page} \subseteq Loaded(table)}
HasEnds == FirstEllipsis(table.numPages, table.page)
           \/ SecondEllipsis(table.numPages, table.page)
Near == IF table.increment = 1 THEN 0 ELSE table.numPages - 1
Click ==
  /\ UserMove
  /\ ~IsEmpty /\ table.numPages > 1
  /\ \/ \E p \in Interior \cup Adjacent : Navigate(p)
     \/ HasEnds /\ Navigate(Near)
     \/ HasEnds /\ Reverse
  /\ Sees /\ UNCHANGED <<mounted, toRefresh>>

\* A click on a column's head: another column starts descending, the same one turns
\* round. setSortAscending reloads the pages, and so does the change of the key: both
\* callbacks run after both changes, so a change of the key asks for its page twice.
Sort(k) ==
  /\ UserMove
  /\ Kick([Reload(table, 0) EXCEPT !.key = k, !.asc = k = table.key /\ ~table.asc],
          calls, IF k = table.key THEN 1 ELSE 2)
  /\ Forget(TRUE)
  /\ Sees /\ UNCHANGED <<mounted, toRefresh>>

\* The modal deletes a row of the page on the screen, and refreshes the table when
\* the deletion is answered.
ModalDelete ==
  /\ UserMove /\ ~toRefresh /\ table.page \in Loaded(table)
  /\ \E r \in RowsOf(table.pages[table.page]) \cap listing :
       listing' = listing \ {r} /\ kept' = kept \ {r}
  /\ toRefresh' = TRUE /\ steady' = FALSE
  /\ UNCHANGED <<table, calls, mounted, changes, failures, since, outgrown>>

RefreshInPlace ==  \* mutant: the pages stay
  /\ mounted /\ toRefresh
  /\ Kick([table EXCEPT !.nonce = table.nonce + 1, !.isPaging = TRUE], calls, 1)
  /\ Forget(TRUE)
  /\ toRefresh' = FALSE
  /\ Sees /\ UNCHANGED <<mounted, clicks>>
Refresh ==
  /\ mounted /\ toRefresh
  /\ Kick(Reload(table, table.page), calls, 1)
  /\ Forget(TRUE)
  /\ toRefresh' = FALSE
  /\ Sees /\ UNCHANGED <<mounted, clicks>>

Unmount ==
  /\ UserMove
  /\ mounted' = FALSE
  /\ Sees /\ UNCHANGED <<table, calls, toRefresh, history>>

\* Others report observations, one or a batch, and delete one or all.
Change ==
  /\ changes < MaxChanges /\ Move
  /\ \/ \E B \in Batches :
          B \cap listing = {} /\ listing' = listing \cup B /\ since' = since \cup B
          /\ kept' = kept
     \/ \E gone \in Removals :
          gone \cap listing # {} /\ listing' = listing \ gone /\ kept' = kept \ gone
          /\ since' = since
  /\ changes' = changes + 1 /\ steady' = FALSE
  /\ UNCHANGED <<table, calls, mounted, toRefresh, clicks, failures, outgrown>>
-----------------------------------------------------------------------------
ServerKeeps == UNCHANGED <<table, listing, mounted, toRefresh, clicks, changes,
                           history>>

Count(c) ==
  /\ calls[c].phase = "sent"
  /\ calls' = [calls EXCEPT ![c].phase = "counted",
                            ![c].count = Cardinality(listing)]
  /\ ServerKeeps /\ UNCHANGED failures

\* The rows beyond the marker, in the direction of the request; one more is fetched
\* to know whether there are more. An empty page keeps the marker it was asked from.
Beyond(q) == {r \in listing : \/ q.marker = NoRow
                              \/ Above(q.marker, r, q.key, ~q.descending)}
PageOf(q) ==
  LET n == Cardinality(Beyond(q))
  IN [i \in 1..(IF n < q.limit THEN n ELSE q.limit) |->
        InOrder(Beyond(q), q.key, ~q.descending)[i]]
NextMarker(q, page) ==
  IF page = <<>> THEN q.marker
  ELSE IF Cardinality(Beyond(q)) > q.limit THEN page[q.limit]
  ELSE NoRow
Fetch(c) ==
  /\ calls[c].phase = "counted"
  /\ LET page == PageOf(calls[c]) IN
     calls' = [calls EXCEPT ![c].phase = "answered", ![c].data = page,
                            ![c].next = NextMarker(calls[c], page)]
  /\ ServerKeeps /\ UNCHANGED failures

\* The request fails: no handler is passed for that, and nothing asks again.
Fail(c) ==
  /\ calls[c].phase \in {"sent", "counted"} /\ failures < MaxFailures /\ Move
  /\ calls' = [calls EXCEPT ![c] = NoCall]
  /\ failures' = failures + 1
  /\ ServerKeeps

\* _receivePage
\* From the last page on, a page is filled below those loaded, unless the number of
\* pages has grown by two or more.
Outgrows(t, q) == t.increment = -1 /\ CeilDiv(q.count, PageSize) > t.numPages + 1
Current(q) == mounted /\ q.nonce = table.nonce /\ q.index \notin Loaded(table)
Filled(t, q) ==
  LET n == CeilDiv(q.count, PageSize)
      p == IF t.page >= n THEN 0 ELSE t.page
      shown == IF t.increment = 1 THEN q.data ELSE Reversed(q.data)
  IN [t EXCEPT !.pages = [i \in Loaded(t) \cup {q.index} |->
                            IF i = q.index THEN shown ELSE t.pages[i]],
               !.marker = q.next, !.isPaging = q.next # NoRow,
               !.numPages = n, !.numResults = q.count, !.page = p,
               !.farthest = FarthestPage(p, n, t.increment)]
Receive(c) ==
  LET q  == calls[c]
      cs == [calls EXCEPT ![c] = NoCall]
  IN /\ q.phase = "answered"
     /\ IF Current(q) THEN /\ Kick(Filled(table, q), cs, 1)
                           /\ outgrown' = (outgrown \/ Outgrows(table, q))
        ELSE calls' = cs /\ UNCHANGED <<table, outgrown>>
     /\ UNCHANGED <<listing, mounted, toRefresh, clicks, changes, failures, kept,
                    since, steady>>
-----------------------------------------------------------------------------
TableInit ==
  /\ listing \in Starts /\ kept = listing /\ since = listing /\ steady = TRUE
  /\ outgrown = FALSE
  /\ mounted = FALSE /\ toRefresh = FALSE
  /\ clicks = 0 /\ changes = 0 /\ failures = 0
  /\ table = [increment |-> 1, page |-> 0, numPages |-> 0, numResults |-> 0,
              farthest |-> 0, isPaging |-> TRUE, marker |-> NoRow,
              pages |-> NoPages, nonce |-> 1, asc |-> FALSE, key |-> FirstKey]
  /\ calls = [c \in CallIds |-> NoCall]

\* componentDidMount, once: the first nonce is the constructor's.
TableOn == table.nonce > 1
MountTable ==
  /\ ~TableOn /\ mounted' = TRUE
  /\ \E p \in StartPages : Kick(Reload(table, p), calls, 1)
  /\ Forget(TRUE)
  /\ Sees /\ UNCHANGED <<toRefresh, clicks>>

TableStep ==
  \/ Click \/ ModalDelete \/ Refresh \/ Unmount \/ Change
  \/ \E k \in Keys : Sort(k)
  \/ \E c \in CallIds : Count(c) \/ Fetch(c) \/ Fail(c) \/ Receive(c)
TableNext == MountTable \/ TableStep

\* A request that was sent is answered, and the answer is delivered.
TableFairness ==
  /\ \A c \in CallIds : WF_tableVars(Count(c) \/ Fetch(c) \/ Receive(c))
  /\ WF_tableVars(Refresh)
TableSpec == TableInit /\ [][TableNext]_tableVars /\ TableFairness
-----------------------------------------------------------------------------
Shown == UNION {RowsOf(table.pages[i]) : i \in Loaded(table)}

(* The pages that are loaded are in the order of the column, within each page and
   from page to page, and no row is on two of them, whatever was deleted, clicked,
   delayed or asked for twice meanwhile and whatever was inserted (make-pageable.js
   _receivePage) - except where pages are loaded from the last, numbered by a number
   of pages that has meanwhile grown by two or more: the next page is then numbered
   above the ones loaded, and its rows belong below them. *)
RowsInOrder ==
  ~outgrown =>
    \A i, j \in Loaded(table) :
      \A a \in DOMAIN table.pages[i], b \in DOMAIN table.pages[j] :
        (i < j \/ (i = j /\ a < b)) =>
          Above(table.pages[i][a], table.pages[j][b], table.key, table.asc)

(* A row that was listed all the time is never passed over: if the table shows a row
   beyond it, in the direction of paging, it shows the row (the marker of the next
   request is the last row of the page before). *)
NoRowSkipped ==
  \A r \in kept, s \in Shown :
    Above(r, s, table.key, table.asc = (table.increment = 1)) => r \in Shown

(* As long as nothing changes, page i of the table is page i of the listing, from
   whichever end the pages were loaded (_fillPage: the short request for the last
   page). *)
PagesMatchListing ==
  steady =>
    LET all == InOrder(listing, table.key, table.asc)
    IN \A i \in Loaded(table) :
         table.pages[i] = SubSeq(all, i * PageSize + 1,
                                 IF (i + 1) * PageSize <= Len(all)
                                 THEN (i + 1) * PageSize ELSE Len(all))

(* A row that was deleted before the table was last emptied (sorted, reversed,
   refreshed after a deletion) does not come back with a late answer (pagingNonce). *)
GoneStaysGone == Shown \subseteq since

(* The page the user is on is loaded in the end, unless a request failed or the
   listing changed under the table: a click is never lost between two requests. *)
PageArrives ==
  <>[](\/ table.page \in Loaded(table)
       \/ failures > 0 \/ ~steady \/ ~mounted)
=============================================================================
