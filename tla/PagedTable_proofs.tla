-------------------------- MODULE PagedTable_proofs --------------------------
(***************************************************************************)
(* Proofs about PagedTable, for any rows and columns, any page size and    *)
(* any number of requests in flight, clicks and changes.                   *)
(***************************************************************************)
EXTENDS PagedTable, FiniteSetTheorems, FunctionTheorems, SequenceTheorems, TLAPS

Markers == Rows \cup {NoRow}
IsTable(t) ==
  /\ t \in [increment : {1, -1}, page : Int, numPages : Int, numResults : Int,
            farthest : Int, isPaging : BOOLEAN, marker : Markers, pages : {t.pages},
            nonce : Nat, asc : BOOLEAN, key : Keys]
  /\ Loaded(t) \subseteq Int /\ IsFiniteSet(Loaded(t))
  /\ \A i \in Loaded(t) : t.pages[i] \in Seq(Rows)
IsCall(q) ==
  q \in [phase : {"idle", "sent", "counted", "answered"}, nonce : Nat, index : Int,
         descending : BOOLEAN, key : Keys, marker : Markers, limit : Int,
         count : Int, data : Seq(Rows), next : Markers]
TypeInv ==
  /\ IsTable(table)
  /\ DOMAIN calls = CallIds /\ \A c \in CallIds : IsCall(calls[c])
  /\ listing \subseteq Rows /\ kept \subseteq listing /\ listing \subseteq since
  /\ outgrown \in BOOLEAN

-----------------------------------------------------------------------------
(* In the direction of paging, r comes before s.                           *)
Before(t, r, s) == Above(r, s, t.key, t.asc = (t.increment = 1))
(* The rows a table shows.                                                 *)
RowsShown(t) == UNION {RowsOf(t.pages[i]) : i \in Loaded(t)}
(* The answer to q, or q itself, is still wanted.                          *)
Live(t, q) == q.phase # "idle" /\ q.nonce = t.nonce
Wanted(t, q) == Live(t, q) /\ q.index \notin Loaded(t)

(* A request of the table asks for the page that is missing.               *)
Fits(t, q) ==
  /\ q.nonce <= t.nonce
  /\ q.phase # "idle" => q.limit > 0
  /\ Live(t, q) => q.key = t.key /\ q.descending = PageWithBefore(t)
  /\ Wanted(t, q) => q.index = ToFill(t) /\ q.marker = t.marker /\ t.isPaging

(* An answer has rows beyond its marker, in order, and none is left out.   *)
Answers(t, q, rows, ever) ==
  Live(t, q) /\ q.phase = "answered" =>
    /\ RowsOf(q.data) \subseteq ever
    /\ \A a \in DOMAIN q.data : q.marker = NoRow \/ Before(t, q.marker, q.data[a])
    /\ \A a, b \in DOMAIN q.data : a < b => Before(t, q.data[a], q.data[b])
    /\ \A r \in rows, b \in DOMAIN q.data :
         (q.marker = NoRow \/ Before(t, q.marker, r)) /\ Before(t, r, q.data[b])
           => r \in RowsOf(q.data)
    /\ q.data = <<>> => q.next = q.marker
    /\ q.data # <<>> => q.next \in {NoRow, q.data[Len(q.data)]}

(* The table shows the rows up to its marker, and no others.               *)
UpToMarker(t, rows) ==
  /\ t.marker = NoRow /\ t.isPaging => Loaded(t) = {}
  /\ t.marker # NoRow =>
       /\ \A s \in RowsShown(t) : s = t.marker \/ Before(t, s, t.marker)
       /\ \A r \in rows : r = t.marker \/ Before(t, r, t.marker) => r \in RowsShown(t)

(* The page to fill comes next to those loaded.                            *)
FillsNext(t, grown) ==
  \A i \in Loaded(t) :
    IF t.increment = 1 THEN i < Cardinality(Loaded(t))
    ELSE ~grown => i >= ToFill(t)

Ordered(t) ==
  \A i, j \in Loaded(t) :
    \A a \in DOMAIN t.pages[i], b \in DOMAIN t.pages[j] :
      (i < j \/ (i = j /\ a < b)) => Above(t.pages[i][a], t.pages[j][b], t.key, t.asc)
Gapless(t, rows) ==
  \A r \in rows, s \in RowsShown(t) : Before(t, r, s) => r \in RowsShown(t)

CallsInv ==
  \A c \in CallIds : Fits(table, calls[c]) /\ Answers(table, calls[c], kept, since)
TableInv ==
  /\ UpToMarker(table, kept)
  /\ FillsNext(table, outgrown)
  /\ ~outgrown => Ordered(table)
  /\ Gapless(table, kept)
  /\ RowsShown(table) \subseteq since
PageInv == TypeInv /\ CallsInv /\ TableInv
-----------------------------------------------------------------------------
(* A column orders the rows totally, in both directions.                   *)
LEMMA AboveIsOrder ==
  ASSUME NEW k \in Keys, NEW asc \in BOOLEAN
  PROVE  /\ \A r \in Rows : ~Above(r, r, k, asc)
         /\ \A r, s \in Rows : r = s \/ Above(r, s, k, asc) \/ Above(s, r, k, asc)
         /\ \A r, s, u \in Rows :
              Above(r, s, k, asc) /\ Above(s, u, k, asc) => Above(r, u, k, asc)
         /\ \A r, s \in Rows : Above(r, s, k, asc) <=> Above(s, r, k, ~asc)
  BY RankAssumption DEF Above

(* The number of rows above a row tells its place: below the number of all *)
(* rows, and growing down the column.                                      *)
LEMMA HigherCounts ==
  ASSUME NEW S \in SUBSET Rows, NEW k \in Keys, NEW asc \in BOOLEAN
  PROVE  /\ IsFiniteSet(S) /\ Cardinality(S) \in Nat
         /\ \A r \in S : Cardinality(Higher(S, r, k, asc)) \in 0..(Cardinality(S) - 1)
         /\ \A r, s \in S :
              Above(r, s, k, asc) =>
                Cardinality(Higher(S, r, k, asc)) < Cardinality(Higher(S, s, k, asc))
<1>1. IsFiniteSet(S) /\ Cardinality(S) \in Nat
  BY FS_Subset, FS_CardinalityType, TableAssumption
<1>2. ASSUME NEW r \in S
      PROVE  /\ IsFiniteSet(Higher(S, r, k, asc))
             /\ Cardinality(Higher(S, r, k, asc)) \in 0..(Cardinality(S) - 1)
  <2>1. r \notin Higher(S, r, k, asc)
    BY AboveIsOrder DEF Higher
  <2>2. Higher(S, r, k, asc) \in SUBSET S
    BY DEF Higher
  <2>3. /\ IsFiniteSet(Higher(S, r, k, asc))
        /\ Cardinality(Higher(S, r, k, asc)) <= Cardinality(S)
        /\ Cardinality(S) = Cardinality(Higher(S, r, k, asc)) => S = Higher(S, r, k, asc)
    BY <1>1, <2>2, FS_Subset
  <2>4. Cardinality(Higher(S, r, k, asc)) \in Nat
    BY <2>3, FS_CardinalityType
  <2> QED BY <1>1, <2>1, <2>3, <2>4
<1>3. ASSUME NEW r \in S, NEW s \in S, Above(r, s, k, asc)
      PROVE  Cardinality(Higher(S, r, k, asc)) < Cardinality(Higher(S, s, k, asc))
  <2>1. /\ Higher(S, r, k, asc) \in SUBSET Higher(S, s, k, asc)
        /\ r \notin Higher(S, r, k, asc) /\ r \in Higher(S, s, k, asc)
    BY <1>3, AboveIsOrder DEF Higher
  <2>2. /\ Cardinality(Higher(S, r, k, asc)) <= Cardinality(Higher(S, s, k, asc))
        /\ Cardinality(Higher(S, s, k, asc)) = Cardinality(Higher(S, r, k, asc)) =>
             Higher(S, s, k, asc) = Higher(S, r, k, asc)
    BY <1>2, <2>1, FS_Subset
  <2> QED BY <1>2, <2>1, <2>2
<1> QED BY <1>1, <1>2, <1>3

(* As many different numbers below n as there are rows: each is taken.     *)
LEMMA PlacesAreTaken ==
  ASSUME NEW S, IsFiniteSet(S), Cardinality(S) \in Nat,
         NEW place \in [S -> 0..(Cardinality(S) - 1)],
         \A r, s \in S : place[r] = place[s] => r = s
  PROVE  \A i \in 0..(Cardinality(S) - 1) : \E r \in S : place[r] = i
<1> DEFINE T == 0..(Cardinality(S) - 1)
<1>1. place \in Injection(S, T)
  BY DEF Injection, IsInjective
<1>2. IsFiniteSet(T) /\ Cardinality(T) = Cardinality(S)
  BY FS_Interval
<1>3. place \in Surjection(S, T)
  BY <1>1, <1>2, FS_Injection
<1> QED BY <1>3 DEF Surjection

(* Rows in order are all the rows, each once, and in order.                *)
LEMMA InOrderWorks ==
  ASSUME NEW S \in SUBSET Rows, NEW k \in Keys, NEW asc \in BOOLEAN
  PROVE  /\ Cardinality(S) \in Nat
         /\ InOrder(S, k, asc) \in [1..Cardinality(S) -> S]
         /\ \A i \in 1..Cardinality(S) :
              Cardinality(Higher(S, InOrder(S, k, asc)[i], k, asc)) = i - 1
         /\ \A a, b \in 1..Cardinality(S) :
              a < b => Above(InOrder(S, k, asc)[a], InOrder(S, k, asc)[b], k, asc)
         /\ \A r \in S :
              InOrder(S, k, asc)[Cardinality(Higher(S, r, k, asc)) + 1] = r
<1> DEFINE n == Cardinality(S)
           place == [r \in S |-> Cardinality(Higher(S, r, k, asc))]
<1>1. IsFiniteSet(S) /\ n \in Nat
  BY HigherCounts
<1>2. place \in [S -> 0..(n - 1)]
  BY HigherCounts
<1>3. \A r, s \in S : Above(r, s, k, asc) => place[r] < place[s]
  BY HigherCounts
<1>4. \A r, s \in S : place[r] = place[s] => r = s
  <2> SUFFICES ASSUME NEW r \in S, NEW s \in S, r # s PROVE place[r] # place[s]
    OBVIOUS
  <2>1. Above(r, s, k, asc) \/ Above(s, r, k, asc)
    BY AboveIsOrder
  <2>2. place[r] < place[s] \/ place[s] < place[r]
    BY <1>3, <2>1
  <2>3. place[r] \in Int /\ place[s] \in Int
    BY <1>1, <1>2
  <2> HIDE DEF place
  <2> QED BY <2>2, <2>3
<1>5. /\ InOrder(S, k, asc) = [i \in 1..n |-> InOrder(S, k, asc)[i]]
      /\ \A i \in 1..n :
           InOrder(S, k, asc)[i] = CHOOSE r \in S : Cardinality(Higher(S, r, k, asc)) = i - 1
  BY DEF InOrder, Sorted
<1> HIDE DEF n
<1>6. \A i \in 0..(n - 1) : \E r \in S : place[r] = i
  <2> HIDE DEF place
  <2> QED BY <1>1, <1>2, <1>4, PlacesAreTaken DEF n
<1>7. ASSUME NEW i \in 1..n
      PROVE  InOrder(S, k, asc)[i] \in S /\ place[InOrder(S, k, asc)[i]] = i - 1
  <2>1. i - 1 \in 0..(n - 1)
    BY <1>1
  <2>2. \E r \in S : Cardinality(Higher(S, r, k, asc)) = i - 1
    BY <1>6, <2>1
  <2> QED BY <1>5, <2>2
<1> HIDE DEF place
<1>8. InOrder(S, k, asc) \in [1..n -> S]
  BY <1>5, <1>7
<1>9. \A a, b \in 1..n : a < b => Above(InOrder(S, k, asc)[a], InOrder(S, k, asc)[b], k, asc)
  <2> SUFFICES ASSUME NEW a \in 1..n, NEW b \in 1..n, a < b
               PROVE  Above(InOrder(S, k, asc)[a], InOrder(S, k, asc)[b], k, asc)
    OBVIOUS
  <2> DEFINE r == InOrder(S, k, asc)[a]
             s == InOrder(S, k, asc)[b]
  <2>1. r \in S /\ s \in S /\ place[r] < place[s]
    BY <1>1, <1>7
  <2> HIDE DEF r, s
  <2>2. ~(r = s) /\ ~Above(s, r, k, asc)
    BY <1>1, <1>2, <1>3, <2>1
  <2> QED BY <2>1, <2>2, AboveIsOrder DEF r, s
<1>10. ASSUME NEW r \in S
       PROVE  InOrder(S, k, asc)[place[r] + 1] = r
  <2>1. PICK i \in 1..n : i = place[r] + 1 /\ i - 1 = place[r]
    BY <1>1, <1>2
  <2>2. InOrder(S, k, asc)[i] \in S /\ place[InOrder(S, k, asc)[i]] = place[r]
    BY <1>7, <2>1
  <2> QED BY <1>4, <2>1, <2>2
<1> QED BY <1>1, <1>7, <1>8, <1>9, <1>10 DEF n, place

(* A page: rows that are listed and beyond the marker, in order, without a *)
(* gap; the marker of the next request is its last row, or null.           *)
LEMMA PageWorks ==
  ASSUME NEW q, IsCall(q), q.limit > 0, listing \subseteq Rows
  PROVE  /\ PageOf(q) \in Seq(Rows)
         /\ RowsOf(PageOf(q)) \subseteq Beyond(q)
         /\ \A a, b \in DOMAIN PageOf(q) :
              a < b => Above(PageOf(q)[a], PageOf(q)[b], q.key, ~q.descending)
         /\ \A r \in Beyond(q), b \in DOMAIN PageOf(q) :
              Above(r, PageOf(q)[b], q.key, ~q.descending) => r \in RowsOf(PageOf(q))
         /\ PageOf(q) = <<>> => NextMarker(q, PageOf(q)) = q.marker
         /\ PageOf(q) # <<>> =>
              NextMarker(q, PageOf(q)) \in {NoRow, PageOf(q)[Len(PageOf(q))]}
         /\ NextMarker(q, PageOf(q)) \in Markers
<1> DEFINE S == Beyond(q)
           n == Cardinality(S)
           m == IF n < q.limit THEN n ELSE q.limit
           asc == ~q.descending
           o == InOrder(S, q.key, asc)
           page == PageOf(q)
<1>1. S \in SUBSET Rows /\ q.key \in Keys /\ asc \in BOOLEAN /\ q.limit \in Int
      /\ q.marker \in Markers
  BY DEF Beyond, IsCall
<1>2. page = [i \in 1..m |-> o[i]]
  BY DEF PageOf
<1> HIDE DEF S, asc, page
<1>3. /\ n \in Nat /\ o \in [1..n -> S]
      /\ \A a, b \in 1..n : a < b => Above(o[a], o[b], q.key, asc)
      /\ \A r \in S : o[Cardinality(Higher(S, r, q.key, asc)) + 1] = r
      /\ \A i \in 1..n : Cardinality(Higher(S, o[i], q.key, asc)) = i - 1
      /\ \A r \in S : Cardinality(Higher(S, r, q.key, asc)) \in 0..(n - 1)
      /\ \A r, s \in S : Above(r, s, q.key, asc) =>
           Cardinality(Higher(S, r, q.key, asc)) < Cardinality(Higher(S, s, q.key, asc))
  BY <1>1, InOrderWorks, HigherCounts
<1> HIDE DEF n, o
<1>4. m \in 0..n /\ m <= q.limit /\ (n > q.limit => m = q.limit)
  BY <1>1, <1>3
<1> HIDE DEF m
<1>5. page \in Seq(S) /\ Len(page) = m /\ DOMAIN page = 1..m
      /\ \A i \in 1..m : page[i] = o[i]
  BY <1>2, <1>3, <1>4
<1>6. page \in Seq(Rows)
  BY <1>1, <1>5
<1>7. RowsOf(page) \subseteq S
  BY <1>5 DEF RowsOf
<1>8. \A a, b \in DOMAIN page : a < b => Above(page[a], page[b], q.key, asc)
  BY <1>3, <1>4, <1>5
<1>9. ASSUME NEW r \in S, NEW b \in DOMAIN page, Above(r, page[b], q.key, asc)
      PROVE  r \in RowsOf(page)
  <2> DEFINE a == Cardinality(Higher(S, r, q.key, asc)) + 1
  <2>1. b \in 1..m /\ b \in 1..n /\ page[b] = o[b] /\ o[b] \in S
    BY <1>3, <1>4, <1>5
  <2>2. a - 1 < b - 1 /\ a \in 1..n /\ o[a] = r
    BY <1>3, <1>9, <2>1
  <2>3. a \in 1..m
    BY <1>3, <1>4, <2>1, <2>2
  <2> QED BY <1>5, <2>2, <2>3 DEF RowsOf
<1>10. /\ page = <<>> => NextMarker(q, page) = q.marker
       /\ page # <<>> => NextMarker(q, page) \in {NoRow, page[Len(page)]}
  BY <1>3, <1>4, <1>5 DEF NextMarker, n, S
<1>11. NextMarker(q, page) \in Markers
  <2>1. page # <<>> => page[Len(page)] \in Rows
    BY <1>6
  <2> QED BY <1>1, <1>10, <2>1 DEF Markers
<1> QED BY <1>6, <1>7, <1>8, <1>9, <1>10, <1>11 DEF page, S, asc

-----------------------------------------------------------------------------
(* Asking for a page changes no more than the calls that ask.              *)
LEMMA KickAsks ==
  ASSUME NEW t, NEW cs, NEW n, Kick(t, cs, n)
  PROVE  /\ table' = t
         /\ DOMAIN calls' = CallIds
         /\ \A c \in CallIds : calls'[c] = cs[c] \/ (Kicks(t) /\ calls'[c] = Request(t))
  BY DEF Kick

LEMMA LimitIsPositive ==
  ASSUME NEW t, IsTable(t)
  PROVE  Limit(t) \in Int /\ Limit(t) > 0
<1>1. t.numResults \in Int /\ PageSize \in Int /\ PageSize > 0
  BY TableAssumption DEF IsTable
<1>2. t.numResults % PageSize \in 0..(PageSize - 1)
  BY <1>1
<1> QED BY <1>1, <1>2 DEF Limit

(* No call is a call, and fits every table.                                *)
LEMMA NoCallFits ==
  /\ IsCall(NoCall)
  /\ \A t, rows, ever :
       IsTable(t) => Fits(t, NoCall) /\ Answers(t, NoCall, rows, ever)
<1>1. <<>> \in Seq(Rows) /\ FirstKey \in Keys
  BY TableAssumption
<1>2. IsCall(NoCall)
  BY <1>1 DEF IsCall, NoCall, Markers
<1> QED BY <1>2 DEF Fits, Answers, Live, Wanted, NoCall, IsTable

(* The request of a table is a call, and fits the table.                   *)
LEMMA RequestFits ==
  ASSUME NEW t, IsTable(t), Kicks(t), NEW rows, NEW ever
  PROVE  IsCall(Request(t)) /\ Fits(t, Request(t)) /\ Answers(t, Request(t), rows, ever)
<1>1. Limit(t) \in Int /\ Limit(t) > 0
  BY LimitIsPositive
<1>2. ToFill(t) \in Int /\ PageWithBefore(t) \in BOOLEAN
  <2>1. Cardinality(Loaded(t)) \in Nat
    BY FS_CardinalityType DEF IsTable
  <2> QED BY <2>1 DEF ToFill, PageWithBefore, IsTable
<1>3. IsCall(Request(t))
  <2>1. t.nonce \in Nat /\ t.key \in Keys /\ t.marker \in Markers
    BY DEF IsTable
  <2> QED BY <1>1, <1>2, <2>1, NoCallFits DEF IsCall, Request
<1>4. Fits(t, Request(t))
  BY <1>1 DEF Fits, Live, Wanted, Request, NoCall, Kicks, IsTable
<1> QED BY <1>3, <1>4 DEF Answers, Request, NoCall

-----------------------------------------------------------------------------
(* An empty table under a new nonce: no old call is live any more, and the *)
(* first request, if there is one, fits.                                   *)
LEMMA FreshTable ==
  ASSUME PageInv, NEW t, IsTable(t), t.pages = NoPages, t.marker = NoRow,
         t.nonce = table.nonce + 1, NEW n, Kick(t, calls, n), NEW ok, Forget(ok),
         listing' = listing
  PROVE  PageInv'
<1>1. Loaded(t) = {} /\ RowsShown(t) = {}
  BY DEF Loaded, RowsShown, NoPages
<1>2. table' = t /\ DOMAIN calls' = CallIds
      /\ \A c \in CallIds : calls'[c] = calls[c] \/ (Kicks(t) /\ calls'[c] = Request(t))
  BY KickAsks
<1>3. ASSUME NEW c \in CallIds
      PROVE  IsCall(calls'[c]) /\ Fits(t, calls'[c]) /\ Answers(t, calls'[c], kept', since')
  <2>1. CASE calls'[c] = calls[c]
    <3>1. IsCall(calls[c]) /\ Fits(table, calls[c]) /\ IsTable(table)
      BY DEF PageInv, TypeInv, CallsInv
    <3>2. calls[c].nonce \in Nat /\ calls[c].nonce <= table.nonce /\ table.nonce \in Nat
      BY <3>1 DEF IsCall, Fits, IsTable
    <3>3. calls[c].nonce <= t.nonce /\ calls[c].nonce # t.nonce
      BY <3>2
    <3> QED BY <2>1, <3>1, <3>3 DEF Fits, Answers, Live, Wanted
  <2>2. CASE Kicks(t) /\ calls'[c] = Request(t)
    BY <2>2, RequestFits
  <2> QED BY <1>2, <2>1, <2>2
<1>4. TypeInv'
  BY <1>2, <1>3 DEF PageInv, TypeInv, Forget
<1>5. CallsInv'
  BY <1>2, <1>3 DEF CallsInv
<1>6. TableInv'
  BY <1>1, <1>2 DEF TableInv, UpToMarker, FillsNext, Ordered, Gapless
<1> QED BY <1>4, <1>5, <1>6 DEF PageInv

(* What the invariants say of a table does not depend on the page the user *)
(* is on, nor on how far pages are wanted.                                 *)
LEMMA PageDoesNotMatter ==
  ASSUME NEW t, NEW u, NEW rows, NEW ever, NEW grown, NEW q,
         t.increment = u.increment, t.numPages = u.numPages, t.isPaging = u.isPaging,
         t.marker = u.marker, t.pages = u.pages, t.nonce = u.nonce, t.asc = u.asc,
         t.key = u.key
  PROVE  /\ Loaded(t) = Loaded(u) /\ RowsShown(t) = RowsShown(u)
         /\ Fits(t, q) <=> Fits(u, q)
         /\ Answers(t, q, rows, ever) <=> Answers(u, q, rows, ever)
         /\ UpToMarker(t, rows) <=> UpToMarker(u, rows)
         /\ FillsNext(t, grown) <=> FillsNext(u, grown)
         /\ Ordered(t) <=> Ordered(u)
         /\ Gapless(t, rows) <=> Gapless(u, rows)
<1>1. /\ Loaded(t) = Loaded(u) /\ RowsShown(t) = RowsShown(u)
      /\ ToFill(t) = ToFill(u) /\ PageWithBefore(t) = PageWithBefore(u)
      /\ \A r, s : Before(t, r, s) <=> Before(u, r, s)
  BY DEF Loaded, RowsShown, ToFill, PageWithBefore, Before
<1>2. Fits(t, q) <=> Fits(u, q)
  BY <1>1 DEF Fits, Live, Wanted
<1>3. Answers(t, q, rows, ever) <=> Answers(u, q, rows, ever)
  BY <1>1 DEF Answers, Live
<1>4. UpToMarker(t, rows) <=> UpToMarker(u, rows)
  BY <1>1 DEF UpToMarker
<1>5. FillsNext(t, grown) <=> FillsNext(u, grown)
  BY <1>1 DEF FillsNext
<1>6. Ordered(t) <=> Ordered(u)
  BY <1>1 DEF Ordered
<1>7. Gapless(t, rows) <=> Gapless(u, rows)
  BY <1>1 DEF Gapless
<1> QED BY <1>1, <1>2, <1>3, <1>4, <1>5, <1>6, <1>7

(* Nor does it matter which rows come and go: those kept become fewer,     *)
(* those listed since the table was emptied more.                          *)
LEMMA OthersMayChange ==
  ASSUME PageInv, UNCHANGED <<table, calls, outgrown>>,
         listing' \subseteq Rows, kept' \subseteq kept, kept' \subseteq listing',
         since \subseteq since', listing' \subseteq since'
  PROVE  PageInv'
<1>1. TypeInv'
  BY DEF PageInv, TypeInv
<1>2. CallsInv'
  <2> SUFFICES ASSUME NEW c \in CallIds
               PROVE  Fits(table, calls[c]) /\ Answers(table, calls[c], kept', since')
    BY DEF CallsInv
  <2>1. Fits(table, calls[c]) /\ Answers(table, calls[c], kept, since)
    BY DEF PageInv, CallsInv
  <2> QED BY <2>1 DEF Answers
<1>3. TableInv'
  <2>1. UpToMarker(table, kept')
    BY DEF PageInv, TableInv, UpToMarker
  <2>2. Gapless(table, kept')
    BY DEF PageInv, TableInv, Gapless
  <2> QED BY <2>1, <2>2 DEF PageInv, TableInv
<1> QED BY <1>1, <1>2, <1>3 DEF PageInv

(* A step of one call.                                                     *)
LEMMA OneCallMoves ==
  ASSUME PageInv, NEW c \in CallIds, NEW q, calls' = [calls EXCEPT ![c] = q],
         IsCall(q), Fits(table, q), Answers(table, q, kept, since),
         UNCHANGED <<table, listing, history>>
  PROVE  PageInv'
<1>1. TypeInv'
  BY DEF PageInv, TypeInv, history
<1>2. CallsInv'
  BY DEF PageInv, TypeInv, CallsInv, history
<1>3. TableInv'
  BY DEF PageInv, TableInv, history
<1> QED BY <1>1, <1>2, <1>3 DEF PageInv

-----------------------------------------------------------------------------
(* Turned round, a page has the same rows, the last one first.             *)
LEMMA ReversedWorks ==
  ASSUME NEW d \in Seq(Rows)
  PROVE  /\ Reversed(d) \in Seq(Rows) /\ DOMAIN Reversed(d) = DOMAIN d
         /\ RowsOf(Reversed(d)) = RowsOf(d)
         /\ \A a \in DOMAIN d : /\ Len(d) + 1 - a \in DOMAIN d
                                /\ Reversed(d)[a] = d[Len(d) + 1 - a]
<1>1. Len(d) \in Nat /\ DOMAIN d = 1..Len(d) /\ \A a \in 1..Len(d) : d[a] \in Rows
  OBVIOUS
<1>2. \A a \in 1..Len(d) : Len(d) + 1 - a \in 1..Len(d)
                           /\ Len(d) + 1 - (Len(d) + 1 - a) = a
  BY <1>1
<1>3. Reversed(d) = [a \in 1..Len(d) |-> d[Len(d) + 1 - a]]
  BY <1>1 DEF Reversed
<1>4. Reversed(d) \in Seq(Rows) /\ DOMAIN Reversed(d) = DOMAIN d
  BY <1>1, <1>2, <1>3
<1>5. RowsOf(Reversed(d)) = RowsOf(d)
  <2>1. ASSUME NEW r \in RowsOf(d)
        PROVE  r \in RowsOf(Reversed(d))
    <3>1. PICK a \in 1..Len(d) : r = d[a]
      BY <1>1 DEF RowsOf
    <3>2. PICK b \in 1..Len(d) : b = Len(d) + 1 - a /\ Len(d) + 1 - b = a
      BY <1>2
    <3>3. Reversed(d)[b] = r
      BY <1>3, <3>1, <3>2
    <3> QED BY <1>1, <1>4, <3>3 DEF RowsOf
  <2>2. ASSUME NEW r \in RowsOf(Reversed(d))
        PROVE  r \in RowsOf(d)
    <3>1. PICK a \in 1..Len(d) : r = Reversed(d)[a]
      BY <1>1, <1>4 DEF RowsOf
    <3>2. r = d[Len(d) + 1 - a]
      BY <1>3, <3>1
    <3> QED BY <1>1, <1>2, <3>2 DEF RowsOf
  <2> QED BY <2>1, <2>2
<1> QED BY <1>1, <1>2, <1>3, <1>4, <1>5

LEMMA FarthestIsInt ==
  ASSUME NEW p \in Int, NEW n \in Int, NEW inc \in {1, -1}
  PROVE  FarthestPage(p, n, inc) \in Int
  BY TableAssumption DEF FarthestPage

(* What the table becomes when the page it lacks is received.              *)
LEMMA FilledTable ==
  ASSUME NEW t, IsTable(t), NEW q, IsCall(q), q.index \notin Loaded(t),
         NEW u, u = Filled(t, q)
  PROVE  /\ IsTable(u)
         /\ u.increment = t.increment /\ u.key = t.key /\ u.asc = t.asc
         /\ u.nonce = t.nonce /\ u.marker = q.next /\ u.isPaging = (q.next # NoRow)
         /\ u.numPages = CeilDiv(q.count, PageSize) /\ u.numResults = q.count
         /\ Loaded(u) = Loaded(t) \cup {q.index}
         /\ Cardinality(Loaded(u)) = Cardinality(Loaded(t)) + 1
         /\ Cardinality(Loaded(t)) \in Nat
         /\ \A i \in Loaded(t) : u.pages[i] = t.pages[i]
         /\ u.pages[q.index] = IF t.increment = 1 THEN q.data ELSE Reversed(q.data)
         /\ RowsShown(u) = RowsShown(t) \cup RowsOf(q.data)
         /\ \A r, s : Before(u, r, s) <=> Before(t, r, s)
<1> DEFINE n == CeilDiv(q.count, PageSize)
           p == IF t.page >= n THEN 0 ELSE t.page
           shown == IF t.increment = 1 THEN q.data ELSE Reversed(q.data)
           ps == [i \in Loaded(t) \cup {q.index} |-> IF i = q.index THEN shown ELSE t.pages[i]]
           far == FarthestPage(p, n, t.increment)
<1>1. q.data \in Seq(Rows) /\ q.next \in Markers /\ q.count \in Int /\ q.index \in Int
  BY DEF IsCall
<1>2. n \in Int
  BY <1>1, TableAssumption DEF CeilDiv
<1>3. p \in Int
  BY <1>2 DEF IsTable
<1> HIDE DEF n, p
<1>4. far \in Int
  BY <1>2, <1>3, FarthestIsInt DEF IsTable
<1>5. shown \in Seq(Rows) /\ RowsOf(shown) = RowsOf(q.data)
  BY <1>1, ReversedWorks
<1> HIDE DEF n, p, shown, ps, far
<1>6. u = [t EXCEPT !.pages = ps, !.marker = q.next, !.isPaging = q.next # NoRow,
                    !.numPages = n, !.numResults = q.count, !.page = p, !.farthest = far]
  BY DEF Filled, n, p, shown, ps, far
<1>7. /\ u.increment = t.increment /\ u.key = t.key /\ u.asc = t.asc
      /\ u.nonce = t.nonce /\ u.marker = q.next /\ u.isPaging = (q.next # NoRow)
      /\ u.numPages = n /\ u.pages = ps
      /\ u.numResults = q.count /\ u.page = p /\ u.farthest = far
  BY <1>6 DEF IsTable
<1>8. /\ DOMAIN ps = Loaded(t) \cup {q.index} /\ ps[q.index] = shown
      /\ \A i \in Loaded(t) : ps[i] = t.pages[i]
  BY DEF ps
<1>9. Loaded(u) = Loaded(t) \cup {q.index}
  BY <1>7, <1>8 DEF Loaded
<1>10. /\ IsFiniteSet(Loaded(u)) /\ Cardinality(Loaded(u)) = Cardinality(Loaded(t)) + 1
       /\ Cardinality(Loaded(t)) \in Nat
  <2>1. IsFiniteSet(Loaded(t))
    BY DEF IsTable
  <2>2. /\ IsFiniteSet(Loaded(t) \cup {q.index})
        /\ Cardinality(Loaded(t) \cup {q.index}) = Cardinality(Loaded(t)) + 1
    BY <2>1, FS_AddElement
  <2>3. Cardinality(Loaded(t)) \in Nat
    BY <2>1, FS_CardinalityType
  <2> QED BY <1>9, <2>2, <2>3
<1>11. \A i \in Loaded(u) : u.pages[i] \in Seq(Rows)
  BY <1>5, <1>7, <1>8, <1>9 DEF IsTable
<1>12. t \in [increment : {1, -1}, page : Int, numPages : Int, numResults : Int,
             farthest : Int, isPaging : BOOLEAN, marker : Markers, pages : {t.pages},
             nonce : Nat, asc : BOOLEAN, key : Keys]
  BY DEF IsTable
<1>13. u \in [increment : {1, -1}, page : Int, numPages : Int, numResults : Int,
              farthest : Int, isPaging : BOOLEAN, marker : Markers, pages : {u.pages},
              nonce : Nat, asc : BOOLEAN, key : Keys]
  BY <1>1, <1>2, <1>3, <1>4, <1>6, <1>12
<1>14. IsTable(u)
  BY <1>1, <1>9, <1>10, <1>11, <1>13 DEF IsTable
<1>15. RowsShown(u) = RowsShown(t) \cup RowsOf(q.data)
  BY <1>5, <1>7, <1>8, <1>9 DEF RowsShown
<1>16. \A r, s : Before(u, r, s) <=> Before(t, r, s)
  BY <1>7 DEF Before
<1> QED BY <1>7, <1>8, <1>9, <1>10, <1>14, <1>15, <1>16 DEF n, shown

(* An answer that is wanted fits the table as it is, whichever end it is   *)
(* paged from: what the invariants say is kept.                            *)
LEMMA FillingKeeps ==
  ASSUME PageInv, NEW q, IsCall(q), q.phase = "answered", Wanted(table, q),
         Fits(table, q), Answers(table, q, kept, since),
         NEW u, u = Filled(table, q),
         NEW grown, grown = (outgrown \/ Outgrows(table, q))
  PROVE  /\ UpToMarker(u, kept) /\ FillsNext(u, grown) /\ (~grown => Ordered(u))
         /\ Gapless(u, kept) /\ RowsShown(u) \subseteq since
<1> DEFINE t == table
<1>1. /\ IsTable(t) /\ UpToMarker(t, kept) /\ FillsNext(t, outgrown)
      /\ ~outgrown => Ordered(t)
      /\ Gapless(t, kept) /\ RowsShown(t) \subseteq since
      /\ kept \subseteq Rows /\ outgrown \in BOOLEAN
  BY DEF PageInv, TypeInv, TableInv
<1>2. q.index = ToFill(t) /\ q.index \notin Loaded(t) /\ q.marker = t.marker /\ t.isPaging
  BY DEF Fits, Wanted
<1>3. /\ IsTable(u)
      /\ u.increment = t.increment /\ u.key = t.key /\ u.asc = t.asc
      /\ u.nonce = t.nonce /\ u.marker = q.next /\ u.isPaging = (q.next # NoRow)
      /\ u.numPages = CeilDiv(q.count, PageSize)
      /\ Loaded(u) = Loaded(t) \cup {q.index}
      /\ Cardinality(Loaded(u)) = Cardinality(Loaded(t)) + 1
      /\ Cardinality(Loaded(t)) \in Nat
      /\ \A i \in Loaded(t) : u.pages[i] = t.pages[i]
      /\ u.pages[q.index] = IF t.increment = 1 THEN q.data ELSE Reversed(q.data)
      /\ RowsShown(u) = RowsShown(t) \cup RowsOf(q.data)
      /\ \A r, s : Before(u, r, s) <=> Before(t, r, s)
  BY <1>1, <1>2, FilledTable
<1>4. /\ RowsOf(q.data) \subseteq since
      /\ \A a \in DOMAIN q.data : q.marker = NoRow \/ Before(t, q.marker, q.data[a])
      /\ \A a, b \in DOMAIN q.data : a < b => Before(t, q.data[a], q.data[b])
      /\ \A r \in kept, b \in DOMAIN q.data :
           (q.marker = NoRow \/ Before(t, q.marker, r)) /\ Before(t, r, q.data[b])
             => r \in RowsOf(q.data)
      /\ q.data = <<>> => q.next = q.marker
      /\ q.data # <<>> => q.next \in {NoRow, q.data[Len(q.data)]}
  BY DEF Answers, Wanted
<1>5. /\ q.data \in Seq(Rows) /\ RowsOf(q.data) \subseteq Rows /\ t.marker \in Markers
      /\ Len(q.data) \in Nat /\ DOMAIN q.data = 1..Len(q.data)
      /\ q.data = <<>> <=> Len(q.data) = 0
      /\ \A r \in RowsOf(q.data) : \E a \in 1..Len(q.data) : r = q.data[a]
      /\ \A a \in 1..Len(q.data) : q.data[a] \in RowsOf(q.data)
      /\ t.marker # NoRow => t.marker \in Rows
  BY <1>1 DEF IsCall, RowsOf, IsTable, Markers
<1>6. /\ RowsShown(t) \subseteq Rows
      /\ \A i \in Loaded(t) : \A a \in DOMAIN t.pages[i] : t.pages[i][a] \in RowsShown(t)
  BY <1>1 DEF RowsShown, RowsOf, IsTable
<1>7. /\ \A r \in Rows : ~Before(t, r, r)
      /\ \A r, s \in Rows : r = s \/ Before(t, r, s) \/ Before(t, s, r)
      /\ \A r, s, v \in Rows : Before(t, r, s) /\ Before(t, s, v) => Before(t, r, v)
      /\ \A r, s \in Rows :
           Above(r, s, t.key, t.asc)
             <=> IF t.increment = 1 THEN Before(t, r, s) ELSE Before(t, s, r)
  <2>1. t.key \in Keys /\ t.asc \in BOOLEAN /\ t.increment \in {1, -1}
    BY <1>1 DEF IsTable
  <2>2. (t.asc = (t.increment = 1)) = IF t.increment = 1 THEN t.asc ELSE ~t.asc
    BY <2>1
  <2> QED BY <2>1, <2>2, AboveIsOrder DEF Before
<1> HIDE DEF t
\* The rows shown come before those of the page.
<1>8. ASSUME NEW s \in RowsShown(t), NEW r \in RowsOf(q.data)
      PROVE  Before(t, s, r)
  <2>1. t.marker # NoRow
    BY <1>1, <1>2 DEF UpToMarker, RowsShown
  <2>2. s = t.marker \/ Before(t, s, t.marker)
    BY <1>1, <2>1 DEF UpToMarker
  <2>3. Before(t, t.marker, r)
    BY <1>2, <1>4, <1>5, <2>1
  <2> QED BY <1>5, <1>6, <1>7, <2>1, <2>2, <2>3
\* A row kept that comes before one of the page is shown or on the page.
<1>9. ASSUME NEW r \in kept, NEW s \in RowsOf(q.data), Before(t, r, s)
      PROVE  r \in RowsShown(t) \cup RowsOf(q.data)
  <2>1. CASE t.marker = NoRow \/ Before(t, t.marker, r)
    BY <1>2, <1>4, <1>5, <1>9, <2>1
  <2>2. CASE t.marker # NoRow /\ ~Before(t, t.marker, r)
    <3>1. r = t.marker \/ Before(t, r, t.marker)
      BY <1>1, <1>5, <1>7, <2>2
    <3> QED BY <1>1, <2>2, <3>1 DEF UpToMarker
  <2> QED BY <2>1, <2>2
<1>10. UpToMarker(u, kept)
  <2>1. CASE q.next = NoRow
    BY <1>3, <2>1 DEF UpToMarker
  <2>2. CASE q.next # NoRow /\ q.data = <<>>
    <3>1. RowsOf(q.data) = {} /\ u.marker = t.marker
      BY <1>2, <1>3, <1>4, <1>5, <2>2
    <3> QED BY <1>1, <1>3, <2>2, <3>1 DEF UpToMarker
  <2>3. CASE q.next # NoRow /\ q.data # <<>>
    <3> DEFINE z == q.data[Len(q.data)]
    <3>1. Len(q.data) \in DOMAIN q.data /\ u.marker = z /\ z \in RowsOf(q.data) /\ z \in Rows
      BY <1>3, <1>4, <1>5, <2>3
    <3> HIDE DEF z
    <3>2. \A s \in RowsOf(q.data) : s = z \/ Before(t, s, z)
      <4> SUFFICES ASSUME NEW s \in RowsOf(q.data) PROVE s = z \/ Before(t, s, z)
        OBVIOUS
      <4>1. PICK a \in 1..Len(q.data) : s = q.data[a]
        BY <1>5
      <4>2. a = Len(q.data) \/ a < Len(q.data)
        BY <1>5
      <4> QED BY <1>4, <1>5, <3>1, <4>1, <4>2 DEF z
    <3>3. \A s \in RowsShown(t) : Before(t, s, z)
      BY <1>8, <3>1
    <3>4. \A r \in kept : r = z \/ Before(t, r, z) => r \in RowsShown(u)
      BY <1>3, <1>9, <3>1
    <3> QED BY <1>3, <2>3, <3>1, <3>2, <3>3, <3>4 DEF UpToMarker
  <2> QED BY <2>1, <2>2, <2>3
<1>11. FillsNext(u, grown)
  <2>1. t.increment \in {1, -1} /\ Loaded(t) \subseteq Int /\ t.numPages \in Int
        /\ u.numPages \in Int
    BY <1>1, <1>3 DEF IsTable
  <2>2. CASE t.increment = 1
    BY <1>1, <1>2, <1>3, <2>1, <2>2 DEF FillsNext, ToFill
  <2>3. CASE t.increment = -1
    <3> SUFFICES ASSUME NEW i \in Loaded(u), ~grown PROVE i >= ToFill(u)
      BY <1>3, <2>3 DEF FillsNext
    <3>1. ~outgrown /\ u.numPages <= t.numPages + 1
      <4>1. ~outgrown /\ ~Outgrows(t, q)
        BY Zenon DEF t
      <4> QED BY <1>3, <2>1, <2>3, <4>1 DEF Outgrows
    <3>2. /\ ToFill(u) = u.numPages - 1 - (Cardinality(Loaded(t)) + 1)
          /\ ToFill(t) = t.numPages - 1 - Cardinality(Loaded(t))
      BY <1>3, <2>3 DEF ToFill
    <3>3. ToFill(u) <= ToFill(t) /\ ToFill(t) \in Int /\ ToFill(u) \in Int
      BY <1>3, <2>1, <3>1, <3>2
    <3>4. i >= ToFill(t)
      BY <1>1, <1>2, <1>3, <2>3, <3>1, <3>3 DEF FillsNext
    <3> QED BY <1>2, <1>3, <2>1, <3>3, <3>4
  <2> QED BY <2>1, <2>2, <2>3
<1>12. Gapless(u, kept)
  BY <1>1, <1>3, <1>8, <1>9 DEF Gapless
<1>13. RowsShown(u) \subseteq since
  BY <1>1, <1>3, <1>4
<1>14. ASSUME ~grown
       PROVE  Ordered(u)
  <2> SUFFICES ASSUME NEW i \in Loaded(u), NEW j \in Loaded(u),
                      NEW a \in DOMAIN u.pages[i], NEW b \in DOMAIN u.pages[j],
                      i < j \/ (i = j /\ a < b)
               PROVE  Above(u.pages[i][a], u.pages[j][b], t.key, t.asc)
    BY <1>3 DEF Ordered
  <2>1. /\ ~outgrown /\ Ordered(t)
        /\ t.increment \in {1, -1} /\ Loaded(t) \subseteq Int /\ q.index \in Int
    BY <1>1, <1>14 DEF IsTable, IsCall
  <2>2. \A l \in Loaded(t) : IF t.increment = 1 THEN l < q.index ELSE l > q.index
    <3> SUFFICES ASSUME NEW l \in Loaded(t)
                 PROVE  IF t.increment = 1 THEN l < q.index ELSE l > q.index
      OBVIOUS
    <3>1. CASE t.increment = 1
      BY <1>1, <1>2, <2>1, <3>1 DEF FillsNext, ToFill
    <3>2. CASE t.increment = -1
      <4>1. l >= q.index /\ l # q.index /\ l \in Int /\ q.index \in Int
        BY <1>1, <1>2, <2>1, <3>2 DEF FillsNext, IsCall
      <4> QED BY <3>2, <4>1
    <3> QED BY <2>1, <3>1, <3>2
  <2>3. \A x \in DOMAIN u.pages[q.index] : u.pages[q.index][x] \in RowsOf(q.data)
    <3>1. RowsOf(u.pages[q.index]) = RowsOf(q.data)
      BY <1>3, <1>5, ReversedWorks
    <3> QED BY <3>1 DEF RowsOf
  <2>4. CASE i \in Loaded(t) /\ j \in Loaded(t)
    BY <1>3, <2>1, <2>4 DEF Ordered
  <2>5. CASE i \in Loaded(t) /\ j = q.index
    <3>1. u.pages[i][a] \in RowsShown(t) /\ u.pages[j][b] \in RowsOf(q.data)
      BY <1>2, <1>3, <1>6, <2>5, <2>3
    <3>2. i < q.index /\ i \in Int
      BY <1>2, <2>1, <2>5
    <3>3. t.increment = 1
      BY <2>1, <2>2, <2>5, <3>2
    <3> QED BY <1>5, <1>6, <1>7, <1>8, <3>1, <3>3
  <2>6. CASE i = q.index /\ j \in Loaded(t)
    <3>1. u.pages[i][a] \in RowsOf(q.data) /\ u.pages[j][b] \in RowsShown(t)
      BY <1>2, <1>3, <1>6, <2>6, <2>3
    <3>2. q.index < j /\ j \in Int
      BY <1>2, <2>1, <2>6
    <3>3. t.increment = -1
      BY <2>1, <2>2, <2>6, <3>2
    <3> QED BY <1>5, <1>6, <1>7, <1>8, <3>1, <3>3
  <2>7. CASE i = q.index /\ j = q.index
    <3> DEFINE m == Len(q.data)
    <3>1. a < b
      BY <2>7 DEF IsCall
    <3>2. CASE t.increment = 1
      <4>1. u.pages[i] = q.data /\ u.pages[j] = q.data
        BY <1>3, <2>7, <3>2
      <4>2. Before(t, q.data[a], q.data[b])
        BY <1>4, <3>1, <4>1
      <4>3. q.data[a] \in Rows /\ q.data[b] \in Rows
        BY <1>5, <4>1
      <4> QED BY <1>7, <3>2, <4>1, <4>2, <4>3
    <3>3. CASE t.increment = -1
      <4>1. u.pages[i] = Reversed(q.data) /\ u.pages[j] = Reversed(q.data)
        BY <1>3, <2>7, <3>3
      <4>2. /\ a \in DOMAIN q.data /\ b \in DOMAIN q.data
            /\ m + 1 - a \in DOMAIN q.data /\ m + 1 - b \in DOMAIN q.data
            /\ Reversed(q.data)[a] = q.data[m + 1 - a]
            /\ Reversed(q.data)[b] = q.data[m + 1 - b]
        BY <1>5, <4>1, ReversedWorks
      <4>3. m + 1 - b < m + 1 - a
        BY <1>5, <3>1, <4>2
      <4>4. Before(t, q.data[m + 1 - b], q.data[m + 1 - a])
        BY <1>4, <4>2, <4>3
      <4>5. q.data[m + 1 - a] \in Rows /\ q.data[m + 1 - b] \in Rows
        BY <1>5, <4>2
      <4> QED BY <1>7, <3>3, <4>1, <4>2, <4>4, <4>5
    <3> QED BY <2>1, <3>2, <3>3
  <2> QED BY <1>3, <2>4, <2>5, <2>6, <2>7
<1> QED BY <1>10, <1>11, <1>12, <1>13, <1>14

-----------------------------------------------------------------------------
LEMMA EmptyPages == DOMAIN NoPages = {} /\ IsFiniteSet(DOMAIN NoPages)
  BY FS_EmptySet DEF NoPages

(* What a table is after it was emptied.                                   *)
LEMMA EmptiedTable ==
  ASSUME NEW t, IsTable(t)
  PROVE  /\ Emptied(t) = [increment |-> 1, page |-> t.page, numPages |-> 0,
              numResults |-> 0, farthest |-> 0, isPaging |-> TRUE, marker |-> NoRow,
              pages |-> NoPages, nonce |-> t.nonce + 1, asc |-> t.asc, key |-> t.key]
         /\ t.page \in Int /\ t.nonce + 1 \in Nat /\ t.asc \in BOOLEAN /\ t.key \in Keys
         /\ t.numPages \in Int /\ t.numResults \in Int /\ t.increment \in {1, -1}
<1>1. t \in [increment : {1, -1}, page : Int, numPages : Int, numResults : Int,
             farthest : Int, isPaging : BOOLEAN, marker : Markers, pages : {t.pages},
             nonce : Nat, asc : BOOLEAN, key : Keys]
  BY DEF IsTable
<1> DEFINE e == Emptied(t)
<1>2. e = [t EXCEPT !.marker = NoRow, !.farthest = 0, !.increment = 1, !.isPaging = TRUE,
                    !.numPages = 0, !.numResults = 0, !.pages = NoPages,
                    !.nonce = t.nonce + 1]
  BY DEF Emptied
<1> HIDE DEF e
<1>3. e = [increment |-> 1, page |-> t.page, numPages |-> 0, numResults |-> 0,
           farthest |-> 0, isPaging |-> TRUE, marker |-> NoRow, pages |-> NoPages,
           nonce |-> t.nonce + 1, asc |-> t.asc, key |-> t.key]
  BY <1>1, <1>2
<1> QED BY <1>1, <1>3 DEF e

(* A table without pages.                                                  *)
LEMMA PagelessTable ==
  ASSUME NEW inc \in {1, -1}, NEW p \in Int, NEW n \in Int, NEW m \in Int,
         NEW far \in Int, NEW nonce \in Nat, NEW asc \in BOOLEAN, NEW k \in Keys
  PROVE  IsTable([increment |-> inc, page |-> p, numPages |-> n, numResults |-> m,
                  farthest |-> far, isPaging |-> TRUE, marker |-> NoRow,
                  pages |-> NoPages, nonce |-> nonce, asc |-> asc, key |-> k])
  BY EmptyPages DEF IsTable, Loaded, Markers

LEMMA ReloadedTable ==
  ASSUME NEW t, IsTable(t), NEW p \in Int
  PROVE  Reload(t, p) = [increment |-> 1, page |-> p, numPages |-> 0,
            numResults |-> 0, farthest |-> 0, isPaging |-> TRUE, marker |-> NoRow,
            pages |-> NoPages, nonce |-> t.nonce + 1, asc |-> t.asc, key |-> t.key]
<1> DEFINE e == Emptied(t)
           u == Reload(t, p)
<1>1. u = [e EXCEPT !.page = p]
  BY DEF Reload
<1>2. e = [increment |-> 1, page |-> t.page, numPages |-> 0, numResults |-> 0,
           farthest |-> 0, isPaging |-> TRUE, marker |-> NoRow, pages |-> NoPages,
           nonce |-> t.nonce + 1, asc |-> t.asc, key |-> t.key]
  BY EmptiedTable
<1> HIDE DEF e, u
<1>3. u = [increment |-> 1, page |-> p, numPages |-> 0, numResults |-> 0,
           farthest |-> 0, isPaging |-> TRUE, marker |-> NoRow, pages |-> NoPages,
           nonce |-> t.nonce + 1, asc |-> t.asc, key |-> t.key]
  BY <1>1, <1>2
<1> QED BY <1>3 DEF u

(* What a table is after it was turned round, and after it was sorted.     *)
LEMMA ReversedTable ==
  ASSUME NEW t, IsTable(t), NEW inc, NEW p, NEW far, NEW u,
         u = [Emptied(t) EXCEPT !.increment = inc, !.page = p, !.numPages = t.numPages,
                                !.farthest = far, !.numResults = t.numResults]
  PROVE  u = [increment |-> inc, page |-> p, numPages |-> t.numPages,
              numResults |-> t.numResults, farthest |-> far, isPaging |-> TRUE,
              marker |-> NoRow, pages |-> NoPages, nonce |-> t.nonce + 1,
              asc |-> t.asc, key |-> t.key]
<1> DEFINE e == Emptied(t)
<1>1. u = [e EXCEPT !.increment = inc, !.page = p, !.numPages = t.numPages,
                    !.farthest = far, !.numResults = t.numResults]
  OBVIOUS
<1>2. e = [increment |-> 1, page |-> t.page, numPages |-> 0, numResults |-> 0,
           farthest |-> 0, isPaging |-> TRUE, marker |-> NoRow, pages |-> NoPages,
           nonce |-> t.nonce + 1, asc |-> t.asc, key |-> t.key]
  BY EmptiedTable
<1> HIDE DEF e
<1> QED BY <1>1, <1>2

LEMMA SortedTable ==
  ASSUME NEW t, IsTable(t), NEW k, NEW asc \in BOOLEAN, NEW u,
         u = [Reload(t, 0) EXCEPT !.key = k, !.asc = asc]
  PROVE  u = [increment |-> 1, page |-> 0, numPages |-> 0, numResults |-> 0,
              farthest |-> 0, isPaging |-> TRUE, marker |-> NoRow, pages |-> NoPages,
              nonce |-> t.nonce + 1, asc |-> asc, key |-> k]
<1> DEFINE e == Reload(t, 0)
<1>1. u = [e EXCEPT !.key = k, !.asc = asc]
  OBVIOUS
<1>2. e = [increment |-> 1, page |-> 0, numPages |-> 0, numResults |-> 0,
           farthest |-> 0, isPaging |-> TRUE, marker |-> NoRow, pages |-> NoPages,
           nonce |-> t.nonce + 1, asc |-> t.asc, key |-> t.key]
  BY ReloadedTable
<1> HIDE DEF e
<1> QED BY <1>1, <1>2

(* A table that is reloaded starts afresh.                                 *)
LEMMA ReloadStarts ==
  ASSUME PageInv, NEW p \in Int, Kick(Reload(table, p), calls, 1), Forget(TRUE),
         listing' = listing
  PROVE  PageInv'
<1> DEFINE u == Reload(table, p)
<1>1. IsTable(table)
  BY DEF PageInv, TypeInv
<1>2. /\ u = [increment |-> 1, page |-> p, numPages |-> 0, numResults |-> 0,
               farthest |-> 0, isPaging |-> TRUE, marker |-> NoRow, pages |-> NoPages,
               nonce |-> table.nonce + 1, asc |-> table.asc, key |-> table.key]
      /\ table.nonce + 1 \in Nat /\ table.asc \in BOOLEAN /\ table.key \in Keys
  BY <1>1, EmptiedTable, ReloadedTable
<1> HIDE DEF u
<1>3. 0 \in Int /\ 1 \in {1, -1}
  OBVIOUS
<1>4. IsTable(u)
  BY <1>2, <1>3, PagelessTable
<1>5. u.pages = NoPages /\ u.marker = NoRow /\ u.nonce = table.nonce + 1
  BY <1>2
<1> QED BY <1>4, <1>5, FreshTable DEF u

(* Every step keeps the invariant.                                         *)
LEMMA PageStep == PageInv /\ [TableNext]_tableVars => PageInv'
<1> SUFFICES ASSUME PageInv, [TableNext]_tableVars PROVE PageInv'
  OBVIOUS
<1>1. /\ IsTable(table) /\ DOMAIN calls = CallIds
      /\ \A c \in CallIds : IsCall(calls[c]) /\ Fits(table, calls[c])
                            /\ Answers(table, calls[c], kept, since)
      /\ listing \subseteq Rows /\ kept \subseteq listing /\ listing \subseteq since
      /\ outgrown \in BOOLEAN
  BY DEF PageInv, TypeInv, CallsInv
<1>2. CASE MountTable
  <2>1. PICK p \in StartPages : Kick(Reload(table, p), calls, 1)
    BY <1>2 DEF MountTable
  <2>2. p \in Int
    BY TableAssumption
  <2>3. Forget(TRUE) /\ listing' = listing
    BY <1>2 DEF MountTable, Sees
  <2> QED BY <1>1, <2>1, <2>2, <2>3, ReloadStarts
<1>3. CASE Click
  <2>1. UNCHANGED listing
    BY <1>3 DEF Click, Sees
  <2>2. ASSUME NEW p \in Int, Navigate(p)
        PROVE  PageInv'
    <3> DEFINE u == [table EXCEPT !.page = p,
                       !.farthest = FarthestPage(p, table.numPages, table.increment)]
    <3>1. FarthestPage(p, table.numPages, table.increment) \in Int
      BY <1>1, FarthestIsInt DEF IsTable
    <3>2. /\ u.increment = table.increment /\ u.numPages = table.numPages
          /\ u.isPaging = table.isPaging /\ u.marker = table.marker
          /\ u.pages = table.pages /\ u.nonce = table.nonce /\ u.asc = table.asc
          /\ u.key = table.key
      BY <1>1 DEF IsTable
    <3>3. IsTable(u)
      BY <1>1, <3>1 DEF IsTable, Loaded
    <3>4. Kick(u, calls, 1) /\ UNCHANGED history
      BY <2>2 DEF Navigate
    <3> HIDE DEF u
    <3>5. table' = u /\ DOMAIN calls' = CallIds
          /\ \A c \in CallIds : calls'[c] = calls[c] \/ (Kicks(u) /\ calls'[c] = Request(u))
      BY <3>4, KickAsks
    <3>6. ASSUME NEW c \in CallIds
          PROVE  IsCall(calls'[c]) /\ Fits(u, calls'[c]) /\ Answers(u, calls'[c], kept, since)
      <4>1. CASE calls'[c] = calls[c]
        BY <1>1, <3>2, <4>1, PageDoesNotMatter
      <4>2. CASE Kicks(u) /\ calls'[c] = Request(u)
        BY <3>3, <4>2, RequestFits
      <4> QED BY <3>5, <4>1, <4>2
    <3>7. TypeInv'
      BY <1>1, <2>1, <3>3, <3>4, <3>5, <3>6 DEF TypeInv, history
    <3>8. CallsInv'
      BY <3>4, <3>5, <3>6 DEF CallsInv, history
    <3>9. TableInv'
      <4>1. /\ UpToMarker(u, kept) /\ FillsNext(u, outgrown) /\ (~outgrown => Ordered(u))
            /\ Gapless(u, kept) /\ RowsShown(u) \subseteq since
        BY <3>2, PageDoesNotMatter DEF PageInv, TableInv
      <4> QED BY <3>4, <3>5, <4>1 DEF TableInv, history
    <3> QED BY <3>7, <3>8, <3>9 DEF PageInv
  <2>3. ASSUME Reverse
        PROVE  PageInv'
    <3> DEFINE inc == -table.increment
               p == IF inc = 1 THEN 0 ELSE table.numPages - 1
               far == FarthestPage(p, table.numPages, inc)
               u == [Emptied(table) EXCEPT
                       !.increment = inc, !.page = p, !.numPages = table.numPages,
                       !.farthest = far, !.numResults = table.numResults]
    <3>1. inc \in {1, -1} /\ p \in Int /\ table.numPages \in Int
      BY <1>1 DEF IsTable
    <3>2. far \in Int
      BY <3>1, FarthestIsInt
    <3>3. Kick(u, calls, 1) /\ Forget(table.numResults = Cardinality(listing))
      BY <2>3 DEF Reverse
    <3> HIDE DEF inc, p, far
    <3>4. u = [increment |-> inc, page |-> p, numPages |-> table.numPages,
               numResults |-> table.numResults, farthest |-> far, isPaging |-> TRUE,
               marker |-> NoRow, pages |-> NoPages, nonce |-> table.nonce + 1,
               asc |-> table.asc, key |-> table.key]
      <4> DEFINE e == Emptied(table)
      <4>1. u = [e EXCEPT !.increment = inc, !.page = p, !.numPages = table.numPages,
                          !.farthest = far, !.numResults = table.numResults]
        OBVIOUS
      <4> HIDE DEF u
      <4> QED BY ZenonT(60), <1>1, <4>1, ReversedTable DEF e
    <3> HIDE DEF u
    <3>5. IsTable(u)
      BY <1>1, <3>1, <3>2, <3>4, EmptiedTable, PagelessTable
    <3>6. u.pages = NoPages /\ u.marker = NoRow /\ u.nonce = table.nonce + 1
      BY <3>4
    <3> QED BY <2>1, <3>3, <3>5, <3>6, FreshTable
  <2>4. Interior \cup Adjacent \subseteq Int /\ Near \in Int
    BY <1>1, TableAssumption DEF Interior, Adjacent, Near, IsTable
  <2> QED BY <1>3, <2>2, <2>3, <2>4 DEF Click
<1>4. CASE ModalDelete
  BY <1>1, <1>4, OthersMayChange DEF ModalDelete
<1>5. CASE Refresh
  <2>1. Kick(Reload(table, table.page), calls, 1) /\ Forget(TRUE) /\ listing' = listing
    BY <1>5 DEF Refresh, Sees
  <2>2. table.page \in Int
    BY <1>1 DEF IsTable
  <2> QED BY <1>1, <2>1, <2>2, ReloadStarts
<1>6. CASE Unmount
  BY <1>1, <1>6, OthersMayChange DEF Unmount, Sees, history
<1>7. CASE Change
  BY <1>1, <1>7, OthersMayChange, TableAssumption DEF Change
<1>8. ASSUME NEW k \in Keys, Sort(k)
      PROVE  PageInv'
  <2> DEFINE u == [Reload(table, 0) EXCEPT !.key = k, !.asc = k = table.key /\ ~table.asc]
             asc == k = table.key /\ ~table.asc
  <2>1. asc \in BOOLEAN
    OBVIOUS
  <2> HIDE DEF asc
  <2>2. u = [increment |-> 1, page |-> 0, numPages |-> 0, numResults |-> 0,
             farthest |-> 0, isPaging |-> TRUE, marker |-> NoRow, pages |-> NoPages,
             nonce |-> table.nonce + 1, asc |-> asc, key |-> k]
    BY <1>1, <2>1, SortedTable DEF asc
  <2>3. /\ IsTable(u) /\ u.pages = NoPages /\ u.marker = NoRow
        /\ u.nonce = table.nonce + 1
    <3> HIDE DEF u
    <3>1. 0 \in Int /\ 1 \in {1, -1} /\ table.nonce + 1 \in Nat
      BY <1>1, EmptiedTable
    <3>2. IsTable(u)
      BY <2>1, <2>2, <3>1, PagelessTable
    <3> QED BY <2>2, <3>2
  <2>4. Kick(u, calls, IF k = table.key THEN 1 ELSE 2) /\ Forget(TRUE) /\ listing' = listing
    BY <1>8 DEF Sort, Sees, asc
  <2> QED BY <2>3, <2>4, FreshTable
<1>9. ASSUME NEW c \in CallIds, Count(c) \/ Fetch(c) \/ Fail(c) \/ Receive(c)
      PROVE  PageInv'
  <2> DEFINE q == calls[c]
  <2>1. IsCall(q) /\ Fits(table, q) /\ Answers(table, q, kept, since)
    BY <1>1
  <2>2. CASE Count(c)
    <3> DEFINE new == [q EXCEPT !.phase = "counted", !.count = Cardinality(listing)]
    <3>1. q.phase = "sent" /\ calls' = [calls EXCEPT ![c] = new]
          /\ UNCHANGED <<table, listing, history>>
      BY <1>1, <2>2 DEF Count, ServerKeeps
    <3>2. Cardinality(listing) \in Int
      BY <1>1, FS_Subset, FS_CardinalityType, TableAssumption
    <3>3. IsCall(new)
      BY <2>1, <3>2 DEF IsCall
    <3>4. Fits(table, new) /\ Answers(table, new, kept, since)
      BY <2>1, <3>1 DEF Fits, Answers, Live, Wanted, IsCall
    <3> QED BY <3>1, <3>3, <3>4, OneCallMoves
  <2>3. CASE Fetch(c)
    <3> DEFINE page == PageOf(q)
               new == [q EXCEPT !.phase = "answered", !.data = page,
                                !.next = NextMarker(q, page)]
               next == NextMarker(q, page)
               asc == ~q.descending
    <3>1. q.phase = "counted" /\ calls' = [calls EXCEPT ![c] = new]
          /\ UNCHANGED <<table, listing, history>>
      BY <1>1, <2>3 DEF Fetch, ServerKeeps
    <3>2. q.limit > 0
      BY <2>1, <3>1 DEF Fits
    <3>3. /\ page \in Seq(Rows) /\ next \in Markers
          /\ RowsOf(page) \subseteq Beyond(q)
          /\ \A a, b \in DOMAIN page : a < b => Above(page[a], page[b], q.key, asc)
          /\ \A r \in Beyond(q), b \in DOMAIN page :
               Above(r, page[b], q.key, asc) => r \in RowsOf(page)
          /\ page = <<>> => next = q.marker
          /\ page # <<>> => next \in {NoRow, page[Len(page)]}
      BY <1>1, <2>1, <3>2, PageWorks
    <3> HIDE DEF page, next
    <3>4. \A r : r \in Beyond(q) <=>
              r \in listing /\ (q.marker = NoRow \/ Above(q.marker, r, q.key, asc))
      BY DEF Beyond
    <3> DEFINE got == [q EXCEPT !.phase = "answered", !.data = page, !.next = next]
    <3>5. IsCall(got)
      BY <2>1, <3>3 DEF IsCall
    <3>6. /\ got.phase = "answered" /\ got.data = page /\ got.next = next
          /\ got.marker = q.marker /\ got.nonce = q.nonce /\ got.index = q.index
          /\ got.limit = q.limit /\ got.key = q.key /\ got.descending = q.descending
      BY <2>1 DEF IsCall
    <3>7. calls' = [calls EXCEPT ![c] = got]
      BY <3>1 DEF page, next
    <3> HIDE DEF got, q
    <3>8. Fits(table, got)
      BY <2>1, <3>1, <3>6 DEF Fits, Live, Wanted
    <3>9. Answers(table, got, kept, since)
      <4> SUFFICES ASSUME Live(table, got)
                   PROVE
            /\ RowsOf(page) \subseteq since
            /\ \A a \in DOMAIN page : q.marker = NoRow \/ Before(table, q.marker, page[a])
            /\ \A a, b \in DOMAIN page : a < b => Before(table, page[a], page[b])
            /\ \A r \in kept, b \in DOMAIN page :
                 (q.marker = NoRow \/ Before(table, q.marker, r)) /\ Before(table, r, page[b])
                   => r \in RowsOf(page)
        BY <3>3, <3>6 DEF Answers
      <4>1. q.key = table.key /\ q.descending = PageWithBefore(table)
        BY <2>1, <3>1, <3>6 DEF Fits, Live
      <4>2. table.increment \in {1, -1} /\ table.asc \in BOOLEAN
        BY <1>1 DEF IsTable
      <4>3. asc = (table.asc = (table.increment = 1))
        <5>1. 1 # -1
          OBVIOUS
        <5> QED BY Zenon, <4>1, <4>2, <5>1 DEF PageWithBefore
      <4>4. \A r, s : Before(table, r, s) <=> Above(r, s, q.key, asc)
        BY <4>1, <4>3 DEF Before
      <4> HIDE DEF asc
      <4>5. \A a \in DOMAIN page : page[a] \in RowsOf(page)
        BY DEF RowsOf
      <4> QED BY <1>1, <3>3, <3>4, <4>4, <4>5
    <3> QED BY <3>1, <3>5, <3>7, <3>8, <3>9, OneCallMoves
  <2>4. CASE Fail(c)
    BY <1>1, <2>4, NoCallFits, OneCallMoves DEF Fail, ServerKeeps
  <2>5. CASE Receive(c) /\ ~Current(q)
    BY <1>1, <2>5, NoCallFits, OneCallMoves DEF Receive, history
  <2>6. CASE Receive(c) /\ Current(q)
    <3> DEFINE u == Filled(table, q)
               grown == outgrown \/ Outgrows(table, q)
               cs == [calls EXCEPT ![c] = NoCall]
    <3>1. /\ q.phase = "answered" /\ Kick(u, cs, 1) /\ outgrown' = grown
          /\ listing' = listing /\ kept' = kept /\ since' = since
      BY <2>6 DEF Receive
    <3>2. Wanted(table, q) /\ q.nonce = table.nonce /\ q.index \notin Loaded(table)
      BY <2>6, <3>1 DEF Current, Wanted, Live
    <3>3. /\ UpToMarker(u, kept) /\ FillsNext(u, grown) /\ (~grown => Ordered(u))
          /\ Gapless(u, kept) /\ RowsShown(u) \subseteq since
      BY <2>1, <3>1, <3>2, FillingKeeps
    <3>4. /\ IsTable(u) /\ u.increment = table.increment /\ u.key = table.key
          /\ u.asc = table.asc /\ u.nonce = table.nonce
          /\ Loaded(u) = Loaded(table) \cup {q.index}
          /\ \A r, s : Before(u, r, s) <=> Before(table, r, s)
      BY <1>1, <2>1, <3>2, FilledTable
    <3>5. grown \in BOOLEAN
      BY <1>1
    <3> HIDE DEF u, grown
    <3>6. /\ table' = u /\ DOMAIN calls' = CallIds
          /\ \A d \in CallIds : calls'[d] = cs[d] \/ (Kicks(u) /\ calls'[d] = Request(u))
      BY <3>1, KickAsks
    <3>7. ASSUME NEW d \in CallIds
          PROVE  IsCall(calls'[d]) /\ Fits(u, calls'[d]) /\ Answers(u, calls'[d], kept, since)
      <4>1. CASE Kicks(u) /\ calls'[d] = Request(u)
        BY <3>4, <4>1, RequestFits
      <4>2. CASE calls'[d] = NoCall
        BY <3>4, <4>2, NoCallFits
      <4>3. CASE calls'[d] = calls[d]
        <5>1. IsCall(calls[d]) /\ Fits(table, calls[d]) /\ Answers(table, calls[d], kept, since)
          BY <1>1
        <5>2. Live(u, calls[d]) <=> Live(table, calls[d])
          BY <3>4 DEF Live
        <5>3. ~Wanted(u, calls[d])
          BY <2>1, <3>2, <3>4, <5>1, <5>2 DEF Wanted, Fits
        <5>4. PageWithBefore(u) = PageWithBefore(table)
          BY <3>4 DEF PageWithBefore
        <5>5. Fits(u, calls[d])
          BY <3>4, <5>1, <5>2, <5>3, <5>4 DEF Fits
        <5>6. Answers(u, calls[d], kept, since)
          BY <3>4, <5>1, <5>2 DEF Answers
        <5> QED BY <4>3, <5>1, <5>5, <5>6
      <4>4. cs[d] = NoCall \/ cs[d] = calls[d]
        BY <1>1
      <4> QED BY <3>6, <4>1, <4>2, <4>3, <4>4
    <3>8. TypeInv'
      BY <1>1, <3>1, <3>4, <3>5, <3>6, <3>7 DEF TypeInv
    <3>9. CallsInv'
      BY <3>1, <3>6, <3>7 DEF CallsInv
    <3>10. TableInv'
      BY <3>1, <3>3, <3>6 DEF TableInv
    <3> QED BY <3>8, <3>9, <3>10 DEF PageInv
  <2> QED BY <1>9, <2>2, <2>3, <2>4, <2>5, <2>6
<1>10. CASE UNCHANGED tableVars
  BY <1>1, <1>10, OthersMayChange DEF tableVars, history
<1> QED BY <1>2, <1>3, <1>4, <1>5, <1>6, <1>7, <1>8, <1>9, <1>10 DEF TableNext, TableStep

LEMMA PageInit == TableInit => PageInv
<1> SUFFICES ASSUME TableInit PROVE PageInv
  OBVIOUS
<1>1. /\ table = [increment |-> 1, page |-> 0, numPages |-> 0, numResults |-> 0,
                  farthest |-> 0, isPaging |-> TRUE, marker |-> NoRow, pages |-> NoPages,
                  nonce |-> 1, asc |-> FALSE, key |-> FirstKey]
      /\ calls = [c \in CallIds |-> NoCall]
      /\ listing \subseteq Rows /\ kept = listing /\ since = listing /\ outgrown = FALSE
  BY TableAssumption DEF TableInit
<1>2. 0 \in Int /\ 1 \in {1, -1} /\ 1 \in Nat /\ FALSE \in BOOLEAN /\ FirstKey \in Keys
  BY TableAssumption
<1>3. IsTable(table)
  BY <1>1, <1>2, PagelessTable
<1>4. Loaded(table) = {} /\ RowsShown(table) = {}
  BY <1>1, EmptyPages DEF Loaded, RowsShown
<1>5. TypeInv
  BY <1>1, <1>3, NoCallFits DEF TypeInv
<1>6. CallsInv
  BY <1>1, <1>3, NoCallFits DEF CallsInv
<1>7. TableInv
  BY <1>1, <1>4 DEF TableInv, UpToMarker, FillsNext, Ordered, Gapless
<1> QED BY <1>5, <1>6, <1>7 DEF PageInv

THEOREM PageInvariant == TableSpec => []PageInv
<1>1. TableInit => PageInv
  BY PageInit
<1>2. PageInv /\ [TableNext]_tableVars => PageInv'
  BY PageStep
<1> QED BY <1>1, <1>2, PTL DEF TableSpec

(* The pages that are loaded are in order, without a row on two of them,   *)
(* unless the number of pages has outgrown a table paged from its end.     *)
THEOREM PagesStayInOrder == TableSpec => []RowsInOrder
<1>1. PageInv => RowsInOrder
  BY DEF PageInv, TableInv, RowsInOrder, Ordered
<1> QED BY <1>1, PageInvariant, PTL

(* A row that stays listed is not passed over.                             *)
THEOREM RowsAreNotSkipped == TableSpec => []NoRowSkipped
<1>1. PageInv => NoRowSkipped
  BY DEF PageInv, TableInv, Gapless, NoRowSkipped, Shown, RowsShown, Before
<1> QED BY <1>1, PageInvariant, PTL

(* A row that was gone when the table was emptied does not come back.      *)
THEOREM GoneRowsStayGone == TableSpec => []GoneStaysGone
<1>1. PageInv => GoneStaysGone
  BY DEF PageInv, TableInv, GoneStaysGone, Shown, RowsShown
<1> QED BY <1>1, PageInvariant, PTL

-----------------------------------------------------------------------------
(* While nothing changes, a page is a segment of the listing; what follows *)
(* relates rows, places and page numbers.                                  *)

Offset(i) == i * PageSize
(* The rows of page i, of n in all.                                        *)
Segment(all, n, i) ==
  [j \in 1..((IF Offset(i + 1) <= n THEN Offset(i + 1) ELSE n) - Offset(i)) |->
     all[Offset(i) + j]]
LastPage(n) == CeilDiv(n, PageSize) - 1
(* Page i is asked for from this marker.                                   *)
AskedFrom(t, all, n, i, marker) ==
  IF t.increment = 1
  THEN \/ i = 0 /\ marker = NoRow
       \/ i > 0 /\ Offset(i) < n /\ marker = all[Offset(i)]
  ELSE \/ i = LastPage(n) /\ marker = NoRow
       \/ i \in 0..(LastPage(n) - 1) /\ marker = all[Offset(i + 1) + 1]
Turned(t, d) == IF t.increment = 1 THEN d ELSE Reversed(d)

SteadyTable(t, all, n) ==
  /\ Loaded(t) # {} \/ t.increment = -1 => t.numResults = n
  /\ t.increment = -1 => n > 0
  /\ \A i \in Loaded(t) :
       i >= 0 /\ (i > 0 => Offset(i) < n) /\ t.pages[i] = Segment(all, n, i)
  /\ t.isPaging => AskedFrom(t, all, n, ToFill(t), t.marker)
SteadyCall(t, q, all, n) ==
  Wanted(t, q) =>
    /\ q.limit = Limit(t)
    /\ q.phase \in {"counted", "answered"} => q.count = n
    /\ q.phase = "answered" =>
         /\ Turned(t, q.data) = Segment(all, n, q.index)
         /\ q.next # NoRow => AskedFrom(t, all, n, q.index + t.increment, q.next)
SteadyInv ==
  /\ table.numPages = CeilDiv(table.numResults, PageSize)
  /\ steady \in BOOLEAN
  /\ steady =>
       LET all == InOrder(listing, table.key, table.asc)
           n   == Cardinality(listing)
       IN /\ SteadyTable(table, all, n)
          /\ \A c \in CallIds : SteadyCall(table, calls[c], all, n)

(* Products and remainders, for any page size.                             *)
LEMMA OffsetFacts ==
  /\ \A i \in Int : Offset(i) \in Int /\ Offset(i + 1) = Offset(i) + PageSize
  /\ Offset(0) = 0
  /\ \A i \in Int : i >= 0 <=> Offset(i) >= 0
  /\ \A i \in Int : i > 0 <=> Offset(i) > 0
  /\ \A i, j \in Int : i <= j => Offset(i) <= Offset(j)
<1>1. PageSize \in Nat /\ PageSize > 0
  BY TableAssumption
<1>2. ASSUME NEW i \in Int
      PROVE  Offset(i) \in Int /\ Offset(i + 1) = Offset(i) + PageSize
  BY <1>1 DEF Offset
<1>3. Offset(0) = 0
  BY <1>1 DEF Offset
<1>4. ASSUME NEW i \in Int
      PROVE  (i >= 0 <=> Offset(i) >= 0) /\ (i > 0 <=> Offset(i) > 0)
  BY <1>1 DEF Offset
<1>5. ASSUME NEW i \in Int, NEW j \in Int, i <= j
      PROVE  Offset(i) <= Offset(j)
  <2>1. j - i \in Nat /\ (j - i) * PageSize >= 0
    BY <1>1, <1>5
  <2>2. j * PageSize - i * PageSize = (j - i) * PageSize
    BY <1>1
  <2> QED BY <1>1, <2>1, <2>2 DEF Offset
<1> QED BY <1>2, <1>3, <1>4, <1>5

LEMMA LastPageFacts ==
  ASSUME NEW n \in Nat
  PROVE  /\ LastPage(n) \in Int /\ CeilDiv(n, PageSize) \in Int
         /\ n = 0 => LastPage(n) = -1
         /\ n > 0 =>
              /\ LastPage(n) >= 0
              /\ Offset(LastPage(n)) < n /\ n <= Offset(LastPage(n)) + PageSize
              /\ n - Offset(LastPage(n)) = IF n % PageSize # 0 THEN n % PageSize ELSE PageSize
<1> DEFINE P == PageSize
           d == n \div P
           r == n % P
           c == (n + P - 1) \div P
           s == (n + P - 1) % P
<1>1. P \in Nat /\ P > 0
  BY TableAssumption
<1>2. d \in Int /\ r \in 0..(P - 1) /\ n = P * d + r
  BY <1>1
<1>3. c \in Int /\ s \in 0..(P - 1) /\ n + P - 1 = P * c + s
  BY <1>1
<1> HIDE DEF d, r, c, s
<1>4. LastPage(n) = c - 1 /\ CeilDiv(n, PageSize) = c
  BY DEF LastPage, CeilDiv, c
<1> DEFINE o == P * (c - 1)
<1>5. Offset(LastPage(n)) = o /\ o = P * c - P /\ o \in Int
  BY <1>1, <1>3, <1>4 DEF Offset
<1>6. o < n /\ n <= o + P
  BY <1>1, <1>3, <1>5
<1>7. n = 0 => c = 0
  <2> SUFFICES ASSUME n = 0 PROVE c = 0
    OBVIOUS
  <2>1. P * c <= P - 1 /\ P * c >= 0
    BY <1>1, <1>3
  <2> QED BY <1>1, <1>3, <2>1
<1>8. n > 0 => c > 0
  BY <1>1, <1>3
<1>9. n > 0 => n - o = IF r # 0 THEN r ELSE P
  <2> SUFFICES ASSUME n > 0 PROVE n - o = IF r # 0 THEN r ELSE P
    OBVIOUS
  <2>1. CASE r # 0
    <3>1. P * (c - 1) - P * d = P * (c - 1 - d)
      BY <1>1, <1>2, <1>3
    <3>2. P * (c - 1 - d) < P /\ P * (c - 1 - d) > -P
      BY <1>1, <1>2, <1>3, <1>5, <1>6, <2>1, <3>1
    <3>3. c - 1 - d = 0
      BY <1>1, <1>2, <1>3, <3>2
    <3> QED BY <1>1, <1>2, <1>3, <2>1, <3>1, <3>3
  <2>2. CASE r = 0
    <3>1. P * (c - 1) - P * (d - 1) = P * (c - d) /\ P * (d - 1) = P * d - P
      BY <1>1, <1>2, <1>3
    <3>2. P * (c - d) < P /\ P * (c - d) > -P
      BY <1>1, <1>2, <1>3, <1>5, <1>6, <2>2, <3>1
    <3>3. c - d = 0
      BY <1>1, <1>2, <1>3, <3>2
    <3> QED BY <1>1, <1>2, <1>3, <2>2, <3>1, <3>3
  <2> QED BY <2>1, <2>2
<1>10. n > 0 => n - o = IF n % P # 0 THEN n % P ELSE P
  BY <1>9 DEF r
<1> QED BY <1>1, <1>3, <1>4, <1>5, <1>6, <1>7, <1>8, <1>10

LEMMA DisjointUnion ==
  ASSUME NEW S, NEW T, IsFiniteSet(S), IsFiniteSet(T), S \cap T = {}
  PROVE  /\ IsFiniteSet(S \cup T)
         /\ Cardinality(S \cup T) = Cardinality(S) + Cardinality(T)
         /\ Cardinality(S) \in Nat /\ Cardinality(T) \in Nat
<1>1. Cardinality(S) \in Nat /\ Cardinality(T) \in Nat
  BY FS_CardinalityType
<1>2. Cardinality(S \cap T) = 0
  BY FS_EmptySet
<1>3. /\ IsFiniteSet(S \cup T)
      /\ Cardinality(S \cup T) = Cardinality(S) + Cardinality(T) - Cardinality(S \cap T)
  BY FS_Union
<1> QED BY <1>1, <1>2, <1>3

(* The rows down to r, r included.                                         *)
DownTo(S, r, k, asc) == Higher(S, r, k, asc) \cup {r}
LEMMA DownToCounts ==
  ASSUME NEW S \in SUBSET Rows, NEW k \in Keys, NEW asc \in BOOLEAN, NEW r \in S
  PROVE  /\ IsFiniteSet(DownTo(S, r, k, asc))
         /\ Cardinality(DownTo(S, r, k, asc)) = Cardinality(Higher(S, r, k, asc)) + 1
         /\ Cardinality(Higher(S, r, k, asc)) \in Nat
<1>1. IsFiniteSet(Higher(S, r, k, asc))
  BY FS_Subset, TableAssumption DEF Higher
<1>2. r \notin Higher(S, r, k, asc)
  BY AboveIsOrder DEF Higher
<1> QED BY <1>1, <1>2, FS_AddElement, FS_CardinalityType DEF DownTo

(* The rows beyond the m-th are, in order, the m+1st and those after it.   *)
LEMMA SuffixInOrder ==
  ASSUME NEW S \in SUBSET Rows, NEW k \in Keys, NEW asc \in BOOLEAN,
         NEW m \in 1..Cardinality(S),
         NEW B \in SUBSET S,
         \A r \in S : r \in B <=> Above(InOrder(S, k, asc)[m], r, k, asc)
  PROVE  /\ Cardinality(B) = Cardinality(S) - m
         /\ \A i \in 1..Cardinality(B) : InOrder(B, k, asc)[i] = InOrder(S, k, asc)[m + i]
<1> DEFINE z == InOrder(S, k, asc)[m]
           A == DownTo(S, z, k, asc)
<1>1. /\ Cardinality(S) \in Nat /\ z \in S /\ Cardinality(Higher(S, z, k, asc)) = m - 1
      /\ B \in SUBSET Rows /\ m \in Int
  BY InOrderWorks
<1> HIDE DEF z
<1>2. IsFiniteSet(A) /\ Cardinality(A) = m
  BY <1>1, DownToCounts
<1>3. IsFiniteSet(B)
  BY <1>1, HigherCounts
<1>4. A \cap B = {} /\ A \cup B = S
  <2>1. \A r \in S : r \in B <=> Above(z, r, k, asc)
    BY DEF z
  <2>2. \A r \in S : r \in A <=> r = z \/ Above(r, z, k, asc)
    BY DEF DownTo, Higher
  <2>3. A \subseteq S /\ B \subseteq S
    BY <1>1 DEF DownTo, Higher
  <2>4. \A r \in S : r \in A <=> r \notin B
    BY <1>1, <2>1, <2>2, AboveIsOrder
  <2> QED BY <2>3, <2>4
<1>5. Cardinality(S) = m + Cardinality(B) /\ Cardinality(B) \in Nat
  BY <1>2, <1>3, <1>4, DisjointUnion
<1>6. ASSUME NEW i \in 1..Cardinality(B)
      PROVE  InOrder(B, k, asc)[i] = InOrder(S, k, asc)[m + i]
  <2> DEFINE r == InOrder(B, k, asc)[i]
  <2>1. r \in B /\ Cardinality(Higher(B, r, k, asc)) = i - 1
    BY <1>1, InOrderWorks
  <2> HIDE DEF r
  <2>2. r \in S /\ Above(z, r, k, asc)
    BY <2>1 DEF z
  <2>3. A \cap Higher(B, r, k, asc) = {} /\ A \cup Higher(B, r, k, asc) = Higher(S, r, k, asc)
    <3>1. Higher(B, r, k, asc) \subseteq B
      BY DEF Higher
    <3>2. A \subseteq Higher(S, r, k, asc)
      BY <1>1, <2>2, AboveIsOrder DEF DownTo, Higher
    <3>3. \A s \in S : s \in Higher(S, r, k, asc) <=> Above(s, r, k, asc)
      BY DEF Higher
    <3>4. \A s \in B : s \in Higher(B, r, k, asc) <=> Above(s, r, k, asc)
      BY DEF Higher
    <3>5. Higher(S, r, k, asc) \subseteq S
      BY DEF Higher
    <3> QED BY <1>4, <3>1, <3>2, <3>3, <3>4, <3>5
  <2>4. IsFiniteSet(Higher(B, r, k, asc))
    BY <1>3, FS_Subset DEF Higher
  <2>5. Cardinality(Higher(S, r, k, asc)) = m + (i - 1)
    BY <1>2, <2>1, <2>3, <2>4, DisjointUnion
  <2>6. InOrder(S, k, asc)[Cardinality(Higher(S, r, k, asc)) + 1] = r
    BY <2>2, InOrderWorks
  <2>7. Cardinality(Higher(S, r, k, asc)) + 1 = m + i
    BY <1>1, <1>5, <2>5
  <2> QED BY <2>6, <2>7 DEF r
<1> QED BY <1>1, <1>5, <1>6

(* Descending order is ascending order turned round.                       *)
LEMMA ReverseInOrder ==
  ASSUME NEW S \in SUBSET Rows, NEW k \in Keys,
         NEW asc \in BOOLEAN, NEW desc \in BOOLEAN,
         \A r, s \in Rows : Above(r, s, k, desc) <=> Above(s, r, k, asc)
  PROVE  \A i \in 1..Cardinality(S) :
           InOrder(S, k, desc)[i] = InOrder(S, k, asc)[Cardinality(S) + 1 - i]
<1> SUFFICES ASSUME NEW i \in 1..Cardinality(S)
             PROVE  InOrder(S, k, desc)[i] = InOrder(S, k, asc)[Cardinality(S) + 1 - i]
  OBVIOUS
<1> DEFINE r == InOrder(S, k, desc)[i]
<1>1. r \in S /\ Cardinality(Higher(S, r, k, desc)) = i - 1 /\ Cardinality(S) \in Nat
  BY InOrderWorks
<1> HIDE DEF r
<1>2. /\ IsFiniteSet(DownTo(S, r, k, asc)) /\ Cardinality(Higher(S, r, k, asc)) \in Nat
      /\ Cardinality(DownTo(S, r, k, asc)) = Cardinality(Higher(S, r, k, asc)) + 1
  BY <1>1, DownToCounts
<1>3. IsFiniteSet(Higher(S, r, k, desc))
  BY FS_Subset, TableAssumption DEF Higher
<1>4. /\ DownTo(S, r, k, asc) \cap Higher(S, r, k, desc) = {}
      /\ DownTo(S, r, k, asc) \cup Higher(S, r, k, desc) = S
  <2> DEFINE A == DownTo(S, r, k, asc)
             B == Higher(S, r, k, desc)
  <2>1. \A s \in S : s \in B <=> Above(r, s, k, asc)
    BY <1>1, AboveIsOrder DEF Higher
  <2>2. \A s \in S : s \in A <=> s = r \/ Above(s, r, k, asc)
    BY DEF DownTo, Higher
  <2>3. A \subseteq S /\ B \subseteq S
    BY <1>1 DEF DownTo, Higher
  <2> HIDE DEF A, B
  <2>4. \A s \in S : s \in A <=> s \notin B
    BY <1>1, <2>1, <2>2, AboveIsOrder
  <2> QED BY <2>3, <2>4 DEF A, B
<1>5. Cardinality(S) = Cardinality(Higher(S, r, k, asc)) + 1 + (i - 1)
  BY <1>1, <1>2, <1>3, <1>4, DisjointUnion
<1>6. Cardinality(Higher(S, r, k, asc)) + 1 = Cardinality(S) + 1 - i
  BY <1>1, <1>2, <1>5
<1>7. InOrder(S, k, asc)[Cardinality(Higher(S, r, k, asc)) + 1] = r
  BY <1>1, InOrderWorks
<1> QED BY <1>6, <1>7 DEF r

-----------------------------------------------------------------------------
(* From the m-th row on, a page has the rows that follow in the listing.   *)
LEMMA PageFollows ==
  ASSUME listing \subseteq Rows, NEW q, IsCall(q), q.limit > 0,
         NEW D, D = InOrder(listing, q.key, ~q.descending),
         NEW n, n = Cardinality(listing), NEW m \in 0..n,
         IF m = 0 THEN q.marker = NoRow ELSE q.marker = D[m]
  PROVE  LET l == IF n - m < q.limit THEN n - m ELSE q.limit
             page == PageOf(q)
         IN /\ page = [j \in 1..l |-> D[m + j]]
            /\ l \in Nat /\ page \in Seq(Rows) /\ Len(page) = l
            /\ NextMarker(q, page) = IF l = 0 THEN q.marker
                                     ELSE IF n - m > q.limit THEN D[m + q.limit] ELSE NoRow
<1> DEFINE B == Beyond(q)
           asc == ~q.descending
           l == IF n - m < q.limit THEN n - m ELSE q.limit
           page == PageOf(q)
<1>1. q.key \in Keys /\ asc \in BOOLEAN /\ q.limit \in Int /\ listing \in SUBSET Rows
  BY DEF IsCall
<1>2. \A r : r \in B <=> r \in listing /\ (q.marker = NoRow \/ Above(q.marker, r, q.key, asc))
  BY DEF Beyond
<1>3. /\ B \in SUBSET listing
      /\ page = [i \in 1..(IF Cardinality(B) < q.limit THEN Cardinality(B) ELSE q.limit) |->
                   InOrder(B, q.key, asc)[i]]
      /\ NextMarker(q, page) = IF page = <<>> THEN q.marker
                               ELSE IF Cardinality(B) > q.limit THEN page[q.limit] ELSE NoRow
  BY DEF Beyond, PageOf, NextMarker
<1>4. page \in Seq(Rows)
  BY PageWorks
<1> HIDE DEF B, asc, page
<1>5. n \in Nat /\ D \in [1..n -> listing] /\ D = InOrder(listing, q.key, asc)
  BY <1>1, InOrderWorks DEF asc
<1>6. Cardinality(B) = n - m /\ \A i \in 1..(n - m) : InOrder(B, q.key, asc)[i] = D[m + i]
  <2>1. CASE m = 0
    <3>1. q.marker = NoRow
      BY <2>1
    <3>2. B = listing
      BY <1>2, <1>3, <3>1
    <3> QED BY <1>5, <2>1, <3>2
  <2>2. CASE m > 0
    <3>1. q.marker = D[m] /\ D[m] \in listing /\ m \in 1..n
      BY <1>5, <2>2
    <3>2. q.marker # NoRow
      BY <1>1, <3>1, TableAssumption
    <3>3. \A r \in listing : r \in B <=> Above(InOrder(listing, q.key, asc)[m], r, q.key, asc)
      BY <1>2, <1>5, <3>1, <3>2
    <3>4. m \in 1..Cardinality(listing)
      BY <3>1
    <3>5. /\ Cardinality(B) = Cardinality(listing) - m
          /\ \A i \in 1..Cardinality(B) :
               InOrder(B, q.key, asc)[i] = InOrder(listing, q.key, asc)[m + i]
      BY <1>1, <1>3, <3>3, <3>4, SuffixInOrder
    <3> QED BY <1>5, <3>5
  <2> QED BY <1>5, <2>1, <2>2
<1> HIDE DEF l
<1>7. l \in Nat /\ l <= n - m /\ l <= q.limit
      /\ l = IF n - m < q.limit THEN n - m ELSE q.limit
  BY <1>1, <1>5 DEF l
<1>8. page = [j \in 1..l |-> D[m + j]]
  <2>1. page = [i \in 1..l |-> InOrder(B, q.key, asc)[i]]
    BY <1>3, <1>6, <1>7
  <2>2. \A i \in 1..l : i \in 1..(n - m)
    BY <1>5, <1>7
  <2> QED BY <1>6, <2>1, <2>2
<1>9. Len(page) = l
  BY <1>4, <1>7, <1>8
<1>10. NextMarker(q, page) = IF l = 0 THEN q.marker
                             ELSE IF n - m > q.limit THEN D[m + q.limit] ELSE NoRow
  <2>1. page = <<>> <=> l = 0
    BY <1>4, <1>7, <1>9
  <2>2. n - m > q.limit => q.limit \in 1..l /\ page[q.limit] = D[m + q.limit]
    BY <1>1, <1>5, <1>7, <1>8
  <2> QED BY <1>3, <1>6, <2>1, <2>2
<1> QED BY <1>4, <1>7, <1>8, <1>9, <1>10 DEF l, page

(* From the first page on: page f of the listing, and the next one begins  *)
(* after it.                                                               *)
LEMMA ForwardSegment ==
  ASSUME listing \subseteq Rows, NEW t, t.increment = 1, NEW q, IsCall(q),
         q.limit = PageSize,
         NEW all, all = InOrder(listing, q.key, ~q.descending),
         NEW n, n = Cardinality(listing), NEW f \in Int,
         AskedFrom(t, all, n, f, q.marker)
  PROVE  /\ PageOf(q) = Segment(all, n, f)
         /\ NextMarker(q, PageOf(q)) # NoRow =>
              AskedFrom(t, all, n, f + 1, NextMarker(q, PageOf(q)))
<1> DEFINE m == Offset(f)
           l == IF n - m < q.limit THEN n - m ELSE q.limit
           page == PageOf(q)
<1>1. PageSize \in Int /\ PageSize > 0 /\ n \in Nat
  BY HigherCounts, TableAssumption DEF IsCall
<1>2. /\ m \in Int /\ Offset(f + 1) = m + PageSize /\ (f >= 0 => m >= 0)
      /\ (f > 0 <=> m > 0) /\ (f = 0 => m = 0) /\ f + 1 > f
  BY OffsetFacts
<1>3. (f = 0 /\ q.marker = NoRow) \/ (f > 0 /\ m < n /\ q.marker = all[m])
  BY DEF AskedFrom
<1> HIDE DEF m
<1>4. m \in 0..n /\ IF m = 0 THEN q.marker = NoRow ELSE q.marker = all[m]
  BY <1>1, <1>2, <1>3
<1>5. /\ page = [j \in 1..l |-> all[m + j]]
      /\ l \in Nat
      /\ NextMarker(q, page) = IF l = 0 THEN q.marker
                               ELSE IF n - m > q.limit THEN all[m + q.limit] ELSE NoRow
  BY <1>1, <1>4, PageFollows
<1>6. l = (IF m + PageSize <= n THEN m + PageSize ELSE n) - m
  BY <1>1, <1>2, <1>4
<1>7. Segment(all, n, f) =
        [j \in 1..((IF m + PageSize <= n THEN m + PageSize ELSE n) - m) |-> all[m + j]]
  BY <1>2 DEF Segment, m
<1> HIDE DEF l, page
<1>8. page = Segment(all, n, f)
  BY <1>5, <1>6, <1>7
<1>9. ASSUME NextMarker(q, page) # NoRow
      PROVE  AskedFrom(t, all, n, f + 1, NextMarker(q, page))
  <2>1. l # 0
    BY <1>1, <1>3, <1>4, <1>5, <1>6, <1>9
  <2>2. n - m > PageSize /\ NextMarker(q, page) = all[m + PageSize]
    BY <1>5, <1>9, <2>1
  <2>3. Offset(f + 1) < n /\ f + 1 > 0
    BY <1>1, <1>2, <1>3, <2>2
  <2> QED BY <1>2, <2>2, <2>3 DEF AskedFrom
<1> QED BY <1>8, <1>9 DEF page

LEMMA TurnedRound ==
  ASSUME NEW n \in Int, NEW m \in Int, NEW l \in Int, NEW x \in Int,
         m >= 0, x >= 0, n - m - l = x, NEW j \in 1..l
  PROVE  /\ l + 1 - j \in 1..l /\ m + (l + 1 - j) \in 1..n
         /\ n + 1 - (m + (l + 1 - j)) = x + j
OBVIOUS

(* From the last page on: the same, turned round.                          *)
LEMMA BackwardSegment ==
  ASSUME listing \subseteq Rows, NEW t, t.increment = -1, NEW q, IsCall(q),
         NEW asc \in BOOLEAN,
         \A r, s \in Rows :
           Above(r, s, q.key, ~q.descending) <=> Above(s, r, q.key, asc),
         NEW all, all = InOrder(listing, q.key, asc),
         NEW n, n = Cardinality(listing), n > 0, NEW f \in Int,
         AskedFrom(t, all, n, f, q.marker),
         q.limit = IF f = LastPage(n) /\ n % PageSize # 0 THEN n % PageSize ELSE PageSize
  PROVE  /\ Reversed(PageOf(q)) = Segment(all, n, f)
         /\ NextMarker(q, PageOf(q)) # NoRow =>
              AskedFrom(t, all, n, f - 1, NextMarker(q, PageOf(q)))
<1> DEFINE D == InOrder(listing, q.key, ~q.descending)
           last == LastPage(n)
           m == IF f = last THEN 0 ELSE n - Offset(f + 1)
           l == q.limit
           page == PageOf(q)
<1>1. /\ PageSize \in Int /\ PageSize > 0 /\ n \in Nat /\ q.key \in Keys
      /\ (~q.descending) \in BOOLEAN
  BY HigherCounts, TableAssumption DEF IsCall
<1>2. \A i \in 1..n : D[i] = all[n + 1 - i]
  <2>1. listing \in SUBSET Rows /\ q.key \in Keys
    BY <1>1
  <2> DEFINE desc == ~q.descending
  <2>2. desc \in BOOLEAN
    BY <1>1
  <2>3. \A r, s \in Rows : Above(r, s, q.key, desc) <=> Above(s, r, q.key, asc)
    OBVIOUS
  <2> HIDE DEF desc
  <2>4. \A i \in 1..Cardinality(listing) :
          InOrder(listing, q.key, desc)[i]
            = InOrder(listing, q.key, asc)[Cardinality(listing) + 1 - i]
    BY <2>1, <2>2, <2>3, ReverseInOrder
  <2> QED BY <2>4 DEF desc
<1>3. /\ last \in Int /\ last >= 0 /\ Offset(last) < n /\ n <= Offset(last) + PageSize
      /\ n - Offset(last) = IF n % PageSize # 0 THEN n % PageSize ELSE PageSize
  BY <1>1, LastPageFacts
<1>4. \/ f = last /\ q.marker = NoRow
      \/ f >= 0 /\ f <= last - 1 /\ q.marker = all[Offset(f + 1) + 1]
  BY <1>3 DEF AskedFrom
<1> DEFINE x == Offset(f)
<1>5. /\ x \in Int /\ Offset(f + 1) = x + PageSize /\ f >= 0 /\ x >= 0
      /\ (x > 0 <=> f > 0) /\ f - 1 + 1 = f
      /\ f <= last - 1 => x + PageSize <= Offset(last) /\ Offset(last) \in Int
  <2> HIDE DEF D, last, m, l, page
  <2>1. f \in Int /\ f >= 0 /\ f - 1 + 1 = f
    BY <1>3, <1>4
  <2>2. /\ x \in Int /\ Offset(f + 1) = x + PageSize /\ x >= 0 /\ (x > 0 <=> f > 0)
        /\ Offset(last) \in Int
    BY <1>3, <2>1, OffsetFacts
  <2>3. f <= last - 1 => Offset(f + 1) <= Offset(last)
    BY <1>3, <2>1, OffsetFacts
  <2> QED BY <2>1, <2>2, <2>3
<1>6. l = IF f = last /\ n % PageSize # 0 THEN n % PageSize ELSE PageSize
  OBVIOUS
<1> HIDE DEF D, last, l, page, x
\* The request begins after row m of the listing turned round, and ends before row x.
<1>7. /\ m \in 0..n /\ l \in Int /\ l > 0 /\ n - m - l = x
      /\ l = (IF x + PageSize <= n THEN x + PageSize ELSE n) - x
      /\ m = 0 => f = last
      /\ m > 0 => m = n - (x + PageSize)
  <2>1. CASE f = last
    <3>1. m = 0 /\ l = n - x /\ x < n /\ n <= x + PageSize
      BY <1>3, <1>6, <2>1 DEF x
    <3> HIDE DEF m
    <3> QED BY <1>1, <1>5, <2>1, <3>1
  <2>2. CASE f # last
    <3>1. m = n - (x + PageSize) /\ l = PageSize /\ x + PageSize < n
      BY <1>1, <1>3, <1>4, <1>5, <1>6, <2>2
    <3> HIDE DEF m
    <3> QED BY <1>1, <1>5, <3>1
  <2> QED BY <2>1, <2>2
<1>8. IF m = 0 THEN q.marker = NoRow ELSE q.marker = D[m]
  <2>1. CASE m = 0
    BY <1>3, <1>4, <1>7, <2>1
  <2>2. CASE m # 0
    <3>1. f # last /\ m = n - (x + PageSize) /\ m \in 1..n
      BY <1>7, <2>2
    <3>2. q.marker = all[x + PageSize + 1]
      BY <1>4, <1>5, <3>1
    <3>3. n + 1 - m = x + PageSize + 1
      BY <1>1, <1>5, <3>1
    <3> QED BY <1>2, <2>2, <3>1, <3>2, <3>3
  <2> QED BY <2>1, <2>2
<1> HIDE DEF m
<1>9. /\ page = [j \in 1..l |-> D[m + j]]
      /\ page \in Seq(Rows) /\ Len(page) = l
      /\ NextMarker(q, page) = IF n - m > l THEN D[m + l] ELSE NoRow
  <2> DEFINE k == IF n - m < q.limit THEN n - m ELSE q.limit
  <2>1. l = q.limit
    BY DEF l
  <2>2. q.limit > 0 /\ D = InOrder(listing, q.key, ~q.descending) /\ m \in 0..n
    BY <1>7, <2>1 DEF D
  <2>3. /\ page = [j \in 1..k |-> D[m + j]]
        /\ page \in Seq(Rows) /\ Len(page) = k
        /\ NextMarker(q, page) = IF k = 0 THEN q.marker
                                 ELSE IF n - m > q.limit THEN D[m + q.limit] ELSE NoRow
    BY <1>8, <2>2, PageFollows DEF page
  <2>4. k = l
    BY <1>1, <1>5, <1>7, <2>1
  <2> HIDE DEF k
  <2>5. l # 0
    BY <1>7
  <2> QED BY <2>1, <2>3, <2>4, <2>5
<1>10. Reversed(page) = Segment(all, n, f)
  <2>1. Reversed(page) = [j \in 1..l |-> page[l + 1 - j]]
    BY <1>7, <1>9 DEF Reversed
  <2>2. \A j \in 1..l : page[l + 1 - j] = all[x + j]
    <3> SUFFICES ASSUME NEW j \in 1..l PROVE page[l + 1 - j] = all[x + j]
      OBVIOUS
    <3> DEFINE i == l + 1 - j
    <3>1. i \in 1..l /\ m + i \in 1..n /\ n + 1 - (m + i) = x + j
      <4>1. n \in Int /\ m \in Int /\ l \in Int /\ x \in Int /\ m >= 0 /\ x >= 0
        BY <1>1, <1>5, <1>7
      <4> QED BY <1>7, <4>1, TurnedRound
    <3> HIDE DEF i
    <3>2. page[i] = D[m + i] /\ D[m + i] = all[n + 1 - (m + i)]
      BY <1>2, <1>9, <3>1
    <3>3. page[i] = all[x + j]
      BY <3>1, <3>2
    <3> QED BY <3>3 DEF i
  <2>3. Segment(all, n, f) = [j \in 1..l |-> all[x + j]]
    BY <1>5, <1>7 DEF Segment, x
  <2> QED BY <2>1, <2>2, <2>3
<1>11. ASSUME NextMarker(q, page) # NoRow
       PROVE  AskedFrom(t, all, n, f - 1, NextMarker(q, page))
  <2>1. n - m > l /\ NextMarker(q, page) = D[m + l]
    BY <1>9, <1>11
  <2>2. m + l \in 1..n /\ n + 1 - (m + l) = x + 1 /\ x > 0
    BY <1>1, <1>5, <1>7, <2>1
  <2>3. NextMarker(q, page) = all[x + 1]
    BY <1>2, <2>1, <2>2
  <2>4. f - 1 \in 0..(last - 1)
    BY <1>3, <1>4, <1>5, <2>2
  <2>5. Offset(f - 1 + 1) + 1 = x + 1
    BY <1>5 DEF x
  <2> QED BY <2>3, <2>4, <2>5 DEF AskedFrom, last
<1> QED BY <1>10, <1>11 DEF page, l

(* A page that is asked for is a page of the listing.                      *)
LEMMA AskedIsPage ==
  ASSUME NEW t, t.increment \in {1, -1}, NEW n \in Nat, t.increment = -1 => n > 0,
         NEW all, NEW f \in Int, NEW marker, AskedFrom(t, all, n, f, marker)
  PROVE  f >= 0 /\ (f > 0 => Offset(f) < n)
<1>1. CASE t.increment = 1
  BY <1>1 DEF AskedFrom
<1>2. CASE t.increment = -1
  <2> DEFINE last == LastPage(n)
  <2>1. last \in Int /\ last >= 0 /\ Offset(last) < n
    BY <1>2, LastPageFacts
  <2>2. f = last \/ (f >= 0 /\ f <= last)
    BY <1>2, <2>1 DEF AskedFrom
  <2> HIDE DEF last
  <2>3. Offset(f) <= Offset(last) /\ Offset(f) \in Int /\ Offset(last) \in Int
    BY <2>1, <2>2, OffsetFacts
  <2> QED BY <2>1, <2>2, <2>3
<1> QED BY <1>1, <1>2

(* What is answered to the request of a steady table.                      *)
LEMMA AnswerIsSegment ==
  ASSUME listing \subseteq Rows, NEW t, IsTable(t), NEW q, IsCall(q), q.limit > 0,
         Fits(t, q), Wanted(t, q), NEW n, n = Cardinality(listing),
         NEW all, all = InOrder(listing, t.key, t.asc),
         t.numPages = CeilDiv(t.numResults, PageSize),
         SteadyTable(t, all, n), SteadyCall(t, q, all, n)
  PROVE  /\ Turned(t, PageOf(q)) = Segment(all, n, q.index)
         /\ NextMarker(q, PageOf(q)) # NoRow =>
              AskedFrom(t, all, n, q.index + t.increment, NextMarker(q, PageOf(q)))
<1>1. /\ t.increment \in {1, -1} /\ t.asc \in BOOLEAN /\ t.key \in Keys
      /\ q.index \in Int /\ 1 # -1
  BY DEF IsTable, IsCall
<1>2. /\ q.key = t.key /\ q.descending = PageWithBefore(t) /\ q.index = ToFill(t)
      /\ q.marker = t.marker /\ t.isPaging /\ q.limit = Limit(t)
  BY DEF Fits, Wanted, SteadyCall
<1>3. AskedFrom(t, all, n, q.index, q.marker)
  BY <1>2 DEF SteadyTable
<1>4. CASE t.increment = 1
  <2>1. q.limit = PageSize
    BY <1>1, <1>2, <1>4 DEF Limit
  <2>2. (~q.descending) = t.asc
    BY Zenon, <1>1, <1>2, <1>4 DEF PageWithBefore
  <2>3. all = InOrder(listing, q.key, ~q.descending)
    BY <1>2, <2>2
  <2>4. /\ PageOf(q) = Segment(all, n, q.index)
        /\ NextMarker(q, PageOf(q)) # NoRow =>
             AskedFrom(t, all, n, q.index + 1, NextMarker(q, PageOf(q)))
    BY <1>1, <1>3, <1>4, <2>1, <2>3, ForwardSegment
  <2> QED BY <1>4, <2>4 DEF Turned
<1>5. CASE t.increment = -1
  <2>1. t.numResults = n /\ n > 0 /\ t.numPages = CeilDiv(n, PageSize)
    BY <1>5 DEF SteadyTable
  <2>2. q.limit = IF q.index = LastPage(n) /\ n % PageSize # 0
                  THEN n % PageSize ELSE PageSize
    BY <1>2, <1>5, <2>1 DEF Limit, LastPage
  <2>3. q.descending = t.asc
    BY Zenon, <1>1, <1>2, <1>5 DEF PageWithBefore
  <2>4. \A r, s \in Rows :
          Above(r, s, q.key, ~q.descending) <=> Above(s, r, q.key, t.asc)
    <3>1. \A r, s \in Rows : Above(s, r, t.key, t.asc) <=> Above(r, s, t.key, ~t.asc)
      BY <1>1, AboveIsOrder
    <3> QED BY Zenon, <1>2, <2>3, <3>1
  <2>5. all = InOrder(listing, q.key, t.asc)
    BY <1>2
  <2>6. /\ Reversed(PageOf(q)) = Segment(all, n, q.index)
        /\ NextMarker(q, PageOf(q)) # NoRow =>
             AskedFrom(t, all, n, q.index - 1, NextMarker(q, PageOf(q)))
    BY <1>1, <1>3, <1>5, <2>1, <2>2, <2>4, <2>5, BackwardSegment
  <2>7. q.index + t.increment = q.index - 1
    BY <1>1, <1>5
  <2> QED BY <1>1, <1>5, <2>6, <2>7 DEF Turned
<1> QED BY <1>1, <1>4, <1>5

(* A table that starts afresh is steady, turned round if its number of     *)
(* results is right; no old call is wanted any more.                       *)
LEMMA FreshIsSteady ==
  ASSUME PageInv, NEW u, u.pages = NoPages, u.marker = NoRow,
         u.nonce = table.nonce + 1, u.increment \in {1, -1},
         u.numPages = CeilDiv(u.numResults, PageSize), NEW m, Kick(u, calls, m),
         NEW ok \in BOOLEAN, Forget(ok), listing' = listing,
         ok /\ u.increment = -1 => u.numResults = Cardinality(listing) /\ u.numResults > 0
  PROVE  SteadyInv'
<1>1. /\ table' = u
      /\ \A c \in CallIds : calls'[c] = calls[c] \/ calls'[c] = Request(u)
  BY KickAsks
<1>2. Loaded(u) = {} /\ Cardinality(Loaded(u)) = 0
  BY EmptyPages, FS_EmptySet DEF Loaded
<1>3. ASSUME NEW all, NEW n, NEW c \in CallIds
      PROVE  SteadyCall(u, calls'[c], all, n)
  <2>1. CASE calls'[c] = calls[c]
    <3>1. calls[c].nonce \in Nat /\ calls[c].nonce <= table.nonce /\ table.nonce \in Nat
      BY DEF PageInv, TypeInv, CallsInv, Fits, IsCall, IsTable
    <3> QED BY <2>1, <3>1 DEF SteadyCall, Wanted, Live
  <2>2. CASE calls'[c] = Request(u)
    BY <2>2 DEF SteadyCall, Request, NoCall
  <2> QED BY <1>1, <2>1, <2>2
<1>4. ASSUME ok, NEW all, NEW n, n = Cardinality(listing)
      PROVE  SteadyTable(u, all, n)
  <2>1. CASE u.increment = 1
    <3>1. AskedFrom(u, all, n, ToFill(u), u.marker)
      BY <1>2, <2>1 DEF AskedFrom, ToFill
    <3> QED BY <1>2, <2>1, <3>1 DEF SteadyTable
  <2>2. CASE u.increment = -1
    <3>1. u.numResults = n /\ n > 0 /\ u.numPages = CeilDiv(n, PageSize)
      BY <1>4, <2>2
    <3>2. n \in Nat
      BY <1>4, FS_Subset, FS_CardinalityType, TableAssumption DEF PageInv, TypeInv
    <3>3. ToFill(u) = LastPage(n)
      BY <1>2, <2>2, <3>1, <3>2, LastPageFacts DEF ToFill, LastPage
    <3>4. AskedFrom(u, all, n, ToFill(u), u.marker)
      BY <2>2, <3>3 DEF AskedFrom
    <3> QED BY <1>2, <2>2, <3>1, <3>4 DEF SteadyTable
  <2> QED BY <2>1, <2>2
<1> QED BY <1>1, <1>3, <1>4 DEF SteadyInv, Forget

LEMMA NoResultsNoPages == CeilDiv(0, PageSize) = 0
  BY LastPageFacts DEF LastPage

(* The answer fills the page of the listing it was asked for.              *)
LEMMA FillingIsSteady ==
  ASSUME NEW t, IsTable(t), NEW q, IsCall(q), Fits(t, q), Wanted(t, q),
         q.phase = "answered", NEW n \in Nat, NEW all,
         t.numPages = CeilDiv(t.numResults, PageSize),
         SteadyTable(t, all, n), SteadyCall(t, q, all, n), NEW u, u = Filled(t, q)
  PROVE  SteadyTable(u, all, n)
<1>1. /\ t.increment \in {1, -1} /\ q.index \in Int /\ 1 # -1
      /\ q.index = ToFill(t) /\ q.marker = t.marker /\ t.isPaging
      /\ q.count = n /\ Turned(t, q.data) = Segment(all, n, q.index)
      /\ q.next # NoRow => AskedFrom(t, all, n, q.index + t.increment, q.next)
      /\ q.index \notin Loaded(t)
  BY DEF IsTable, IsCall, Fits, Wanted, SteadyCall
<1>2. /\ t.increment = -1 => n > 0 /\ t.numResults = n
      /\ \A i \in Loaded(t) :
           i >= 0 /\ (i > 0 => Offset(i) < n) /\ t.pages[i] = Segment(all, n, i)
      /\ AskedFrom(t, all, n, q.index, q.marker)
  BY <1>1 DEF SteadyTable
<1>3. /\ u.increment = t.increment /\ u.marker = q.next /\ u.isPaging = (q.next # NoRow)
      /\ u.numPages = CeilDiv(n, PageSize) /\ u.numResults = n
      /\ Loaded(u) = Loaded(t) \cup {q.index}
      /\ Cardinality(Loaded(u)) = Cardinality(Loaded(t)) + 1
      /\ Cardinality(Loaded(t)) \in Nat
      /\ \A i \in Loaded(t) : u.pages[i] = t.pages[i]
      /\ u.pages[q.index] = Turned(t, q.data)
  BY <1>1, FilledTable DEF Turned
<1>4. q.index >= 0 /\ (q.index > 0 => Offset(q.index) < n)
  BY <1>1, <1>2, AskedIsPage
<1>5. ToFill(u) = q.index + t.increment
  <2>1. CASE t.increment = 1
    BY <1>1, <1>3, <2>1 DEF ToFill
  <2>2. CASE t.increment = -1
    <3>1. t.numPages = u.numPages /\ t.numPages \in Int
      BY <1>2, <1>3, <2>2 DEF IsTable
    <3> QED BY <1>1, <1>3, <2>2, <3>1 DEF ToFill
  <2> QED BY <1>1, <2>1, <2>2
<1>6. u.isPaging => AskedFrom(u, all, n, ToFill(u), u.marker)
  BY <1>1, <1>3, <1>5 DEF AskedFrom
<1>7. \A i \in Loaded(u) :
        i >= 0 /\ (i > 0 => Offset(i) < n) /\ u.pages[i] = Segment(all, n, i)
  BY <1>1, <1>2, <1>3, <1>4
<1> QED BY <1>2, <1>3, <1>6, <1>7 DEF SteadyTable

LEMMA SteadyStep == PageInv /\ SteadyInv /\ [TableNext]_tableVars => SteadyInv'
<1> SUFFICES ASSUME PageInv, SteadyInv, [TableNext]_tableVars PROVE SteadyInv'
  OBVIOUS
<1> DEFINE all == InOrder(listing, table.key, table.asc)
           n   == Cardinality(listing)
<1>1. /\ IsTable(table) /\ DOMAIN calls = CallIds /\ listing \subseteq Rows
      /\ \A c \in CallIds : IsCall(calls[c]) /\ Fits(table, calls[c])
      /\ table.nonce + 1 \in Nat /\ table.increment \in {1, -1}
      /\ table.numResults \in Int /\ table.numPages \in Int
  BY DEF PageInv, TypeInv, CallsInv, IsTable
<1>2. /\ table.numPages = CeilDiv(table.numResults, PageSize) /\ steady \in BOOLEAN
      /\ steady => SteadyTable(table, all, n)
                   /\ \A c \in CallIds : SteadyCall(table, calls[c], all, n)
  BY DEF SteadyInv
<1>3. n \in Nat
  BY <1>1, FS_Subset, FS_CardinalityType, TableAssumption
<1>4. ASSUME NEW p \in Int, Kick(Reload(table, p), calls, 1), Forget(TRUE),
             listing' = listing
      PROVE  SteadyInv'
  <2> DEFINE u == Reload(table, p)
  <2>1. u.increment = 1 /\ u.numPages = 0 /\ u.numResults = 0 /\ u.pages = NoPages
        /\ u.marker = NoRow /\ u.nonce = table.nonce + 1
    BY <1>1, ReloadedTable
  <2> HIDE DEF u
  <2>2. u.increment \in {1, -1} /\ u.increment # -1 /\ TRUE \in BOOLEAN
        /\ u.numPages = CeilDiv(u.numResults, PageSize)
    BY <2>1, NoResultsNoPages
  <2>3. Kick(u, calls, 1)
    BY <1>4 DEF u
  <2> QED BY <1>4, <2>1, <2>2, <2>3, FreshIsSteady
<1>5. CASE MountTable
  <2>1. PICK p \in StartPages : Kick(Reload(table, p), calls, 1)
    BY <1>5 DEF MountTable
  <2>2. Forget(TRUE) /\ listing' = listing
    BY <1>5 DEF MountTable, Sees
  <2>3. p \in Int
    BY TableAssumption
  <2> QED BY <1>4, <2>1, <2>2, <2>3
<1>6. CASE Refresh
  <2>1. Kick(Reload(table, table.page), calls, 1) /\ Forget(TRUE) /\ listing' = listing
    BY <1>6 DEF Refresh, Sees
  <2>2. table.page \in Int
    BY <1>1 DEF IsTable
  <2> QED BY <1>4, <2>1, <2>2
<1>7. ASSUME NEW k \in Keys, Sort(k)
      PROVE  SteadyInv'
  <2> DEFINE asc == k = table.key /\ ~table.asc
             u == [Reload(table, 0) EXCEPT !.key = k, !.asc = asc]
             m == IF k = table.key THEN 1 ELSE 2
  <2>1. Kick(u, calls, m) /\ Forget(TRUE) /\ listing' = listing
    BY <1>7 DEF Sort, Sees
  <2>2. asc \in BOOLEAN
    OBVIOUS
  <2> HIDE DEF asc
  <2>3. u = [increment |-> 1, page |-> 0, numPages |-> 0, numResults |-> 0,
             farthest |-> 0, isPaging |-> TRUE, marker |-> NoRow, pages |-> NoPages,
             nonce |-> table.nonce + 1, asc |-> asc, key |-> k]
    <3> DEFINE e == Reload(table, 0)
    <3>1. u = [e EXCEPT !.key = k, !.asc = asc]
      OBVIOUS
    <3> HIDE DEF u
    <3> QED BY ZenonT(60), <1>1, <2>2, <3>1, SortedTable DEF e
  <2> HIDE DEF u, m
  <2>4. /\ u.pages = NoPages /\ u.marker = NoRow /\ u.nonce = table.nonce + 1
        /\ u.increment \in {1, -1} /\ u.increment # -1 /\ TRUE \in BOOLEAN
        /\ u.numPages = CeilDiv(u.numResults, PageSize)
    BY <2>3, NoResultsNoPages
  <2> QED BY <2>1, <2>4, FreshIsSteady
<1>8. ASSUME Reverse, listing' = listing, table.numPages > 1
      PROVE  SteadyInv'
  <2> DEFINE inc == -table.increment
             p == IF inc = 1 THEN 0 ELSE table.numPages - 1
             far == FarthestPage(p, table.numPages, inc)
             ok == table.numResults = n
             u == [Emptied(table) EXCEPT
                     !.increment = inc, !.page = p, !.numPages = table.numPages,
                     !.farthest = far, !.numResults = table.numResults]
  <2>1. Kick(u, calls, 1) /\ Forget(ok) /\ ok \in BOOLEAN
    BY <1>8 DEF Reverse
  <2>2. inc \in {1, -1}
    BY <1>1
  <2> HIDE DEF inc, p, far
  <2>3. u = [increment |-> inc, page |-> p, numPages |-> table.numPages,
             numResults |-> table.numResults, farthest |-> far, isPaging |-> TRUE,
             marker |-> NoRow, pages |-> NoPages, nonce |-> table.nonce + 1,
             asc |-> table.asc, key |-> table.key]
    <3> DEFINE e == Emptied(table)
    <3>1. u = [e EXCEPT !.increment = inc, !.page = p, !.numPages = table.numPages,
                        !.farthest = far, !.numResults = table.numResults]
      OBVIOUS
    <3> HIDE DEF u
    <3> QED BY ZenonT(60), <1>1, <3>1, ReversedTable DEF e
  <2> HIDE DEF u
  <2>4. ok => table.numResults = n /\ table.numResults > 0
    <3> SUFFICES ASSUME n = 0, table.numResults = n PROVE FALSE
      BY <1>3
    <3> QED BY <1>2, <1>8, NoResultsNoPages
  <2> HIDE DEF ok
  <2>5. /\ u.pages = NoPages /\ u.marker = NoRow /\ u.nonce = table.nonce + 1
        /\ u.increment \in {1, -1} /\ u.numPages = CeilDiv(u.numResults, PageSize)
        /\ u.numResults = table.numResults
    BY <1>2, <2>2, <2>3
  <2> QED BY <1>8, <2>1, <2>4, <2>5, FreshIsSteady
<1>9. ASSUME NEW p, Navigate(p), listing' = listing
      PROVE  SteadyInv'
  <2> DEFINE u == [table EXCEPT !.page = p,
                     !.farthest = FarthestPage(p, table.numPages, table.increment)]
  <2>1. /\ u.increment = table.increment /\ u.numPages = table.numPages
        /\ u.isPaging = table.isPaging /\ u.marker = table.marker
        /\ u.pages = table.pages /\ u.nonce = table.nonce /\ u.asc = table.asc
        /\ u.key = table.key /\ u.numResults = table.numResults
    BY <1>1 DEF IsTable
  <2>2. Kick(u, calls, 1) /\ steady' = steady
    BY <1>9 DEF Navigate, history
  <2> HIDE DEF u
  <2>3. table' = u /\ \A c \in CallIds : calls'[c] = calls[c] \/ calls'[c] = Request(u)
    BY <2>2, KickAsks
  <2>4. Loaded(u) = Loaded(table) /\ ToFill(u) = ToFill(table) /\ Limit(u) = Limit(table)
    BY <2>1 DEF Loaded, ToFill, Limit
  <2>5. ASSUME steady PROVE SteadyTable(u, all, n)
    BY <1>2, <2>1, <2>4, <2>5 DEF SteadyTable, AskedFrom
  <2>6. ASSUME steady, NEW c \in CallIds PROVE SteadyCall(u, calls'[c], all, n)
    <3>1. CASE calls'[c] = calls[c]
      BY <1>2, <2>1, <2>4, <2>6, <3>1 DEF SteadyCall, Wanted, Live, Turned, AskedFrom
    <3>2. CASE calls'[c] = Request(u)
      BY <3>2 DEF SteadyCall, Request, NoCall
    <3> QED BY <2>3, <3>1, <3>2
  <2> QED BY <1>2, <1>9, <2>1, <2>2, <2>3, <2>5, <2>6 DEF SteadyInv
<1>10. CASE Click
  BY <1>8, <1>9, <1>10 DEF Click, Sees
<1>11. CASE ModalDelete \/ Change
  BY <1>2, <1>11 DEF ModalDelete, Change, SteadyInv
<1>12. CASE Unmount \/ UNCHANGED tableVars
  BY <1>12 DEF Unmount, Sees, tableVars, history, SteadyInv, SteadyTable, SteadyCall,
               AskedFrom, Turned, Wanted, Live
<1>13. ASSUME NEW c \in CallIds, NEW q, calls' = [calls EXCEPT ![c] = q],
              UNCHANGED <<table, listing, steady>>,
              steady => SteadyCall(table, q, all, n)
       PROVE  SteadyInv'
  <2>1. \A d \in CallIds : calls'[d] = calls[d] \/ calls'[d] = q
    BY <1>1, <1>13
  <2>2. steady => \A d \in CallIds : SteadyCall(table, calls'[d], all, n)
    BY <1>2, <1>13, <2>1
  <2> QED BY <1>2, <1>13, <2>2 DEF SteadyInv
<1>14. ASSUME NEW c \in CallIds, Count(c) \/ Fetch(c) \/ Fail(c) \/ Receive(c)
       PROVE  SteadyInv'
  <2> DEFINE q == calls[c]
  <2>1. IsCall(q) /\ Fits(table, q) /\ (steady => SteadyCall(table, q, all, n))
    BY <1>1, <1>2
  <2>2. SteadyCall(table, NoCall, all, n)
    BY DEF SteadyCall, Wanted, Live, NoCall
  <2>3. CASE Count(c)
    <3> DEFINE new == [q EXCEPT !.phase = "counted", !.count = n]
    <3>1. q.phase = "sent" /\ calls' = [calls EXCEPT ![c] = new]
          /\ UNCHANGED <<table, listing, steady>>
      BY <1>1, <2>3 DEF Count, ServerKeeps, history
    <3>2. /\ new.phase = "counted" /\ new.count = n /\ new.nonce = q.nonce
          /\ new.index = q.index /\ new.limit = q.limit
      BY <2>1 DEF IsCall
    <3> HIDE DEF new
    <3>3. steady => SteadyCall(table, new, all, n)
      BY <2>1, <3>1, <3>2 DEF SteadyCall, Wanted, Live
    <3> QED BY <1>13, <3>1, <3>3
  <2>4. CASE Fetch(c)
    <3> DEFINE page == PageOf(q)
               next == NextMarker(q, page)
               new == [q EXCEPT !.phase = "answered", !.data = page, !.next = next]
    <3>1. q.phase = "counted" /\ calls' = [calls EXCEPT ![c] = new]
          /\ UNCHANGED <<table, listing, steady>>
      BY <1>1, <2>4 DEF Fetch, ServerKeeps, history
    <3>2. steady /\ Wanted(table, q) =>
            /\ Turned(table, page) = Segment(all, n, q.index)
            /\ next # NoRow => AskedFrom(table, all, n, q.index + table.increment, next)
      <4>1. q.limit > 0
        BY <2>1, <3>1 DEF Fits
      <4> QED BY <1>1, <1>2, <2>1, <4>1, AnswerIsSegment
    <3> HIDE DEF page, next
    <3>3. /\ new.phase = "answered" /\ new.data = page /\ new.next = next
          /\ new.nonce = q.nonce /\ new.index = q.index /\ new.limit = q.limit
          /\ new.count = q.count
      BY <2>1 DEF IsCall
    <3> HIDE DEF new
    <3>4. steady => SteadyCall(table, new, all, n)
      <4>1. Wanted(table, new) => Wanted(table, q)
        BY <3>1, <3>3 DEF Wanted, Live
      <4> QED BY <2>1, <3>1, <3>2, <3>3, <4>1 DEF SteadyCall
    <3> QED BY <1>13, <3>1, <3>4
  <2>5. CASE Fail(c)
    BY <1>13, <2>2, <2>5 DEF Fail, ServerKeeps, history
  <2>6. CASE Receive(c) /\ ~Current(q)
    BY <1>13, <2>2, <2>6 DEF Receive
  <2>7. CASE Receive(c) /\ Current(q)
    <3> DEFINE u == Filled(table, q)
               cs == [calls EXCEPT ![c] = NoCall]
    <3>1. q.phase = "answered" /\ Kick(u, cs, 1) /\ UNCHANGED <<listing, steady>>
      BY <2>7 DEF Receive
    <3>2. Wanted(table, q) /\ q.index \notin Loaded(table)
      BY <2>7, <3>1 DEF Current, Wanted, Live
    <3>3. steady => SteadyTable(u, all, n)
      BY <1>1, <1>2, <1>3, <2>1, <3>1, <3>2, FillingIsSteady
    <3>4. /\ u.nonce = table.nonce /\ u.numPages = CeilDiv(u.numResults, PageSize)
          /\ Loaded(u) = Loaded(table) \cup {q.index}
          /\ u.key = table.key /\ u.asc = table.asc
      BY <1>1, <2>1, <3>2, FilledTable
    <3> HIDE DEF u
    <3>5. /\ table' = u
          /\ \A d \in CallIds : calls'[d] = cs[d] \/ calls'[d] = Request(u)
      BY <3>1, KickAsks
    <3>6. ASSUME steady, NEW d \in CallIds PROVE SteadyCall(u, calls'[d], all, n)
      <4>1. CASE calls'[d] = Request(u)
        BY <4>1 DEF SteadyCall, Request, NoCall
      <4>2. CASE calls'[d] = NoCall
        BY <4>2 DEF SteadyCall, Wanted, Live, NoCall
      <4>3. CASE calls'[d] = calls[d]
        <5>1. Fits(table, calls[d]) /\ Fits(table, q)
          BY <1>1
        <5>2. ~Wanted(u, calls[d])
          BY <3>2, <3>4, <5>1 DEF Wanted, Live, Fits
        <5> QED BY <4>3, <5>2 DEF SteadyCall
      <4>4. cs[d] = NoCall \/ cs[d] = calls[d]
        BY <1>1
      <4> QED BY <3>5, <4>1, <4>2, <4>3, <4>4
    <3> QED BY <1>2, <3>1, <3>3, <3>4, <3>5, <3>6 DEF SteadyInv
  <2> QED BY <1>14, <2>3, <2>4, <2>5, <2>6, <2>7
<1> QED BY <1>5, <1>6, <1>7, <1>10, <1>11, <1>12, <1>14 DEF TableNext, TableStep

LEMMA SteadyStart == TableInit => SteadyInv
<1> SUFFICES ASSUME TableInit PROVE SteadyInv
  OBVIOUS
<1>1. /\ table.increment = 1 /\ table.numPages = 0 /\ table.numResults = 0
      /\ table.pages = NoPages /\ table.marker = NoRow /\ steady = TRUE
      /\ \A c \in CallIds : calls[c] = NoCall
  BY DEF TableInit
<1>2. Loaded(table) = {} /\ Cardinality(Loaded(table)) = 0
  BY <1>1, EmptyPages, FS_EmptySet DEF Loaded
<1>3. \A all, n : SteadyTable(table, all, n)
  BY <1>1, <1>2 DEF SteadyTable, AskedFrom, ToFill
<1>4. \A all, n : \A c \in CallIds : SteadyCall(table, calls[c], all, n)
  BY <1>1 DEF SteadyCall, Wanted, Live, NoCall
<1> QED BY <1>1, <1>3, <1>4, NoResultsNoPages DEF SteadyInv

(* A segment of the listing, in the words of the property.                 *)
LEMMA SegmentIsSubSeq ==
  ASSUME NEW all \in Seq(Rows), NEW n, n = Len(all), NEW i \in Int, i >= 0,
         i > 0 => Offset(i) < n
  PROVE  SubSeq(all, i * PageSize + 1,
                IF (i + 1) * PageSize <= n THEN (i + 1) * PageSize ELSE n)
           = Segment(all, n, i)
<1> DEFINE a == Offset(i)
           b == IF Offset(i + 1) <= n THEN Offset(i + 1) ELSE n
<1>1. PageSize \in Nat /\ n \in Nat /\ PageSize > 0
  BY TableAssumption
<1>2. a \in Nat /\ Offset(i + 1) = a + PageSize /\ a <= n
  <2>1. a \in Int /\ a >= 0 /\ Offset(i + 1) = a + PageSize
    BY OffsetFacts
  <2>2. CASE i = 0
    BY <1>1, <2>1, <2>2, OffsetFacts
  <2>3. CASE i > 0
    BY <1>1, <2>1, <2>3
  <2> QED BY <2>1, <2>2, <2>3
<1> HIDE DEF a
<1>3. b \in Nat /\ a <= b /\ b <= n
  BY <1>1, <1>2
<1> HIDE DEF b
<1>4. SubSeq(all, a + 1, b) = [j \in 1..(b - a) |-> all[a + j]]
  BY <1>1, <1>2, <1>3
<1> QED BY <1>4 DEF Offset, a, b, Segment

(* While nothing changes, a page of the table is a page of the listing.    *)
THEOREM SteadyPagesMatch == TableSpec => []PagesMatchListing
<1>1. PageInv /\ SteadyInv => PagesMatchListing
  <2> SUFFICES ASSUME PageInv, SteadyInv, steady, NEW i \in Loaded(table)
               PROVE
        LET all == InOrder(listing, table.key, table.asc)
        IN table.pages[i] = SubSeq(all, i * PageSize + 1,
                                   IF (i + 1) * PageSize <= Len(all)
                                   THEN (i + 1) * PageSize ELSE Len(all))
    BY DEF PagesMatchListing
  <2> DEFINE all == InOrder(listing, table.key, table.asc)
             n   == Cardinality(listing)
  <2>1. /\ listing \subseteq Rows /\ table.key \in Keys /\ table.asc \in BOOLEAN
        /\ i \in Int
    BY DEF PageInv, TypeInv, IsTable
  <2>2. i >= 0 /\ (i > 0 => Offset(i) < n) /\ table.pages[i] = Segment(all, n, i)
    BY DEF SteadyInv, SteadyTable
  <2>3. n \in Nat /\ all \in [1..n -> listing]
    BY <2>1, InOrderWorks
  <2> HIDE DEF all, n
  <2>4. all \in Seq(Rows) /\ Len(all) = n
    BY <2>1, <2>3
  <2> QED BY <2>1, <2>2, <2>4, SegmentIsSubSeq DEF all
<1>2. TableInit => SteadyInv
  BY SteadyStart
<1>3. PageInv /\ SteadyInv /\ [TableNext]_tableVars => SteadyInv'
  BY SteadyStep
<1> QED BY <1>1, <1>2, <1>3, PageInvariant, PTL DEF TableSpec
=============================================================================
