--------------------------- MODULE ConnectionPool ---------------------------
(***************************************************************************)
(* The read connection pool of the MCP server and the HTTP server: one     *)
(* pool entry of MaxConns connections per repository, native databases     *)
(* shared by path and counted, queries that take a connection or queue for *)
(* one, and the four ways an entry goes away: eviction, the idle timer, an *)
(* explicit close, and the same close while queries hold its connections.  *)
(*                                                                         *)
(* Each initialisation takes the next id; the id names the pool entry it   *)
(* builds and, when it opens one, the native database.                     *)
(***************************************************************************)
EXTENDS Integers, FiniteSets, Sequences

CONSTANTS
  Repos, Paths,
  PathOf,        \* the database path of each repository
  Queries,       \* concurrent callers
  MaxConns,      \* MAX_CONNS_PER_REPO
  MaxPool,       \* MAX_POOL_SIZE
  MaxInits,      \* bound: initialisations in a behaviour
  MaxOrphans,    \* bound: native calls that outlived their query, at a time
  Disturbances   \* "close", "queryTimeout", "sharedOpen"

(* "close": closeLbug is called.  "queryTimeout": a native query outlives  *)
(* the timeout of its caller.  "sharedOpen": two repositories open one     *)
(* database path at the same time.                                         *)
ASSUME PoolAssumption ==
  /\ PathOf \in [Repos -> Paths] /\ IsFiniteSet(Repos) /\ IsFiniteSet(Queries)
  /\ MaxConns \in Nat \ {0} /\ MaxPool \in Nat \ {0} /\ MaxInits \in Nat /\ MaxOrphans \in Nat
  /\ Disturbances \subseteq {"close", "queryTimeout", "sharedOpen"}

Ids == 1..MaxInits
None == 0
Conns == 1..MaxConns

VARIABLES
  pool,      \* the entry registered for each repository
  entry,     \* the pool entries
  dbCache,   \* the shared database of each path
  refCount,  \* how many entries each shared database serves
  handle,    \* the native database: "none", "open" or "closed"
  init,      \* the pending initialisation of each repository
  lastId,    \* ids handed out
  query,     \* what each caller is doing
  native     \* connections whose native call outlived its query

shared == <<dbCache, refCount, handle>>
vars == <<pool, entry, dbCache, refCount, handle, init, lastId, query, native>>

Entries == [db : Ids \cup {None}, available : SUBSET Conns, checkedOut : 0..MaxConns,
            waiters : Seq(Queries), closed : BOOLEAN]
NoEntry == [db |-> None, available |-> {}, checkedOut |-> 0,
            waiters |-> <<>>, closed |-> FALSE]

Inits == [stage : {"none", "open", "fts"}, id : Ids \cup {None}]
NotStarted == [stage |-> "none", id |-> None]

Callers == [at : {"idle", "waiting", "running"}, entry : Ids \cup {None},
            conn : Conns \cup {None}]
Idle == [at |-> "idle", entry |-> None, conn |-> None]

Init ==
  /\ pool = [r \in Repos |-> None] /\ init = [r \in Repos |-> NotStarted]
  /\ entry = [i \in Ids |-> NoEntry]
  /\ dbCache = [p \in Paths |-> None]
  /\ refCount = [i \in Ids |-> 0] /\ handle = [i \in Ids |-> "none"]
  /\ lastId = 0
  /\ query = [q \in Queries |-> Idle] /\ native = {}

Pooled == {r \in Repos : pool[r] # None}
Quiet(r) == entry[pool[r]].checkedOut = 0
InWaiters(i) == {entry[i].waiters[n] : n \in DOMAIN entry[i].waiters}

(***************************************************************************)
(* closeOne, for every repository of rs: the entry is marked closed, its   *)
(* waiters are rejected, its idle connections closed, and the database of  *)
(* its path, whichever that now is, loses a reference and is closed with   *)
(* the last one.  rs has one element or is empty.                          *)
(***************************************************************************)
Released(rs) == {dbCache[PathOf[r]] : r \in rs} \ {None}

\* Mutant: the first entry to go closes the shared database.
EveryUseIsLast(rs) == Released(rs)

LastUse(rs) == {d \in Released(rs) : refCount[d] = 1}
CacheWithout(rs) == [p \in Paths |-> IF dbCache[p] \in LastUse(rs) THEN None ELSE dbCache[p]]
CountWithout(rs) == [d \in Ids |-> IF d \in Released(rs) THEN refCount[d] - 1 ELSE refCount[d]]
HandleWithout(rs) == [d \in Ids |-> IF d \in LastUse(rs) THEN "closed" ELSE handle[d]]
PoolWithout(rs) == [r \in Repos |-> IF r \in rs THEN None ELSE pool[r]]
EntriesWithout(rs) ==
  [i \in Ids |-> IF \E r \in rs : pool[r] = i
                 THEN [entry[i] EXCEPT !.closed = TRUE, !.available = {}, !.waiters = <<>>]
                 ELSE entry[i]]

\* Mutant: the waiters of a closed entry are not rejected.
WaitersStay(rs) == query

CallersWithout(rs) ==
  [q \in Queries |-> IF \E r \in rs : q \in InWaiters(pool[r]) THEN Idle ELSE query[q]]

CloseOne(r) ==
  /\ pool' = PoolWithout({r}) /\ entry' = EntriesWithout({r})
  /\ dbCache' = CacheWithout({r}) /\ refCount' = CountWithout({r})
  /\ handle' = HandleWithout({r})
  /\ query' = CallersWithout({r})
  /\ UNCHANGED <<init, lastId, native>>

(* The 60 s timer closes an entry nobody uses.  Which of them is the least *)
(* recently used is left open.                                             *)
IdleClose(r) == r \in Pooled /\ Quiet(r) /\ CloseOne(r)

CloseLbug(r) == "close" \in Disturbances /\ r \in Pooled /\ CloseOne(r)

(* evictLRU closes nothing below the limit or when every entry is in use. *)
Evictable == IF Cardinality(Pooled) < MaxPool THEN {} ELSE {r \in Pooled : Quiet(r)}
Evictions == IF Evictable = {} THEN {{}} ELSE {{r} : r \in Evictable}

-----------------------------------------------------------------------------
(* initLbug, from the eviction to its first await: a cached database is    *)
(* joined, otherwise one is opened.                                        *)
StartInit(r) ==
  /\ pool[r] = None /\ init[r].stage = "none" /\ lastId < MaxInits
  /\ lastId' = lastId + 1
  /\ \E gone \in Evictions :
       LET cache == CacheWithout(gone)
           d == cache[PathOf[r]]
       IN  /\ pool' = PoolWithout(gone) /\ query' = CallersWithout(gone)
           /\ dbCache' = cache /\ handle' = HandleWithout(gone)
           /\ \/ /\ d # None
                 /\ refCount' = [CountWithout(gone) EXCEPT ![d] = @ + 1]
                 /\ entry' = [EntriesWithout(gone) EXCEPT ![lastId'].db = d]
                 /\ init' = [init EXCEPT ![r] = [stage |-> "fts", id |-> lastId']]
              \/ /\ d = None
                 /\ "sharedOpen" \in Disturbances \/
                    \A o \in Repos : PathOf[o] = PathOf[r] => init[o].stage # "open"
                 /\ refCount' = CountWithout(gone)
                 /\ entry' = EntriesWithout(gone)
                 /\ init' = [init EXCEPT ![r] = [stage |-> "open", id |-> lastId']]
  /\ UNCHANGED native

\* Mutant: the shared database starts without a reference.
OpenedUncounted(r) ==
  LET i == init[r].id IN
  /\ init[r].stage = "open"
  /\ init' = [init EXCEPT ![r].stage = "fts"]
  /\ handle' = [handle EXCEPT ![i] = "open"]
  /\ dbCache' = [dbCache EXCEPT ![PathOf[r]] = i]
  /\ refCount' = [refCount EXCEPT ![i] = 0 - 1]
  /\ entry' = [entry EXCEPT ![i].db = i]
  /\ UNCHANGED <<pool, lastId, query, native>>

(* The database is open: it becomes the shared one of its path. *)
Opened(r) ==
  LET i == init[r].id IN
  /\ init[r].stage = "open"
  /\ init' = [init EXCEPT ![r].stage = "fts"]
  /\ handle' = [handle EXCEPT ![i] = "open"]
  /\ dbCache' = [dbCache EXCEPT ![PathOf[r]] = i]
  /\ refCount' = [refCount EXCEPT ![i] = 1]
  /\ entry' = [entry EXCEPT ![i].db = i]
  /\ UNCHANGED <<pool, lastId, query, native>>

OpenFails(r) ==
  /\ init[r].stage = "open"
  /\ init' = [init EXCEPT ![r] = NotStarted]
  /\ UNCHANGED <<pool, entry, shared, lastId, query, native>>

(* The full-text extension is loaded: the entry is registered, all its     *)
(* connections idle.                                                       *)
Ready(r) ==
  LET i == init[r].id IN
  /\ init[r].stage = "fts"
  /\ init' = [init EXCEPT ![r] = NotStarted]
  /\ pool' = [pool EXCEPT ![r] = i]
  /\ entry' = [entry EXCEPT ![i].available = Conns]
  /\ UNCHANGED <<shared, lastId, query, native>>

-----------------------------------------------------------------------------
(* executeParameterized *)

Running(i, k) == [at |-> "running", entry |-> i, conn |-> k]

Checkout(q, r) ==
  LET i == pool[r] IN
  /\ r \in Pooled /\ query[q] = Idle
  /\ \E k \in entry[i].available :
       /\ entry' = [entry EXCEPT ![i].available = @ \ {k}, ![i].checkedOut = @ + 1]
       /\ query' = [query EXCEPT ![q] = Running(i, k)]
  /\ UNCHANGED <<pool, shared, init, lastId, native>>

Enqueue(q, r) ==
  LET i == pool[r] IN
  /\ r \in Pooled /\ query[q] = Idle
  /\ entry[i].available = {}
  /\ entry[i].checkedOut = MaxConns
  /\ entry' = [entry EXCEPT ![i].waiters = Append(@, q)]
  /\ query' = [query EXCEPT ![q] = [at |-> "waiting", entry |-> i, conn |-> None]]
  /\ UNCHANGED <<pool, shared, init, lastId, native>>

\* Mutant: a connection handed to a waiter is also put with the idle ones.
CheckinTwice(q) ==
  LET i == query[q].entry
      k == query[q].conn
      line == entry[i].waiters
  IN  \/ /\ entry[i].closed
         /\ query' = [query EXCEPT ![q] = Idle]
         /\ UNCHANGED entry
      \/ /\ ~entry[i].closed /\ line # <<>>
         /\ query' = [query EXCEPT ![q] = Idle, ![Head(line)] = Running(i, k)]
         /\ entry' = [entry EXCEPT ![i].waiters = Tail(@), ![i].available = @ \cup {k}]
      \/ /\ ~entry[i].closed /\ line = <<>>
         /\ query' = [query EXCEPT ![q] = Idle]
         /\ entry' = [entry EXCEPT ![i].checkedOut = @ - 1, ![i].available = @ \cup {k}]

(* The connection of q goes back: closed with its entry, handed to the     *)
(* first waiter, or put with the idle ones.                                *)
Checkin(q) ==
  LET i == query[q].entry
      k == query[q].conn
      line == entry[i].waiters
  IN  \/ /\ entry[i].closed
         /\ query' = [query EXCEPT ![q] = Idle]
         /\ UNCHANGED entry
      \/ /\ ~entry[i].closed /\ line # <<>>
         /\ query' = [query EXCEPT ![q] = Idle, ![Head(line)] = Running(i, k)]
         /\ entry' = [entry EXCEPT ![i].waiters = Tail(@)]
      \/ /\ ~entry[i].closed /\ line = <<>>
         /\ query' = [query EXCEPT ![q] = Idle]
         /\ entry' = [entry EXCEPT ![i].checkedOut = @ - 1, ![i].available = @ \cup {k}]

Finish(q) ==
  /\ query[q].at = "running"
  /\ Checkin(q)
  /\ UNCHANGED <<pool, shared, init, lastId, native>>

(* withTimeout rejects; the connection goes back while the native call     *)
(* still runs on it.                                                       *)
QueryTimeout(q) ==
  /\ "queryTimeout" \in Disturbances /\ Cardinality(native) < MaxOrphans
  /\ query[q].at = "running"
  /\ Checkin(q)
  /\ native' = native \cup {<<query[q].entry, query[q].conn>>}
  /\ UNCHANGED <<pool, shared, init, lastId>>

NativeReturns(c) ==
  /\ c \in native /\ native' = native \ {c}
  /\ UNCHANGED <<pool, entry, shared, init, lastId, query>>

(* The queue without its n-th caller. *)
Without(line, n) == [m \in 1..(Len(line) - 1) |-> line[IF m < n THEN m ELSE m + 1]]

WaiterTimeout(q) ==
  LET i == query[q].entry IN
  /\ query[q].at = "waiting"
  /\ query' = [query EXCEPT ![q] = Idle]
  /\ \E n \in DOMAIN entry[i].waiters :
       /\ entry[i].waiters[n] = q
       /\ entry' = [entry EXCEPT ![i].waiters = Without(@, n)]
  /\ UNCHANGED <<pool, shared, init, lastId, native>>

Next ==
  \/ \E r \in Repos : \/ StartInit(r) \/ Opened(r) \/ OpenFails(r) \/ Ready(r)
                      \/ IdleClose(r) \/ CloseLbug(r)
  \/ \E q \in Queries, r \in Repos : Checkout(q, r) \/ Enqueue(q, r)
  \/ \E q \in Queries : Finish(q) \/ QueryTimeout(q) \/ WaiterTimeout(q)
  \/ \E c \in native : NativeReturns(c)

Spec == Init /\ [][Next]_vars

(* The native engine answers every query; nothing else is promised, not    *)
(* even the timers.                                                        *)
FairSpec == Spec /\ \A q \in Queries : WF_vars(Finish(q))

-----------------------------------------------------------------------------
TypeOK ==
  /\ pool \in [Repos -> Ids \cup {None}] /\ init \in [Repos -> Inits]
  /\ entry \in [Ids -> Entries]
  /\ dbCache \in [Paths -> Ids \cup {None}]
  /\ refCount \in [Ids -> Nat] /\ handle \in [Ids -> {"none", "open", "closed"}]
  /\ lastId \in 0..MaxInits
  /\ query \in [Queries -> Callers]
  /\ native \subseteq Ids \X Conns

Holders(i) == {q \in Queries : query[q].at = "running" /\ query[q].entry = i}

(* The connections of an open entry are each idle or held by exactly one   *)
(* running query, checkedOut counts the held ones, and callers queue, each *)
(* once, only while none is idle: the pool integrity error cannot occur    *)
(* and no caller waits beside an idle connection.                          *)
ConnectionsAccounted ==
  \A r \in Pooled :
    LET i == pool[r] IN
    /\ entry[i].available \cup {query[q].conn : q \in Holders(i)} = Conns
    /\ entry[i].available \cap {query[q].conn : q \in Holders(i)} = {}
    /\ Cardinality(Holders(i)) = entry[i].checkedOut
    /\ Cardinality(entry[i].available) + entry[i].checkedOut = MaxConns
    /\ entry[i].waiters # <<>> => entry[i].available = {}
    /\ InWaiters(i) = {q \in Queries : query[q].at = "waiting" /\ query[q].entry = i}
    /\ Len(entry[i].waiters) = Cardinality(InWaiters(i))

(* Every registered or half-built entry stands on the open database of its *)
(* path, the reference count is the number of such entries, and no native  *)
(* database stays open that no entry can release.                          *)
Users(p) == {r \in Repos : PathOf[r] = p /\ (pool[r] # None \/ init[r].stage = "fts")}
EntryOf(r) == IF pool[r] # None THEN pool[r] ELSE init[r].id

DatabaseServesItsEntries ==
  /\ \A p \in Paths :
       LET d == dbCache[p] IN
       /\ \A r \in Users(p) : entry[EntryOf(r)].db = d /\ handle[d] = "open"
       /\ d # None => refCount[d] = Cardinality(Users(p)) /\ refCount[d] > 0
  /\ \A d \in Ids : handle[d] = "open" => \E p \in Paths : dbCache[p] = d

(* No connection executes two queries at a time.                           *)
OneQueryPerConnection ==
  \A q \in Queries : query[q].at = "running" =>
    /\ <<query[q].entry, query[q].conn>> \notin native
    /\ \A o \in Queries \ {q} : query[o].at = "running" =>
         <<query[o].entry, query[o].conn>> # <<query[q].entry, query[q].conn>>

(* A running query's native database is open. *)
DatabaseOpenUnderQuery ==
  \A q \in Queries : query[q].at = "running" => handle[entry[query[q].entry].db] = "open"

(* The pool holds at most MaxPool entries. *)
PoolBounded == Cardinality(Pooled) <= MaxPool

(* Every caller in the queue gets a connection or an error, without the    *)
(* help of its timeout, as long as the native engine answers.              *)
WaiterServed == \A q \in Queries : query[q].at = "waiting" ~> query[q].at # "waiting"

=============================================================================
