------------------------ MODULE ConnectionPoolProofs ------------------------
(***************************************************************************)
(* Safety of the connection pool, for any repositories, paths, callers and *)
(* limits, and any number of initialisations: connections are accounted    *)
(* for in every entry, and a database serves exactly the entries that      *)
(* hold a reference to it.                                                 *)
(***************************************************************************)
EXTENDS ConnectionPool, TLAPS, FiniteSetTheorems, SequenceTheorems

Live(i) == \E r \in Repos : pool[r] = i
Waiting(i) == [at |-> "waiting", entry |-> i, conn |-> None]
Held(i) == {query[q].conn : q \in Holders(i)}

(* Every initialisation has an id of its own. *)
IdsDistinct ==
  /\ \A r \in Repos : pool[r] <= lastId /\ init[r].id <= lastId
  /\ \A r \in Repos : init[r].stage = "none" <=> init[r].id = None
  /\ \A r \in Repos : pool[r] # None => init[r] = NotStarted
  /\ \A r, o \in Repos : EntryOf(r) # None /\ EntryOf(r) = EntryOf(o) => r = o

CallersFit ==
  \A q \in Queries :
    \/ query[q] = Idle
    \/ query[q].entry \in Ids /\ query[q] = Waiting(query[q].entry)
    \/ query[q].at = "running" /\ query[q].entry \in Ids /\ query[q].conn \in Conns

(* The connections and the counter of a registered entry. *)
Balanced(i) ==
  /\ entry[i].available \cap Held(i) = {}
  /\ entry[i].available \cup Held(i) = Conns
  /\ \A q, o \in Holders(i) : query[q].conn = query[o].conn => q = o
  /\ Cardinality(Holders(i)) = entry[i].checkedOut
  /\ Cardinality(entry[i].available) + entry[i].checkedOut = MaxConns
  /\ entry[i].waiters # <<>> => entry[i].available = {}

(* The queue of an entry holds exactly its waiting callers, each once. *)
Queued(i) ==
  LET line == entry[i].waiters IN
  /\ \A n \in 1..Len(line) : query[line[n]] = Waiting(i)
  /\ \A m, n \in 1..Len(line) : line[m] = line[n] => m = n
  /\ \A q \in Queries : query[q] = Waiting(i) => \E n \in 1..Len(line) : line[n] = q

EntryInv(i) ==
  /\ Live(i) => ~entry[i].closed /\ Balanced(i)
  /\ ~Live(i) => entry[i].available = {} /\ entry[i].waiters = <<>>
  /\ ~Live(i) /\ ~entry[i].closed => entry[i].checkedOut = 0 /\ Holders(i) = {}
  /\ Queued(i)

(* A cached database has a reference, and is that of one path.             *)
Cached ==
  /\ \A p \in Paths : dbCache[p] # None => dbCache[p] <= lastId /\ refCount[dbCache[p]] > 0
  /\ \A p, o \in Paths : dbCache[p] # None /\ dbCache[p] = dbCache[o] => p = o
  /\ \A r \in Repos, p \in Paths : init[r].stage = "open" => dbCache[p] # init[r].id

IInv == TypeOK /\ IdsDistinct /\ CallersFit /\ (\A i \in Ids : EntryInv(i)) /\ Cached

-----------------------------------------------------------------------------
LEMMA NumberFacts == /\ MaxConns \in Nat /\ MaxConns > 0 /\ MaxInits \in Nat
                     /\ None = 0 /\ None \notin Ids /\ None \notin Conns
                     /\ Ids \subseteq Nat /\ Conns \subseteq Nat
                     /\ IsFiniteSet(Conns) /\ Cardinality(Conns) = MaxConns
<1>1. MaxConns \in Nat /\ MaxConns > 0 /\ MaxInits \in Nat
  BY PoolAssumption
<1>2. IsFiniteSet(1..MaxConns) /\ Cardinality(1..MaxConns) = MaxConns
  BY <1>1, FS_Interval
<1>3. QED
  BY <1>1, <1>2 DEF None, Ids, Conns

LEMMA HoldersFinite ==
    ASSUME NEW i \in Ids
    PROVE  IsFiniteSet(Holders(i))
BY PoolAssumption, FS_Subset DEF Holders

LEMMA SameQueue ==
    ASSUME NEW i \in Ids, Queued(i), entry[i].waiters \in Seq(Queries),
           entry'[i].waiters = entry[i].waiters,
           \A q \in Queries : query'[q] = Waiting(i) <=> query[q] = Waiting(i)
    PROVE  Queued(i)'
<1>1. \A n \in 1..Len(entry[i].waiters) : entry[i].waiters[n] \in Queries
  OBVIOUS
<1>2. QED
  BY <1>1 DEF Queued

(* An entry is what its four fields, its registration and its callers are. *)
LEMMA Frame ==
    ASSUME NEW i \in Ids, EntryInv(i), Live(i)' <=> Live(i),
           entry[i].waiters \in Seq(Queries),
           entry'[i].available = entry[i].available,
           entry'[i].checkedOut = entry[i].checkedOut,
           entry'[i].waiters = entry[i].waiters,
           entry'[i].closed = entry[i].closed,
           \A q \in Queries :
             query'[q] = query[q] \/ (query[q].entry # i /\ query'[q].entry # i)
    PROVE  EntryInv(i)'
<1>1. Holders(i)' = Holders(i)
  BY DEF Holders
<1>2. \A q \in Holders(i) : query'[q] = query[q]
  BY DEF Holders
<1>3. Held(i)' = Held(i)
  BY <1>1, <1>2 DEF Held
<1>4. Balanced(i)' <=> Balanced(i)
  BY <1>1, <1>2, <1>3 DEF Balanced
<1>5. \A q \in Queries : query'[q] = Waiting(i) <=> query[q] = Waiting(i)
  BY DEF Waiting
<1>6. Queued(i)'
  BY <1>5, SameQueue DEF EntryInv
<1>7. QED
  BY <1>1, <1>4, <1>6 DEF EntryInv

LEMMA SameIds ==
    ASSUME IdsDistinct, Cached, UNCHANGED <<pool, shared, init, lastId>>
    PROVE  IdsDistinct' /\ Cached'
BY DEF IdsDistinct, Cached, shared, EntryOf

LEMMA EntryFields ==
    ASSUME TypeOK, NEW i \in Ids
    PROVE  /\ entry[i].available \subseteq Conns /\ entry[i].checkedOut \in 0..MaxConns
           /\ entry[i].waiters \in Seq(Queries) /\ entry[i].closed \in BOOLEAN
           /\ entry[i].db \in Ids \cup {None}
BY DEF TypeOK, Entries

-----------------------------------------------------------------------------
(* Callers: take a connection, queue, give it back, give up.                *)

LEMMA CheckoutKeeps ==
    ASSUME IInv, NEW q \in Queries, NEW r \in Repos, Checkout(q, r)
    PROVE  IInv'
<1> USE NumberFacts
<1>0. PICK i \in Ids : i = pool[r]
  BY DEF Checkout, Pooled, IInv, TypeOK
<1>1. PICK k \in entry[i].available :
         /\ entry' = [entry EXCEPT ![i].available = @ \ {k}, ![i].checkedOut = @ + 1]
         /\ query' = [query EXCEPT ![q] = Running(i, k)]
  BY <1>0 DEF Checkout
<1>2. Live(i) /\ query[q] = Idle /\ UNCHANGED <<pool, shared, init, lastId, native>>
  BY <1>0 DEF Checkout, Live
<1>3. /\ entry[i].available \subseteq Conns /\ entry[i].checkedOut \in 0..MaxConns
      /\ IsFiniteSet(entry[i].available)
  BY <1>2, EntryFields, FS_Subset DEF IInv
<1>4. EntryInv(i) /\ ~entry[i].closed /\ Balanced(i)
  BY <1>2 DEF IInv, EntryInv
<1>5. /\ Cardinality(entry[i].available \ {k}) = Cardinality(entry[i].available) - 1
      /\ Cardinality(entry[i].available) \in Nat
      /\ Cardinality(entry[i].available \ {k}) \in Nat
  BY <1>1, <1>3, FS_RemoveElement, FS_CardinalityType
<1>6. entry[i].checkedOut + 1 \in 0..MaxConns
  BY <1>3, <1>4, <1>5 DEF Balanced
<1>7. entry \in [Ids -> Entries] /\ query \in [Queries -> Callers]
  BY DEF IInv, TypeOK
<1>8. /\ entry'[i].available = entry[i].available \ {k}
      /\ entry'[i].checkedOut = entry[i].checkedOut + 1
      /\ entry'[i].waiters = entry[i].waiters /\ entry'[i].closed = entry[i].closed
      /\ entry'[i].db = entry[i].db
      /\ \A j \in Ids : j # i => entry'[j] = entry[j]
  BY <1>1, <1>2, <1>7 DEF Entries
<1>9. entry' \in [Ids -> Entries]
  BY <1>1, <1>2, <1>3, <1>6, <1>7, SMTT(30) DEF Entries
<1>10. /\ query' \in [Queries -> Callers]
       /\ query'[q] = Running(i, k)
       /\ \A o \in Queries : o # q => query'[o] = query[o]
  BY <1>1, <1>2, <1>3, <1>7 DEF Callers, Running
<1>11. TypeOK' /\ IdsDistinct' /\ Cached'
  BY <1>2, <1>9, <1>10, SameIds DEF IInv, TypeOK, shared
<1>12. CallersFit'
  BY <1>1, <1>2, <1>3, <1>10 DEF IInv, CallersFit, Running, Waiting, Idle
<1>13. EntryInv(i)'
  <2>1. q \notin Holders(i) /\ Holders(i)' = Holders(i) \cup {q}
    BY <1>2, <1>10 DEF Holders, Idle, Running
  <2>2. Cardinality(Holders(i)') = Cardinality(Holders(i)) + 1
    BY <1>2, <2>1, HoldersFinite, FS_AddElement
  <2>3. Held(i)' = Held(i) \cup {k}
    <3>1. \A o \in Holders(i) : o \in Queries /\ o # q /\ query'[o] = query[o]
      BY <1>10, <2>1 DEF Holders
    <3>2. QED
      BY <1>10, <2>1, <3>1 DEF Held, Running
  <2>4. k \notin Held(i)
    BY <1>1, <1>4 DEF Balanced
  <2>5. \A o, u \in Holders(i)' : query'[o].conn = query'[u].conn => o = u
    BY <1>4, <1>10, <2>1, <2>4 DEF Balanced, Held, Running, Holders
  <2>6. Cardinality(Holders(i)') = entry'[i].checkedOut
    BY <1>4, <1>8, <2>2 DEF Balanced
  <2>7. Cardinality(entry'[i].available) + entry'[i].checkedOut = MaxConns
    BY <1>3, <1>4, <1>5, <1>8 DEF Balanced
  <2>8. Balanced(i)'
    BY <1>1, <1>4, <1>8, <2>3, <2>4, <2>5, <2>6, <2>7 DEF Balanced
  <2>9. \A o \in Queries : query'[o] = Waiting(i) <=> query[o] = Waiting(i)
    BY <1>2, <1>10 DEF Waiting, Running, Idle
  <2>10. Queued(i)'
    BY <1>4, <1>8, <2>9, EntryFields, SameQueue DEF EntryInv, IInv
  <2>11. QED
    BY <1>2, <1>4, <1>8, <2>8, <2>10 DEF EntryInv, Live
<1>14. ASSUME NEW j \in Ids, j # i
       PROVE  EntryInv(j)'
  <2>1. entry[j].waiters \in Seq(Queries) /\ EntryInv(j) /\ (Live(j)' <=> Live(j))
    BY <1>2, EntryFields DEF IInv, Live
  <2>2. \A o \in Queries : query'[o] = query[o] \/ (query[o].entry # j /\ query'[o].entry # j)
    BY <1>2, <1>10, <1>14 DEF Idle, Running
  <2>3. QED
    BY <1>8, <1>14, <2>1, <2>2, Frame
<1>15. QED
  BY <1>11, <1>12, <1>13, <1>14 DEF IInv

LEMMA EnqueueKeeps ==
    ASSUME IInv, NEW q \in Queries, NEW r \in Repos, Enqueue(q, r)
    PROVE  IInv'
<1> USE NumberFacts
<1>0. PICK i \in Ids : i = pool[r]
  BY DEF Enqueue, Pooled, IInv, TypeOK
<1>1. /\ entry' = [entry EXCEPT ![i].waiters = Append(@, q)]
      /\ query' = [query EXCEPT ![q] = Waiting(i)]
      /\ Live(i) /\ query[q] = Idle /\ entry[i].available = {}
      /\ UNCHANGED <<pool, shared, init, lastId, native>>
  BY <1>0 DEF Enqueue, Live, Waiting
<1>2. entry[i].waiters \in Seq(Queries) /\ entry[i].checkedOut \in 0..MaxConns
  BY EntryFields DEF IInv
<1>3. EntryInv(i) /\ ~entry[i].closed /\ Balanced(i) /\ Queued(i)
  BY <1>1 DEF IInv, EntryInv
<1>4. entry \in [Ids -> Entries] /\ query \in [Queries -> Callers]
  BY DEF IInv, TypeOK
<1>5. /\ entry'[i].waiters = Append(entry[i].waiters, q)
      /\ entry'[i].available = entry[i].available
      /\ entry'[i].checkedOut = entry[i].checkedOut
      /\ entry'[i].closed = entry[i].closed /\ entry'[i].db = entry[i].db
      /\ \A j \in Ids : j # i => entry'[j] = entry[j]
  BY <1>1, <1>4 DEF Entries
<1>6. entry' \in [Ids -> Entries]
  <2>1. Append(entry[i].waiters, q) \in Seq(Queries)
    BY <1>2
  <2>2. [entry[i] EXCEPT !.waiters = Append(entry[i].waiters, q)] \in Entries
    BY <1>4, <2>1 DEF Entries
  <2>3. QED
    BY <1>1, <1>4, <2>2
<1>7. /\ query' \in [Queries -> Callers]
      /\ query'[q] = Waiting(i)
      /\ \A o \in Queries : o # q => query'[o] = query[o]
  BY <1>1, <1>4 DEF Callers, Waiting
<1>8. TypeOK' /\ IdsDistinct' /\ Cached'
  BY <1>1, <1>6, <1>7, SameIds DEF IInv, TypeOK, shared
<1>9. CallersFit'
  BY <1>1, <1>7 DEF IInv, CallersFit, Waiting, Idle
<1>10. EntryInv(i)'
  <2>1. Holders(i)' = Holders(i) /\ \A o \in Holders(i) : query'[o] = query[o]
    BY <1>1, <1>7 DEF Holders, Idle, Waiting
  <2>2. Held(i)' = Held(i)
    BY <2>1 DEF Held
  <2>3. Balanced(i)'
    <3>1. \A o, u \in Holders(i)' : query'[o].conn = query'[u].conn => o = u
      BY <1>3, <2>1 DEF Balanced
    <3>2. Cardinality(Holders(i)') = entry'[i].checkedOut
      BY <1>3, <1>5, <2>1 DEF Balanced
    <3>3. entry'[i].available = {}
      BY <1>1, <1>5
    <3>4. QED
      BY <1>1, <1>3, <1>5, <2>2, <3>1, <3>2, <3>3 DEF Balanced
  <2>4. Queued(i)'
    <3>1. PICK line \in Seq(Queries) : line = entry[i].waiters
      BY <1>2
    <3>2. PICK next : next = entry'[i].waiters
      OBVIOUS
    <3>3. PICK n \in Nat : n = Len(line)
      BY <3>1
    <3>4. /\ Len(next) = n + 1 /\ next[n + 1] = q
          /\ \A m \in 1..n : next[m] = line[m] /\ line[m] \in Queries
      BY <1>5, <3>1, <3>2, <3>3
    <3>5. \A m \in 1..n : query[line[m]] = Waiting(i) /\ line[m] # q
      BY <1>1, <1>3, <3>1, <3>3 DEF Queued, Idle, Waiting
    <3>6. \A m \in 1..(n + 1) : m \in 1..n \/ m = n + 1
      OBVIOUS
    <3>7. \A m \in 1..(n + 1) : query'[next[m]] = Waiting(i)
      BY <1>7, <3>4, <3>5, <3>6
    <3>8. \A m, l \in 1..(n + 1) : next[m] = next[l] => m = l
      <4>1. \A m, l \in 1..n : line[m] = line[l] => m = l
        BY <1>3, <3>1, <3>3 DEF Queued
      <4>2. \A m \in 1..n : next[m] = line[m] /\ next[m] # next[n + 1]
        BY <3>4, <3>5
      <4>3. QED
        BY <3>6, <4>1, <4>2
    <3>9. \A o \in Queries : query'[o] = Waiting(i) => \E m \in 1..(n + 1) : next[m] = o
      <4>1. SUFFICES ASSUME NEW o \in Queries, o # q, query[o] = Waiting(i)
                     PROVE  \E m \in 1..(n + 1) : next[m] = o
        BY <1>7, <3>4
      <4>2. PICK m \in 1..n : line[m] = o
        BY <1>3, <3>1, <3>3, <4>1 DEF Queued
      <4>3. QED
        BY <3>4, <4>2
    <3>10. QED
      BY <3>2, <3>4, <3>7, <3>8, <3>9 DEF Queued
  <2>5. QED
    BY <1>1, <1>3, <1>5, <2>3, <2>4 DEF EntryInv, Live
<1>11. ASSUME NEW j \in Ids, j # i
       PROVE  EntryInv(j)'
  <2>1. entry[j].waiters \in Seq(Queries) /\ EntryInv(j) /\ (Live(j)' <=> Live(j))
    BY <1>1, EntryFields DEF IInv, Live
  <2>2. \A o \in Queries : query'[o] = query[o] \/ (query[o].entry # j /\ query'[o].entry # j)
    BY <1>1, <1>7, <1>11 DEF Idle, Waiting
  <2>3. QED
    BY <1>5, <1>11, <2>1, <2>2, Frame
<1>12. QED
  BY <1>8, <1>9, <1>10, <1>11 DEF IInv

(* The connection goes back to an open entry nobody waits for.              *)
Returned(q, i) ==
  /\ query' = [query EXCEPT ![q] = Idle]
  /\ entry' = [entry EXCEPT ![i].checkedOut = @ - 1, ![i].available = @ \cup {query[q].conn}]

LEMMA ReturnKeeps ==
    ASSUME IInv, NEW q \in Queries, NEW i \in Ids, i = query[q].entry, query[q].at = "running",
           ~entry[i].closed, entry[i].waiters = <<>>, Returned(q, i),
           UNCHANGED <<pool, shared, init, lastId>>, native' \subseteq Ids \X Conns
    PROVE  IInv'
<1> USE NumberFacts
<1>1. PICK k \in Conns : k = query[q].conn
  <2>1. query[q] # Idle /\ query[q] # Waiting(query[q].entry)
    BY DEF Idle, Waiting
  <2>2. QED
    BY <2>1 DEF IInv, CallersFit
<1>2. q \in Holders(i) /\ Live(i) /\ EntryInv(i) /\ Balanced(i)
  BY DEF IInv, EntryInv, Holders
<1>3. /\ entry[i].available \subseteq Conns /\ entry[i].checkedOut \in 0..MaxConns
      /\ IsFiniteSet(entry[i].available)
  BY EntryFields, FS_Subset DEF IInv
<1>4. k \notin entry[i].available
  BY <1>1, <1>2 DEF Balanced, Held
<1>5. /\ Cardinality(entry[i].available \cup {k}) = Cardinality(entry[i].available) + 1
      /\ Cardinality(entry[i].available) \in Nat
  BY <1>3, <1>4, FS_AddElement, FS_CardinalityType
<1>6. /\ Cardinality(Holders(i) \ {q}) = Cardinality(Holders(i)) - 1
      /\ Cardinality(Holders(i) \ {q}) \in Nat /\ Cardinality(Holders(i)) \in Nat
  BY <1>2, HoldersFinite, FS_RemoveElement, FS_CardinalityType
<1>7. entry[i].checkedOut - 1 \in 0..MaxConns
  BY <1>2, <1>3, <1>6 DEF Balanced
<1>8. entry \in [Ids -> Entries] /\ query \in [Queries -> Callers]
  BY DEF IInv, TypeOK
<1>9. /\ entry'[i].available = entry[i].available \cup {k}
      /\ entry'[i].checkedOut = entry[i].checkedOut - 1
      /\ entry'[i].waiters = entry[i].waiters /\ entry'[i].closed = entry[i].closed
      /\ entry'[i].db = entry[i].db
      /\ \A j \in Ids : j # i => entry'[j] = entry[j]
  BY <1>1, <1>8 DEF Entries, Returned
<1>10. entry' \in [Ids -> Entries]
  BY <1>1, <1>3, <1>7, <1>8, SMTT(30) DEF Entries, Returned
<1>11. /\ query' \in [Queries -> Callers]
       /\ query'[q] = Idle
       /\ \A o \in Queries : o # q => query'[o] = query[o]
  BY <1>8 DEF Callers, Idle, Returned
<1>12. TypeOK' /\ IdsDistinct' /\ Cached'
  BY <1>10, <1>11, SameIds DEF IInv, TypeOK, shared
<1>13. CallersFit'
  BY <1>11 DEF IInv, CallersFit, Waiting, Idle
<1>14. EntryInv(i)'
  <2>1. Holders(i)' = Holders(i) \ {q} /\ \A o \in Holders(i)' : query'[o] = query[o]
    BY <1>11 DEF Holders, Idle
  <2>2. Held(i)' = Held(i) \ {k}
    BY <1>1, <1>2, <2>1 DEF Held, Balanced
  <2>3. \A o, u \in Holders(i)' : query'[o].conn = query'[u].conn => o = u
    BY <1>2, <2>1 DEF Balanced
  <2>4. Cardinality(Holders(i)') = entry'[i].checkedOut
    BY <1>2, <1>6, <1>9, <2>1 DEF Balanced
  <2>5. Cardinality(entry'[i].available) + entry'[i].checkedOut = MaxConns
    <3>1. Cardinality(entry'[i].available) = Cardinality(entry[i].available) + 1
      BY <1>5, <1>9
    <3>2. Cardinality(entry[i].available) + entry[i].checkedOut = MaxConns
      BY <1>2 DEF Balanced
    <3>3. QED
      BY <1>3, <1>5, <1>9, <3>1, <3>2
  <2>6. k \in Held(i)
    BY <1>1, <1>2 DEF Held
  <2>7. Balanced(i)'
    <3>1. entry'[i].available \cap Held(i)' = {} /\ entry'[i].available \cup Held(i)' = Conns
      BY <1>1, <1>2, <1>4, <1>9, <2>2, <2>6 DEF Balanced
    <3>2. entry'[i].waiters = <<>>
      BY <1>9
    <3>3. QED
      BY <2>3, <2>4, <2>5, <3>1, <3>2 DEF Balanced
  <2>8. \A o \in Queries : query'[o] = Waiting(i) <=> query[o] = Waiting(i)
    BY <1>11 DEF Waiting, Idle
  <2>9. Queued(i)'
    BY <1>2, <1>9, <2>8, EntryFields, SameQueue DEF EntryInv, IInv
  <2>10. QED
    BY <1>2, <1>9, <2>7, <2>9 DEF EntryInv, Live
<1>15. ASSUME NEW j \in Ids, j # i
       PROVE  EntryInv(j)'
  <2>1. entry[j].waiters \in Seq(Queries) /\ EntryInv(j) /\ (Live(j)' <=> Live(j))
    BY EntryFields DEF IInv, Live
  <2>2. \A o \in Queries : query'[o] = query[o] \/ (query[o].entry # j /\ query'[o].entry # j)
    BY <1>11, <1>15 DEF Idle
  <2>3. QED
    BY <1>9, <1>15, <2>1, <2>2, Frame
<1>16. QED
  BY <1>12, <1>13, <1>14, <1>15 DEF IInv

(* The entry was closed meanwhile: the connection is closed too.            *)
LEMMA OrphanKeeps ==
    ASSUME IInv, NEW q \in Queries, NEW i \in Ids, i = query[q].entry, query[q].at = "running",
           entry[i].closed, query' = [query EXCEPT ![q] = Idle],
           UNCHANGED <<entry, pool, shared, init, lastId>>, native' \subseteq Ids \X Conns
    PROVE  IInv'
<1> USE NumberFacts
<1>1. /\ query' \in [Queries -> Callers]
      /\ query'[q] = Idle
      /\ \A o \in Queries : o # q => query'[o] = query[o]
  BY DEF Callers, Idle, IInv, TypeOK
<1>2. TypeOK' /\ IdsDistinct' /\ Cached' /\ CallersFit'
  BY <1>1, SameIds DEF IInv, TypeOK, shared, CallersFit, Waiting, Idle
<1>3. EntryInv(i)'
  <2>1. \A o \in Queries : query'[o] = Waiting(i) <=> query[o] = Waiting(i)
    BY <1>1 DEF Waiting, Idle
  <2>2. Queued(i)'
    BY <2>1, EntryFields, SameQueue DEF EntryInv, IInv
  <2>3. QED
    BY <2>2 DEF IInv, EntryInv, Live
<1>4. ASSUME NEW j \in Ids, j # i
      PROVE  EntryInv(j)'
  <2>1. entry[j].waiters \in Seq(Queries) /\ EntryInv(j) /\ (Live(j)' <=> Live(j))
    BY EntryFields DEF IInv, Live
  <2>2. \A o \in Queries : query'[o] = query[o] \/ (query[o].entry # j /\ query'[o].entry # j)
    BY <1>1, <1>4 DEF Idle
  <2>3. QED
    BY <2>1, <2>2, Frame
<1>5. QED
  BY <1>2, <1>3, <1>4 DEF IInv

(* The queue without one of its callers is still a queue.                   *)
LEMMA WithoutSeq ==
    ASSUME NEW line \in Seq(Queries), NEW n \in 1..Len(line),
           NEW next, next = Without(line, n)
    PROVE  /\ next \in Seq(Queries) /\ Len(next) = Len(line) - 1
           /\ \A m \in 1..Len(next) :
                next[m] = line[IF m < n THEN m ELSE m + 1] /\ (IF m < n THEN m ELSE m + 1) \in 1..Len(line)
<1>1. PICK l \in Nat : l = Len(line) - 1 /\ Len(line) = l + 1 /\ n \in 1..(l + 1)
  <2>1. Len(line) \in Nat /\ n \in Nat /\ n >= 1 /\ n <= Len(line)
    OBVIOUS
  <2>2. QED
    BY <2>1
<1>2. \A m \in 1..l : (IF m < n THEN m ELSE m + 1) \in 1..(l + 1)
  BY <1>1
<1>3. \A m \in 1..(l + 1) : line[m] \in Queries
  BY <1>1
<1>4. next = [m \in 1..l |-> line[IF m < n THEN m ELSE m + 1]]
  BY <1>1 DEF Without
<1>5. next \in [1..l -> Queries]
  BY <1>2, <1>3, <1>4
<1>6. next \in Seq(Queries) /\ Len(next) = l
  BY <1>1, <1>5
<1>7. QED
  BY <1>1, <1>2, <1>4, <1>6

(* One caller leaves the queue, whatever becomes of it.                     *)
LEMMA LeaveQueue ==
    ASSUME NEW i \in Ids, Queued(i), entry[i].waiters \in Seq(Queries),
           NEW n \in 1..Len(entry[i].waiters), NEW w, w = entry[i].waiters[n],
           entry'[i].waiters = Without(entry[i].waiters, n),
           query'[w] # Waiting(i),
           \A o \in Queries : o # w => (query'[o] = Waiting(i) <=> query[o] = Waiting(i))
    PROVE  Queued(i)'
<1>1. PICK line \in Seq(Queries) : line = entry[i].waiters
  OBVIOUS
<1>2. PICK next : next = entry'[i].waiters /\ next = Without(line, n)
  BY <1>1
<1>3. PICK l \in Nat : l = Len(line) - 1 /\ Len(line) = l + 1 /\ n \in 1..(l + 1)
  <2>1. Len(line) \in Nat /\ n \in Nat /\ n >= 1 /\ n <= Len(line)
    BY <1>1
  <2>2. QED
    BY <1>1, <2>1
<1>4. PICK old : old = [m \in 1..l |-> IF m < n THEN m ELSE m + 1]
  OBVIOUS
<1>5. /\ \A m \in 1..l : old[m] \in 1..(l + 1) /\ old[m] # n
      /\ \A m, k \in 1..l : old[m] = old[k] => m = k
      /\ \A k \in 1..(l + 1) : k # n => \E m \in 1..l : old[m] = k
  <2>1. \A m \in 1..l : old[m] = IF m < n THEN m ELSE m + 1
    BY <1>4
  <2>2. \A k \in 1..(l + 1) : k # n => \E m \in 1..l : old[m] = k
    <3>1. SUFFICES ASSUME NEW k \in 1..(l + 1), k # n
                   PROVE  \E m \in 1..l : old[m] = k
      OBVIOUS
    <3>2. CASE k < n
      <4>1. k \in 1..l /\ old[k] = k
        BY <1>3, <2>1, <3>2
      <4>2. QED
        BY <4>1
    <3>3. CASE k > n
      <4>1. k - 1 \in 1..l /\ ~(k - 1 < n)
        BY <1>3, <3>3
      <4>2. old[k - 1] = k
        BY <1>3, <2>1, <4>1
      <4>3. QED
        BY <4>1, <4>2
    <3>4. QED
      BY <1>3, <3>1, <3>2, <3>3
  <2>3. \A m, k \in 1..l : old[m] = old[k] => m = k
    BY <1>3, <2>1
  <2>4. QED
    BY <1>3, <2>1, <2>2, <2>3
<1>6. Len(next) = l /\ \A m \in 1..l : next[m] = line[old[m]]
  <2>1. n \in 1..Len(line) /\ l \in Nat /\ Len(line) - 1 = l
    BY <1>1, <1>3
  <2>2. /\ Len(next) = l
        /\ \A m \in 1..l : next[m] = line[IF m < n THEN m ELSE m + 1]
    <3>1. /\ Len(next) = Len(line) - 1
          /\ \A m \in 1..Len(next) : next[m] = line[IF m < n THEN m ELSE m + 1]
      BY <1>2, <2>1, WithoutSeq
    <3>2. QED
      BY <2>1, <3>1
  <2>3. \A m \in 1..l : old[m] = IF m < n THEN m ELSE m + 1
    BY <1>4
  <2>4. QED
    BY <2>2, <2>3
<1>7. /\ \A m \in 1..(l + 1) : query[line[m]] = Waiting(i) /\ line[m] \in Queries
      /\ \A m, k \in 1..(l + 1) : line[m] = line[k] => m = k
      /\ \A o \in Queries : query[o] = Waiting(i) => \E m \in 1..(l + 1) : line[m] = o
  BY <1>1, <1>3 DEF Queued
<1>8. \A m \in 1..l : query'[next[m]] = Waiting(i)
  <2>1. SUFFICES ASSUME NEW m \in 1..l
                 PROVE  query'[next[m]] = Waiting(i)
    OBVIOUS
  <2>2. PICK k \in 1..(l + 1) : k = old[m] /\ k # n /\ next[m] = line[k]
    BY <1>5, <1>6
  <2>3. line[k] # w /\ line[k] \in Queries /\ query[line[k]] = Waiting(i)
    BY <1>1, <1>3, <1>7, <2>2
  <2>4. QED
    BY <2>2, <2>3
<1>9. \A m, k \in 1..l : next[m] = next[k] => m = k
  <2>1. SUFFICES ASSUME NEW m \in 1..l, NEW k \in 1..l, next[m] = next[k]
                 PROVE  m = k
    OBVIOUS
  <2>2. old[m] \in 1..(l + 1) /\ old[k] \in 1..(l + 1) /\ line[old[m]] = line[old[k]]
    BY <1>5, <1>6, <2>1
  <2>3. QED
    BY <1>5, <1>7, <2>2
<1>10. \A o \in Queries : query'[o] = Waiting(i) => \E m \in 1..l : next[m] = o
  <2>1. SUFFICES ASSUME NEW o \in Queries, query'[o] = Waiting(i)
                 PROVE  \E m \in 1..l : next[m] = o
    OBVIOUS
  <2>2. PICK k \in 1..(l + 1) : line[k] = o /\ k # n
    BY <1>1, <1>7, <2>1
  <2>3. PICK m \in 1..l : old[m] = k
    BY <1>5, <2>2
  <2>4. QED
    BY <1>6, <2>2, <2>3
<1>11. QED
  BY <1>2, <1>6, <1>8, <1>9, <1>10 DEF Queued

LEMMA TailIsWithout ==
    ASSUME NEW line \in Seq(Queries), line # <<>>
    PROVE  1 \in 1..Len(line) /\ Head(line) = line[1] /\ Tail(line) = Without(line, 1)
<1>1. PICK l \in Nat : Len(line) = l + 1
  <2>1. Len(line) \in Nat /\ Len(line) # 0
    OBVIOUS
  <2>2. Len(line) - 1 \in Nat /\ Len(line) = (Len(line) - 1) + 1
    BY <2>1
  <2>3. QED
    BY <2>2
<1>2. Tail(line) \in Seq(Queries) /\ Len(Tail(line)) = l /\ \A m \in 1..l : Tail(line)[m] = line[m + 1]
  BY <1>1
<1>3. 1 \in 1..Len(line) /\ l = Len(line) - 1 /\ \A m \in 1..l : ~(m < 1)
  BY <1>1
<1>4. PICK next : next = Without(line, 1)
  OBVIOUS
<1>5. next \in Seq(Queries) /\ Len(next) = l /\ \A m \in 1..l : next[m] = line[m + 1]
  <2>1. /\ next \in Seq(Queries) /\ Len(next) = Len(line) - 1
        /\ \A m \in 1..Len(next) : next[m] = line[IF m < 1 THEN m ELSE m + 1]
    BY <1>3, <1>4, WithoutSeq
  <2>2. QED
    BY <1>3, <2>1
<1>6. Tail(line) = next
  BY <1>2, <1>5, SeqEqual
<1>7. QED
  BY <1>3, <1>4, <1>6

(* The connection of q is handed to w, the first of the queue.              *)
Handed(q, i) ==
  /\ query' = [query EXCEPT ![q] = Idle, ![Head(entry[i].waiters)] = Running(i, query[q].conn)]
  /\ entry' = [entry EXCEPT ![i].waiters = Tail(@)]

LEMMA HandoverKeeps ==
    ASSUME IInv, NEW q \in Queries, NEW i \in Ids, i = query[q].entry, query[q].at = "running",
           ~entry[i].closed, entry[i].waiters # <<>>, Handed(q, i),
           UNCHANGED <<pool, shared, init, lastId>>, native' \subseteq Ids \X Conns
    PROVE  IInv'
<1> USE NumberFacts
<1>1. PICK k \in Conns : k = query[q].conn
  <2>1. query[q] # Idle /\ query[q] # Waiting(query[q].entry)
    BY DEF Idle, Waiting
  <2>2. QED
    BY <2>1 DEF IInv, CallersFit
<1>2. q \in Holders(i) /\ Live(i) /\ EntryInv(i) /\ Balanced(i) /\ Queued(i)
  BY DEF IInv, EntryInv, Holders
<1>3. entry[i].waiters \in Seq(Queries)
  BY EntryFields DEF IInv
<1>4. PICK w \in Queries : /\ w = Head(entry[i].waiters) /\ w = entry[i].waiters[1]
                           /\ 1 \in 1..Len(entry[i].waiters)
                           /\ query[w] = Waiting(i) /\ w # q
  <2>1. /\ 1 \in 1..Len(entry[i].waiters)
        /\ Head(entry[i].waiters) = entry[i].waiters[1]
    BY <1>3, TailIsWithout
  <2>2. query[entry[i].waiters[1]] = Waiting(i)
    BY <1>2, <2>1 DEF Queued
  <2>3. entry[i].waiters[1] # q
    BY <2>2 DEF Waiting
  <2>4. entry[i].waiters[1] \in Queries
    BY <1>3, <2>1
  <2>5. QED
    BY <2>1, <2>2, <2>3, <2>4
<1>5. entry \in [Ids -> Entries] /\ query \in [Queries -> Callers]
  BY DEF IInv, TypeOK
<1>6. /\ entry'[i].available = entry[i].available
      /\ entry'[i].checkedOut = entry[i].checkedOut
      /\ entry'[i].waiters = Without(entry[i].waiters, 1)
      /\ entry'[i].closed = entry[i].closed /\ entry'[i].db = entry[i].db
      /\ \A j \in Ids : j # i => entry'[j] = entry[j]
  BY <1>3, <1>5, TailIsWithout, ZenonT(60) DEF Entries, Handed
<1>7. entry' \in [Ids -> Entries]
  <2>1. Tail(entry[i].waiters) \in Seq(Queries)
    BY <1>3
  <2>2. [entry[i] EXCEPT !.waiters = Tail(entry[i].waiters)] \in Entries
    BY <1>5, <2>1, ZenonT(60) DEF Entries
  <2>3. QED
    BY <1>5, <2>2 DEF Handed
<1>8. /\ query' \in [Queries -> Callers]
      /\ query'[q] = Idle /\ query'[w] = Running(i, k)
      /\ \A o \in Queries : o # q /\ o # w => query'[o] = query[o]
  BY <1>1, <1>4, <1>5 DEF Callers, Idle, Running, Handed
<1>9. TypeOK' /\ IdsDistinct' /\ Cached'
  BY <1>7, <1>8, SameIds DEF IInv, TypeOK, shared
<1>10. CallersFit'
  <2>1. SUFFICES ASSUME NEW o \in Queries, o # q, o # w
                 PROVE  \/ query[o] = Idle
                        \/ query[o].entry \in Ids /\ query[o] = Waiting(query[o].entry)
                        \/ query[o].at = "running" /\ query[o].entry \in Ids /\ query[o].conn \in Conns
    <3>1. query'[w].at = "running" /\ query'[w].entry \in Ids /\ query'[w].conn \in Conns
      BY <1>1, <1>8 DEF Running
    <3>2. QED
      BY <1>8, <3>1 DEF CallersFit, Idle, Waiting
  <2>2. QED
    BY DEF IInv, CallersFit
<1>11. EntryInv(i)'
  <2>1. /\ w \notin Holders(i) \ {q} /\ Holders(i)' = (Holders(i) \ {q}) \cup {w}
        /\ \A o \in Holders(i) \ {q} : query'[o] = query[o] /\ o # w /\ o # q
    BY <1>4, <1>8, SMTT(30) DEF Holders, Idle, Running, Waiting
  <2>2. query'[w].conn = query[q].conn
    BY <1>1, <1>8 DEF Running
  <2>3. Cardinality(Holders(i)') = Cardinality(Holders(i))
    <3>1. /\ Cardinality(Holders(i) \ {q}) = Cardinality(Holders(i)) - 1
          /\ Cardinality(Holders(i)) \in Nat /\ IsFiniteSet(Holders(i) \ {q})
      BY <1>2, HoldersFinite, FS_RemoveElement, FS_CardinalityType
    <3>2. Cardinality((Holders(i) \ {q}) \cup {w}) = Cardinality(Holders(i) \ {q}) + 1
      BY <2>1, <3>1, FS_AddElement
    <3>3. QED
      BY <2>1, <3>1, <3>2
  <2>4. Held(i)' = Held(i)
    <3>1. Held(i) = {query[o].conn : o \in Holders(i) \ {q}} \cup {query[q].conn}
      BY <1>2 DEF Held
    <3>2. Held(i)' = {query[o].conn : o \in Holders(i) \ {q}} \cup {query[q].conn}
      BY <2>1, <2>2 DEF Held
    <3>3. QED
      BY <3>1, <3>2
  <2>5. \A o, u \in Holders(i)' : query'[o].conn = query'[u].conn => o = u
    <3>1. \A o, u \in Holders(i) \ {q} : query'[o].conn = query'[u].conn => o = u
      BY <1>2, <2>1 DEF Balanced
    <3>2. \A o \in Holders(i) \ {q} : query'[o].conn # query'[w].conn
      BY <1>2, <2>1, <2>2 DEF Balanced
    <3>3. QED
      BY <2>1, <3>1, <3>2
  <2>6. entry[i].available = {}
    BY <1>2 DEF Balanced
  <2>7. Balanced(i)'
    <3>1. Cardinality(Holders(i)') = entry'[i].checkedOut
      BY <1>2, <1>6, <2>3 DEF Balanced
    <3>2. entry'[i].available = {}
      BY <1>6, <2>6
    <3>3. QED
      BY <1>2, <1>6, <2>4, <2>5, <3>1, <3>2 DEF Balanced
  <2>8. \A o \in Queries : o # w => (query'[o] = Waiting(i) <=> query[o] = Waiting(i))
    BY <1>8 DEF Waiting, Idle
  <2>9. query'[w] # Waiting(i)
    BY <1>8 DEF Waiting, Running
  <2>10. Queued(i)'
    BY <1>2, <1>3, <1>4, <1>6, <2>8, <2>9, LeaveQueue
  <2>11. QED
    BY <1>2, <1>6, <2>7, <2>10 DEF EntryInv, Live
<1>12. ASSUME NEW j \in Ids, j # i
       PROVE  EntryInv(j)'
  <2>1. entry[j].waiters \in Seq(Queries) /\ EntryInv(j) /\ (Live(j)' <=> Live(j))
    BY EntryFields DEF IInv, Live
  <2>2. \A o \in Queries : query'[o] = query[o] \/ (query[o].entry # j /\ query'[o].entry # j)
    BY <1>4, <1>8, <1>12 DEF Idle, Running, Waiting
  <2>3. QED
    BY <1>6, <1>12, <2>1, <2>2, Frame
<1>13. QED
  BY <1>9, <1>10, <1>11, <1>12 DEF IInv

LEMMA CheckinKeeps ==
    ASSUME IInv, NEW q \in Queries, query[q].at = "running", Checkin(q),
           UNCHANGED <<pool, shared, init, lastId>>, native' \subseteq Ids \X Conns
    PROVE  IInv'
<1>1. PICK i \in Ids : i = query[q].entry
  <2>1. query[q] # Idle /\ query[q] # Waiting(query[q].entry)
    BY DEF Idle, Waiting
  <2>2. QED
    BY <2>1 DEF IInv, CallersFit
<1>2. CASE entry[i].closed /\ query' = [query EXCEPT ![q] = Idle] /\ UNCHANGED entry
  BY <1>1, <1>2, OrphanKeeps
<1>3. CASE ~entry[i].closed /\ entry[i].waiters # <<>> /\ Handed(q, i)
  BY <1>1, <1>3, HandoverKeeps
<1>4. CASE ~entry[i].closed /\ entry[i].waiters = <<>> /\ Returned(q, i)
  BY <1>1, <1>4, ReturnKeeps
<1>5. QED
  BY <1>1, <1>2, <1>3, <1>4 DEF Checkin, Handed, Returned

LEMMA WaiterTimeoutKeeps ==
    ASSUME IInv, NEW q \in Queries, WaiterTimeout(q)
    PROVE  IInv'
<1> USE NumberFacts
<1>1. PICK i \in Ids : i = query[q].entry /\ query[q] = Waiting(i)
  BY DEF WaiterTimeout, IInv, CallersFit, Idle
<1>2. entry[i].waiters \in Seq(Queries)
  BY EntryFields DEF IInv
<1>3. PICK n \in 1..Len(entry[i].waiters) :
         /\ q = entry[i].waiters[n]
         /\ entry' = [entry EXCEPT ![i].waiters = Without(@, n)]
  <2>1. PICK n \in DOMAIN entry[i].waiters :
           /\ entry[i].waiters[n] = q
           /\ entry' = [entry EXCEPT ![i].waiters = Without(@, n)]
    BY <1>1 DEF WaiterTimeout
  <2>2. DOMAIN entry[i].waiters = 1..Len(entry[i].waiters)
    BY <1>2
  <2>3. QED
    BY <2>1, <2>2
<1>4. query' = [query EXCEPT ![q] = Idle] /\ UNCHANGED <<pool, shared, init, lastId, native>>
  BY DEF WaiterTimeout
<1>5. EntryInv(i) /\ Queued(i)
  BY DEF IInv, EntryInv
<1>6. entry \in [Ids -> Entries] /\ query \in [Queries -> Callers]
  BY DEF IInv, TypeOK
<1>7. Without(entry[i].waiters, n) \in Seq(Queries)
  BY <1>2, WithoutSeq
<1>8. /\ entry'[i].available = entry[i].available
      /\ entry'[i].checkedOut = entry[i].checkedOut
      /\ entry'[i].waiters = Without(entry[i].waiters, n)
      /\ entry'[i].closed = entry[i].closed /\ entry'[i].db = entry[i].db
      /\ \A j \in Ids : j # i => entry'[j] = entry[j]
  BY <1>3, <1>6 DEF Entries
<1>9. entry' \in [Ids -> Entries]
  <2>1. [entry[i] EXCEPT !.waiters = Without(entry[i].waiters, n)] \in Entries
    BY <1>6, <1>7 DEF Entries
  <2>2. QED
    BY <1>3, <1>6, <2>1
<1>10. /\ query' \in [Queries -> Callers]
       /\ query'[q] = Idle
       /\ \A o \in Queries : o # q => query'[o] = query[o]
  BY <1>4, <1>6 DEF Callers, Idle
<1>11. TypeOK' /\ IdsDistinct' /\ Cached'
  BY <1>4, <1>9, <1>10, SameIds DEF IInv, TypeOK, shared
<1>12. CallersFit'
  BY <1>10 DEF IInv, CallersFit, Waiting, Idle
<1>13. EntryInv(i)'
  <2>1. Holders(i)' = Holders(i) /\ \A o \in Holders(i) : query'[o] = query[o]
    <3>1. query[q].at = "waiting" /\ query'[q].at = "idle"
      BY <1>1, <1>10 DEF Idle, Waiting
    <3>2. QED
      BY <1>10, <3>1 DEF Holders
  <2>2. Held(i)' = Held(i)
    BY <2>1 DEF Held
  <2>3. entry[i].waiters # <<>>
    BY <1>2, <1>3
  <2>4. Live(i) /\ Balanced(i) /\ entry[i].available = {}
    BY <1>5, <2>3 DEF EntryInv, Balanced
  <2>5. Balanced(i)'
    <3>1. \A o, u \in Holders(i)' : query'[o].conn = query'[u].conn => o = u
      BY <2>1, <2>4 DEF Balanced
    <3>2. Cardinality(Holders(i)') = entry'[i].checkedOut /\ entry'[i].available = {}
      BY <1>8, <2>1, <2>4 DEF Balanced
    <3>3. QED
      BY <1>8, <2>2, <2>4, <3>1, <3>2 DEF Balanced
  <2>6. \A o \in Queries : o # q => (query'[o] = Waiting(i) <=> query[o] = Waiting(i))
    BY <1>10
  <2>7. query'[q] # Waiting(i)
    BY <1>10 DEF Waiting, Idle
  <2>8. Queued(i)'
    BY <1>2, <1>3, <1>5, <1>8, <2>6, <2>7, LeaveQueue
  <2>9. QED
    BY <1>4, <1>5, <1>8, <2>4, <2>5, <2>8 DEF EntryInv, Live
<1>14. ASSUME NEW j \in Ids, j # i
       PROVE  EntryInv(j)'
  <2>1. entry[j].waiters \in Seq(Queries) /\ EntryInv(j) /\ (Live(j)' <=> Live(j))
    BY <1>4, EntryFields DEF IInv, Live
  <2>2. \A o \in Queries : query'[o] = query[o] \/ (query[o].entry # j /\ query'[o].entry # j)
    BY <1>1, <1>10, <1>14 DEF Idle, Waiting
  <2>3. QED
    BY <1>8, <1>14, <2>1, <2>2, Frame
<1>15. QED
  BY <1>11, <1>12, <1>13, <1>14 DEF IInv

(* Nothing of the entries and their callers changes.                        *)
LEMMA SameEntries ==
    ASSUME \A i \in Ids : EntryInv(i), CallersFit, UNCHANGED <<pool, entry, query>>
    PROVE  (\A i \in Ids : EntryInv(i))' /\ CallersFit'
BY DEF EntryInv, Live, Balanced, Queued, Held, Holders, CallersFit, Waiting

LEMMA StillKeeps ==
    ASSUME IInv, UNCHANGED <<pool, entry, shared, init, lastId, query>>,
           native' \subseteq Ids \X Conns
    PROVE  IInv'
<1>1. TypeOK'
  BY DEF IInv, TypeOK, shared
<1>2. QED
  BY <1>1, SameIds, SameEntries DEF IInv

-----------------------------------------------------------------------------
(* Entries: opened, registered.                                             *)

LEMMA OpenedKeeps ==
    ASSUME IInv, NEW r \in Repos, Opened(r)
    PROVE  IInv'
<1> USE NumberFacts
<1>1. PICK i \in Ids : i = init[r].id
  BY DEF Opened, IInv, TypeOK, IdsDistinct, Inits
<1>2. /\ init[r].stage = "open" /\ init' = [init EXCEPT ![r].stage = "fts"]
      /\ handle' = [handle EXCEPT ![i] = "open"]
      /\ dbCache' = [dbCache EXCEPT ![PathOf[r]] = i]
      /\ refCount' = [refCount EXCEPT ![i] = 1]
      /\ entry' = [entry EXCEPT ![i].db = i]
      /\ UNCHANGED <<pool, lastId, query, native>>
  BY <1>1 DEF Opened
<1>3. /\ entry \in [Ids -> Entries] /\ query \in [Queries -> Callers]
      /\ init \in [Repos -> Inits] /\ dbCache \in [Paths -> Ids \cup {None}]
      /\ refCount \in [Ids -> Nat] /\ PathOf[r] \in Paths
  BY PoolAssumption DEF IInv, TypeOK
<1>4. /\ init'[r].stage = "fts" /\ init'[r].id = i
      /\ \A o \in Repos : init'[o].id = init[o].id
      /\ \A o \in Repos : o # r => init'[o] = init[o]
  BY <1>1, <1>2, <1>3 DEF Inits
<1>5. TypeOK'
  <2>1. entry' \in [Ids -> Entries]
    BY <1>2, <1>3, ZenonT(60) DEF Entries
  <2>2. init' \in [Repos -> Inits]
    BY <1>2, <1>3 DEF Inits
  <2>3. QED
    BY <1>2, <1>3, <2>1, <2>2 DEF IInv, TypeOK
<1>6. IdsDistinct'
  <2>1. pool[r] = None /\ init[r] # NotStarted
    BY <1>2 DEF IInv, IdsDistinct, NotStarted
  <2>2. \A o \in Repos : EntryOf(o)' = EntryOf(o)
    BY <1>2, <1>4 DEF EntryOf
  <2>3. QED
    BY <1>2, <1>4, <2>1, <2>2 DEF IInv, IdsDistinct
<1>7. \A j \in Ids : EntryInv(j)'
  <2>1. \A j \in Ids : /\ entry'[j].available = entry[j].available
                       /\ entry'[j].checkedOut = entry[j].checkedOut
                       /\ entry'[j].waiters = entry[j].waiters
                       /\ entry'[j].closed = entry[j].closed
    BY <1>2, <1>3 DEF Entries
  <2>2. \A j \in Ids : (Live(j)' <=> Live(j)) /\ entry[j].waiters \in Seq(Queries) /\ EntryInv(j)
    BY <1>2, EntryFields DEF Live, IInv
  <2>3. \A o \in Queries : query'[o] = query[o]
    BY <1>2
  <2>4. QED
    BY <2>1, <2>2, <2>3, Frame
<1>8. CallersFit'
  BY <1>2 DEF IInv, CallersFit, Waiting
<1>9. Cached'
  <2>1. /\ dbCache'[PathOf[r]] = i /\ refCount'[i] = 1
        /\ \A p \in Paths : p # PathOf[r] => dbCache'[p] = dbCache[p]
        /\ \A j \in Ids : j # i => refCount'[j] = refCount[j]
    BY <1>2, <1>3
  <2>2. \A p \in Paths : dbCache[p] # i
    BY <1>1, <1>2 DEF IInv, Cached
  <2>3. i <= lastId
    BY <1>1 DEF IInv, IdsDistinct
  <2>4. \A o \in Repos : o # r => init[o].id # i
    BY <1>1, <1>2 DEF IInv, IdsDistinct, EntryOf, NotStarted
  <2>5. \A p \in Paths : dbCache'[p] # None => dbCache'[p] <= lastId' /\ refCount'[dbCache'[p]] > 0
    BY <1>2, <1>3, <2>1, <2>2, <2>3 DEF IInv, Cached
  <2>6. \A p, o \in Paths : dbCache'[p] # None /\ dbCache'[p] = dbCache'[o] => p = o
    BY <2>1, <2>2 DEF IInv, Cached
  <2>7. \A o \in Repos, p \in Paths : init'[o].stage = "open" => dbCache'[p] # init'[o].id
    BY <1>4, <2>1, <2>4 DEF IInv, Cached
  <2>8. QED
    BY <2>5, <2>6, <2>7 DEF Cached
<1>10. QED
  BY <1>5, <1>6, <1>7, <1>8, <1>9 DEF IInv

LEMMA OpenFailsKeeps ==
    ASSUME IInv, NEW r \in Repos, OpenFails(r)
    PROVE  IInv'
<1> USE NumberFacts
<1>1. /\ init' = [init EXCEPT ![r] = NotStarted] /\ init[r].stage = "open"
      /\ UNCHANGED <<pool, entry, dbCache, refCount, handle, lastId, query, native>>
  BY DEF OpenFails, shared
<1>2. /\ init' \in [Repos -> Inits] /\ init'[r] = NotStarted
      /\ \A o \in Repos : o # r => init'[o] = init[o]
  BY <1>1 DEF IInv, TypeOK, Inits, NotStarted
<1>3. TypeOK' /\ CallersFit' /\ (\A i \in Ids : EntryInv(i))'
  BY <1>1, <1>2, SameEntries DEF IInv, TypeOK
<1>4. IdsDistinct'
  <2>1. pool[r] = None /\ EntryOf(r)' = None
    BY <1>1, <1>2 DEF IInv, IdsDistinct, EntryOf, NotStarted
  <2>2. \A o \in Repos : o # r => EntryOf(o)' = EntryOf(o)
    BY <1>1, <1>2 DEF EntryOf
  <2>3. init'[r].id <= lastId' /\ (init'[r].stage = "none" <=> init'[r].id = None)
    BY <1>1, <1>2 DEF NotStarted, IInv, TypeOK
  <2>4. QED
    BY <1>1, <1>2, <2>1, <2>2, <2>3 DEF IInv, IdsDistinct
<1>5. Cached'
  BY <1>1, <1>2 DEF IInv, Cached, NotStarted
<1>6. QED
  BY <1>3, <1>4, <1>5 DEF IInv

(* An entry is closed only after its registration.                          *)
Unclosed ==
  /\ \A i \in Ids : i > lastId => ~entry[i].closed
  /\ \A r \in Repos : init[r].id # None => ~entry[init[r].id].closed

LEMMA ReadyKeeps ==
    ASSUME IInv, Unclosed, NEW r \in Repos, Ready(r)
    PROVE  IInv'
<1> USE NumberFacts
<1>1. PICK i \in Ids : i = init[r].id
  BY DEF Ready, IInv, TypeOK, IdsDistinct, Inits
<1>2. /\ init[r].stage = "fts" /\ init' = [init EXCEPT ![r] = NotStarted]
      /\ pool' = [pool EXCEPT ![r] = i]
      /\ entry' = [entry EXCEPT ![i].available = Conns]
      /\ UNCHANGED <<dbCache, refCount, handle, lastId, query, native>>
  BY <1>1 DEF Ready, shared
<1>3. /\ entry \in [Ids -> Entries] /\ query \in [Queries -> Callers]
      /\ init \in [Repos -> Inits] /\ pool \in [Repos -> Ids \cup {None}]
  BY DEF IInv, TypeOK
<1>4. /\ init' \in [Repos -> Inits] /\ init'[r] = NotStarted
      /\ \A o \in Repos : o # r => init'[o] = init[o]
  BY <1>2, <1>3 DEF Inits, NotStarted
<1>5. /\ pool' \in [Repos -> Ids \cup {None}] /\ pool'[r] = i
      /\ \A o \in Repos : o # r => pool'[o] = pool[o]
  BY <1>2, <1>3
<1>6. pool[r] = None /\ EntryOf(r) = i
  BY <1>1, <1>2 DEF IInv, IdsDistinct, EntryOf, NotStarted
<1>7. ~Live(i)
  BY <1>6 DEF Live, IInv, IdsDistinct, EntryOf
<1>8. ~entry[i].closed /\ EntryInv(i)
  BY <1>1 DEF Unclosed, IInv
<1>9. /\ entry[i].available = {} /\ entry[i].waiters = <<>>
      /\ entry[i].checkedOut = 0 /\ Holders(i) = {} /\ Queued(i)
  BY <1>7, <1>8 DEF EntryInv
<1>10. /\ entry'[i].available = Conns /\ entry'[i].checkedOut = 0
       /\ entry'[i].waiters = entry[i].waiters /\ ~entry'[i].closed
       /\ \A j \in Ids : j # i => entry'[j] = entry[j]
  BY <1>2, <1>3, <1>8, <1>9 DEF Entries
<1>11. TypeOK'
  <2>1. entry' \in [Ids -> Entries]
    BY <1>2, <1>3, ZenonT(60) DEF Entries
  <2>2. QED
    BY <1>2, <1>4, <1>5, <2>1 DEF IInv, TypeOK
<1>12. IdsDistinct'
  <2>1. \A o \in Repos : EntryOf(o)' = EntryOf(o)
    BY <1>4, <1>5, <1>6 DEF EntryOf, NotStarted
  <2>2. i <= lastId'
    BY <1>1, <1>2 DEF IInv, IdsDistinct
  <2>3. NotStarted.stage = "none" /\ NotStarted.id = None
    BY DEF NotStarted
  <2>4. None <= lastId'
    BY <1>2 DEF IInv, TypeOK
  <2>5. QED
    BY <1>2, <1>4, <1>5, <2>1, <2>2, <2>3, <2>4 DEF IInv, IdsDistinct
<1>13. Cached'
  BY <1>2, <1>4 DEF IInv, Cached, NotStarted
<1>14. CallersFit'
  BY <1>2 DEF IInv, CallersFit, Waiting
<1>15. EntryInv(i)'
  <2>1. Holders(i)' = {} /\ Held(i)' = {}
    BY <1>2, <1>9 DEF Holders, Held
  <2>2. Cardinality(Holders(i)') = 0 /\ Cardinality(Conns) = MaxConns
    BY <2>1, FS_EmptySet
  <2>3. Balanced(i)'
    BY <1>9, <1>10, <2>1, <2>2 DEF Balanced
  <2>4. Queued(i)'
    BY <1>2, <1>9, <1>10, EntryFields, SameQueue DEF IInv
  <2>5. Live(i)'
    BY <1>5 DEF Live
  <2>6. QED
    BY <1>10, <2>3, <2>4, <2>5 DEF EntryInv
<1>16. ASSUME NEW j \in Ids, j # i
       PROVE  EntryInv(j)'
  <2>1. entry[j].waiters \in Seq(Queries) /\ EntryInv(j) /\ (Live(j)' <=> Live(j))
    BY <1>5, <1>6, <1>16, EntryFields DEF IInv, Live
  <2>2. QED
    BY <1>2, <1>10, <1>16, <2>1, Frame
<1>17. QED
  BY <1>11, <1>12, <1>13, <1>14, <1>15, <1>16 DEF IInv

-----------------------------------------------------------------------------
(* closeOne: what becomes of the entries, of their callers and of the       *)
(* shared databases.                                                        *)

LEMMA ClosingEntries ==
    ASSUME IInv, NEW rs \in SUBSET Pooled,
           pool' = PoolWithout(rs), query' = CallersWithout(rs),
           \A i \in Ids : /\ entry'[i].available = EntriesWithout(rs)[i].available
                          /\ entry'[i].checkedOut = EntriesWithout(rs)[i].checkedOut
                          /\ entry'[i].waiters = EntriesWithout(rs)[i].waiters
                          /\ entry'[i].closed = EntriesWithout(rs)[i].closed
    PROVE  (\A i \in Ids : EntryInv(i))' /\ CallersFit'
<1> USE NumberFacts
<1>1. \A o \in Repos : pool'[o] = IF o \in rs THEN None ELSE pool[o]
  BY DEF PoolWithout
<1>2. /\ pool \in [Repos -> Ids \cup {None}] /\ entry \in [Ids -> Entries]
      /\ rs \subseteq Repos /\ \A r \in rs : pool[r] \in Ids
  BY DEF IInv, TypeOK, Pooled
<1>3. ASSUME NEW r \in rs, NEW q \in InWaiters(pool[r])
      PROVE  q \in Queries => query[q] = Waiting(pool[r])
  <2>1. PICK i \in Ids : i = pool[r]
    BY <1>2
  <2>2. PICK n \in DOMAIN entry[i].waiters : q = entry[i].waiters[n]
    BY <2>1 DEF InWaiters
  <2>3. entry[i].waiters \in Seq(Queries) /\ Queued(i)
    BY EntryFields DEF IInv, EntryInv
  <2>4. n \in 1..Len(entry[i].waiters)
    BY <2>2, <2>3
  <2>5. QED
    BY <2>1, <2>2, <2>3, <2>4 DEF Queued
<1>4. \A q \in Queries : \/ query'[q] = query[q] /\ \A r \in rs : q \notin InWaiters(pool[r])
                         \/ query'[q] = Idle /\ \E r \in rs : query[q] = Waiting(pool[r])
  BY <1>3 DEF CallersWithout
<1>5. CallersFit'
  BY <1>4 DEF IInv, CallersFit, Waiting
<1>6. ASSUME NEW i \in Ids, NEW r \in rs, pool[r] = i
      PROVE  EntryInv(i)'
  <2>1. /\ entry'[i].closed /\ entry'[i].available = {} /\ entry'[i].waiters = <<>>
    <3>1. /\ EntriesWithout(rs)[i] = [entry[i] EXCEPT !.closed = TRUE, !.available = {}, !.waiters = <<>>]
          /\ entry[i] \in Entries
      BY <1>2, <1>6 DEF EntriesWithout
    <3>2. /\ EntriesWithout(rs)[i].closed /\ EntriesWithout(rs)[i].available = {}
          /\ EntriesWithout(rs)[i].waiters = <<>>
      BY <3>1 DEF Entries
    <3>3. QED
      BY <3>2
  <2>2. ~Live(i)'
    <3>1. SUFFICES ASSUME NEW o \in Repos, pool'[o] = i
                   PROVE  FALSE
      BY DEF Live
    <3>2. o \notin rs /\ pool[o] = i
      BY <1>1, <3>1
    <3>3. r \in Repos /\ EntryOf(o) = i /\ EntryOf(r) = i
      BY <1>2, <1>6, <3>2 DEF EntryOf
    <3>4. QED
      BY <3>2, <3>3 DEF IInv, IdsDistinct
  <2>3. \A q \in Queries : query'[q] # Waiting(i)
    <3>1. SUFFICES ASSUME NEW q \in Queries, query'[q] = Waiting(i)
                   PROVE  FALSE
      OBVIOUS
    <3>2. query[q] = Waiting(i) /\ q \notin InWaiters(i)
      BY <1>4, <1>6, <3>1 DEF Idle, Waiting
    <3>3. entry[i].waiters \in Seq(Queries) /\ Queued(i)
      BY EntryFields DEF IInv, EntryInv
    <3>4. PICK n \in 1..Len(entry[i].waiters) : entry[i].waiters[n] = q
      BY <3>2, <3>3 DEF Queued
    <3>5. n \in DOMAIN entry[i].waiters
      BY <3>3
    <3>6. QED
      BY <3>2, <3>4, <3>5 DEF InWaiters
  <2>4. Queued(i)'
    BY <2>1, <2>3 DEF Queued, Waiting
  <2>5. QED
    BY <2>1, <2>2, <2>4 DEF EntryInv
<1>7. ASSUME NEW i \in Ids, \A r \in rs : pool[r] # i
      PROVE  EntryInv(i)'
  <2>1. /\ entry'[i].available = entry[i].available
        /\ entry'[i].checkedOut = entry[i].checkedOut
        /\ entry'[i].waiters = entry[i].waiters
        /\ entry'[i].closed = entry[i].closed
    BY <1>7 DEF EntriesWithout
  <2>2. Live(i)' <=> Live(i)
    BY <1>1, <1>7 DEF Live
  <2>3. \A q \in Queries : query'[q] = query[q] \/ (query[q].entry # i /\ query'[q].entry # i)
    <3>1. \A r \in rs : Waiting(pool[r]).entry # i
      BY <1>7 DEF Waiting
    <3>2. Idle.entry # i
      BY DEF Idle
    <3>3. QED
      BY <1>4, <3>1, <3>2
  <2>4. entry[i].waiters \in Seq(Queries) /\ EntryInv(i)
    BY EntryFields DEF IInv
  <2>5. QED
    BY <2>1, <2>2, <2>3, <2>4, Frame
<1>8. QED
  BY <1>5, <1>6, <1>7

LEMMA ClosingTypes ==
    ASSUME IInv, NEW rs \in SUBSET Pooled
    PROVE  /\ PoolWithout(rs) \in [Repos -> Ids \cup {None}]
           /\ EntriesWithout(rs) \in [Ids -> Entries]
           /\ CallersWithout(rs) \in [Queries -> Callers]
           /\ CacheWithout(rs) \in [Paths -> Ids \cup {None}]
           /\ CountWithout(rs) \in [Ids -> Nat]
           /\ HandleWithout(rs) \in [Ids -> {"none", "open", "closed"}]
<1> USE NumberFacts
<1>1. PoolWithout(rs) \in [Repos -> Ids \cup {None}]
  BY DEF IInv, TypeOK, PoolWithout
<1>2. EntriesWithout(rs) \in [Ids -> Entries]
  <2>1. \A i \in Ids : entry[i] \in Entries
    BY DEF IInv, TypeOK
  <2>2. <<>> \in Seq(Queries)
    OBVIOUS
  <2>3. \A i \in Ids : [entry[i] EXCEPT !.closed = TRUE, !.available = {}, !.waiters = <<>>] \in Entries
    BY <2>1, <2>2 DEF Entries
  <2>4. QED
    BY <2>1, <2>3 DEF EntriesWithout
<1>3. CallersWithout(rs) \in [Queries -> Callers]
  <2>1. Idle \in Callers
    BY DEF Idle, Callers
  <2>2. QED
    BY <2>1 DEF IInv, TypeOK, CallersWithout
<1>4. CacheWithout(rs) \in [Paths -> Ids \cup {None}]
  BY DEF IInv, TypeOK, CacheWithout
<1>5. CountWithout(rs) \in [Ids -> Nat]
  <2>1. \A d \in Released(rs) : d \in Ids /\ refCount[d] \in Nat /\ refCount[d] > 0
    <3>1. \A r \in rs : PathOf[r] \in Paths
      BY PoolAssumption DEF Pooled
    <3>2. \A p \in Paths : dbCache[p] # None =>
            dbCache[p] \in Ids /\ refCount[dbCache[p]] \in Nat /\ refCount[dbCache[p]] > 0
      BY DEF IInv, TypeOK, Cached
    <3>3. QED
      BY <3>1, <3>2 DEF Released
  <2>2. \A d \in Ids : refCount[d] \in Nat
    BY DEF IInv, TypeOK
  <2>3. QED
    BY <2>1, <2>2 DEF CountWithout
<1>6. HandleWithout(rs) \in [Ids -> {"none", "open", "closed"}]
  BY DEF IInv, TypeOK, HandleWithout
<1>7. QED
  BY <1>1, <1>2, <1>3, <1>4, <1>5, <1>6

(* A database that stays cached keeps a reference. *)
LEMMA ClosingCache ==
    ASSUME IInv, NEW rs \in SUBSET Pooled, NEW p \in Paths, NEW d \in Ids,
           d = CacheWithout(rs)[p]
    PROVE  dbCache[p] = d /\ CountWithout(rs)[d] > 0 /\ CountWithout(rs)[d] \in Nat
<1> USE NumberFacts
<1>1. dbCache[p] = d /\ d \notin LastUse(rs)
  BY DEF CacheWithout
<1>2. refCount[d] \in Nat /\ refCount[d] > 0
  BY <1>1 DEF IInv, TypeOK, Cached
<1>3. d \notin Released(rs) \/ refCount[d] # 1
  BY <1>1 DEF LastUse
<1>4. QED
  BY <1>1, <1>2, <1>3 DEF CountWithout

LEMMA CloseOneKeeps ==
    ASSUME IInv, NEW r \in Pooled, CloseOne(r)
    PROVE  IInv'
<1> USE NumberFacts
<1>1. PICK rs \in SUBSET Pooled : rs = {r}
  OBVIOUS
<1>2. /\ pool' = PoolWithout(rs) /\ entry' = EntriesWithout(rs)
      /\ dbCache' = CacheWithout(rs) /\ refCount' = CountWithout(rs)
      /\ handle' = HandleWithout(rs) /\ query' = CallersWithout(rs)
      /\ UNCHANGED <<init, lastId, native>>
  BY <1>1 DEF CloseOne
<1>3. TypeOK'
  <2>1. init' \in [Repos -> Inits] /\ lastId' \in 0..MaxInits /\ native' \subseteq Ids \X Conns
    BY <1>2 DEF IInv, TypeOK
  <2>2. QED
    BY <1>2, <2>1, ClosingTypes DEF TypeOK
<1>4. (\A i \in Ids : EntryInv(i))' /\ CallersFit'
  BY <1>2, ClosingEntries
<1>5. IdsDistinct'
  <2>1. \A o \in Repos : pool'[o] = pool[o] \/ (pool'[o] = None /\ pool[o] # None)
    BY <1>1, <1>2 DEF PoolWithout, Pooled
  <2>2. \A o \in Repos : EntryOf(o)' = EntryOf(o) \/ EntryOf(o)' = None
    BY <1>2, <2>1 DEF EntryOf, IInv, IdsDistinct, NotStarted
  <2>3. None <= lastId'
    BY <1>2 DEF IInv, TypeOK
  <2>4. QED
    BY <1>2, <2>1, <2>2, <2>3 DEF IInv, IdsDistinct
<1>6. Cached'
  <2>1. \A p \in Paths : dbCache'[p] # None =>
           dbCache'[p] = dbCache[p] /\ refCount'[dbCache[p]] > 0
    <3>1. SUFFICES ASSUME NEW p \in Paths, dbCache'[p] # None
                   PROVE  dbCache'[p] = dbCache[p] /\ refCount'[dbCache[p]] > 0
      OBVIOUS
    <3>2. PICK d \in Ids : d = CacheWithout(rs)[p] /\ d = dbCache'[p]
      BY <1>2, <3>1, ClosingTypes
    <3>3. dbCache[p] = d /\ CountWithout(rs)[d] > 0
      BY <3>2, ClosingCache
    <3>4. QED
      BY <1>2, <3>2, <3>3
  <2>2. \A p \in Paths : dbCache'[p] # None => dbCache'[p] <= lastId'
    BY <1>2, <2>1 DEF IInv, Cached
  <2>3. \A p, o \in Paths : dbCache'[p] # None /\ dbCache'[p] = dbCache'[o] => p = o
    BY <2>1 DEF IInv, Cached
  <2>4. \A o \in Repos, p \in Paths : init'[o].stage = "open" => dbCache'[p] # init'[o].id
    <3>1. \A o \in Repos : init[o].stage = "open" => init[o].id # None
      BY DEF IInv, IdsDistinct
    <3>2. QED
      BY <1>2, <2>1, <3>1 DEF IInv, Cached
  <2>5. QED
    BY <2>1, <2>2, <2>3, <2>4 DEF Cached
<1>7. QED
  BY <1>3, <1>4, <1>5, <1>6 DEF IInv

LEMMA StartInitKeeps ==
    ASSUME IInv, NEW r \in Repos, StartInit(r)
    PROVE  IInv'
<1> USE NumberFacts
<1>1. PICK gone \in Evictions :
         /\ pool' = PoolWithout(gone) /\ query' = CallersWithout(gone)
         /\ dbCache' = CacheWithout(gone) /\ handle' = HandleWithout(gone)
         /\ \/ /\ CacheWithout(gone)[PathOf[r]] # None
               /\ refCount' = [CountWithout(gone) EXCEPT ![CacheWithout(gone)[PathOf[r]]] = @ + 1]
               /\ entry' = [EntriesWithout(gone) EXCEPT ![lastId'].db = CacheWithout(gone)[PathOf[r]]]
               /\ init' = [init EXCEPT ![r] = [stage |-> "fts", id |-> lastId']]
            \/ /\ refCount' = CountWithout(gone)
               /\ entry' = EntriesWithout(gone)
               /\ init' = [init EXCEPT ![r] = [stage |-> "open", id |-> lastId']]
  BY DEF StartInit
<1>2. /\ pool[r] = None /\ init[r].stage = "none" /\ lastId' = lastId + 1
      /\ lastId < MaxInits /\ lastId \in 0..MaxInits /\ native' = native
  BY DEF StartInit, IInv, TypeOK
<1>3. lastId' \in Ids /\ lastId' \in 0..MaxInits
  BY <1>2 DEF Ids
<1>4. gone \in SUBSET Pooled
  BY <1>1 DEF Evictions, Evictable
<1>5. PICK s \in {"fts", "open"} : init' = [init EXCEPT ![r] = [stage |-> s, id |-> lastId']]
  BY <1>1
<1>6. /\ init' \in [Repos -> Inits] /\ init'[r].stage = s /\ init'[r].id = lastId'
      /\ \A o \in Repos : o # r => init'[o] = init[o]
  <2>1. init \in [Repos -> Inits] /\ [stage |-> s, id |-> lastId'] \in Inits
    BY <1>3, <1>5 DEF IInv, TypeOK, Inits
  <2>2. QED
    BY <1>5, <2>1
<1>7. PathOf[r] \in Paths /\ CacheWithout(gone)[PathOf[r]] \in Ids \cup {None}
  BY <1>4, PoolAssumption, ClosingTypes
<1>8. /\ entry' \in [Ids -> Entries]
      /\ \A i \in Ids : /\ entry'[i].available = EntriesWithout(gone)[i].available
                        /\ entry'[i].checkedOut = EntriesWithout(gone)[i].checkedOut
                        /\ entry'[i].waiters = EntriesWithout(gone)[i].waiters
                        /\ entry'[i].closed = EntriesWithout(gone)[i].closed
  <2>1. EntriesWithout(gone) \in [Ids -> Entries]
    BY <1>4, ClosingTypes
  <2>2. PICK old \in [Ids -> Entries] : old = EntriesWithout(gone)
    BY <2>1
  <2>3. PICK d \in Ids \cup {None} : entry' = [old EXCEPT ![lastId'].db = d] \/ entry' = old
    BY <1>1, <1>7, <2>2
  <2>4. /\ entry' \in [Ids -> Entries]
        /\ \A i \in Ids : /\ entry'[i].available = old[i].available
                          /\ entry'[i].checkedOut = old[i].checkedOut
                          /\ entry'[i].waiters = old[i].waiters
                          /\ entry'[i].closed = old[i].closed
    <3>1. CASE entry' = old
      BY <3>1
    <3>2. CASE entry' = [old EXCEPT ![lastId'].db = d]
      <4>1. PICK n \in Ids : n = lastId'
        BY <1>3
      <4>2. entry' = [old EXCEPT ![n] = [old[n] EXCEPT !.db = d]]
        BY <3>2, <4>1
      <4>3. old[n] \in Entries
        OBVIOUS
      <4>4. /\ [old[n] EXCEPT !.db = d] \in Entries
            /\ [old[n] EXCEPT !.db = d].available = old[n].available
            /\ [old[n] EXCEPT !.db = d].checkedOut = old[n].checkedOut
            /\ [old[n] EXCEPT !.db = d].waiters = old[n].waiters
            /\ [old[n] EXCEPT !.db = d].closed = old[n].closed
        BY <4>3 DEF Entries
      <4>5. QED
        BY <4>2, <4>4
    <3>3. QED
      BY <2>3, <3>1, <3>2
  <2>5. QED
    BY <2>2, <2>4
<1>9. /\ refCount' \in [Ids -> Nat]
      /\ \A d \in Ids : refCount'[d] >= CountWithout(gone)[d]
  <2>1. PICK old \in [Ids -> Nat] : old = CountWithout(gone)
    BY <1>4, ClosingTypes
  <2>2. CASE refCount' = old
    BY <2>1, <2>2
  <2>3. CASE \E d \in Ids : refCount' = [old EXCEPT ![d] = @ + 1]
    BY <2>1, <2>3
  <2>4. QED
    BY <1>1, <1>7, <2>1, <2>2, <2>3
<1>10. TypeOK'
  <2>1. native' \subseteq Ids \X Conns
    BY <1>2 DEF IInv, TypeOK
  <2>2. QED
    BY <1>1, <1>3, <1>4, <1>6, <1>8, <1>9, <2>1, ClosingTypes DEF TypeOK
<1>11. (\A i \in Ids : EntryInv(i))' /\ CallersFit'
  BY <1>1, <1>4, <1>8, ClosingEntries
<1>12. IdsDistinct'
  <2>1. \A o \in Repos : pool'[o] = pool[o] \/ (pool'[o] = None /\ pool[o] # None)
    BY <1>1, <1>4 DEF PoolWithout, Pooled
  <2>2. \A o \in Repos : o # r => EntryOf(o)' = EntryOf(o) \/ EntryOf(o)' = None
    BY <1>6, <2>1 DEF EntryOf, IInv, IdsDistinct, NotStarted
  <2>3. pool'[r] = None /\ EntryOf(r)' = lastId'
    BY <1>2, <1>6, <2>1 DEF EntryOf
  <2>4. \A o \in Repos : /\ pool[o] \in Ids \cup {None} /\ init[o].id \in Ids \cup {None}
                         /\ pool[o] <= lastId /\ init[o].id <= lastId
    BY DEF IInv, TypeOK, IdsDistinct, Inits
  <2>5. \A o \in Repos : EntryOf(o) # lastId'
    BY <1>2, <2>4 DEF EntryOf, Ids
  <2>6. \A o \in Repos : pool'[o] <= lastId' /\ init'[o].id <= lastId'
    BY <1>2, <1>3, <1>6, <2>1, <2>3, <2>4 DEF Ids
  <2>7. \A o \in Repos : init'[o].stage = "none" <=> init'[o].id = None
    BY <1>3, <1>6 DEF IInv, IdsDistinct
  <2>8. \A o \in Repos : pool'[o] # None => init'[o] = NotStarted
    BY <1>6, <2>1, <2>3 DEF IInv, IdsDistinct
  <2>9. \A o, u \in Repos : EntryOf(o)' # None /\ EntryOf(o)' = EntryOf(u)' => o = u
    BY <2>2, <2>3, <2>5 DEF IInv, IdsDistinct
  <2>10. QED
    BY <2>6, <2>7, <2>8, <2>9 DEF IdsDistinct
<1>13. Cached'
  <2>1. \A p \in Paths : dbCache'[p] # None =>
           /\ dbCache'[p] = dbCache[p] /\ dbCache[p] \in Ids
           /\ CountWithout(gone)[dbCache[p]] > 0
           /\ CountWithout(gone)[dbCache[p]] \in Nat
    BY <1>1, <1>4, ClosingTypes, ClosingCache
  <2>2. \A p \in Paths : dbCache[p] # None => dbCache[p] \in Nat /\ dbCache[p] <= lastId
    BY DEF IInv, TypeOK, Cached
  <2>3. \A p \in Paths : dbCache'[p] # None => dbCache'[p] <= lastId' /\ refCount'[dbCache'[p]] > 0
    <3>1. SUFFICES ASSUME NEW p \in Paths, dbCache'[p] # None
                   PROVE  dbCache'[p] <= lastId' /\ refCount'[dbCache'[p]] > 0
      OBVIOUS
    <3>2. PICK d \in Ids : d = dbCache'[p] /\ d = dbCache[p]
      BY <2>1, <3>1
    <3>3. CountWithout(gone)[d] \in Nat /\ CountWithout(gone)[d] > 0
      BY <2>1, <3>1, <3>2
    <3>4. refCount'[d] \in Nat /\ refCount'[d] >= CountWithout(gone)[d]
      BY <1>9
    <3>5. d <= lastId'
      BY <1>2, <2>2, <3>2
    <3>6. QED
      BY <3>2, <3>3, <3>4, <3>5
  <2>4. \A p, o \in Paths : dbCache'[p] # None /\ dbCache'[p] = dbCache'[o] => p = o
    BY <2>1 DEF IInv, Cached
  <2>5. \A o \in Repos, p \in Paths : init'[o].stage = "open" => dbCache'[p] # init'[o].id
    <3>1. SUFFICES ASSUME NEW o \in Repos, NEW p \in Paths, init'[o].stage = "open",
                          dbCache'[p] # None
                   PROVE  dbCache'[p] # init'[o].id
      BY <1>3, <1>6 DEF IInv, IdsDistinct
    <3>2. CASE o = r
      BY <1>2, <1>6, <2>1, <2>2, <3>1, <3>2
    <3>3. CASE o # r
      BY <1>6, <2>1, <3>1, <3>3 DEF IInv, Cached
    <3>4. QED
      BY <3>2, <3>3
  <2>6. QED
    BY <2>3, <2>4, <2>5 DEF Cached
<1>14. QED
  BY <1>10, <1>11, <1>12, <1>13 DEF IInv

-----------------------------------------------------------------------------
(* The invariant of the pool. *)
Strong == IInv /\ Unclosed

LEMMA Initially == Init => Strong
<1> SUFFICES ASSUME Init PROVE Strong
  OBVIOUS
<1> USE NumberFacts DEF Init
<1>1. NoEntry \in Entries /\ NotStarted \in Inits /\ Idle \in Callers
  BY DEF NoEntry, Entries, NotStarted, Inits, Idle, Callers
<1>2. TypeOK
  <2>1. 0 \in 0..MaxInits /\ {} \subseteq Ids \X Conns
    OBVIOUS
  <2>2. QED
    BY <1>1, <2>1 DEF TypeOK
<1>3. IdsDistinct
  BY DEF IdsDistinct, NotStarted, EntryOf
<1>4. CallersFit
  BY DEF CallersFit
<1>5. \A i \in Ids : EntryInv(i)
  <2>1. \A i \in Ids : ~Live(i) /\ Holders(i) = {} /\ entry[i] = NoEntry
    BY DEF Live, Holders, Idle
  <2>2. \A i \in Ids : Queued(i)
    BY <2>1 DEF Queued, NoEntry, Idle, Waiting
  <2>3. QED
    BY <2>1, <2>2 DEF EntryInv, NoEntry
<1>6. Cached
  BY DEF Cached, NotStarted
<1>7. Unclosed
  BY DEF Unclosed, NoEntry, NotStarted
<1>8. QED
  BY <1>2, <1>3, <1>4, <1>5, <1>6, <1>7 DEF Strong, IInv

LEMMA IInvStep == Strong /\ [Next]_vars => IInv'
<1> SUFFICES ASSUME Strong, [Next]_vars PROVE IInv'
  OBVIOUS
<1> USE DEF Strong
<1>1. CASE UNCHANGED vars
  <2>1. native' \subseteq Ids \X Conns
    BY <1>1 DEF vars, IInv, TypeOK
  <2>2. QED
    BY <1>1, <2>1, StillKeeps DEF vars, shared
<1>2. ASSUME NEW r \in Repos, StartInit(r) PROVE IInv'
  BY <1>2, StartInitKeeps
<1>3. ASSUME NEW r \in Repos, Opened(r) PROVE IInv'
  BY <1>3, OpenedKeeps
<1>4. ASSUME NEW r \in Repos, OpenFails(r) PROVE IInv'
  BY <1>4, OpenFailsKeeps
<1>5. ASSUME NEW r \in Repos, Ready(r) PROVE IInv'
  BY <1>5, ReadyKeeps
<1>6. ASSUME NEW r \in Repos, IdleClose(r) \/ CloseLbug(r) PROVE IInv'
  BY <1>6, CloseOneKeeps DEF IdleClose, CloseLbug
<1>7. ASSUME NEW q \in Queries, NEW r \in Repos, Checkout(q, r) \/ Enqueue(q, r) PROVE IInv'
  BY <1>7, CheckoutKeeps, EnqueueKeeps
<1>8. ASSUME NEW q \in Queries, Finish(q) PROVE IInv'
  <2>1. native' \subseteq Ids \X Conns
    BY <1>8 DEF Finish, IInv, TypeOK
  <2>2. QED
    BY <1>8, <2>1, CheckinKeeps DEF Finish
<1>9. ASSUME NEW q \in Queries, QueryTimeout(q) PROVE IInv'
  <2>1. query[q].entry \in Ids /\ query[q].conn \in Conns
    <3>1. query[q].at = "running"
      BY <1>9 DEF QueryTimeout
    <3>2. query[q] # Idle /\ query[q] # Waiting(query[q].entry)
      BY <3>1 DEF Idle, Waiting
    <3>3. QED
      BY <3>2 DEF IInv, CallersFit
  <2>2. native' \subseteq Ids \X Conns
    BY <1>9, <2>1 DEF QueryTimeout, IInv, TypeOK
  <2>3. QED
    BY <1>9, <2>2, CheckinKeeps DEF QueryTimeout
<1>10. ASSUME NEW q \in Queries, WaiterTimeout(q) PROVE IInv'
  BY <1>10, WaiterTimeoutKeeps
<1>11. ASSUME NEW c \in native, NativeReturns(c) PROVE IInv'
  <2>1. native' \subseteq Ids \X Conns
    BY <1>11 DEF NativeReturns, IInv, TypeOK
  <2>2. QED
    BY <1>11, <2>1, StillKeeps DEF NativeReturns
<1>12. QED
  BY <1>1, <1>2, <1>3, <1>4, <1>5, <1>6, <1>7, <1>8, <1>9, <1>10, <1>11 DEF Next

LEMMA SameMark ==
    ASSUME NEW i \in Ids, NEW e, e.closed = entry[i].closed, e.db = entry[i].db,
           entry \in [Ids -> Entries], entry' = [entry EXCEPT ![i] = e]
    PROVE  \A j \in Ids : entry'[j].closed = entry[j].closed /\ entry'[j].db = entry[j].db
OBVIOUS

(* A query marks no entry closed and moves none to another database. *)
LEMMA CallersMarkNothing ==
    ASSUME IInv, NEW q \in Queries,
           \/ \E r \in Repos : Checkout(q, r) \/ Enqueue(q, r)
           \/ Finish(q) \/ QueryTimeout(q) \/ WaiterTimeout(q)
    PROVE  \A i \in Ids : entry'[i].closed = entry[i].closed /\ entry'[i].db = entry[i].db
<1>1. entry \in [Ids -> Entries]
  BY DEF IInv, TypeOK
<1>2. ASSUME NEW r \in Repos, Checkout(q, r) \/ Enqueue(q, r)
      PROVE  \A i \in Ids : entry'[i].closed = entry[i].closed /\ entry'[i].db = entry[i].db
  <2>1. PICK i \in Ids : i = pool[r]
    BY <1>2 DEF Checkout, Enqueue, Pooled, IInv, TypeOK
  <2>2. PICK e : /\ e.closed = entry[i].closed /\ e.db = entry[i].db
               /\ entry' = [entry EXCEPT ![i] = e]
    <3>1. entry[i] \in Entries
      BY <1>1
    <3>2. CASE Checkout(q, r)
      <4>1. PICK k : entry' = [entry EXCEPT ![i] = [entry[i] EXCEPT
                       !.available = @ \ {k}, !.checkedOut = @ + 1]]
        BY <2>1, <3>1, <3>2 DEF Checkout, Entries
      <4>2. QED
        BY <3>1, <4>1 DEF Entries
    <3>3. CASE Enqueue(q, r)
      <4>1. entry' = [entry EXCEPT ![i] = [entry[i] EXCEPT !.waiters = Append(@, q)]]
        BY <2>1, <3>3 DEF Enqueue
      <4>2. QED
        BY <3>1, <4>1 DEF Entries
    <3>4. QED
      BY <1>2, <3>2, <3>3
  <2>3. QED
    BY <1>1, <2>2, SameMark
<1>3. ASSUME Finish(q) \/ QueryTimeout(q) \/ WaiterTimeout(q)
      PROVE  \A i \in Ids : entry'[i].closed = entry[i].closed /\ entry'[i].db = entry[i].db
  <2>1. PICK i \in Ids : i = query[q].entry
    <3>1. query[q] # Idle
      BY <1>3 DEF Finish, QueryTimeout, WaiterTimeout, Idle
    <3>2. QED
      BY <3>1 DEF IInv, CallersFit
  <2>2. PICK e : /\ e.closed = entry[i].closed /\ e.db = entry[i].db
               /\ entry' = [entry EXCEPT ![i] = e]
    <3>1. entry[i] \in Entries
      BY <1>1
    <3>2. CASE UNCHANGED entry
      BY <1>1, <3>2
    <3>3. CASE entry' = [entry EXCEPT ![i].waiters = Tail(@)]
      <4>1. entry' = [entry EXCEPT ![i] = [entry[i] EXCEPT !.waiters = Tail(@)]]
        BY <3>3
      <4>2. QED
        BY <3>1, <4>1 DEF Entries
    <3>4. CASE entry' = [entry EXCEPT ![i].checkedOut = @ - 1,
                                      ![i].available = @ \cup {query[q].conn}]
      <4>1. entry' = [entry EXCEPT ![i] = [entry[i] EXCEPT
                        !.checkedOut = @ - 1, !.available = @ \cup {query[q].conn}]]
        BY <1>1, <3>1, <3>4 DEF Entries
      <4>2. QED
        BY <3>1, <4>1 DEF Entries
    <3>5. CASE WaiterTimeout(q)
      <4>1. PICK n : entry' = [entry EXCEPT ![i] = [entry[i] EXCEPT !.waiters = Without(@, n)]]
        BY <2>1, <3>5 DEF WaiterTimeout
      <4>2. QED
        BY <3>1, <4>1 DEF Entries
    <3>6. QED
      BY <1>3, <2>1, <3>2, <3>3, <3>4, <3>5 DEF Finish, QueryTimeout, Checkin
  <2>3. QED
    BY <1>1, <2>2, SameMark
<1>4. QED
  BY <1>2, <1>3

(* Only closeOne closes an entry, and only a registered one. *)
LEMMA ClosedWhenLive ==
    ASSUME IInv, Next
    PROVE  \A i \in Ids : entry'[i].closed = entry[i].closed \/ Live(i)
<1>1. entry \in [Ids -> Entries]
  BY DEF IInv, TypeOK
<1>2. ASSUME NEW r \in Repos, StartInit(r)
      PROVE  \A i \in Ids : entry'[i].closed = entry[i].closed \/ Live(i)
  <2>1. PICK gone \in Evictions :
           \/ \E d : entry' = [EntriesWithout(gone) EXCEPT ![lastId'].db = d]
           \/ entry' = EntriesWithout(gone)
    BY <1>2 DEF StartInit
  <2>2. gone \in SUBSET Pooled
    BY <2>1 DEF Evictions, Evictable
  <2>3. PICK old \in [Ids -> Entries] : old = EntriesWithout(gone)
    BY <2>2, ClosingTypes
  <2>4. \A i \in Ids : entry'[i].closed = old[i].closed
    BY <2>1, <2>3 DEF Entries
  <2>5. \A i \in Ids : old[i] = entry[i] \/ Live(i)
    BY <2>2, <2>3 DEF EntriesWithout, Live, Pooled
  <2>6. QED
    BY <2>4, <2>5
<1>3. ASSUME NEW r \in Repos, IdleClose(r) \/ CloseLbug(r)
      PROVE  \A i \in Ids : entry'[i].closed = entry[i].closed \/ Live(i)
  <2>1. entry' = EntriesWithout({r}) /\ r \in Repos
    BY <1>3 DEF IdleClose, CloseLbug, CloseOne
  <2>2. QED
    BY <2>1 DEF EntriesWithout, Live
<1>4. ASSUME NEW r \in Repos, Opened(r) \/ OpenFails(r) \/ Ready(r)
      PROVE  \A i \in Ids : entry'[i].closed = entry[i].closed
  BY <1>1, <1>4 DEF Opened, OpenFails, Ready, Entries
<1>5. ASSUME NEW q \in Queries,
             \/ \E r \in Repos : Checkout(q, r) \/ Enqueue(q, r)
             \/ Finish(q) \/ QueryTimeout(q) \/ WaiterTimeout(q)
      PROVE  \A i \in Ids : entry'[i].closed = entry[i].closed
  BY <1>5, CallersMarkNothing
<1>6. ASSUME NEW c \in native, NativeReturns(c)
      PROVE  \A i \in Ids : entry'[i].closed = entry[i].closed
  BY <1>6 DEF NativeReturns
<1>7. QED
  BY <1>2, <1>3, <1>4, <1>5, <1>6 DEF Next

LEMMA StrongStep == Strong /\ [Next]_vars => Strong'
<1> SUFFICES ASSUME Strong, [Next]_vars PROVE Strong'
  OBVIOUS
<1> USE NumberFacts
<1>1. IInv'
  BY IInvStep
<1>2. Unclosed'
  <2>1. CASE UNCHANGED vars
    BY <2>1 DEF vars, Strong, Unclosed
  <2>2. CASE Next
    <3>1. \A i \in Ids : entry'[i].closed = entry[i].closed \/ Live(i)
      BY <2>2, ClosedWhenLive DEF Strong
    <3>2. \A i \in Ids : Live(i) => i <= lastId /\ \A r \in Repos : init[r].id # i
      <4>1. SUFFICES ASSUME NEW i \in Ids, NEW o \in Repos, pool[o] = i
                     PROVE  i <= lastId /\ \A r \in Repos : init[r].id # i
        BY DEF Live
      <4>2. i <= lastId /\ EntryOf(o) = i /\ init[o] = NotStarted
        BY <4>1 DEF Strong, IInv, IdsDistinct, EntryOf
      <4>3. \A r \in Repos : init[r].id = i => pool[r] = None /\ EntryOf(r) = i
        BY DEF Strong, IInv, IdsDistinct, EntryOf, NotStarted
      <4>4. QED
        BY <4>1, <4>2, <4>3 DEF Strong, IInv, IdsDistinct
    <3>3. lastId' = lastId \/ lastId' = lastId + 1
      BY <2>2 DEF Next, StartInit, Opened, OpenFails, Ready, IdleClose, CloseLbug, CloseOne,
                  Checkout, Enqueue, Finish, QueryTimeout, WaiterTimeout, NativeReturns
    <3>4. lastId \in Nat
      BY DEF Strong, IInv, TypeOK
    <3>5. \A r \in Repos : init'[r].id \in {init[r].id, None} \/ (init'[r].id = lastId' /\ lastId' = lastId + 1)
      <4>1. init \in [Repos -> Inits]
        BY DEF Strong, IInv, TypeOK
      <4>2. ASSUME NEW o \in Repos, StartInit(o)
            PROVE  \A r \in Repos : init'[r] = init[r] \/ (init'[r].id = lastId' /\ lastId' = lastId + 1)
        BY <4>1, <4>2 DEF StartInit
      <4>3. ASSUME NEW o \in Repos, Opened(o) \/ OpenFails(o) \/ Ready(o)
            PROVE  \A r \in Repos : init'[r].id \in {init[r].id, None}
        BY <4>1, <4>3 DEF Opened, OpenFails, Ready, NotStarted, Inits
      <4>4. CASE init' = init
        BY <4>4
      <4>5. QED
        BY <2>2, <4>2, <4>3, <4>4 DEF Next, IdleClose, CloseLbug, CloseOne,
                  Checkout, Enqueue, Finish, QueryTimeout, WaiterTimeout, NativeReturns
    <3>6. \A r \in Repos : init'[r].id \in Ids \cup {None}
      BY <1>1 DEF IInv, TypeOK, Inits
    <3>7. \A i \in Ids : i > lastId' => ~entry'[i].closed
      BY <3>1, <3>2, <3>3, <3>4 DEF Strong, Unclosed
    <3>8. \A r \in Repos : init'[r].id # None => ~entry'[init'[r].id].closed
      <4>1. SUFFICES ASSUME NEW r \in Repos, NEW i \in Ids, init'[r].id = i
                     PROVE  ~entry'[i].closed
        BY <3>6
      <4>2. CASE init[r].id = i
        BY <3>1, <3>2, <4>2 DEF Strong, Unclosed
      <4>3. CASE i = lastId + 1
        BY <3>1, <3>2, <3>4, <4>3 DEF Strong, Unclosed
      <4>4. QED
        BY <3>5, <4>1, <4>2, <4>3
    <3>9. QED
      BY <3>7, <3>8 DEF Unclosed
  <2>3. QED
    BY <2>1, <2>2
<1>3. QED
  BY <1>1, <1>2 DEF Strong

LEMMA Always == Spec => []Strong
BY Initially, StrongStep, PTL DEF Spec

(* Every variable of the pool keeps its type; checkedOut never leaves       *)
(* 0..MaxConns and no reference count goes below zero.                      *)
THEOREM PoolTypeCorrect == Spec => []TypeOK
<1>1. Strong => TypeOK
  BY DEF Strong, IInv
<1>2. QED
  BY <1>1, Always, PTL

(* The callers of a queue are as many as its places. *)
LEMMA QueueCounts ==
    ASSUME TypeOK, NEW i \in Ids, Queued(i)
    PROVE  Len(entry[i].waiters) = Cardinality(InWaiters(i))
<1>1. PICK line \in Seq(Queries) : line = entry[i].waiters
  BY EntryFields
<1>2. PICK n \in Nat : n = Len(line) /\ DOMAIN line = 1..n
  BY <1>1
<1>3. PICK S : S = InWaiters(i) /\ S = {line[m] : m \in 1..n}
  BY <1>1, <1>2 DEF InWaiters
<1>4. line \in [1..n -> S]
  BY <1>1, <1>2, <1>3
<1>5. \A m, k \in 1..n : line[m] = line[k] => m = k
  BY <1>1, <1>2 DEF Queued
<1>6. line \in Bijection(1..n, S)
  BY <1>3, <1>4, <1>5 DEF Bijection, Injection, Surjection, IsInjective
<1>7. IsFiniteSet(1..n) /\ Cardinality(1..n) = n
  BY FS_Interval
<1>8. Cardinality(S) = n
  BY <1>6, <1>7, FS_Bijection DEF ExistsBijection
<1>9. QED
  BY <1>1, <1>2, <1>3, <1>8

(* The connections of every open entry are each idle or held by exactly one *)
(* query, and callers queue only while none is idle (checkout, checkin,     *)
(* closeOne), whatever the limits, the callers and the disturbances.        *)
THEOREM ConnectionsAlwaysAccounted == Spec => []ConnectionsAccounted
<1>1. ASSUME IInv PROVE ConnectionsAccounted
  <2> USE NumberFacts
  <2>1. SUFFICES ASSUME NEW r \in Pooled, NEW i \in Ids, i = pool[r]
                 PROVE  /\ entry[i].available \cup {query[q].conn : q \in Holders(i)} = Conns
                        /\ entry[i].available \cap {query[q].conn : q \in Holders(i)} = {}
                        /\ Cardinality(Holders(i)) = entry[i].checkedOut
                        /\ Cardinality(entry[i].available) + entry[i].checkedOut = MaxConns
                        /\ entry[i].waiters # <<>> => entry[i].available = {}
                        /\ InWaiters(i) = {q \in Queries : query[q].at = "waiting" /\ query[q].entry = i}
                        /\ Len(entry[i].waiters) = Cardinality(InWaiters(i))
    <3>1. \A r \in Pooled : pool[r] \in Ids
      BY <1>1 DEF IInv, TypeOK, Pooled
    <3>2. QED
      BY <3>1 DEF ConnectionsAccounted
  <2>2. Live(i) /\ EntryInv(i)
    BY <1>1, <2>1 DEF Live, Pooled, IInv
  <2>3. Balanced(i) /\ Queued(i)
    BY <2>2 DEF EntryInv
  <2>4. \A q \in Queries : query[q] = Waiting(i) <=> query[q].at = "waiting" /\ query[q].entry = i
    BY <1>1 DEF IInv, CallersFit, Waiting, Idle
  <2>5. InWaiters(i) = {q \in Queries : query[q] = Waiting(i)}
    <3>1. entry[i].waiters \in Seq(Queries)
      BY <1>1, EntryFields DEF IInv
    <3>2. /\ DOMAIN entry[i].waiters = 1..Len(entry[i].waiters)
          /\ \A n \in DOMAIN entry[i].waiters : entry[i].waiters[n] \in Queries
      BY <3>1
    <3>3. QED
      BY <2>3, <3>2 DEF InWaiters, Queued
  <2>6. InWaiters(i) = {q \in Queries : query[q].at = "waiting" /\ query[q].entry = i}
    BY <2>4, <2>5
  <2>7. Len(entry[i].waiters) = Cardinality(InWaiters(i))
    BY <1>1, <2>3, QueueCounts DEF IInv
  <2>8. QED
    BY <2>3, <2>6, <2>7 DEF Balanced, Held
<1>2. Strong => ConnectionsAccounted
  BY <1>1 DEF Strong
<1>3. QED
  BY <1>2, Always, PTL

-----------------------------------------------------------------------------
(* Shared databases, when no two repositories open one path at a time.      *)

IsUser(r) == pool[r] # None \/ init[r].stage = "fts"

DatabasesCounted ==
  /\ \A r \in Repos : IsUser(r) => /\ dbCache[PathOf[r]] # None
                                   /\ entry[EntryOf(r)].db = dbCache[PathOf[r]]
  /\ \A p \in Paths : dbCache[p] # None =>
       /\ handle[dbCache[p]] = "open"
       /\ refCount[dbCache[p]] = Cardinality(Users(p))
  /\ \A d \in Ids : handle[d] = "open" => \E p \in Paths : dbCache[p] = d
  /\ \A r \in Repos : init[r].stage = "open" => dbCache[PathOf[r]] = None
  /\ \A r, o \in Repos :
       init[r].stage = "open" /\ init[o].stage = "open" /\ PathOf[r] = PathOf[o] => r = o

LEMMA UsersFinite ==
    ASSUME NEW p \in Paths
    PROVE  IsFiniteSet(Users(p)) /\ Cardinality(Users(p)) \in Nat
BY PoolAssumption, FS_Subset, FS_CardinalityType DEF Users

(* What closing one entry, or none, leaves of the shared databases. *)
LEMMA ClosingDatabases ==
    ASSUME IInv, DatabasesCounted, NEW rs \in SUBSET Pooled,
           \A r, o \in rs : r = o
    PROVE  /\ \A o \in Repos : IsUser(o) /\ o \notin rs => CacheWithout(rs)[PathOf[o]] = dbCache[PathOf[o]]
           /\ \A p \in Paths : CacheWithout(rs)[p] # None =>
                /\ CacheWithout(rs)[p] = dbCache[p]
                /\ HandleWithout(rs)[dbCache[p]] = "open"
                /\ CountWithout(rs)[dbCache[p]] = Cardinality(Users(p) \ rs)
           /\ \A d \in Ids : HandleWithout(rs)[d] = "open" => \E p \in Paths : CacheWithout(rs)[p] = d
<1> USE NumberFacts
<1>1. \A p \in Paths : /\ dbCache[p] \in Ids \cup {None}
                       /\ dbCache[p] # None => /\ refCount[dbCache[p]] \in Nat
                                               /\ refCount[dbCache[p]] > 0
  BY DEF IInv, TypeOK, Cached
<1>2. \A o \in Repos : PathOf[o] \in Paths /\ (IsUser(o) <=> o \in Users(PathOf[o]))
  BY PoolAssumption DEF Users, IsUser
<1>3. \A r \in rs : r \in Repos /\ IsUser(r)
  BY DEF Pooled, IsUser
<1>4. \A p \in Paths : CacheWithout(rs)[p] = IF dbCache[p] \in LastUse(rs) THEN None ELSE dbCache[p]
  BY DEF CacheWithout
<1>5. \A d \in Ids : HandleWithout(rs)[d] = IF d \in LastUse(rs) THEN "closed" ELSE handle[d]
  BY DEF HandleWithout
<1>6. \A p \in Paths, d \in Released(rs) : dbCache[p] = d => \E r \in rs : PathOf[r] = p /\ r \in Users(p)
  <2>1. SUFFICES ASSUME NEW p \in Paths, NEW r \in rs, dbCache[PathOf[r]] = dbCache[p], dbCache[p] # None
                 PROVE  PathOf[r] = p /\ r \in Users(p)
    BY DEF Released
  <2>2. PathOf[r] = p
    BY <1>2, <1>3, <2>1 DEF IInv, Cached
  <2>3. QED
    BY <1>2, <1>3, <2>2
<1>7. \A o \in Repos : IsUser(o) /\ o \notin rs => CacheWithout(rs)[PathOf[o]] = dbCache[PathOf[o]]
  <2>1. SUFFICES ASSUME NEW o \in Repos, IsUser(o), o \notin rs, dbCache[PathOf[o]] \in LastUse(rs)
                 PROVE  FALSE
    BY <1>2, <1>4
  <2>2. PICK p \in Paths : p = PathOf[o]
    BY <1>2
  <2>3. PICK r \in rs : r \in Users(p) /\ r # o
    BY <1>6, <2>1, <2>2 DEF LastUse
  <2>4. Cardinality(Users(p)) = 1 /\ o \in Users(p)
    BY <1>2, <2>1, <2>2 DEF DatabasesCounted, LastUse, Released
  <2>5. Cardinality(Users(p) \ {o}) = 0 /\ IsFiniteSet(Users(p) \ {o})
    BY <2>4, UsersFinite, FS_RemoveElement
  <2>6. Users(p) \ {o} = {}
    BY <2>5, FS_EmptySet
  <2>7. QED
    BY <2>3, <2>6
<1>8. ASSUME NEW p \in Paths, CacheWithout(rs)[p] # None
      PROVE  /\ CacheWithout(rs)[p] = dbCache[p]
             /\ HandleWithout(rs)[dbCache[p]] = "open"
             /\ CountWithout(rs)[dbCache[p]] = Cardinality(Users(p) \ rs)
  <2>1. PICK d \in Ids : d = dbCache[p] /\ d \notin LastUse(rs) /\ CacheWithout(rs)[p] = d
    BY <1>1, <1>4, <1>8
  <2>2. handle[d] = "open" /\ refCount[d] = Cardinality(Users(p))
    BY <2>1 DEF DatabasesCounted
  <2>3. CountWithout(rs)[d] = Cardinality(Users(p) \ rs)
    <3>1. CASE d \in Released(rs)
      <4>1. PICK r \in rs : r \in Users(p)
        BY <1>6, <2>1, <3>1
      <4>2. Users(p) \ rs = Users(p) \ {r}
        BY <4>1
      <4>3. Cardinality(Users(p) \ {r}) = Cardinality(Users(p)) - 1
        BY <4>1, UsersFinite, FS_RemoveElement
      <4>4. QED
        BY <2>2, <3>1, <4>2, <4>3 DEF CountWithout
    <3>2. CASE d \notin Released(rs)
      <4>1. \A r \in rs : r \notin Users(p)
        BY <2>1, <3>2 DEF Released, Users
      <4>2. Users(p) \ rs = Users(p)
        BY <4>1
      <4>3. QED
        BY <2>2, <3>2, <4>2 DEF CountWithout
    <3>3. QED
      BY <3>1, <3>2
  <2>4. QED
    BY <1>5, <2>1, <2>2, <2>3
<1>9. ASSUME NEW d \in Ids, HandleWithout(rs)[d] = "open"
      PROVE  \E p \in Paths : CacheWithout(rs)[p] = d
  <2>1. handle[d] = "open" /\ d \notin LastUse(rs)
    BY <1>5, <1>9
  <2>2. QED
    BY <1>4, <2>1 DEF DatabasesCounted
<1>10. QED
  BY <1>7, <1>8, <1>9

LEMMA CloseOneCounts ==
    ASSUME IInv, DatabasesCounted, NEW r \in Pooled, CloseOne(r)
    PROVE  DatabasesCounted'
<1> USE NumberFacts
<1>1. PICK rs \in SUBSET Pooled : rs = {r} /\ \A u, o \in rs : u = o
  <2>1. {r} \in SUBSET Pooled /\ \A u, o \in {r} : u = o
    OBVIOUS
  <2>2. QED
    BY <2>1
<1>2. /\ pool' = PoolWithout(rs) /\ entry' = EntriesWithout(rs)
      /\ dbCache' = CacheWithout(rs) /\ refCount' = CountWithout(rs)
      /\ handle' = HandleWithout(rs) /\ init' = init
  BY <1>1 DEF CloseOne
<1>3. r \in Repos /\ pool[r] # None /\ init[r] = NotStarted
  BY DEF Pooled, IInv, IdsDistinct
<1>4. /\ pool'[r] = None /\ \A o \in Repos : o # r => pool'[o] = pool[o]
      /\ \A i \in Ids : entry'[i].db = entry[i].db
  <2>1. \A i \in Ids : entry[i] \in Entries
    BY DEF IInv, TypeOK
  <2>2. \A i \in Ids : entry'[i].db = entry[i].db
    BY <1>2, <2>1 DEF EntriesWithout, Entries
  <2>3. QED
    BY <1>1, <1>2, <1>3, <2>2 DEF PoolWithout
<1>5. ~IsUser(r)' /\ \A o \in Repos : o # r => (IsUser(o)' <=> IsUser(o)) /\ EntryOf(o)' = EntryOf(o)
  BY <1>2, <1>3, <1>4 DEF IsUser, EntryOf, NotStarted
<1>6. \A p \in Paths : Users(p)' = Users(p) \ rs
  BY <1>1, <1>5 DEF Users, IsUser
<1>7. \A o \in Repos : EntryOf(o) \in Ids \cup {None}
  BY DEF EntryOf, IInv, TypeOK, Inits
<1>8. \A o \in Repos : IsUser(o)' => /\ dbCache'[PathOf[o]] # None
                                     /\ entry'[EntryOf(o)'].db = dbCache'[PathOf[o]]
  <2>1. SUFFICES ASSUME NEW o \in Repos, o # r, IsUser(o)
                 PROVE  /\ dbCache'[PathOf[o]] # None
                        /\ entry'[EntryOf(o)'].db = dbCache'[PathOf[o]]
    BY <1>5
  <2>2. CacheWithout(rs)[PathOf[o]] = dbCache[PathOf[o]]
    BY <1>1, <2>1, ClosingDatabases
  <2>3. EntryOf(o) \in Ids
    BY <1>7, <2>1 DEF EntryOf, IsUser, IInv, IdsDistinct
  <2>4. QED
    BY <1>2, <1>4, <1>5, <2>1, <2>2, <2>3 DEF DatabasesCounted
<1>9. \A p \in Paths : dbCache'[p] # None => /\ dbCache'[p] = dbCache[p]
                                             /\ handle'[dbCache'[p]] = "open"
                                             /\ refCount'[dbCache'[p]] = Cardinality(Users(p)')
  BY <1>1, <1>2, <1>6, ClosingDatabases
<1>10. \A d \in Ids : handle'[d] = "open" => \E p \in Paths : dbCache'[p] = d
  BY <1>1, <1>2, ClosingDatabases
<1>11. \A o \in Repos : init'[o].stage = "open" => dbCache'[PathOf[o]] = None
  <2>1. \A o \in Repos : PathOf[o] \in Paths
    BY PoolAssumption
  <2>2. QED
    BY <1>2, <1>9, <2>1 DEF DatabasesCounted
<1>12. \A u, o \in Repos :
          init'[u].stage = "open" /\ init'[o].stage = "open" /\ PathOf[u] = PathOf[o] => u = o
  BY <1>2 DEF DatabasesCounted
<1>13. QED
  BY <1>8, <1>9, <1>10, <1>11, <1>12 DEF DatabasesCounted

LEMMA StartInitCounts ==
    ASSUME IInv, DatabasesCounted, "sharedOpen" \notin Disturbances, NEW r \in Repos, StartInit(r)
    PROVE  DatabasesCounted'
<1> USE NumberFacts
<1>1. PICK gone \in Evictions :
         /\ pool' = PoolWithout(gone)
         /\ dbCache' = CacheWithout(gone) /\ handle' = HandleWithout(gone)
         /\ \/ /\ CacheWithout(gone)[PathOf[r]] # None
               /\ refCount' = [CountWithout(gone) EXCEPT ![CacheWithout(gone)[PathOf[r]]] = @ + 1]
               /\ entry' = [EntriesWithout(gone) EXCEPT ![lastId'].db = CacheWithout(gone)[PathOf[r]]]
               /\ init' = [init EXCEPT ![r] = [stage |-> "fts", id |-> lastId']]
            \/ /\ CacheWithout(gone)[PathOf[r]] = None
               /\ \A o \in Repos : PathOf[o] = PathOf[r] => init[o].stage # "open"
               /\ refCount' = CountWithout(gone)
               /\ entry' = EntriesWithout(gone)
               /\ init' = [init EXCEPT ![r] = [stage |-> "open", id |-> lastId']]
  BY DEF StartInit
<1>2. /\ pool[r] = None /\ init[r].stage = "none" /\ lastId' = lastId + 1
      /\ lastId < MaxInits /\ lastId \in 0..MaxInits
  BY DEF StartInit, IInv, TypeOK
<1>3. PICK n \in Ids : n = lastId'
  BY <1>2 DEF Ids
<1>4. gone \in SUBSET Pooled /\ \A u, o \in gone : u = o
  BY <1>1 DEF Evictions, Evictable
<1>5. PICK p \in Paths : p = PathOf[r]
  BY PoolAssumption
<1>6. /\ \A o \in Repos : o \in gone => pool'[o] = None /\ pool[o] # None /\ init[o] = NotStarted
      /\ \A o \in Repos : o \notin gone => pool'[o] = pool[o]
      /\ r \notin gone
  BY <1>1, <1>2, <1>4 DEF PoolWithout, Pooled, IInv, IdsDistinct
<1>7. PICK s \in {"fts", "open"} : /\ init' = [init EXCEPT ![r] = [stage |-> s, id |-> n]]
                                   /\ s = "fts" <=> CacheWithout(gone)[p] # None
  BY <1>1, <1>3, <1>5
<1>8. /\ init'[r].stage = s /\ init'[r].id = n
      /\ \A o \in Repos : o # r => init'[o] = init[o]
  BY <1>7 DEF IInv, TypeOK
<1>9. /\ \A i \in Ids : i # n => entry'[i].db = entry[i].db
      /\ s = "fts" => entry'[n].db = CacheWithout(gone)[p]
  <2>1. PICK old \in [Ids -> Entries] : old = EntriesWithout(gone)
    BY <1>4, ClosingTypes
  <2>2. entry \in [Ids -> Entries]
    BY DEF IInv, TypeOK
  <2>3. \A i \in Ids : old[i].db = entry[i].db
    <3>1. SUFFICES ASSUME NEW i \in Ids PROVE old[i].db = entry[i].db
      OBVIOUS
    <3>2. entry[i] \in Entries
      BY <2>2
    <3>3. \/ old[i] = entry[i]
          \/ old[i] = [entry[i] EXCEPT !.closed = TRUE, !.available = {}, !.waiters = <<>>]
      BY <2>1 DEF EntriesWithout
    <3>4. QED
      BY <3>2, <3>3 DEF Entries
  <2>4. CASE s = "open"
    <3>1. entry' = old
      BY <1>1, <1>5, <1>7, <2>1, <2>4
    <3>2. QED
      BY <2>3, <2>4, <3>1
  <2>5. CASE s = "fts"
    <3>1. entry' = [old EXCEPT ![n].db = CacheWithout(gone)[p]]
      BY <1>1, <1>3, <1>5, <1>7, <2>1, <2>5
    <3>2. old[n] \in Entries
      BY <2>1
    <3>3. entry'[n].db = CacheWithout(gone)[p]
      BY <2>1, <3>1, <3>2 DEF Entries
    <3>4. \A i \in Ids : i # n => entry'[i] = old[i]
      BY <2>1, <3>1
    <3>5. QED
      BY <2>3, <3>3, <3>4
  <2>6. QED
    BY <2>4, <2>5
<1>10. \A o \in Repos : EntryOf(o) \in Ids \cup {None} /\ EntryOf(o) # n
  <2>1. \A o \in Repos : /\ pool[o] \in Ids \cup {None} /\ init[o].id \in Ids \cup {None}
                         /\ pool[o] <= lastId /\ init[o].id <= lastId
    BY DEF IInv, TypeOK, IdsDistinct, Inits
  <2>2. QED
    BY <1>2, <1>3, <2>1 DEF EntryOf
<1>11. \A o \in Repos : o # r =>
          /\ IsUser(o)' <=> IsUser(o) /\ o \notin gone
          /\ o \notin gone => EntryOf(o)' = EntryOf(o)
  BY <1>6, <1>8 DEF IsUser, EntryOf, NotStarted
<1>12. /\ IsUser(r)' <=> s = "fts"
       /\ EntryOf(r)' = n /\ ~IsUser(r)
  BY <1>2, <1>6, <1>8 DEF IsUser, EntryOf
<1>13. \A o \in Repos : IsUser(o)' => /\ dbCache'[PathOf[o]] # None
                                      /\ entry'[EntryOf(o)'].db = dbCache'[PathOf[o]]
  <2>1. CASE s = "fts"
    <3>1. dbCache'[p] # None /\ entry'[n].db = dbCache'[p]
      BY <1>1, <1>7, <1>9, <2>1
    <3>2. ASSUME NEW o \in Repos, o # r, IsUser(o)'
          PROVE  dbCache'[PathOf[o]] # None /\ entry'[EntryOf(o)'].db = dbCache'[PathOf[o]]
      <4>1. IsUser(o) /\ o \notin gone /\ EntryOf(o)' = EntryOf(o)
        BY <1>11, <3>2
      <4>2. CacheWithout(gone)[PathOf[o]] = dbCache[PathOf[o]]
        BY <1>4, <4>1, ClosingDatabases
      <4>3. EntryOf(o) \in Ids /\ EntryOf(o) # n
        BY <1>10, <4>1 DEF EntryOf, IsUser, IInv, IdsDistinct
      <4>4. QED
        BY <1>1, <1>9, <4>1, <4>2, <4>3 DEF DatabasesCounted
    <3>3. QED
      BY <1>5, <1>12, <3>1, <3>2
  <2>2. CASE s = "open"
    <3>1. ASSUME NEW o \in Repos, o # r, IsUser(o)'
          PROVE  dbCache'[PathOf[o]] # None /\ entry'[EntryOf(o)'].db = dbCache'[PathOf[o]]
      <4>1. IsUser(o) /\ o \notin gone /\ EntryOf(o)' = EntryOf(o)
        BY <1>11, <3>1
      <4>2. CacheWithout(gone)[PathOf[o]] = dbCache[PathOf[o]]
        BY <1>4, <4>1, ClosingDatabases
      <4>3. EntryOf(o) \in Ids /\ EntryOf(o) # n
        BY <1>10, <4>1 DEF EntryOf, IsUser, IInv, IdsDistinct
      <4>4. QED
        BY <1>1, <1>9, <4>1, <4>2, <4>3 DEF DatabasesCounted
    <3>2. QED
      BY <1>12, <2>2, <3>1
  <2>3. QED
    BY <2>1, <2>2
<1>14. \A x \in Paths : Users(x)' = IF x = p /\ s = "fts" THEN (Users(x) \ gone) \cup {r}
                                    ELSE Users(x) \ gone
  <2>1. \A x \in Paths : /\ Users(x) = {o \in Repos : PathOf[o] = x /\ IsUser(o)}
                         /\ Users(x)' = {o \in Repos : PathOf[o] = x /\ IsUser(o)'}
    BY DEF Users, IsUser
  <2>2. QED
    BY <1>5, <1>6, <1>11, <1>12, <2>1
<1>15. \A x \in Paths : dbCache'[x] # None =>
          /\ dbCache'[x] = dbCache[x] /\ handle'[dbCache'[x]] = "open"
          /\ refCount'[dbCache'[x]] = Cardinality(Users(x)')
  <2>1. SUFFICES ASSUME NEW x \in Paths, dbCache'[x] # None
                 PROVE  /\ dbCache'[x] = dbCache[x] /\ handle'[dbCache'[x]] = "open"
                        /\ refCount'[dbCache'[x]] = Cardinality(Users(x)')
    OBVIOUS
  <2>2. PICK d \in Ids : d = CacheWithout(gone)[x]
    BY <1>1, <1>4, <2>1, ClosingTypes
  <2>3. /\ dbCache[x] = d /\ HandleWithout(gone)[d] = "open"
        /\ CountWithout(gone)[d] = Cardinality(Users(x) \ gone)
    BY <1>4, <2>2, ClosingDatabases
  <2>4. CountWithout(gone) \in [Ids -> Nat]
    BY <1>4, ClosingTypes
  <2>5. CASE x = p /\ s = "fts"
    <3>1. refCount' = [CountWithout(gone) EXCEPT ![d] = @ + 1]
      BY <1>1, <1>5, <1>7, <2>2, <2>5
    <3>2. refCount'[d] = CountWithout(gone)[d] + 1
      BY <2>4, <3>1
    <3>3. r \notin Users(x) \ gone /\ IsFiniteSet(Users(x) \ gone)
      BY <1>12, UsersFinite, FS_Subset DEF Users, IsUser
    <3>4. Cardinality((Users(x) \ gone) \cup {r}) = Cardinality(Users(x) \ gone) + 1
      BY <3>3, FS_AddElement
    <3>5. QED
      BY <1>1, <1>14, <2>2, <2>3, <2>5, <3>2, <3>4
  <2>6. CASE ~(x = p /\ s = "fts")
    <3>1. refCount'[d] = CountWithout(gone)[d]
      <4>1. CASE s = "open"
        BY <1>1, <1>5, <1>7, <4>1
      <4>2. CASE s = "fts"
        <5>1. PICK e \in Ids : e = CacheWithout(gone)[p]
          BY <1>4, <1>7, <4>2, ClosingTypes
        <5>2. dbCache[p] = e
          BY <1>4, <5>1, ClosingDatabases
        <5>3. e # d
          BY <2>3, <2>6, <4>2, <5>2 DEF IInv, Cached
        <5>4. refCount' = [CountWithout(gone) EXCEPT ![e] = @ + 1]
          BY <1>1, <1>5, <1>7, <4>2, <5>1
        <5>5. QED
          BY <2>4, <5>3, <5>4
      <4>3. QED
        BY <4>1, <4>2
    <3>2. Users(x)' = Users(x) \ gone
      BY <1>14, <2>6
    <3>3. QED
      BY <1>1, <2>2, <2>3, <3>1, <3>2
  <2>7. QED
    BY <2>5, <2>6
<1>16. \A d \in Ids : handle'[d] = "open" => \E x \in Paths : dbCache'[x] = d
  BY <1>1, <1>4, ClosingDatabases
<1>17. \A o \in Repos : init'[o].stage = "open" => dbCache'[PathOf[o]] = None
  <2>1. SUFFICES ASSUME NEW o \in Repos, init'[o].stage = "open"
                 PROVE  dbCache'[PathOf[o]] = None
    OBVIOUS
  <2>2. CASE o = r
    BY <1>1, <1>5, <1>7, <1>8, <2>1, <2>2
  <2>3. CASE o # r
    <3>1. PICK x \in Paths : x = PathOf[o]
      BY PoolAssumption
    <3>2. dbCache[x] = None
      BY <1>8, <2>1, <2>3, <3>1 DEF DatabasesCounted
    <3>3. QED
      BY <1>15, <3>1, <3>2
  <2>4. QED
    BY <2>2, <2>3
<1>18. \A u, o \in Repos :
          init'[u].stage = "open" /\ init'[o].stage = "open" /\ PathOf[u] = PathOf[o] => u = o
  <2>1. \A o \in Repos : o # r /\ init'[r].stage = "open" /\ init'[o].stage = "open" => PathOf[o] # PathOf[r]
    <3>1. SUFFICES ASSUME NEW o \in Repos, o # r, s = "open", init[o].stage = "open"
                   PROVE  PathOf[o] # PathOf[r]
      BY <1>8
    <3>2. \A u \in Repos : PathOf[u] = PathOf[r] => init[u].stage # "open"
      BY <1>1, <1>5, <1>7, <3>1
    <3>3. QED
      BY <3>1, <3>2
  <2>2. \A u, o \in Repos :
          init[u].stage = "open" /\ init[o].stage = "open" /\ PathOf[u] = PathOf[o] => u = o
    BY DEF DatabasesCounted
  <2>3. SUFFICES ASSUME NEW u \in Repos, NEW o \in Repos, u # o,
                        init'[u].stage = "open", init'[o].stage = "open"
                 PROVE  PathOf[u] # PathOf[o]
    OBVIOUS
  <2>4. CASE u = r \/ o = r
    BY <2>1, <2>3, <2>4
  <2>5. CASE u # r /\ o # r
    BY <1>8, <2>2, <2>3, <2>5
  <2>6. QED
    BY <2>4, <2>5
<1>19. QED
  BY <1>13, <1>15, <1>16, <1>17, <1>18 DEF DatabasesCounted

LEMMA OpenedCounts ==
    ASSUME IInv, DatabasesCounted, NEW r \in Repos, Opened(r)
    PROVE  DatabasesCounted'
<1> USE NumberFacts
<1>1. PICK i \in Ids : i = init[r].id
  BY DEF Opened, IInv, TypeOK, IdsDistinct, Inits
<1>2. PICK p \in Paths : p = PathOf[r]
  BY PoolAssumption
<1>3. /\ init[r].stage = "open" /\ init' = [init EXCEPT ![r].stage = "fts"]
      /\ handle' = [handle EXCEPT ![i] = "open"]
      /\ dbCache' = [dbCache EXCEPT ![p] = i]
      /\ refCount' = [refCount EXCEPT ![i] = 1]
      /\ entry' = [entry EXCEPT ![i].db = i] /\ pool' = pool
  BY <1>1, <1>2 DEF Opened
<1>4. /\ dbCache'[p] = i /\ \A x \in Paths : x # p => dbCache'[x] = dbCache[x]
      /\ handle'[i] = "open" /\ refCount'[i] = 1
      /\ \A d \in Ids : d # i => handle'[d] = handle[d] /\ refCount'[d] = refCount[d]
      /\ entry'[i].db = i /\ \A d \in Ids : d # i => entry'[d] = entry[d]
      /\ init'[r].stage = "fts" /\ init'[r].id = i
      /\ \A o \in Repos : o # r => init'[o] = init[o]
  BY <1>1, <1>3 DEF IInv, TypeOK, Entries, Inits
<1>5. dbCache[p] = None /\ \A x \in Paths : dbCache[x] # i
  BY <1>1, <1>2, <1>3 DEF DatabasesCounted, IInv, Cached
<1>6. pool[r] = None /\ EntryOf(r) = i /\ EntryOf(r)' = i
  BY <1>1, <1>3, <1>4 DEF IInv, IdsDistinct, EntryOf, NotStarted
<1>7. \A o \in Repos : o # r => /\ EntryOf(o)' = EntryOf(o) /\ EntryOf(o) # i
                                /\ IsUser(o)' <=> IsUser(o)
                                /\ IsUser(o) => EntryOf(o) \in Ids /\ PathOf[o] # p
  <2>1. SUFFICES ASSUME NEW o \in Repos, o # r
                 PROVE  /\ EntryOf(o)' = EntryOf(o) /\ EntryOf(o) # i
                        /\ IsUser(o)' <=> IsUser(o)
                        /\ IsUser(o) => EntryOf(o) \in Ids /\ PathOf[o] # p
    OBVIOUS
  <2>2. EntryOf(o)' = EntryOf(o) /\ (IsUser(o)' <=> IsUser(o))
    BY <1>3, <1>4, <2>1 DEF EntryOf, IsUser
  <2>3. EntryOf(o) # i
    BY <1>6, <2>1 DEF IInv, IdsDistinct
  <2>4. IsUser(o) => EntryOf(o) \in Ids
    BY DEF EntryOf, IsUser, IInv, TypeOK, Inits, IdsDistinct
  <2>5. IsUser(o) => PathOf[o] # p
    BY <1>5 DEF DatabasesCounted
  <2>6. QED
    BY <2>2, <2>3, <2>4, <2>5
<1>8. IsUser(r)' /\ ~IsUser(r)
  BY <1>3, <1>4, <1>6 DEF IsUser
<1>9. \A o \in Repos : PathOf[o] \in Paths
  BY PoolAssumption
<1>10. \A o \in Repos : IsUser(o)' => /\ dbCache'[PathOf[o]] # None
                                      /\ entry'[EntryOf(o)'].db = dbCache'[PathOf[o]]
  <2>1. ASSUME NEW o \in Repos, o # r, IsUser(o)'
        PROVE  dbCache'[PathOf[o]] # None /\ entry'[EntryOf(o)'].db = dbCache'[PathOf[o]]
    <3>1. /\ IsUser(o) /\ EntryOf(o)' = EntryOf(o) /\ EntryOf(o) \in Ids
          /\ EntryOf(o) # i /\ PathOf[o] # p
      BY <1>7, <2>1
    <3>2. dbCache'[PathOf[o]] = dbCache[PathOf[o]] /\ entry'[EntryOf(o)] = entry[EntryOf(o)]
      BY <1>4, <1>9, <3>1
    <3>3. dbCache[PathOf[o]] # None /\ entry[EntryOf(o)].db = dbCache[PathOf[o]]
      BY <3>1 DEF DatabasesCounted
    <3>4. QED
      BY <3>1, <3>2, <3>3
  <2>2. QED
    BY <1>2, <1>4, <1>6, <2>1
<1>11. \A x \in Paths : Users(x)' = IF x = p THEN {r} ELSE Users(x)
  <2>1. \A x \in Paths : /\ Users(x) = {o \in Repos : PathOf[o] = x /\ IsUser(o)}
                         /\ Users(x)' = {o \in Repos : PathOf[o] = x /\ IsUser(o)'}
    BY DEF Users, IsUser
  <2>2. QED
    BY <1>2, <1>7, <1>8, <2>1
<1>12. \A x \in Paths : dbCache'[x] # None => /\ handle'[dbCache'[x]] = "open"
                                              /\ refCount'[dbCache'[x]] = Cardinality(Users(x)')
  <2>1. ASSUME NEW x \in Paths, x # p, dbCache'[x] # None
        PROVE  /\ handle'[dbCache'[x]] = "open"
               /\ refCount'[dbCache'[x]] = Cardinality(Users(x)')
    <3>1. PICK d \in Ids : d = dbCache[x] /\ d # i /\ dbCache'[x] = d
      <4>1. dbCache[x] \in Ids \cup {None} /\ dbCache[x] # i /\ dbCache'[x] = dbCache[x]
        BY <1>4, <1>5, <2>1 DEF IInv, TypeOK
      <4>2. QED
        BY <2>1, <4>1
    <3>2. QED
      BY <1>4, <1>11, <2>1, <3>1 DEF DatabasesCounted
  <2>2. handle'[dbCache'[p]] = "open" /\ refCount'[dbCache'[p]] = Cardinality(Users(p)')
    BY <1>4, <1>11, FS_Singleton
  <2>3. QED
    BY <2>1, <2>2
<1>13. \A d \in Ids : handle'[d] = "open" => \E x \in Paths : dbCache'[x] = d
  <2>1. ASSUME NEW d \in Ids, d # i, handle'[d] = "open"
        PROVE  \E x \in Paths : dbCache'[x] = d
    <3>1. PICK x \in Paths : dbCache[x] = d
      BY <1>4, <2>1 DEF DatabasesCounted
    <3>2. QED
      BY <1>4, <1>5, <3>1
  <2>2. QED
    BY <1>4, <2>1
<1>14. \A o \in Repos : init'[o].stage = "open" => dbCache'[PathOf[o]] = None
  <2>1. \A o \in Repos : init'[o].stage = "open" => o # r /\ init[o].stage = "open"
    BY <1>4
  <2>2. \A o \in Repos : o # r /\ init[o].stage = "open" => PathOf[o] # p /\ dbCache[PathOf[o]] = None
    BY <1>2, <1>3 DEF DatabasesCounted
  <2>3. QED
    BY <1>4, <1>9, <2>1, <2>2
<1>15. \A u, o \in Repos :
          init'[u].stage = "open" /\ init'[o].stage = "open" /\ PathOf[u] = PathOf[o] => u = o
  BY <1>4 DEF DatabasesCounted
<1>16. QED
  BY <1>10, <1>12, <1>13, <1>14, <1>15 DEF DatabasesCounted

(* A step that moves no registered or half-built entry. *)
LEMMA OthersCount ==
    ASSUME IInv, DatabasesCounted, UNCHANGED shared,
           \A i \in Ids : entry'[i].db = entry[i].db,
           \A r \in Repos : (IsUser(r)' <=> IsUser(r)) /\ (IsUser(r) => EntryOf(r)' = EntryOf(r)),
           \A r \in Repos : init'[r].stage = "open" => init[r].stage = "open"
    PROVE  DatabasesCounted'
<1>1. \A p \in Paths : Users(p)' = Users(p)
  BY DEF Users, IsUser
<1>2. \A r \in Repos : IsUser(r) => EntryOf(r) \in Ids
  BY DEF EntryOf, IsUser, IInv, TypeOK, Inits, IdsDistinct
<1>3. QED
  BY <1>1, <1>2 DEF DatabasesCounted, shared

Counted == Strong /\ DatabasesCounted

LEMMA CountedStep ==
    ASSUME "sharedOpen" \notin Disturbances, Counted, [Next]_vars
    PROVE  Counted'
<1> USE DEF Counted, Strong
<1>1. Strong'
  BY StrongStep
<1>2. CASE UNCHANGED vars
  BY <1>1, <1>2 DEF vars, DatabasesCounted, Users, IsUser, EntryOf
<1>3. ASSUME NEW r \in Repos, StartInit(r) PROVE DatabasesCounted'
  BY <1>3, StartInitCounts
<1>4. ASSUME NEW r \in Repos, Opened(r) PROVE DatabasesCounted'
  BY <1>4, OpenedCounts
<1>5. ASSUME NEW r \in Repos, OpenFails(r) PROVE DatabasesCounted'
  <2>1. /\ init[r].stage = "open" /\ init'[r] = NotStarted
        /\ \A o \in Repos : o # r => init'[o] = init[o]
        /\ UNCHANGED <<pool, entry, shared>>
    BY <1>5 DEF OpenFails, IInv, TypeOK
  <2>2. \A o \in Repos : (IsUser(o)' <=> IsUser(o)) /\ (IsUser(o) => EntryOf(o)' = EntryOf(o))
    BY <2>1 DEF IsUser, EntryOf, NotStarted
  <2>3. QED
    BY <2>1, <2>2, OthersCount DEF NotStarted
<1>6. ASSUME NEW r \in Repos, Ready(r) PROVE DatabasesCounted'
  <2>1. PICK i \in Ids : i = init[r].id
    BY <1>6 DEF Ready, IInv, TypeOK, IdsDistinct, Inits
  <2>2. /\ init[r].stage = "fts" /\ init'[r] = NotStarted /\ pool'[r] = i /\ pool[r] = None
        /\ \A o \in Repos : o # r => init'[o] = init[o] /\ pool'[o] = pool[o]
        /\ UNCHANGED shared
    BY <1>6, <2>1 DEF Ready, IInv, TypeOK, IdsDistinct, NotStarted
  <2>3. \A o \in Repos : (IsUser(o)' <=> IsUser(o)) /\ (IsUser(o) => EntryOf(o)' = EntryOf(o))
    BY <2>1, <2>2, NumberFacts DEF IsUser, EntryOf
  <2>4. \A j \in Ids : entry'[j].db = entry[j].db
    BY <1>6, <2>1 DEF Ready, IInv, TypeOK, Entries
  <2>5. QED
    BY <2>2, <2>3, <2>4, OthersCount DEF NotStarted
<1>7. ASSUME NEW r \in Repos, IdleClose(r) \/ CloseLbug(r) PROVE DatabasesCounted'
  BY <1>7, CloseOneCounts DEF IdleClose, CloseLbug
<1>8. ASSUME NEW q \in Queries,
             \/ \E r \in Repos : Checkout(q, r) \/ Enqueue(q, r)
             \/ Finish(q) \/ QueryTimeout(q) \/ WaiterTimeout(q)
      PROVE  DatabasesCounted'
  <2>1. UNCHANGED <<pool, init, shared>>
    BY <1>8 DEF Checkout, Enqueue, Finish, QueryTimeout, WaiterTimeout
  <2>2. \A o \in Repos : (IsUser(o)' <=> IsUser(o)) /\ EntryOf(o)' = EntryOf(o)
    BY <2>1 DEF IsUser, EntryOf
  <2>3. \A i \in Ids : entry'[i].db = entry[i].db
    BY <1>8, CallersMarkNothing
  <2>4. QED
    BY <2>1, <2>2, <2>3, OthersCount
<1>9. ASSUME NEW c \in native, NativeReturns(c) PROVE DatabasesCounted'
  BY <1>9 DEF NativeReturns, shared, DatabasesCounted, Users, IsUser, EntryOf
<1>10. DatabasesCounted'
  BY <1>2, <1>3, <1>4, <1>5, <1>6, <1>7, <1>8, <1>9 DEF Next
<1>11. QED
  BY <1>1, <1>10

(* As long as no two repositories open one path at a time, every registered *)
(* or half-built entry stands on the open database of its path, which       *)
(* counts exactly these entries, and none is left open that nobody can      *)
(* release (SharedDB.refCount in doInitLbug and closeOne).               *)
THEOREM DatabaseAlwaysServes ==
    ASSUME "sharedOpen" \notin Disturbances
    PROVE  Spec => []DatabaseServesItsEntries
<1>1. Init => Counted
  <2>1. SUFFICES ASSUME Init PROVE DatabasesCounted
    BY Initially DEF Counted
  <2>2. QED
    BY <2>1 DEF Init, DatabasesCounted, IsUser, NotStarted
<1>2. Counted /\ [Next]_vars => Counted'
  BY CountedStep
<1>3. Counted => DatabaseServesItsEntries
  <2>1. SUFFICES ASSUME Counted PROVE DatabaseServesItsEntries
    OBVIOUS
  <2>2. \A p \in Paths : \A r \in Users(p) :
           entry[EntryOf(r)].db = dbCache[p] /\ handle[dbCache[p]] = "open"
    <3>1. SUFFICES ASSUME NEW p \in Paths, NEW r \in Repos, PathOf[r] = p, IsUser(r)
                   PROVE  entry[EntryOf(r)].db = dbCache[p] /\ handle[dbCache[p]] = "open"
      BY DEF Users, IsUser
    <3>2. dbCache[p] # None /\ entry[EntryOf(r)].db = dbCache[p]
      BY <2>1, <3>1 DEF Counted, DatabasesCounted
    <3>3. handle[dbCache[p]] = "open"
      BY <2>1, <3>2 DEF Counted, DatabasesCounted
    <3>4. QED
      BY <3>2, <3>3
  <2>3. \A p \in Paths : dbCache[p] # None =>
           refCount[dbCache[p]] = Cardinality(Users(p)) /\ refCount[dbCache[p]] > 0
    BY <2>1 DEF Counted, Strong, IInv, Cached, DatabasesCounted
  <2>4. QED
    BY <2>1, <2>2, <2>3 DEF Counted, DatabasesCounted, DatabaseServesItsEntries
<1>4. QED
  BY <1>1, <1>2, <1>3, PTL DEF Spec

=============================================================================
