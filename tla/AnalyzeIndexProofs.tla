-------------------------- MODULE AnalyzeIndexProofs ------------------------
(***************************************************************************)
(* Safety of successive analyze runs, for any files, trees and depth: the  *)
(* types, what a reported success means, that meta.json describes the rows *)
(* of the database, that it describes the edges as long as the walk over   *)
(* importers reaches what changed, and for which graphs it does.           *)
(***************************************************************************)
EXTENDS AnalyzeIndex, FiniteSetTheorems, WellFoundedInduction, TLAPS

Edges == {"IMPORTS", "CALLS"} \X Files \X Files

LEMMA GraphEndpoints ==
    ASSUME NEW t \in [Files -> Contents], NEW e \in GraphOf(t)
    PROVE  e \in Edges /\ e[2] \in Present(t) /\ e[3] \in Present(t)
<1>1. PICK f \in Present(t) : e \in ImportEdges(t, f) \cup CallEdges(t, f)
  BY DEF GraphOf
<1>2. CASE e \in ImportEdges(t, f)
  <2>1. PICK g \in Present(t) : e = <<"IMPORTS", f, g>>
    BY <1>2 DEF ImportEdges, Imported, Present
  <2>2. QED
    BY <2>1 DEF Present, Edges
<1>3. CASE e \in CallEdges(t, f)
  <2>1. PICK g \in Files : t[g].kind = "def" /\ e = <<"CALLS", f, g>>
    BY <1>3 DEF CallEdges, Defining
  <2>2. QED
    BY <2>1 DEF Present, Absent, Edges
<1>4. QED
  BY <1>1, <1>2, <1>3

LEMMA TreeTypes ==
    /\ Trees \subseteq [Files -> Contents]
    /\ NoTree \in [Files -> Contents]
    /\ Absent \in Contents
BY IndexAssumption DEF NoTree, Absent, Contents, Kinds

LEMMA ToWriteTypes ==
    ToWrite \subseteq Files /\ Deleted \subseteq Files /\ ShadowSeed \subseteq Files
BY DEF ToWrite, Deleted, ShadowSeed, Present

LEMMA NothingSkipped ==
    ASSUME NEW error, error \notin Disturbances, NEW S
    PROVE  Skips(error, S) = {{}}
BY DEF Skips

LEMMA SmallestNat ==
    ASSUME NEW T \in SUBSET Nat, T # {}
    PROVE  \E m \in T : \A n \in T : m <= n
<1> DEFINE R == OpToRel(<, Nat)
<1>1. IsWellFoundedOn(R, Nat)
  BY NatLessThanWellFounded
<1>2. \A m, n \in Nat : n < m => <<n, m>> \in R
  BY DEF OpToRel
<1> HIDE DEF R
<1>3. PICK m \in T : \A n \in T : ~ (<<n, m>> \in R)
  BY <1>1, WFMin
<1>4. \A n \in T : m \in Nat /\ n \in Nat
  OBVIOUS
<1>5. ASSUME NEW n \in T
      PROVE  m <= n
  <2>1. m \in Nat /\ n \in Nat /\ ~ (n < m)
    BY <1>2, <1>3, <1>4
  <2>2. QED
    BY <2>1
<1>6. QED
  BY <1>5

(* A sequence of values, each computed from the one before it. *)
Iterates(r, U, A, G, N) ==
  r \in [0..N -> U] /\ r[0] = A /\ \A n \in 1..N : r[n] = G[n][r[n-1]]

LEMMA IteratesExist ==
    ASSUME NEW U, NEW A \in U, NEW N \in Nat, NEW G \in [1..N -> [U -> U]]
    PROVE  \E r : Iterates(r, U, A, G, N)
<1> DEFINE Fits(r, k) == r[0] = A /\ \A n \in 1..k : r[n] = G[n][r[n-1]]
           Bad == {k \in 0..N : ~ \E r \in [0..k -> U] : Fits(r, k)}
<1>1. Bad = {}
  <2>1. SUFFICES ASSUME Bad # {}
                 PROVE  FALSE
    OBVIOUS
  <2>2. PICK k \in Bad : \A n \in Bad : k <= n
    <3>1. Bad \in SUBSET Nat
      OBVIOUS
    <3> HIDE DEF Bad
    <3>2. QED
      BY <2>1, <3>1, SmallestNat
  <2>3. k \in 0..N
    OBVIOUS
  <2>4. CASE k = 0
    <3>1. [i \in 0..0 |-> A] \in [0..0 -> U] /\ Fits([i \in 0..0 |-> A], 0)
      OBVIOUS
    <3>2. QED
      BY <2>4, <3>1
  <2>5. CASE k # 0
    <3>1. k - 1 \in 0..N /\ ~(k <= k - 1)
      BY <2>3, <2>5
    <3>2. k - 1 \notin Bad
      BY <2>2, <3>1
    <3>3. PICK r \in [0..(k - 1) -> U] : Fits(r, k - 1)
      BY <3>1, <3>2
    <3> DEFINE s == [i \in 0..k |-> IF i = k THEN G[k][r[k-1]] ELSE r[i]]
    <3>4. r[k-1] \in U
      BY <2>3, <2>5, <3>3
    <3>5. s \in [0..k -> U]
      BY <2>3, <2>5, <3>3, <3>4
    <3>6. s[0] = A
      BY <2>3, <2>5, <3>3
    <3>7. \A n \in 1..k : s[n] = G[n][s[n-1]]
      <4>1. TAKE n \in 1..k
      <4>2. n - 1 \in 0..k /\ n - 1 # k /\ s[n-1] = r[n-1]
        BY <2>3, <2>5
      <4>3. CASE n = k
        BY <4>2, <4>3, <2>3
      <4>4. CASE n # k
        <5>1. n \in 1..(k-1) /\ s[n] = r[n]
          BY <4>4, <2>3, <2>5
        <5>2. QED
          BY <5>1, <4>2, <3>3
      <4>5. QED
        BY <4>3, <4>4
    <3>8. \E q \in [0..k -> U] : Fits(q, k)
      BY <3>5, <3>6, <3>7
    <3>9. QED
      BY <3>8
  <2>6. QED
    BY <2>4, <2>5
<1>2. PICK r \in [0..N -> U] : Fits(r, N)
  BY <1>1
<1>3. QED
  BY <1>2 DEF Iterates

LEMMA IteratesIn ==
    ASSUME NEW U, NEW N \in Nat, NEW r, r[0] \in U,
           \A n \in 1..N : r[n-1] \in U => r[n] \in U
    PROVE  \A n \in 0..N : r[n] \in U
<1> DEFINE Bad == {n \in 0..N : r[n] \notin U}
<1>1. SUFFICES ASSUME Bad # {}
               PROVE  FALSE
  OBVIOUS
<1>2. PICK k \in Bad : \A n \in Bad : k <= n
  <2>1. Bad \in SUBSET Nat
    OBVIOUS
  <2> HIDE DEF Bad
  <2>2. QED
    BY <1>1, <2>1, SmallestNat
<1>3. k \in 1..N /\ k - 1 \in 0..N /\ ~ (k <= k - 1)
  OBVIOUS
<1>4. r[k-1] \in U
  BY <1>2, <1>3
<1>5. QED
  BY <1>3, <1>4

-----------------------------------------------------------------------------
(* The walk over importers, one level at a time, for any failing queries. *)

Changed == ToWrite \cup Deleted \cup ShadowSeed

Walk(failed) ==
  LET walk[n \in 0..MaxDepth] ==
        IF n = 0 THEN [writable |-> ToWrite, frontier |-> ToWrite \cup Deleted \cup ShadowSeed]
        ELSE LET found == UNION {Importers(f) : f \in {g \in walk[n-1].frontier :
                                                       <<n-1, g>> \notin failed}}
             IN  [writable |-> walk[n-1].writable \cup found,
                  frontier |-> found \ walk[n-1].writable]
  IN  walk

Walked == [writable : {S \in SUBSET Files : ToWrite \subseteq S}, frontier : SUBSET Files]

Found(failed, n, w) == UNION {Importers(f) : f \in {g \in w.frontier : <<n, g>> \notin failed}}

Further(failed, n, w) ==
  [writable |-> w.writable \cup Found(failed, n, w),
   frontier |-> Found(failed, n, w) \ w.writable]

LEMMA WalkLevels ==
    ASSUME NEW failed
    PROVE  /\ Walk(failed)[0] = [writable |-> ToWrite, frontier |-> Changed]
           /\ \A n \in 1..MaxDepth : Walk(failed)[n] = Further(failed, n-1, Walk(failed)[n-1])
           /\ \A n \in 0..MaxDepth : Walk(failed)[n] \in Walked
           /\ WritableFiles(failed) = Walk(failed)[MaxDepth].writable
<1> DEFINE N == MaxDepth
           A == [writable |-> ToWrite, frontier |-> Changed]
           U == Walked
           G == [n \in 1..N |-> [w \in U |-> Further(failed, n-1, w)]]
           Body(q) == [n \in 0..N |-> IF n = 0 THEN A ELSE Further(failed, n-1, q[n-1])]
<1>1. N \in Nat /\ A \in U
  BY IndexAssumption, ToWriteTypes DEF Walked, Changed
<1>2. G \in [1..N -> [U -> U]]
  <2>1. ASSUME NEW n \in 1..N, NEW w \in U
        PROVE  Further(failed, n-1, w) \in U
    BY DEF Further, Found, Walked, Importers
  <2>2. QED
    BY <2>1
<1>3. \A n \in 1..N, w \in U : G[n][w] = Further(failed, n-1, w)
  OBVIOUS
<1>4. Walk(failed) = CHOOSE q : q = Body(q)
  BY DEF Walk, Further, Found, Changed
<1>5. ASSUME NEW n \in 0..N, n # 0
      PROVE  n \in 1..N /\ n - 1 \in 0..N
  BY <1>1, <1>5
<1> HIDE DEF N, A, U, G
<1>6. PICK r : Iterates(r, U, A, G, N)
  BY <1>1, <1>2, IteratesExist
<1>7. r = Body(r)
  <2>1. \A n \in 0..N : r[n] = Body(r)[n]
    BY <1>3, <1>5, <1>6 DEF Iterates
  <2>2. r \in [0..N -> U]
    BY <1>6 DEF Iterates
  <2>3. QED
    BY <2>1, <2>2
<1>8. Walk(failed) = Body(Walk(failed))
  BY <1>4, <1>7
<1>9. ASSUME NEW q, q = Body(q)
      PROVE  q[0] = A /\ \A n \in 1..N : q[n] = Further(failed, n-1, q[n-1])
  BY <1>1, <1>9
<1>10. \A n \in 0..N : Walk(failed)[n] \in U
  <2> DEFINE W == Walk(failed)
  <2>1. W[0] = A /\ \A n \in 1..N : W[n] = Further(failed, n-1, W[n-1])
    BY <1>8, <1>9
  <2> HIDE DEF W
  <2>2. \A n \in 1..N : W[n-1] \in U => W[n] \in U
    BY <1>2, <1>3, <2>1
  <2>3. \A n \in 0..N : W[n] \in U
    BY <1>1, <2>1, <2>2, IteratesIn
  <2>4. QED
    BY <2>3 DEF W
<1>11. WritableFiles(failed) = Walk(failed)[MaxDepth].writable
  BY DEF WritableFiles, Walk
<1>12. QED
  BY <1>8, <1>9, <1>10, <1>11 DEF N, A, U

LEMMA WritableTypes ==
    ASSUME NEW failed
    PROVE  ToWrite \subseteq WritableFiles(failed) /\ WritableFiles(failed) \subseteq Files
<1>1. MaxDepth \in 0..MaxDepth
  BY IndexAssumption
<1>2. QED
  BY <1>1, WalkLevels DEF Walked

(* With no failing query: everything within n importers of a change. *)
Near(n) == Walk({})[n].writable \cup Changed

LEMMA NearGrows ==
    /\ Near(0) = Changed
    /\ \A n \in 0..MaxDepth : n < MaxDepth =>
         \A x \in Near(n) : Importers(x) \subseteq Walk({})[n+1].writable
    /\ \A n \in 0..MaxDepth : Walk({})[n].writable \subseteq WritableFiles({})
    /\ Near(MaxDepth) = WritableFiles({}) \cup Changed
<1> DEFINE W(n) == Walk({})[n].writable
           F(n) == Walk({})[n].frontier
<1>1. MaxDepth \in Nat
  BY IndexAssumption
<1>2. W(0) = ToWrite /\ F(0) = Changed
  BY WalkLevels
<1>3. ASSUME NEW n \in 0..MaxDepth, n < MaxDepth
      PROVE  /\ W(n+1) = W(n) \cup UNION {Importers(f) : f \in F(n)}
             /\ F(n+1) = (UNION {Importers(f) : f \in F(n)}) \ W(n)
  <2>1. n + 1 \in 1..MaxDepth /\ (n + 1) - 1 = n
    BY <1>1, <1>3
  <2>2. Walk({})[n+1] = Further({}, n, Walk({})[n])
    BY <2>1, WalkLevels
  <2>3. QED
    BY <2>2 DEF Further, Found
<1> HIDE DEF W, F
<1>4. ASSUME NEW n \in 0..MaxDepth, n # 0
      PROVE  n - 1 \in 0..MaxDepth /\ n - 1 < MaxDepth /\ (n - 1) + 1 = n /\ ~ (n <= n - 1)
  BY <1>1, <1>4
<1>5. \A n \in 0..MaxDepth : \A x \in W(n) \cup Changed :
         x \in F(n) \/ Importers(x) \subseteq W(n)
  <2> DEFINE Seen(n) == \A x \in W(n) \cup Changed : x \in F(n) \/ Importers(x) \subseteq W(n)
             Bad == {n \in 0..MaxDepth : ~ Seen(n)}
  <2>1. SUFFICES ASSUME Bad # {}
                 PROVE  FALSE
    OBVIOUS
  <2>2. PICK k \in Bad : \A n \in Bad : k <= n
    <3>1. Bad \in SUBSET Nat
      BY <1>1
    <3> HIDE DEF Bad
    <3>2. QED
      BY <2>1, <3>1, SmallestNat
  <2>3. k # 0
    BY <1>2 DEF Changed
  <2>4. k - 1 \in 0..MaxDepth /\ k - 1 < MaxDepth /\ (k - 1) + 1 = k /\ ~ (k <= k - 1)
    BY <1>4, <2>3
  <2>5. Seen(k-1)
    BY <2>2, <2>4
  <2>6. /\ W(k) = W(k-1) \cup UNION {Importers(f) : f \in F(k-1)}
        /\ F(k) = (UNION {Importers(f) : f \in F(k-1)}) \ W(k-1)
    <3>1. /\ W((k-1)+1) = W(k-1) \cup UNION {Importers(f) : f \in F(k-1)}
          /\ F((k-1)+1) = (UNION {Importers(f) : f \in F(k-1)}) \ W(k-1)
      BY <1>3, <2>4
    <3>2. QED
      BY <2>4, <3>1
  <2>7. Seen(k)
    BY <2>5, <2>6
  <2>8. QED
    BY <2>7
<1>6. ASSUME NEW n \in 0..MaxDepth, n < MaxDepth, NEW x \in W(n) \cup Changed
      PROVE  Importers(x) \subseteq W(n+1)
  BY <1>3, <1>5, <1>6
<1>7. \A n \in 0..MaxDepth : W(n) \subseteq W(MaxDepth)
  <2> DEFINE Bad == {n \in 0..MaxDepth : ~ (W(MaxDepth - n) \subseteq W(MaxDepth))}
  <2>1. Bad = {}
    <3>1. SUFFICES ASSUME Bad # {}
                   PROVE  FALSE
      OBVIOUS
    <3>2. PICK k \in Bad : \A n \in Bad : k <= n
      <4>1. Bad \in SUBSET Nat
        BY <1>1
      <4> HIDE DEF Bad
      <4>2. QED
        BY <3>1, <4>1, SmallestNat
    <3>3. k # 0
      BY <1>1
    <3>4. /\ k - 1 \in 0..MaxDepth /\ ~ (k <= k - 1)
          /\ MaxDepth - k \in 0..MaxDepth /\ MaxDepth - k < MaxDepth
          /\ MaxDepth - (k - 1) = (MaxDepth - k) + 1
      BY <1>1, <3>3
    <3>5. W(MaxDepth - (k - 1)) \subseteq W(MaxDepth)
      BY <3>2, <3>4
    <3>6. W(MaxDepth - k) \subseteq W((MaxDepth - k) + 1)
      BY <1>3, <3>4
    <3>7. W((MaxDepth - k) + 1) \subseteq W(MaxDepth)
      BY <3>4, <3>5
    <3>8. QED
      BY <3>6, <3>7
  <2>2. ASSUME NEW n \in 0..MaxDepth
        PROVE  W(n) \subseteq W(MaxDepth)
    <3>1. MaxDepth - n \in 0..MaxDepth /\ MaxDepth - (MaxDepth - n) = n
      BY <1>1
    <3>2. W(MaxDepth - (MaxDepth - n)) \subseteq W(MaxDepth)
      BY <2>1, <3>1
    <3>3. QED
      BY <3>1, <3>2
  <2>3. QED
    BY <2>2
<1>8. W(MaxDepth) = WritableFiles({})
  BY WalkLevels DEF W
<1>9. QED
  BY <1>2, <1>6, <1>7, <1>8 DEF W, Near, Changed

-----------------------------------------------------------------------------
(* What a stopped run may leave, step by step: the database between runs   *)
(* is the one of the last meta.json without the dirty flag.                *)

Clean == meta # NoMeta /\ ~meta.dirty
Replaced == writeSet \cup Deleted
Old == GraphOf(seen.hashes)
New == GraphOf(parsed)
Missing == Touching(New, writeSet)

(* Files do not change during a run, so what is hashed is what was parsed. *)
OneTree ==
  /\ phase \notin {"idle", "parse"} => parsed = tree
  /\ phase \notin {"idle", "parse", "hash"} => hashes = tree

RunReads ==
  /\ phase \in {"parse", "hash"} => seen = meta /\ (Clean \/ forced \/ meta = NoMeta)
  /\ phase \in {"plan", "delete"} => seen # NoMeta /\ meta # NoMeta /\ meta.dirty

(* The rows and the communities, which do not depend on the walk. *)
RowsFollow ==
  /\ phase \in {"idle", "parse", "hash", "register"} /\ Clean =>
       db.rows = meta.hashes /\ db.groups = meta.hashes
  /\ phase = "plan" => db.rows = seen.hashes
  /\ phase = "delete" =>
       /\ ToWrite \subseteq writeSet /\ todo \subseteq Replaced
       /\ db.rows = [f \in Files |-> IF f \in Replaced \ todo THEN Absent ELSE seen.hashes[f]]
  /\ phase = "nodes" =>
       /\ db.rows = [f \in Files |-> IF f \in writeSet THEN Absent ELSE hashes[f]]
       /\ db.groups = NoTree
  /\ phase \in {"edges", "save"} => db.rows = hashes /\ db.groups = hashes

(* The edges, which do. *)
EdgesFollow ==
  /\ phase \in {"idle", "parse", "hash", "register"} /\ Clean => db.edges = GraphOf(meta.hashes)
  /\ phase = "plan" => db.edges = Old
  /\ phase = "delete" => db.edges = Old \ Touching(Old, Replaced \ todo)
  /\ phase \in {"nodes", "edges"} => db.edges \cup Missing = New
  /\ phase = "save" => db.edges = New

RunInv == OneTree /\ RunReads /\ RowsFollow

(* A run is started on a clean working tree. *)
Committed ==
  /\ phase # "idle" => tree = head /\ commit = head
  /\ meta # NoMeta => meta.commit = meta.hashes
  /\ seen # NoMeta => seen.commit = seen.hashes

(* What a run reports. *)
Reports ==
  /\ phase # "idle" => outcome = "none"
  /\ phase = "register" => Clean

CommitRead == phase # "idle" => commit \in Trees

-----------------------------------------------------------------------------
LEMMA HashedType ==
    ASSUME TypeOK
    PROVE  /\ \A unread : Hashed(unread) \in [Files -> Contents]
           /\ parsed = tree => Hashed({}) = tree
<1>1. tree \in [Files -> Contents]
  BY TreeTypes DEF TypeOK
<1>2. QED
  BY <1>1, TreeTypes DEF Hashed, Present

LEMMA TypeInitially == Init => TypeOK /\ CommitRead
<1> SUFFICES ASSUME Init
             PROVE  TypeOK /\ CommitRead
  OBVIOUS
<1>1. db \in [rows : [Files -> Contents],
             edges : SUBSET ({"IMPORTS", "CALLS"} \X Files \X Files),
             groups : [Files -> Contents]]
  BY TreeTypes DEF Init, EmptyDb
<1>2. QED
  BY <1>1, TreeTypes DEF Init, TypeOK, CommitRead, Phases

Dbs == [rows : [Files -> Contents],
        edges : SUBSET ({"IMPORTS", "CALLS"} \X Files \X Files),
        groups : [Files -> Contents]]

LEMMA TypeStep ==
    ASSUME TypeOK, CommitRead, [Next]_vars
    PROVE  TypeOK' /\ CommitRead'
<1> USE TreeTypes DEF TypeOK, CommitRead, Phases, disk, locals
<1> DEFINE Goal == TypeOK' /\ CommitRead'
<1>1. ASSUME NEW t \in Trees, Checkout(t)
      PROVE  Goal
  BY <1>1 DEF Checkout
<1>2. ASSUME NEW f \in Files, NEW c \in Contents, Edit(f, c)
      PROVE  Goal
  BY <1>2 DEF Edit
<1>3. CASE Upgrade
  BY <1>3 DEF Upgrade, Metas
<1>4. CASE FastPath \/ FastPathOfJob
  BY <1>4 DEF FastPath, FastPathOfJob
<1>5. ASSUME NEW force \in BOOLEAN, StartRun(force)
      PROVE  Goal
  <2>1. meta # NoMeta => meta.dirty \in BOOLEAN
    BY DEF Metas
  <2>2. forced' \in BOOLEAN
    BY <1>5, <2>1 DEF StartRun
  <2>3. QED
    BY <1>5, <2>2 DEF StartRun
<1>6. CASE Parse
  BY <1>6 DEF Parse
<1>7. CASE MarkDirty
  <2>1. hashes' \in [Files -> Contents]
    BY <1>7, HashedType DEF MarkDirty
  <2>2. meta' \in Metas
    BY <1>7 DEF MarkDirty, IsIncremental, Metas
  <2>3. QED
    BY <1>7, <2>1, <2>2 DEF MarkDirty
<1>8. CASE Wipe
  <2>1. hashes' \in [Files -> Contents]
    BY <1>8, HashedType DEF Wipe
  <2>2. db' \in Dbs
    <3>1. EmptyDb \in Dbs /\ db \in Dbs
      BY DEF EmptyDb, Dbs
    <3>2. QED
      BY <1>8, <3>1 DEF Wipe
  <2>3. QED
    BY <1>8, <2>1, <2>2 DEF Wipe, Dbs
<1>9. CASE PlanWrite
  <2>1. writeSet' \subseteq Files /\ todo' \subseteq Files
    <3>1. PICK failed : writeSet' = EffectiveWriteSet(WritableFiles(failed))
      BY <1>9 DEF PlanWrite
    <3>2. \A e \in GraphOf(parsed) : e[2] \in Files /\ e[3] \in Files
      BY GraphEndpoints DEF Present
    <3>3. writeSet' \subseteq Files
      BY <3>1, <3>2, WritableTypes DEF EffectiveWriteSet, Touching
    <3>4. QED
      BY <1>9, <3>3, ToWriteTypes DEF PlanWrite
  <2>2. QED
    BY <1>9, <2>1 DEF PlanWrite
<1>10. ASSUME NEW f \in Files, DeleteRows(f)
       PROVE  Goal
  <2>1. db' \in Dbs
    <3>1. PICK kept, left :
            /\ left \subseteq Touching(db.edges, kept)
            /\ db' = [db EXCEPT !.rows[f] = IF f \in kept THEN @ ELSE Absent,
                                !.edges = (@ \ Touching(@, {f})) \cup left]
      BY <1>10 DEF DeleteRows
    <3>2. left \subseteq db.edges
      BY <3>1 DEF Touching
    <3>3. QED
      BY <3>1, <3>2 DEF Dbs
  <2>2. todo' \subseteq Files
    BY <1>10 DEF DeleteRows
  <2>3. QED
    BY <1>10, <2>1, <2>2 DEF DeleteRows, Dbs
<1>11. CASE DropGroups
  <2>1. db' \in Dbs
    BY <1>11 DEF DropGroups, Dbs
  <2>2. QED
    BY <1>11, <2>1 DEF DropGroups, Dbs
<1>12. CASE LoadNodes
  <2>1. parsed \in [Files -> Contents]
    OBVIOUS
  <2>2. ASSUME NEW lost
        PROVE  Load(db.rows, [f \in Files |-> IF f \in writeSet \ lost THEN parsed[f] ELSE Absent])
                 \in [Files -> Contents]
    BY <2>1 DEF Load
  <2>3. db' \in Dbs
    <3>1. PICK lost :
            db' = [db EXCEPT
                     !.rows = Load(@, [f \in Files |->
                                        IF f \in writeSet \ lost THEN parsed[f] ELSE Absent]),
                     !.groups = IF @ = NoTree THEN parsed ELSE @]
      BY <1>12 DEF LoadNodes
    <3>2. QED
      BY <2>1, <2>2, <3>1 DEF Dbs
  <2>4. QED
    BY <1>12, <2>3 DEF LoadNodes, Dbs
<1>13. CASE LoadEdges
  <2>1. GraphOf(parsed) \subseteq {"IMPORTS", "CALLS"} \X Files \X Files
    BY GraphEndpoints DEF Edges
  <2>2. db' \in Dbs
    BY <1>13, <2>1 DEF LoadEdges, Touching, Dbs
  <2>3. QED
    BY <1>13, <2>2 DEF LoadEdges, Dbs
<1>14. CASE SaveMeta
  BY <1>14 DEF SaveMeta, Metas
<1>15. CASE Register
  BY <1>15 DEF Register, Forget
<1>16. CASE Stop
  BY <1>16 DEF Stop, Forget
<1>17. CASE UNCHANGED vars
  BY <1>17 DEF vars
<1>18. QED
  BY <1>1, <1>2, <1>3, <1>4, <1>5, <1>6, <1>7, <1>8, <1>9, <1>10, <1>11, <1>12, <1>13, <1>14,
     <1>15, <1>16, <1>17
     DEF Next, User, Run

\* The state stays well-formed whatever is analysed and wherever runs stop.
THEOREM IndexTypeCorrect == Spec => []TypeOK
BY TypeInitially, TypeStep, PTL DEF Spec

LEMMA ReportsStep ==
    ASSUME TypeOK, CommitRead, Reports, SuccessIsDiscoverable, [Next]_vars
    PROVE  Reports' /\ SuccessIsDiscoverable'
<1> USE IndexAssumption DEF Reports, SuccessIsDiscoverable, Clean, disk, locals
<1>1. CASE User
  BY <1>1 DEF User, Checkout, Edit, Upgrade, TypeOK, Metas
<1>2. CASE FastPath \/ FastPathOfJob
  BY <1>2 DEF FastPath, FastPathOfJob, MayAnalyze, UpToDate
<1>3. ASSUME NEW force \in BOOLEAN, StartRun(force)
      PROVE  Reports' /\ SuccessIsDiscoverable'
  BY <1>3 DEF StartRun
<1>4. CASE Parse \/ PlanWrite \/ DropGroups \/ LoadNodes \/ LoadEdges
  BY <1>4 DEF Parse, PlanWrite, DropGroups, LoadNodes, LoadEdges
<1>5. CASE MarkDirty \/ Wipe
  BY <1>5 DEF MarkDirty, Wipe
<1>6. ASSUME NEW f \in Files, DeleteRows(f)
      PROVE  Reports' /\ SuccessIsDiscoverable'
  BY <1>6 DEF DeleteRows
<1>7. CASE SaveMeta
  <2>1. meta' \in Metas
    BY <1>7 DEF SaveMeta, Metas, CommitRead, TypeOK
  <2>2. QED
    BY <1>7, <2>1 DEF SaveMeta
<1>8. CASE Register
  BY <1>8 DEF Register, Forget
<1>9. CASE Stop
  BY <1>9 DEF Stop, Forget
<1>10. CASE UNCHANGED vars
  BY <1>10 DEF vars
<1>11. QED
  BY <1>1, <1>2, <1>3, <1>4, <1>5, <1>6, <1>7, <1>8, <1>9, <1>10 DEF Next, Run

(* Whoever is told that the repository is analysed finds a meta.json without *)
(* the dirty flag, and after a full run, or from the command line, also the  *)
(* repository in the registry.  It is not so for a server job that had       *)
(* nothing to do: the theorem says of it what the code guarantees.           *)
THEOREM SuccessIsRegistered == Spec => []SuccessIsDiscoverable
<1>1. Init => Reports /\ SuccessIsDiscoverable
  BY DEF Init, Reports, SuccessIsDiscoverable
<1>2. QED
  BY <1>1, TypeInitially, TypeStep, ReportsStep, PTL DEF Spec

-----------------------------------------------------------------------------
(* The files do not change during a run, no run stops in the middle of a    *)
(* rebuild, and files and rows can be read, deleted and inserted.           *)
Undisturbed == Disturbances \cap {"edit", "rebuildCrash", "readError", "writeError"} = {}

QueriesAnswered == "queryError" \notin Disturbances

LEMMA UserKeeps ==
    ASSUME Undisturbed, TypeOK, RunInv, User
    PROVE  RunInv' /\ (EdgesFollow => EdgesFollow')
<1> USE DEF Undisturbed, RunInv, disk, locals
<1>1. phase = "idle" /\ phase' = "idle"
  BY DEF User, Checkout, Edit, Upgrade, MayChange
<1>2. UNCHANGED db /\ (Clean' => Clean /\ meta'.hashes = meta.hashes)
  BY DEF User, Checkout, Edit, Upgrade, Clean, TypeOK, Metas
<1>3. QED
  BY <1>1, <1>2 DEF OneTree, RunReads, RowsFollow, EdgesFollow, Clean

LEMMA StartRunKeeps ==
    ASSUME Undisturbed, TypeOK, RunInv, NEW force \in BOOLEAN, StartRun(force)
    PROVE  RunInv' /\ (EdgesFollow => EdgesFollow')
<1> USE DEF RunInv, StartRun, MayAnalyze, disk
<1>1. UNCHANGED <<meta, db>> /\ phase = "idle" /\ phase' = "parse" /\ seen' = meta
  OBVIOUS
<1>2. forced' = (force \/ (meta # NoMeta /\ meta.dirty))
  OBVIOUS
<1>3. QED
  BY <1>1, <1>2 DEF OneTree, RunReads, RowsFollow, EdgesFollow, Clean

LEMMA ParseKeeps ==
    ASSUME Undisturbed, TypeOK, RunInv, Parse
    PROVE  RunInv' /\ (EdgesFollow => EdgesFollow')
BY DEF RunInv, Parse, disk, OneTree, RunReads, RowsFollow, EdgesFollow, Clean

LEMMA HashesTheTree ==
    ASSUME Undisturbed, TypeOK, RunInv, phase = "hash",
           NEW unread \in Skips("readError", Present(parsed)), hashes' = Hashed(unread),
           UNCHANGED <<tree, parsed>>
    PROVE  OneTree'
<1>1. unread = {}
  BY NothingSkipped DEF Undisturbed
<1>2. parsed = tree
  BY DEF RunInv, OneTree
<1>3. hashes' = tree
  BY <1>1, <1>2, HashedType
<1>4. QED
  BY <1>2, <1>3 DEF OneTree

LEMMA MarkDirtyKeeps ==
    ASSUME Undisturbed, TypeOK, RunInv, MarkDirty
    PROVE  RunInv' /\ (EdgesFollow => EdgesFollow')
<1> USE DEF RunInv, MarkDirty
<1>1. OneTree'
  BY HashesTheTree
<1>2. seen = meta /\ Clean
  BY DEF RunReads, IsIncremental, Clean
<1>3. meta' \in Metas /\ meta'.dirty
  BY <1>2 DEF TypeOK, Metas, Clean
<1>4. RunReads'
  BY <1>2, <1>3, IndexAssumption DEF RunReads, Clean
<1>5. RowsFollow' /\ (EdgesFollow => EdgesFollow')
  BY <1>2 DEF RowsFollow, EdgesFollow, Old
<1>6. QED
  BY <1>1, <1>4, <1>5

LEMMA WipeKeeps ==
    ASSUME Undisturbed, TypeOK, RunInv, Wipe
    PROVE  RunInv' /\ (EdgesFollow => EdgesFollow')
<1> USE DEF RunInv
<1>1. OneTree'
  BY HashesTheTree DEF Wipe
<1>2. RunReads'
  BY DEF RunReads, Wipe
<1>3. db' = EmptyDb
  BY NothingSkipped DEF Undisturbed, Wipe
<1>4. parsed \in [Files -> Contents]
  BY TreeTypes DEF TypeOK
<1>5. Touching(GraphOf(parsed), Files) = GraphOf(parsed)
  BY <1>4, GraphEndpoints DEF Touching, Present
<1>6. RowsFollow'
  BY <1>3 DEF RowsFollow, EmptyDb, NoTree, Wipe
<1>7. EdgesFollow'
  BY <1>3, <1>5 DEF EdgesFollow, EmptyDb, Missing, New, Wipe
<1>8. QED
  BY <1>1, <1>2, <1>6, <1>7

LEMMA PlanKeeps ==
    ASSUME Undisturbed, TypeOK, RunInv, PlanWrite
    PROVE  RunInv' /\ (EdgesFollow => EdgesFollow')
<1> USE DEF RunInv, disk
<1>1. OneTree' /\ RunReads'
  BY DEF OneTree, RunReads, Clean, PlanWrite
<1>2. ToWrite' = ToWrite /\ Deleted' = Deleted /\ Old' = Old
  BY DEF ToWrite, Deleted, Old, PlanWrite
<1>3. todo' = Replaced'
  BY <1>2 DEF Replaced, PlanWrite
<1>4. ToWrite \subseteq writeSet'
  BY WritableTypes DEF PlanWrite, EffectiveWriteSet
<1>5. phase = "plan" /\ phase' = "delete" /\ UNCHANGED <<db, seen>>
  BY DEF PlanWrite
<1>6. db.rows = seen.hashes /\ seen \in Metas
  BY <1>5 DEF RowsFollow, RunReads, TypeOK
<1>7. db'.rows = [f \in Files |-> IF f \in Replaced' \ todo' THEN Absent ELSE seen'.hashes[f]]
  BY <1>3, <1>5, <1>6 DEF Metas
<1>8. RowsFollow'
  BY <1>2, <1>3, <1>4, <1>5, <1>7 DEF RowsFollow
<1>9. EdgesFollow => EdgesFollow'
  BY <1>2, <1>3, <1>5 DEF EdgesFollow, Touching
<1>10. QED
  BY <1>1, <1>8, <1>9

LEMMA DeleteKeeps ==
    ASSUME Undisturbed, TypeOK, RunInv, NEW f \in Files, DeleteRows(f)
    PROVE  RunInv' /\ (EdgesFollow => EdgesFollow')
<1> USE DEF RunInv
<1>1. OneTree' /\ RunReads'
  BY DEF OneTree, RunReads, Clean, DeleteRows
<1>2. /\ UNCHANGED <<ToWrite, Deleted, Old, Replaced, seen, writeSet, phase>> /\ phase = "delete"
      /\ f \in todo /\ todo \subseteq Replaced /\ todo' = todo \ {f}
  BY DEF ToWrite, Deleted, Old, Replaced, RowsFollow, DeleteRows
<1>3. PICK kept \in Skips("writeError", {f}) : \E left \in SUBSET Touching(db.edges, kept) :
        db' = [db EXCEPT !.rows[f] = IF f \in kept THEN @ ELSE Absent,
                         !.edges = (@ \ Touching(@, {f})) \cup left]
  BY DEF DeleteRows
<1>4. kept = {}
  BY <1>3, NothingSkipped DEF Undisturbed
<1>5. PICK left \in SUBSET Touching(db.edges, kept) :
        db' = [db EXCEPT !.rows[f] = IF f \in kept THEN @ ELSE Absent,
                         !.edges = (@ \ Touching(@, {f})) \cup left]
  BY <1>3
<1>6. left = {}
  BY <1>4, <1>5 DEF Touching
<1>7. db'.rows = [db.rows EXCEPT ![f] = Absent] /\ db'.edges = db.edges \ Touching(db.edges, {f})
  BY <1>4, <1>5, <1>6 DEF TypeOK
<1>8. db'.rows = [g \in Files |-> IF g \in Replaced' \ todo' THEN Absent ELSE seen'.hashes[g]]
  BY <1>2, <1>7 DEF RowsFollow, TypeOK
<1>9. RowsFollow'
  BY <1>2, <1>8 DEF RowsFollow
<1>10. EdgesFollow => EdgesFollow'
  BY <1>2, <1>7 DEF EdgesFollow, Touching
<1>11. QED
  BY <1>1, <1>9, <1>10

(* Here the walk matters: what the run did not delete is in the new graph,  *)
(* and what the new graph has besides will be loaded.                       *)
LEMMA DropGroupsKeeps ==
    ASSUME Undisturbed, TypeOK, RunInv, DropGroups
    PROVE  RunInv' /\ (EdgesFollow /\ WalkReachesChanges => EdgesFollow')
<1> USE DEF RunInv, locals
<1>1. OneTree' /\ RunReads'
  BY DEF OneTree, RunReads, Clean, DropGroups
<1>2. /\ UNCHANGED <<ToWrite, Deleted, New, Old, Replaced, Missing, hashes, writeSet>>
      /\ todo = {} /\ phase = "delete" /\ phase' = "nodes"
  BY DEF ToWrite, Deleted, New, Old, Replaced, Missing, DropGroups
<1>3. db'.rows = db.rows /\ db'.edges = db.edges /\ db'.groups = NoTree
  <2>1. db' = [db EXCEPT !.groups = NoTree]
    BY NothingSkipped DEF Undisturbed, DropGroups
  <2>2. QED
    BY <2>1 DEF TypeOK
<1>4. seen \in Metas /\ hashes = parsed /\ parsed = tree /\ hashes \in [Files -> Contents]
  BY <1>2 DEF TypeOK, RunReads, OneTree
<1>5. \A f \in Files \ writeSet : f \in Replaced => hashes[f] = Absent
  BY DEF Replaced, Deleted, Present
<1>6. \A f \in Files \ Replaced : hashes[f] = seen.hashes[f]
  BY <1>2, <1>4 DEF RowsFollow, ToWrite, Replaced, Deleted, Present, Metas
<1>7. db'.rows = [f \in Files |-> IF f \in writeSet THEN Absent ELSE hashes[f]]
  BY <1>2, <1>3, <1>5, <1>6 DEF RowsFollow, Replaced
<1>8. RowsFollow'
  BY <1>2, <1>3, <1>7 DEF RowsFollow
<1>9. ASSUME EdgesFollow, WalkReachesChanges
      PROVE  EdgesFollow'
  <2>1. \A e \in New : e[2] \notin Deleted /\ e[3] \notin Deleted
    BY <1>4, GraphEndpoints DEF New, Deleted
  <2>2. db.edges = Old \ Touching(Old, Replaced)
    BY <1>2, <1>9 DEF EdgesFollow
  <2>3. \A e \in (New \ Old) \cup (Old \ New) : e[2] \in Replaced \/ e[3] \in Replaced
    BY <1>2, <1>9 DEF WalkReachesChanges, ChangedEdges, New, Old, Replaced, Touching
  <2>4. \A e \in db.edges : e \in New
    BY <2>2, <2>3 DEF Touching
  <2>5. \A e \in New : e \in db.edges \cup Missing
    BY <2>1, <2>2, <2>3 DEF Touching, Missing, Replaced
  <2>6. db.edges \cup Missing = New
    BY <2>4, <2>5 DEF Missing, Touching
  <2>7. QED
    BY <1>2, <1>3, <2>6 DEF EdgesFollow
<1>10. QED
  BY <1>1, <1>8, <1>9

LEMMA LoadNodesKeeps ==
    ASSUME Undisturbed, TypeOK, RunInv, LoadNodes
    PROVE  RunInv' /\ (EdgesFollow => EdgesFollow')
<1> USE DEF RunInv, locals
<1>1. OneTree' /\ RunReads'
  BY DEF OneTree, RunReads, LoadNodes
<1>2. UNCHANGED <<New, Missing, hashes, writeSet>> /\ phase = "nodes" /\ phase' = "edges"
  BY DEF New, Missing, LoadNodes
<1>3. hashes = parsed /\ hashes \in [Files -> Contents] /\ writeSet \subseteq Files
  BY <1>2 DEF OneTree, TypeOK
<1>4. db' = [db EXCEPT
               !.rows = Load(@, [f \in Files |-> IF f \in writeSet THEN parsed[f] ELSE Absent]),
               !.groups = IF @ = NoTree THEN parsed ELSE @]
  <2>1. PICK lost \in Skips("writeError", writeSet) :
          db' = [db EXCEPT
                   !.rows = Load(@, [f \in Files |->
                                      IF f \in writeSet \ lost THEN parsed[f] ELSE Absent]),
                   !.groups = IF @ = NoTree THEN parsed ELSE @]
    BY DEF LoadNodes
  <2>2. writeSet \ lost = writeSet
    BY NothingSkipped DEF Undisturbed
  <2>3. QED
    BY <2>1, <2>2
<1>5. db'.rows = hashes
  BY <1>2, <1>3, <1>4 DEF RowsFollow, Load, TypeOK
<1>6. db'.edges = db.edges /\ db'.groups = hashes
  BY <1>2, <1>3, <1>4 DEF RowsFollow, TypeOK
<1>7. RowsFollow' /\ (EdgesFollow => EdgesFollow')
  BY <1>2, <1>5, <1>6 DEF RowsFollow, EdgesFollow
<1>8. QED
  BY <1>1, <1>7

LEMMA LoadEdgesKeeps ==
    ASSUME Undisturbed, TypeOK, RunInv, LoadEdges
    PROVE  RunInv' /\ (EdgesFollow => EdgesFollow')
<1> USE DEF RunInv, locals
<1>1. OneTree' /\ RunReads'
  BY DEF OneTree, RunReads, LoadEdges
<1>2. /\ db.rows = hashes /\ db.groups = hashes /\ hashes = parsed
      /\ parsed \in [Files -> Contents]
      /\ UNCHANGED <<New, hashes>> /\ phase = "edges" /\ phase' = "save"
  BY DEF RowsFollow, OneTree, TypeOK, New, LoadEdges
<1>3. {e \in Touching(GraphOf(parsed), writeSet) : {e[2], e[3]} \subseteq Present(db.rows)} = Missing
  BY <1>2, GraphEndpoints DEF Missing, New, Touching
<1>4. db' = [db EXCEPT !.edges = @ \cup Missing]
  <2>1. PICK lost \in Skips("writeError", Touching(GraphOf(parsed), writeSet)) :
          db' = [db EXCEPT !.edges = @ \cup
                   {e \in Touching(GraphOf(parsed), writeSet) \ lost :
                      {e[2], e[3]} \subseteq Present(db.rows)}]
    BY DEF LoadEdges
  <2>2. lost = {}
    BY NothingSkipped DEF Undisturbed
  <2>3. Touching(GraphOf(parsed), writeSet) \ lost = Touching(GraphOf(parsed), writeSet)
    BY <2>2
  <2>4. QED
    BY <1>3, <2>1, <2>3
<1>5. db'.rows = hashes /\ db'.groups = hashes /\ (EdgesFollow => db'.edges = New)
  BY <1>2, <1>4 DEF EdgesFollow, TypeOK
<1>6. RowsFollow' /\ (EdgesFollow => EdgesFollow')
  BY <1>2, <1>5 DEF RowsFollow, EdgesFollow
<1>7. QED
  BY <1>1, <1>6

LEMMA SaveMetaKeeps ==
    ASSUME Undisturbed, TypeOK, RunInv, SaveMeta
    PROVE  RunInv' /\ (EdgesFollow => EdgesFollow')
BY DEF RunInv, SaveMeta, locals, OneTree, RunReads, RowsFollow, EdgesFollow, New, Clean

LEMMA RegisterKeeps ==
    ASSUME Undisturbed, TypeOK, RunInv, Register
    PROVE  RunInv' /\ (EdgesFollow => EdgesFollow')
BY DEF RunInv, Register, Forget, OneTree, RunReads, RowsFollow, EdgesFollow, Clean

LEMMA StopKeeps ==
    ASSUME Undisturbed, TypeOK, RunInv, Stop
    PROVE  RunInv' /\ (EdgesFollow => EdgesFollow')
<1>1. phase \in Phases /\ UNCHANGED <<meta, db>> /\ phase' = "idle"
  BY DEF TypeOK, Stop, disk
<1>2. Clean => phase \in {"parse", "hash", "register"}
  <2>1. phase \in {"plan", "delete"} => ~Clean
    BY DEF RunInv, RunReads, Clean
  <2>2. phase \in {"nodes", "edges", "save"} => ~Clean
    BY DEF Undisturbed, Stop, RebuildingUnderCleanMeta, Clean
  <2>3. phase # "idle"
    BY DEF Stop
  <2>4. QED
    BY <1>1, <2>1, <2>2, <2>3 DEF Phases
<1>3. QED
  BY <1>1, <1>2 DEF RunInv, OneTree, RunReads, RowsFollow, EdgesFollow, Clean

LEMMA RunInvStep ==
    ASSUME Undisturbed, TypeOK, RunInv, [Next]_vars
    PROVE  RunInv' /\ (EdgesFollow /\ WalkReachesChanges => EdgesFollow')
<1>1. CASE FastPath \/ FastPathOfJob \/ UNCHANGED vars
  <2>1. UNCHANGED <<tree, meta, db, phase, forced, seen, parsed, hashes, writeSet, todo>>
    BY <1>1 DEF FastPath, FastPathOfJob, vars, disk, locals
  <2>2. QED
    BY <2>1 DEF RunInv, OneTree, RunReads, RowsFollow, EdgesFollow, Clean, Missing, Replaced,
                Deleted, ToWrite, Old, New
<1>2. QED
  BY <1>1, UserKeeps, StartRunKeeps, ParseKeeps, MarkDirtyKeeps, WipeKeeps, PlanKeeps,
     DeleteKeeps, DropGroupsKeeps, LoadNodesKeeps, LoadEdgesKeeps, SaveMetaKeeps, RegisterKeeps,
     StopKeeps
     DEF Next, Run

LEMMA RunInitially == Init => RunInv /\ EdgesFollow
BY DEF Init, RunInv, OneTree, RunReads, RowsFollow, EdgesFollow, Clean

(* Between runs the rows of every file and the communities are those of the *)
(* files that a meta.json without the dirty flag records: wherever runs     *)
(* stopped, whatever was forced or upgraded, whichever importer queries     *)
(* failed and however short the walk was.  What a walk that stops early can *)
(* cost is edges.                                                           *)
THEOREM RowsStayRecorded ==
    ASSUME Undisturbed
    PROVE  Spec => [](phase = "idle" /\ meta # NoMeta /\ ~meta.dirty =>
                        db.rows = meta.hashes /\ db.groups = meta.hashes)
<1>1. RunInv => (phase = "idle" /\ meta # NoMeta /\ ~meta.dirty =>
                   db.rows = meta.hashes /\ db.groups = meta.hashes)
  BY DEF RunInv, RowsFollow, Clean
<1>2. TypeOK /\ CommitRead /\ RunInv /\ [Next]_vars => RunInv'
  BY RunInvStep
<1>3. QED
  BY <1>1, <1>2, TypeInitially, TypeStep, RunInitially, PTL DEF Spec

LEMMA IndexOfInvariant ==
    ASSUME TypeOK, RunInv, EdgesFollow
    PROVE  IndexIsWhole
BY DEF TypeOK, RunInv, RowsFollow, EdgesFollow, IndexIsWhole, WholeDb, Clean

(* A meta.json without the dirty flag describes the whole database between  *)
(* runs, also where importer queries failed, if every run reached an end of *)
(* every edge that changes, if the checkout stays as it is during a run,    *)
(* and if reading files, deleting rows and inserting them do not fail.      *)
THEOREM WholeIfWalkReaches ==
    ASSUME Undisturbed
    PROVE  Spec /\ []WalkReachesChanges => []IndexIsWhole
<1>1. TypeOK /\ RunInv /\ EdgesFollow => IndexIsWhole
  BY IndexOfInvariant
<1>2. TypeOK /\ CommitRead /\ RunInv /\ EdgesFollow /\ WalkReachesChanges /\ [Next]_vars =>
        RunInv' /\ EdgesFollow'
  BY RunInvStep
<1>3. QED
  BY <1>1, <1>2, TypeInitially, TypeStep, RunInitially, PTL DEF Spec

LEMMA CommittedStep ==
    ASSUME Undisturbed, "dirtyTree" \notin Disturbances,
           TypeOK, CommitRead, RunInv, Committed, [Next]_vars
    PROVE  Committed'
<1> USE DEF Committed, disk, locals
<1>1. CASE User
  BY <1>1 DEF User, Checkout, Edit, Upgrade, MayChange, Undisturbed, TypeOK, Metas
<1>2. ASSUME NEW force \in BOOLEAN, StartRun(force)
      PROVE  Committed'
  BY <1>2 DEF StartRun, MayAnalyze
<1>3. CASE MarkDirty
  <2>1. seen \in Metas /\ seen # NoMeta
    BY <1>3 DEF TypeOK, MarkDirty, IsIncremental
  <2>2. QED
    BY <1>3, <2>1 DEF MarkDirty, Metas
<1>4. CASE SaveMeta
  BY <1>4 DEF SaveMeta, RunInv, OneTree
<1>5. CASE FastPath \/ FastPathOfJob \/ Parse \/ Wipe \/ PlanWrite \/ DropGroups \/ LoadNodes \/ LoadEdges
  BY <1>5 DEF FastPath, FastPathOfJob, Parse, Wipe, PlanWrite, DropGroups, LoadNodes, LoadEdges, MayAnalyze
<1>6. ASSUME NEW f \in Files, DeleteRows(f)
      PROVE  Committed'
  BY <1>6 DEF DeleteRows
<1>7. CASE Register \/ Stop
  BY <1>7 DEF Register, Stop, Forget
<1>8. CASE UNCHANGED vars
  BY <1>8 DEF vars
<1>9. QED
  BY <1>1, <1>2, <1>3, <1>4, <1>5, <1>6, <1>7, <1>8 DEF Next, Run

LEMMA UpToDateOfInvariant ==
    ASSUME TypeOK, RunInv, EdgesFollow, Committed
    PROVE  UpToDateIsTrue
<1>1. IndexIsWhole
  BY IndexOfInvariant
<1>2. QED
  BY <1>1 DEF Committed, IndexIsWhole, UpToDateIsTrue, UpToDate

(* When only committed trees are analysed, "already up to date" is said of  *)
(* a database that is whole for the files in the working tree, under the    *)
(* same conditions.                                                         *)
THEOREM UpToDateIsSound ==
    ASSUME Undisturbed, "dirtyTree" \notin Disturbances
    PROVE  Spec /\ []WalkReachesChanges => []UpToDateIsTrue
<1>1. TypeOK /\ RunInv /\ EdgesFollow /\ Committed => UpToDateIsTrue
  BY UpToDateOfInvariant
<1>2. TypeOK /\ CommitRead /\ RunInv /\ EdgesFollow /\ WalkReachesChanges /\ [Next]_vars =>
        RunInv' /\ EdgesFollow'
  BY RunInvStep
<1>3. TypeOK /\ CommitRead /\ RunInv /\ Committed /\ [Next]_vars => Committed'
  BY CommittedStep
<1>4. Init => Committed
  BY DEF Init, Committed
<1>5. QED
  BY <1>1, <1>2, <1>3, <1>4, TypeInitially, TypeStep, RunInitially, PTL DEF Spec

-----------------------------------------------------------------------------
(* Where the walk over importers does reach every changed edge. *)

(* What Defining computes, one re-export at a time. *)
Reexported(t, S) == S \cup UNION {Imported(t, g) : g \in {h \in S : t[h].kind = "via"}}

LEMMA ReachedLevels ==
    ASSUME NEW t \in [Files -> Contents], NEW f \in Files
    PROVE  /\ \A n \in 0..Cardinality(Files) : Reached(t, f)[n] \subseteq Files
           /\ Reached(t, f)[0] = Imported(t, f)
           /\ \A n \in 1..Cardinality(Files) :
                Reached(t, f)[n] = Reexported(t, Reached(t, f)[n-1])
<1> DEFINE N == Cardinality(Files)
           G == [n \in 1..N |-> [S \in SUBSET Files |-> Reexported(t, S)]]
<1>1. N \in Nat
  BY IndexAssumption, FS_CardinalityType
<1>2. \A g : Imported(t, g) \subseteq Files
  BY DEF Imported, Present
<1>3. G \in [1..N -> [SUBSET Files -> SUBSET Files]]
  BY <1>2 DEF Reexported
<1>4. PICK r \in [0..N -> SUBSET Files] :
        r[0] = Imported(t, f) /\ \A n \in 1..N : r[n] = G[n][r[n-1]]
  <2> DEFINE U == SUBSET Files
             A == Imported(t, f)
  <2>1. A \in U /\ G \in [1..N -> [U -> U]]
    BY <1>2, <1>3
  <2> HIDE DEF G, N, U, A
  <2>2. \E r : Iterates(r, U, A, G, N)
    BY <1>1, <2>1, IteratesExist
  <2>3. QED
    BY <2>2 DEF Iterates, U, A
<1> DEFINE Body(q) == [n \in 0..N |-> IF n = 0 THEN Imported(t, f)
                                      ELSE Reexported(t, q[n-1])]
<1> HIDE DEF N
<1>5. ASSUME NEW n \in 0..N, n # 0
      PROVE  n \in 1..N /\ n - 1 \in 0..N
  BY <1>1, <1>5
<1>6. r = Body(r)
  <2>1. \A n \in 0..N : r[n] = Body(r)[n]
    BY <1>4, <1>5
  <2>2. QED
    BY <1>4, <2>1
<1>7. Reached(t, f) = CHOOSE q : q = Body(q)
  BY DEF Reached, Reexported, N
<1>8. Reached(t, f) = Body(Reached(t, f))
  BY <1>6, <1>7
<1>9. ASSUME NEW q, q = Body(q)
      PROVE  q[0] = Imported(t, f) /\ \A n \in 1..N : q[n] = Reexported(t, q[n-1])
  BY <1>1, <1>9
<1>10. \A n \in 0..N : Reached(t, f)[n] \subseteq Files
  <2> DEFINE R == Reached(t, f)
             U == SUBSET Files
  <2>1. R[0] = Imported(t, f) /\ \A n \in 1..N : R[n] = Reexported(t, R[n-1])
    BY <1>8, <1>9
  <2> HIDE DEF R
  <2>2. R[0] \in U /\ \A n \in 1..N : R[n-1] \in U => R[n] \in U
    BY <1>2, <2>1 DEF Reexported
  <2> HIDE DEF U
  <2>3. \A n \in 0..N : R[n] \in U
    BY <1>1, <2>2, IteratesIn
  <2>4. QED
    BY <2>3 DEF R, U
<1>11. QED
  BY <1>8, <1>9, <1>10 DEF N

LEMMA ReachedGrows ==
    ASSUME NEW t \in [Files -> Contents], NEW f \in Files,
           NEW m \in 0..Cardinality(Files), NEW n \in 0..Cardinality(Files), m <= n
    PROVE  Reached(t, f)[m] \subseteq Reached(t, f)[n]
<1> DEFINE N == Cardinality(Files)
           Bad == {k \in 0..N : m <= k /\ ~ (Reached(t, f)[m] \subseteq Reached(t, f)[k])}
<1>1. N \in Nat
  BY IndexAssumption, FS_CardinalityType
<1>2. SUFFICES ASSUME Bad # {}
               PROVE  FALSE
  OBVIOUS
<1>3. PICK k \in Bad : \A j \in Bad : k <= j
  <2>1. Bad \in SUBSET Nat
    OBVIOUS
  <2> HIDE DEF Bad
  <2>2. QED
    BY <1>2, <2>1, SmallestNat
<1>4. k \in 0..N /\ k # m /\ m <= k
  OBVIOUS
<1>5. k \in 1..N /\ k - 1 \in 0..N /\ m <= k - 1 /\ ~ (k <= k - 1)
  BY <1>1, <1>4
<1>6. Reached(t, f)[m] \subseteq Reached(t, f)[k-1]
  BY <1>3, <1>5
<1>7. Reached(t, f)[k-1] \subseteq Reached(t, f)[k]
  BY <1>5, ReachedLevels DEF Reexported
<1>8. QED
  BY <1>3, <1>6, <1>7

(* An import that is resolved otherwise than before: its target is gone, or *)
(* is taken over by a file that was not there; or it is new, or what had    *)
(* taken it over is gone.                                                   *)
LEMMA ImportsChange ==
    ASSUME NEW t, NEW u, NEW h, u[h] = t[h]
    PROVE  /\ \A g \in Imported(t, h) \ Imported(u, h) :
                \/ g \in Present(t) \ Present(u)
                \/ \E s \in Present(u) \ Present(t) : <<s, g>> \in Steals
           /\ \A g \in Imported(u, h) \ Imported(t, h) :
                \/ g \in Present(u) \ Present(t)
                \/ \E s \in Imported(t, h) \ Present(u) : <<s, g>> \in Steals
BY DEF Imported

-----------------------------------------------------------------------------
(* The run has both trees and has not touched the database. *)
Planning ==
  /\ parsed \in Trees /\ hashes = parsed
  /\ seen \in Metas /\ seen.hashes \in Trees
  /\ db.edges = GraphOf(seen.hashes)

LEMMA PlanningTypes ==
    ASSUME Planning
    PROVE  /\ seen.hashes \in [Files -> Contents] /\ parsed \in [Files -> Contents]
           /\ Changed \subseteq Files
           /\ \A h \in Present(seen.hashes) \ Changed :
                h \in Present(parsed) /\ parsed[h] = seen.hashes[h]
           /\ Present(parsed) \ Present(seen.hashes) = Added
           /\ Present(seen.hashes) \ Present(parsed) = Deleted
<1>1. seen.hashes \in [Files -> Contents] /\ parsed \in [Files -> Contents]
  BY IndexAssumption DEF Planning
<1>2. QED
  BY <1>1 DEF Planning, Changed, ToWrite, Deleted, ShadowSeed, Added, Present

LEMMA ImportersAre ==
    ASSUME Planning, NEW x \in Files
    PROVE  Importers(x) = {g \in Present(seen.hashes) : x \in Imported(seen.hashes, g)}
<1>1. db.edges = GraphOf(seen.hashes)
  BY DEF Planning
<1>2. ASSUME NEW g \in Files, <<"IMPORTS", g, x>> \in GraphOf(seen.hashes)
      PROVE  g \in Present(seen.hashes) /\ x \in Imported(seen.hashes, g)
  <2>1. PICK h \in Present(seen.hashes) : <<"IMPORTS", g, x>> \in
            ImportEdges(seen.hashes, h) \cup CallEdges(seen.hashes, h)
    BY <1>2 DEF GraphOf
  <2>2. \A e \in CallEdges(seen.hashes, h) : e[1] = "CALLS"
    BY DEF CallEdges
  <2>3. <<"IMPORTS", g, x>>[1] = "IMPORTS"
    OBVIOUS
  <2>4. <<"IMPORTS", g, x>> \in ImportEdges(seen.hashes, h)
    BY <2>1, <2>2, <2>3
  <2>5. h = g /\ x \in Imported(seen.hashes, h)
    BY <2>4 DEF ImportEdges
  <2>6. QED
    BY <2>5
<1>3. ASSUME NEW g \in Present(seen.hashes), x \in Imported(seen.hashes, g)
      PROVE  <<"IMPORTS", g, x>> \in GraphOf(seen.hashes)
  BY <1>3 DEF GraphOf, ImportEdges
<1>4. QED
  BY <1>1, <1>2, <1>3 DEF Importers, Present

(* As long as nothing an unchanged file imports is changed, its imports can *)
(* only get additional targets, and these are new files.                    *)
LEMMA ImportsStay ==
    ASSUME Planning, NEW h \in Present(seen.hashes), parsed[h] = seen.hashes[h],
           Imported(seen.hashes, h) \cap Changed = {}
    PROVE  /\ Imported(seen.hashes, h) \subseteq Imported(parsed, h)
           /\ Imported(parsed, h) \ Imported(seen.hashes, h) \subseteq Added
<1> DEFINE O == seen.hashes
<1>1. Imported(O, h) \subseteq Present(O) /\ \A g \in Imported(O, h) : g \notin Changed
  BY DEF Imported
<1>2. ASSUME NEW g \in Imported(O, h) \ Imported(parsed, h)
      PROVE  FALSE
  <2>1. CASE g \in Present(O) \ Present(parsed)
    BY <2>1, <1>1, PlanningTypes DEF Changed
  <2>2. CASE \E s \in Present(parsed) \ Present(O) : <<s, g>> \in Steals
    <3>1. \E s \in Added : <<s, g>> \in Steals
      BY <2>2, PlanningTypes
    <3>2. g \in Present(O) \ ToWrite
      BY <1>1 DEF Changed
    <3>3. g \in ShadowSeed
      BY <3>1, <3>2 DEF ShadowSeed
    <3>4. QED
      BY <3>3, <1>1 DEF Changed
  <2>3. QED
    BY <2>1, <2>2, ImportsChange
<1>3. ASSUME NEW g \in Imported(parsed, h) \ Imported(O, h)
      PROVE  g \in Added
  <2>1. \A s \in Imported(O, h) : s \in Present(parsed)
    BY <1>1, PlanningTypes DEF Changed
  <2>2. g \in Present(parsed) \ Present(O)
    BY <2>1, ImportsChange
  <2>3. QED
    BY <2>2, PlanningTypes
<1>4. QED
  BY <1>2, <1>3

(* From what f reaches over n re-exports the walk is at an import of f      *)
(* after n steps.                                                           *)
LEMMA WalkClimbs ==
    ASSUME Planning, NEW f \in Present(seen.hashes),
           NEW n \in 0..Cardinality(Files), n <= MaxDepth,
           NEW x \in Reached(seen.hashes, f)[n], x \in Changed
    PROVE  \E z \in Imported(seen.hashes, f), k \in 0..MaxDepth : z \in Near(k)
<1> DEFINE O == seen.hashes
           N == Cardinality(Files)
           Up(i) == \A k \in 0..MaxDepth, y \in Reached(O, f)[i] :
                      y \in Near(k) /\ k + i <= MaxDepth =>
                        \E z \in Imported(O, f), j \in 0..MaxDepth : z \in Near(j)
           Bad == {i \in 0..N : ~ Up(i)}
<1>1. N \in Nat /\ MaxDepth \in Nat /\ f \in Files /\ O \in [Files -> Contents]
  BY IndexAssumption, FS_CardinalityType, PlanningTypes DEF Present
<1>2. Near(0) = Changed
  BY NearGrows
<1>3. ASSUME NEW k \in Nat, k + 1 <= MaxDepth, NEW y \in Near(k), y \in Files,
             NEW g \in Present(O), y \in Imported(O, g)
      PROVE  g \in Near(k+1)
  <2>1. k \in 0..MaxDepth /\ k < MaxDepth
    BY <1>1, <1>3
  <2>2. g \in Importers(y)
    BY <1>3, ImportersAre
  <2>3. QED
    BY <1>3, <2>1, <2>2, NearGrows DEF Near
<1>4. Bad = {}
  <2>1. SUFFICES ASSUME Bad # {}
                 PROVE  FALSE
    OBVIOUS
  <2>2. PICK i \in Bad : \A j \in Bad : i <= j
    <3>1. Bad \in SUBSET Nat
      OBVIOUS
    <3> HIDE DEF Bad
    <3>2. QED
      BY <2>1, <3>1, SmallestNat
  <2>3. PICK k \in 0..MaxDepth, y \in Reached(O, f)[i] :
          /\ y \in Near(k) /\ k + i <= MaxDepth
          /\ ~ \E z \in Imported(O, f), j \in 0..MaxDepth : z \in Near(j)
    BY <2>2
  <2>4. i \in 0..N /\ i \in Nat /\ k \in Nat /\ y \in Files
    BY <1>1, ReachedLevels
  <2>5. i # 0 => k + 1 \in 0..MaxDepth /\ k + 1 <= MaxDepth
    BY <2>3, <2>4, <1>1
  <2>6. y \notin Imported(O, f)
    BY <2>3
  <2>7. i # 0
    BY <2>6, <2>4, <1>1, ReachedLevels
  <2>8. i \in 1..N /\ i - 1 \in 0..N /\ ~ (i <= i - 1)
    BY <2>4, <2>7, <1>1
  <2>9. Up(i - 1)
    BY <2>2, <2>8
  <2>10. y \in Reexported(O, Reached(O, f)[i-1])
    BY <2>8, <1>1, ReachedLevels
  <2>11. CASE y \in Reached(O, f)[i-1]
    <3>1. k + (i - 1) <= MaxDepth
      BY <2>3, <2>4, <1>1
    <3>2. QED
      BY <2>3, <2>9, <2>11, <3>1
  <2>12. CASE y \notin Reached(O, f)[i-1]
    <3>1. PICK g \in Reached(O, f)[i-1] : y \in Imported(O, g) /\ O[g].kind = "via"
      BY <2>10, <2>12 DEF Reexported
    <3>2. g \in Files
      BY <2>8, <1>1, ReachedLevels
    <3>3. g \in Present(O)
      BY <3>1, <3>2 DEF Present, Absent
    <3>4. g \in Near(k+1)
      BY <1>3, <2>3, <2>4, <2>5, <2>7, <3>1, <3>3
    <3>5. (k + 1) + (i - 1) <= MaxDepth
      BY <2>3, <2>4, <1>1
    <3>6. QED
      BY <2>3, <2>5, <2>7, <2>9, <3>4, <3>5
  <2>13. QED
    BY <2>11, <2>12
<1>5. Up(n)
  BY <1>4
<1>6. 0 \in 0..MaxDepth /\ 0 + n <= MaxDepth
  BY <1>1
<1>7. QED
  BY <1>2, <1>5, <1>6

(* The rows of f are then replaced: it is in the next level, or its import  *)
(* of a file of the last level is an edge between the two, or is taken over *)
(* and so leads to a changed file.                                          *)
LEMMA WalkReachesImporter ==
    ASSUME Planning, MaxDepth > 0,
           NEW f \in Present(seen.hashes), parsed[f] = seen.hashes[f],
           NEW z \in Imported(seen.hashes, f), NEW k \in 0..MaxDepth, z \in Near(k)
    PROVE  f \in EffectiveWriteSet(WritableFiles({}))
<1> DEFINE O == seen.hashes
<1>1. MaxDepth \in Nat /\ f \in Files /\ z \in Files /\ z \in Present(O)
  BY IndexAssumption, PlanningTypes DEF Present, Imported
<1>2. Near(0) = Changed /\ Near(MaxDepth) = WritableFiles({}) \cup Changed
  BY NearGrows
<1>3. ASSUME NEW y \in Imported(O, f), NEW j \in 0..MaxDepth, y \in Near(j), j < MaxDepth
      PROVE  f \in WritableFiles({})
  <2>1. j + 1 \in 0..MaxDepth
    BY <1>1, <1>3
  <2>2. y \in Files
    BY DEF Imported, Present
  <2>3. f \in Importers(y)
    BY <1>3, <2>2, ImportersAre
  <2>4. QED
    BY <1>3, <2>1, <2>3, NearGrows
<1>4. \A y \in Imported(O, f) : y \in Changed => f \in WritableFiles({})
  BY <1>1, <1>2, <1>3
<1>5. CASE k < MaxDepth
  BY <1>3, <1>5 DEF EffectiveWriteSet
<1>6. CASE k = MaxDepth /\ z \notin Changed /\ z \in Imported(parsed, f)
  <2>1. z \in WritableFiles({})
    BY <1>2, <1>6
  <2>2. f \in Present(parsed)
    BY DEF Present
  <2>3. <<"IMPORTS", f, z>> \in GraphOf(parsed)
    BY <1>6, <2>2 DEF GraphOf, ImportEdges
  <2>4. <<"IMPORTS", f, z>>[2] = f /\ <<"IMPORTS", f, z>>[3] = z
    OBVIOUS
  <2>5. <<"IMPORTS", f, z>> \in Touching(GraphOf(parsed), WritableFiles({}))
    BY <2>1, <2>3, <2>4 DEF Touching
  <2>6. QED
    BY <2>4, <2>5 DEF EffectiveWriteSet
<1>7. CASE z \notin Imported(parsed, f)
  BY <1>4, <1>7, ImportsStay DEF EffectiveWriteSet
<1>8. CASE z \in Changed
  BY <1>4, <1>8 DEF EffectiveWriteSet
<1>9. QED
  BY <1>1, <1>5, <1>6, <1>7, <1>8

(* What an unchanged caller keeps and gains, as far as the walk sees. *)
UnwrittenCaller(f) ==
  /\ f \in Present(seen.hashes) /\ parsed[f] = seen.hashes[f]
  /\ f \notin EffectiveWriteSet(WritableFiles({}))

LEMMA CallerSees ==
    ASSUME Planning, NEW f, UnwrittenCaller(f), MaxDepth > 0,
           NEW n \in 0..Cardinality(Files), n <= MaxDepth
    PROVE  /\ Reached(seen.hashes, f)[n] \cap Changed = {}
           /\ \A h \in Reached(seen.hashes, f)[n] :
                /\ h \in Present(seen.hashes) /\ h \in Present(parsed)
                /\ parsed[h] = seen.hashes[h]
<1> DEFINE O == seen.hashes
           N == Cardinality(Files)
           Lost(i) == ~ (Reached(O, f)[i] \subseteq Present(O))
           Bad == {i \in 0..N : Lost(i)}
<1>1. N \in Nat /\ f \in Files /\ O \in [Files -> Contents]
  BY IndexAssumption, FS_CardinalityType, PlanningTypes DEF UnwrittenCaller, Present
<1>2. Reached(O, f)[n] \cap Changed = {}
  BY WalkClimbs, WalkReachesImporter DEF UnwrittenCaller
<1>3. \A g : Imported(O, g) \subseteq Present(O)
  BY DEF Imported
<1>4. Bad = {}
  <2>1. SUFFICES ASSUME Bad # {}
                 PROVE  FALSE
    OBVIOUS
  <2>2. PICK i \in Bad : \A j \in Bad : i <= j
    <3>1. Bad \in SUBSET Nat
      OBVIOUS
    <3> HIDE DEF Bad
    <3>2. QED
      BY <2>1, <3>1, SmallestNat
  <2>3. i # 0
    BY <1>1, <1>3, ReachedLevels
  <2>4. i \in 1..N /\ i - 1 \in 0..N /\ ~ (i <= i - 1)
    BY <2>3, <1>1
  <2>5. ~ Lost(i - 1)
    BY <2>2, <2>4
  <2>6. Reached(O, f)[i] = Reexported(O, Reached(O, f)[i-1])
    BY <2>4, <1>1, ReachedLevels
  <2>7. QED
    BY <2>2, <2>5, <2>6, <1>3 DEF Reexported
<1>5. Reached(O, f)[n] \subseteq Present(O)
  BY <1>4
<1>6. QED
  BY <1>2, <1>5, PlanningTypes

(* Its imports stay, and so do those of every re-exporting file it reaches. *)
LEMMA CallerImportsStay ==
    ASSUME Planning, NEW f, UnwrittenCaller(f), MaxDepth > 0
    PROVE  /\ Imported(seen.hashes, f) \subseteq Imported(parsed, f)
           /\ Imported(parsed, f) \ Imported(seen.hashes, f) \subseteq Added
           /\ \A n \in 0..Cardinality(Files) : n + 1 <= Cardinality(Files) /\ n + 1 <= MaxDepth =>
                \A h \in Reached(seen.hashes, f)[n] : seen.hashes[h].kind = "via" =>
                  /\ Imported(seen.hashes, h) \subseteq Imported(parsed, h)
                  /\ Imported(parsed, h) \ Imported(seen.hashes, h) \subseteq Added
<1> DEFINE O == seen.hashes
           N == Cardinality(Files)
<1>1. N \in Nat /\ MaxDepth \in Nat /\ f \in Files /\ O \in [Files -> Contents]
  BY IndexAssumption, FS_CardinalityType, PlanningTypes DEF UnwrittenCaller, Present
<1>2. Imported(O, f) \cap Changed = {}
  <2>1. 0 \in 0..N /\ 0 <= MaxDepth
    BY <1>1
  <2>2. QED
    BY <2>1, <1>1, CallerSees, ReachedLevels
<1>3. ASSUME NEW n \in 0..N, n + 1 <= N, n + 1 <= MaxDepth,
             NEW h \in Reached(O, f)[n], O[h].kind = "via"
      PROVE  /\ Imported(O, h) \subseteq Imported(parsed, h)
             /\ Imported(parsed, h) \ Imported(O, h) \subseteq Added
  <2>1. n <= MaxDepth /\ n + 1 \in 1..N /\ n + 1 \in 0..N /\ (n + 1) - 1 = n
    BY <1>1, <1>3
  <2>2. h \in Present(O) /\ parsed[h] = O[h]
    BY <2>1, <1>3, CallerSees
  <2>3. Imported(O, h) \subseteq Reached(O, f)[n+1]
    <3>1. Reached(O, f)[n+1] = Reexported(O, Reached(O, f)[n])
      BY <2>1, <1>1, ReachedLevels
    <3>2. QED
      BY <3>1, <1>3 DEF Reexported
  <2>4. Imported(O, h) \cap Changed = {}
    BY <2>1, <2>3, <1>3, CallerSees
  <2>5. QED
    BY <2>2, <2>4, ImportsStay
<1>4. QED
  BY <1>2, <1>3, ImportsStay DEF UnwrittenCaller

LEMMA CallerKeeps ==
    ASSUME Planning, NEW f, UnwrittenCaller(f), MaxDepth > 0,
           NEW n \in 0..Cardinality(Files), n <= MaxDepth
    PROVE  Reached(seen.hashes, f)[n] \subseteq Reached(parsed, f)[n]
<1> DEFINE O == seen.hashes
           N == Cardinality(Files)
           Lost(i) == ~ (Reached(O, f)[i] \subseteq Reached(parsed, f)[i])
           Bad == {i \in 0..N : i <= MaxDepth /\ Lost(i)}
<1>1. N \in Nat /\ MaxDepth \in Nat /\ f \in Files
      /\ O \in [Files -> Contents] /\ parsed \in [Files -> Contents]
  BY IndexAssumption, FS_CardinalityType, PlanningTypes DEF UnwrittenCaller, Present
<1>2. SUFFICES ASSUME Bad # {}
               PROVE  FALSE
  OBVIOUS
<1>3. PICK i \in Bad : \A j \in Bad : i <= j
  <2>1. Bad \in SUBSET Nat
    OBVIOUS
  <2> HIDE DEF Bad
  <2>2. QED
    BY <1>2, <2>1, SmallestNat
<1>4. i # 0
  BY <1>1, <1>3, CallerImportsStay, ReachedLevels
<1>5. i \in 1..N /\ i - 1 \in 0..N /\ ~ (i <= i - 1) /\ i - 1 <= MaxDepth /\ i <= MaxDepth
      /\ (i - 1) + 1 = i /\ i <= N
  BY <1>4, <1>1
<1>6. Reached(O, f)[i-1] \subseteq Reached(parsed, f)[i-1]
  BY <1>3, <1>5
<1>7. /\ Reached(O, f)[i] = Reexported(O, Reached(O, f)[i-1])
      /\ Reached(parsed, f)[i] = Reexported(parsed, Reached(parsed, f)[i-1])
  BY <1>5, <1>1, ReachedLevels
<1>8. ASSUME NEW h \in Reached(O, f)[i-1], O[h].kind = "via"
      PROVE  parsed[h].kind = "via" /\ Imported(O, h) \subseteq Imported(parsed, h)
  BY <1>8, <1>5, CallerSees, CallerImportsStay
<1>9. Reached(O, f)[i] \subseteq Reached(parsed, f)[i]
  BY <1>6, <1>7, <1>8 DEF Reexported
<1>10. QED
  BY <1>9

(* New files that fill an import, and what they re-export. *)
Arrivals ==
  {y \in Added : \E h \in Present(seen.hashes) :
     /\ parsed[h] = seen.hashes[h]
     /\ Imported(seen.hashes, h) \subseteq Imported(parsed, h)
     /\ y \in Imported(parsed, h) \ Imported(seen.hashes, h)}
Behind == UNION {Imported(parsed, y) : y \in {z \in Arrivals : parsed[z].kind = "via"}}

LEMMA ArrivalsAreWritten ==
    ASSUME Planning, ArrivalsAreShallow
    PROVE  /\ Arrivals \cup Behind \subseteq EffectiveWriteSet(WritableFiles({}))
           /\ \A z \in Behind : parsed[z].kind # "via"
<1>1. Arrivals \subseteq ToWrite /\ ToWrite \subseteq WritableFiles({})
  BY WritableTypes DEF Arrivals, Added
<1>2. ASSUME NEW y \in Arrivals, NEW z \in Imported(parsed, y)
      PROVE  z \in EffectiveWriteSet(WritableFiles({}))
  <2>1. y \in Present(parsed)
    BY <1>1 DEF ToWrite, Planning
  <2>2. <<"IMPORTS", y, z>> \in GraphOf(parsed)
    BY <2>1 DEF GraphOf, ImportEdges
  <2>3. <<"IMPORTS", y, z>>[2] = y /\ <<"IMPORTS", y, z>>[3] = z
    OBVIOUS
  <2>4. <<"IMPORTS", y, z>> \in Touching(GraphOf(parsed), WritableFiles({}))
    BY <1>1, <2>2, <2>3 DEF Touching
  <2>5. QED
    BY <2>3, <2>4 DEF EffectiveWriteSet
<1>3. \A z \in Behind : parsed[z].kind # "via"
  BY DEF Behind, Arrivals, ArrivalsAreShallow, Planning
<1>4. QED
  BY <1>1, <1>2, <1>3 DEF EffectiveWriteSet, Behind

LEMMA CallerGains ==
    ASSUME Planning, NEW f, UnwrittenCaller(f), MaxDepth > 0, ArrivalsAreShallow,
           NEW n \in 0..Cardinality(Files), n <= MaxDepth
    PROVE  Reached(parsed, f)[n] \subseteq Reached(seen.hashes, f)[n] \cup Arrivals \cup Behind
<1> DEFINE O == seen.hashes
           N == Cardinality(Files)
           More(i) == ~ (Reached(parsed, f)[i] \subseteq Reached(O, f)[i] \cup Arrivals \cup Behind)
           Bad == {i \in 0..N : i <= MaxDepth /\ More(i)}
<1>1. N \in Nat /\ MaxDepth \in Nat /\ f \in Files
      /\ O \in [Files -> Contents] /\ parsed \in [Files -> Contents]
  BY IndexAssumption, FS_CardinalityType, PlanningTypes DEF UnwrittenCaller, Present
<1>2. SUFFICES ASSUME Bad # {}
               PROVE  FALSE
  OBVIOUS
<1>3. PICK i \in Bad : \A j \in Bad : i <= j
  <2>1. Bad \in SUBSET Nat
    OBVIOUS
  <2> HIDE DEF Bad
  <2>2. QED
    BY <1>2, <2>1, SmallestNat
<1>4. Imported(parsed, f) \ Imported(O, f) \subseteq Arrivals
  BY CallerImportsStay DEF Arrivals, UnwrittenCaller
<1>5. i # 0
  BY <1>1, <1>3, <1>4, ReachedLevels
<1>6. i \in 1..N /\ i - 1 \in 0..N /\ ~ (i <= i - 1) /\ i - 1 <= MaxDepth /\ i <= MaxDepth
      /\ (i - 1) + 1 = i /\ i <= N
  BY <1>5, <1>1
<1>7. Reached(parsed, f)[i-1] \subseteq Reached(O, f)[i-1] \cup Arrivals \cup Behind
  BY <1>3, <1>6
<1>8. /\ Reached(O, f)[i] = Reexported(O, Reached(O, f)[i-1])
      /\ Reached(parsed, f)[i] = Reexported(parsed, Reached(parsed, f)[i-1])
  BY <1>6, <1>1, ReachedLevels
<1>9. ASSUME NEW h \in Reached(parsed, f)[i-1], parsed[h].kind = "via",
             NEW z \in Imported(parsed, h)
      PROVE  z \in Reached(O, f)[i] \cup Arrivals \cup Behind
  <2>1. CASE h \in Reached(O, f)[i-1]
    <3>1. h \in Present(O) /\ parsed[h] = O[h]
      BY <2>1, <1>6, CallerSees
    <3>2. /\ Imported(O, h) \subseteq Imported(parsed, h)
          /\ Imported(parsed, h) \ Imported(O, h) \subseteq Added
      BY <2>1, <3>1, <1>6, <1>9, CallerImportsStay
    <3>3. Imported(parsed, h) \ Imported(O, h) \subseteq Arrivals
      BY <3>1, <3>2 DEF Arrivals
    <3>4. Imported(O, h) \subseteq Reached(O, f)[i]
      BY <2>1, <3>1, <1>8, <1>9 DEF Reexported
    <3>5. QED
      BY <3>3, <3>4
  <2>2. CASE h \in Arrivals
    BY <2>2, <1>9 DEF Behind
  <2>3. CASE h \in Behind
    BY <2>3, <1>9, ArrivalsAreWritten
  <2>4. QED
    BY <2>1, <2>2, <2>3, <1>7
<1>10. Reached(O, f)[i-1] \subseteq Reached(O, f)[i]
  BY <1>8 DEF Reexported
<1>11. Reached(parsed, f)[i] \subseteq Reached(O, f)[i] \cup Arrivals \cup Behind
  BY <1>7, <1>8, <1>9, <1>10 DEF Reexported
<1>12. QED
  BY <1>11

Rewritten == EffectiveWriteSet(WritableFiles({})) \cup Deleted

LEMMA RewrittenHolds ==
    ASSUME Planning
    PROVE  /\ WritableFiles({}) \subseteq Rewritten /\ ToWrite \subseteq Rewritten
           /\ Added \subseteq Rewritten /\ Deleted \subseteq Rewritten
           /\ \A f \in Present(seen.hashes) \cup Present(parsed) : f \notin Rewritten =>
                UnwrittenCaller(f) /\ f \in Present(seen.hashes) /\ f \in Present(parsed)
<1>1. ToWrite \subseteq WritableFiles({})
  BY WritableTypes
<1>2. \A f \in Present(seen.hashes) \cup Present(parsed) : f \notin ToWrite \cup Deleted =>
        f \in Present(seen.hashes) /\ f \in Present(parsed) /\ parsed[f] = seen.hashes[f]
  BY PlanningTypes DEF ToWrite, Deleted, Present, Planning
<1>3. QED
  BY <1>1, <1>2 DEF Rewritten, EffectiveWriteSet, Added, UnwrittenCaller

LEMMA ImportEdgesReached ==
    ASSUME Planning, MaxDepth > 0, NEW f, UnwrittenCaller(f)
    PROVE  \A g : (g \in Imported(parsed, f)) # (g \in Imported(seen.hashes, f)) => g \in Rewritten
BY CallerImportsStay, RewrittenHolds

(* A definition that an unwritten caller reached is reached, or rewritten.  *)
LEMMA CallKept ==
    ASSUME Planning, WalkSuffices, NEW f, UnwrittenCaller(f), seen.hashes[f].kind = "use",
           NEW g \in Defining(seen.hashes, f), g \notin Rewritten
    PROVE  g \in Defining(parsed, f)
<1> DEFINE O == seen.hashes
           N == Cardinality(Files)
<1>1. N \in Nat /\ MaxDepth \in Nat /\ MaxDepth > 0 /\ f \in Files /\ O \in Trees
      /\ O \in [Files -> Contents] /\ parsed \in [Files -> Contents]
  BY IndexAssumption, FS_CardinalityType, PlanningTypes
     DEF UnwrittenCaller, Present, WalkSuffices, Planning
<1>2. PICK n \in 0..N :
        /\ g \in Reached(O, f)[n]
        /\ n <= MaxDepth \/ (n = MaxDepth + 1 /\ \A s \in Files : <<s, g>> \notin Steals)
  BY <1>1 DEF WalkSuffices, ChainsAreShort
<1>3. g \in Files /\ O[g].kind = "def"
  BY DEF Defining
<1>4. g \in Present(O) /\ g \in Present(parsed) /\ parsed[g] = O[g]
  <2>1. g \in Present(O)
    BY <1>3 DEF Present, Absent
  <2>2. QED
    BY <2>1, RewrittenHolds DEF UnwrittenCaller
<1>5. SUFFICES g \in Reached(parsed, f)[n]
  BY <1>1, <1>3, <1>4, ReachedGrows DEF Defining
<1>6. CASE n <= MaxDepth
  BY <1>1, <1>2, <1>6, CallerKeeps
<1>7. CASE n = MaxDepth + 1 /\ \A s \in Files : <<s, g>> \notin Steals
  <2>1. n \in 1..N /\ n - 1 \in 0..N /\ n - 1 <= MaxDepth
    BY <1>1, <1>7
  <2>2. Reached(O, f)[n-1] \subseteq Reached(parsed, f)[n-1]
    BY <1>1, <2>1, CallerKeeps
  <2>3. /\ Reached(O, f)[n] = Reexported(O, Reached(O, f)[n-1])
        /\ Reached(parsed, f)[n] = Reexported(parsed, Reached(parsed, f)[n-1])
    BY <2>1, <1>1, ReachedLevels
  <2>4. CASE g \in Reached(O, f)[n-1]
    BY <2>2, <2>3, <2>4 DEF Reexported
  <2>5. CASE g \notin Reached(O, f)[n-1]
    <3>1. PICK h \in Reached(O, f)[n-1] : O[h].kind = "via" /\ g \in Imported(O, h)
      BY <1>2, <2>3, <2>5 DEF Reexported
    <3>2. parsed[h] = O[h]
      BY <1>1, <2>1, <3>1, CallerSees
    <3>3. g \in Imported(parsed, h)
      BY <1>4, <1>7, <3>1, <3>2, ImportsChange DEF Present
    <3>4. QED
      BY <2>2, <2>3, <3>1, <3>2, <3>3 DEF Reexported
  <2>6. QED
    BY <2>4, <2>5
<1>8. QED
  BY <1>2, <1>6, <1>7

(* A definition that an unwritten caller reaches was reached, or is         *)
(* rewritten.                                                               *)
LEMMA CallGained ==
    ASSUME Planning, WalkSuffices, NEW f, UnwrittenCaller(f), f \in Present(parsed),
           parsed[f].kind = "use", NEW g \in Defining(parsed, f), g \notin Rewritten
    PROVE  g \in Defining(seen.hashes, f)
<1> DEFINE O == seen.hashes
           N == Cardinality(Files)
<1>1. N \in Nat /\ MaxDepth \in Nat /\ MaxDepth > 0 /\ f \in Files
      /\ O \in [Files -> Contents] /\ parsed \in [Files -> Contents]
      /\ parsed \in Trees /\ ArrivalsAreShallow
  BY IndexAssumption, FS_CardinalityType, PlanningTypes
     DEF UnwrittenCaller, Present, WalkSuffices, Planning
<1>2. PICK n \in 0..N :
        /\ g \in Reached(parsed, f)[n]
        /\ n <= MaxDepth \/ (n = MaxDepth + 1 /\ \A s \in Files : <<s, g>> \notin Steals)
  BY <1>1 DEF WalkSuffices, ChainsAreShort
<1>3. g \in Files /\ parsed[g].kind = "def"
  BY DEF Defining
<1>4. g \in Present(O) /\ g \in Present(parsed) /\ parsed[g] = O[g]
  <2>1. g \in Present(parsed)
    BY <1>3 DEF Present, Absent
  <2>2. QED
    BY <2>1, RewrittenHolds DEF UnwrittenCaller
<1>5. g \notin Arrivals /\ g \notin Behind
  BY <1>1, ArrivalsAreWritten DEF Rewritten
<1>6. SUFFICES g \in Reached(O, f)[n]
  BY <1>1, <1>3, <1>4, ReachedGrows DEF Defining
<1>7. CASE n <= MaxDepth
  BY <1>1, <1>2, <1>5, <1>7, CallerGains
<1>8. CASE n = MaxDepth + 1 /\ \A s \in Files : <<s, g>> \notin Steals
  <2>1. n \in 1..N /\ n - 1 \in 0..N /\ n - 1 <= MaxDepth
    BY <1>1, <1>8
  <2>2. Reached(parsed, f)[n-1] \subseteq Reached(O, f)[n-1] \cup Arrivals \cup Behind
    BY <1>1, <2>1, CallerGains
  <2>3. /\ Reached(O, f)[n] = Reexported(O, Reached(O, f)[n-1])
        /\ Reached(parsed, f)[n] = Reexported(parsed, Reached(parsed, f)[n-1])
    BY <2>1, <1>1, ReachedLevels
  <2>4. CASE g \in Reached(parsed, f)[n-1]
    BY <1>5, <2>2, <2>3, <2>4 DEF Reexported
  <2>5. CASE g \notin Reached(parsed, f)[n-1]
    <3>1. PICK h \in Reached(parsed, f)[n-1] : parsed[h].kind = "via" /\ g \in Imported(parsed, h)
      BY <1>2, <2>3, <2>5 DEF Reexported
    <3>2. h \in Reached(O, f)[n-1]
      <4>1. h \notin Arrivals
        BY <1>5, <3>1 DEF Behind
      <4>2. h \notin Behind
        BY <1>1, <3>1, ArrivalsAreWritten
      <4>3. QED
        BY <2>2, <3>1, <4>1, <4>2
    <3>3. parsed[h] = O[h]
      BY <1>1, <2>1, <3>2, CallerSees
    <3>4. \A s \in Imported(O, h) : s \in Files
      BY DEF Imported, Present
    <3>5. g \in Imported(O, h)
      BY <1>4, <1>8, <3>1, <3>3, <3>4, ImportsChange
    <3>6. QED
      BY <2>3, <3>1, <3>2, <3>3, <3>5 DEF Reexported
  <2>6. QED
    BY <2>4, <2>5
<1>9. QED
  BY <1>2, <1>7, <1>8

LEMMA EdgesOfUnwritten ==
    ASSUME Planning, WalkSuffices, NEW t \in {seen.hashes, parsed}, NEW u \in {seen.hashes, parsed},
           NEW e \in GraphOf(t), e \notin GraphOf(u)
    PROVE  e[2] \in Rewritten \/ e[3] \in Rewritten
<1>1. PICK f \in Present(t) : e \in ImportEdges(t, f) \cup CallEdges(t, f)
  BY DEF GraphOf
<1>2. SUFFICES ASSUME f \notin Rewritten, e[3] \notin Rewritten
               PROVE  e \in ImportEdges(u, f) \cup CallEdges(u, f) /\ f \in Present(u)
  <2>1. e[2] = f
    BY <1>1 DEF ImportEdges, CallEdges
  <2>2. QED
    BY <2>1, <1>2 DEF GraphOf
<1>3. /\ UnwrittenCaller(f) /\ f \in Present(u) /\ f \in Present(parsed)
      /\ seen.hashes[f] = parsed[f]
  BY <1>1, <1>2, RewrittenHolds DEF UnwrittenCaller
<1>4. CASE e \in ImportEdges(t, f)
  <2>1. PICK g \in Imported(t, f) : e = <<"IMPORTS", f, g>>
    BY <1>4 DEF ImportEdges
  <2>2. g \notin Rewritten
    BY <1>2, <2>1
  <2>3. g \in Imported(u, f)
    BY <1>3, <2>1, <2>2, ImportEdgesReached DEF WalkSuffices
  <2>4. QED
    BY <1>3, <2>1, <2>3 DEF ImportEdges
<1>5. CASE e \in CallEdges(t, f)
  <2>1. t[f].kind = "use" /\ \E g \in Defining(t, f) : e = <<"CALLS", f, g>>
    BY <1>5 DEF CallEdges
  <2>2. PICK g \in Defining(t, f) : e = <<"CALLS", f, g>>
    BY <2>1
  <2>3. g \notin Rewritten
    BY <1>2, <2>2
  <2>4. g \in Defining(u, f)
    BY <1>3, <2>1, <2>2, <2>3, CallKept, CallGained
  <2>5. u[f].kind = "use"
    BY <1>3, <2>1
  <2>6. QED
    BY <1>3, <2>2, <2>4, <2>5 DEF CallEdges
<1>6. QED
  BY <1>1, <1>4, <1>5

(* The hashes on record are those of a tree that was analysed. *)
RecordedTrees ==
  /\ meta # NoMeta => meta.hashes \in Trees
  /\ seen # NoMeta => seen.hashes \in Trees

LEMMA RecordedStep ==
    ASSUME TypeOK, RunInv, RecordedTrees, [Next]_vars
    PROVE  RecordedTrees'
<1> USE DEF RecordedTrees, disk, locals
<1>1. CASE User
  BY <1>1 DEF User, Checkout, Edit, Upgrade, TypeOK, Metas
<1>2. ASSUME NEW force \in BOOLEAN, StartRun(force)
      PROVE  RecordedTrees'
  BY <1>2 DEF StartRun
<1>3. CASE MarkDirty
  <2>1. seen \in Metas /\ seen # NoMeta
    BY <1>3 DEF TypeOK, MarkDirty, IsIncremental
  <2>2. QED
    BY <1>3, <2>1 DEF MarkDirty, Metas
<1>4. CASE SaveMeta
  <2>1. hashes \in Trees
    BY <1>4 DEF SaveMeta, RunInv, OneTree, TypeOK
  <2>2. QED
    BY <1>4, <2>1 DEF SaveMeta
<1>5. CASE FastPath \/ FastPathOfJob \/ Parse \/ Wipe \/ PlanWrite \/ DropGroups \/ LoadNodes
           \/ LoadEdges
  BY <1>5 DEF FastPath, FastPathOfJob, Parse, Wipe, PlanWrite, DropGroups, LoadNodes, LoadEdges
<1>6. ASSUME NEW f \in Files, DeleteRows(f)
      PROVE  RecordedTrees'
  BY <1>6 DEF DeleteRows
<1>7. CASE Register \/ Stop
  BY <1>7 DEF Register, Stop, Forget
<1>8. CASE UNCHANGED vars
  BY <1>8 DEF vars
<1>9. QED
  BY <1>1, <1>2, <1>3, <1>4, <1>5, <1>6, <1>7, <1>8 DEF Next, Run

(* The walk is done once, when the run plans what to write. *)
LEMMA WalkStep ==
    ASSUME QueriesAnswered, WalkSuffices, TypeOK, RunInv, EdgesFollow, RecordedTrees,
           WalkReachesChanges, [Next]_vars
    PROVE  WalkReachesChanges'
<1>1. CASE PlanWrite
  <2>1. phase = "plan" /\ UNCHANGED <<db, seen, parsed, hashes>>
    BY <1>1 DEF PlanWrite, disk
  <2>2. Planning
    BY <2>1 DEF Planning, RunInv, OneTree, RunReads, EdgesFollow, Old, RecordedTrees, TypeOK
  <2>3. \A failed \in Skips("queryError", (0..(MaxDepth-1)) \X Files) : failed = {}
    BY NothingSkipped DEF QueriesAnswered
  <2>4. writeSet' \cup Deleted = Rewritten
    BY <1>1, <2>3 DEF PlanWrite, Rewritten
  <2>5. ChangedEdges' = ChangedEdges /\ Deleted' = Deleted
    BY <2>1 DEF ChangedEdges, Deleted
  <2>6. \A e \in ChangedEdges : e[2] \in Rewritten \/ e[3] \in Rewritten
    BY <2>2, EdgesOfUnwritten DEF ChangedEdges
  <2>7. ChangedEdges = Touching(ChangedEdges, Rewritten)
    BY <2>6 DEF Touching
  <2>8. QED
    BY <2>4, <2>5, <2>7 DEF WalkReachesChanges
<1>2. ASSUME NEW f \in Files, DeleteRows(f)
      PROVE  WalkReachesChanges'
  BY <1>2 DEF DeleteRows, WalkReachesChanges, ChangedEdges, Deleted
<1>3. CASE User
  BY <1>3 DEF User, Checkout, Edit, Upgrade, disk, locals, WalkReachesChanges, ChangedEdges, Deleted
<1>4. CASE FastPath \/ FastPathOfJob \/ UNCHANGED vars
  BY <1>4 DEF FastPath, FastPathOfJob, vars, disk, locals, WalkReachesChanges, ChangedEdges, Deleted
<1>5. ASSUME NEW force \in BOOLEAN, StartRun(force)
      PROVE  WalkReachesChanges'
  BY <1>5 DEF StartRun, WalkReachesChanges
<1>6. CASE Parse \/ MarkDirty \/ Wipe \/ DropGroups \/ LoadNodes
  BY <1>6 DEF Parse, MarkDirty, Wipe, DropGroups, LoadNodes, WalkReachesChanges
<1>7. CASE LoadEdges \/ SaveMeta \/ Register \/ Stop
  BY <1>7 DEF LoadEdges, SaveMeta, Register, Stop, WalkReachesChanges
<1>8. QED
  BY <1>1, <1>2, <1>3, <1>4, <1>5, <1>6, <1>7 DEF Next, Run

(* For every set of trees whose chains of re-exports are short enough, and  *)
(* over interrupted runs, every edge an incremental run has to add or take  *)
(* away has an end among the files it rewrites or deletes, if no query for  *)
(* importers fails and reads and writes succeed or end their run.           *)
THEOREM WalkIsEnough ==
    ASSUME Undisturbed, QueriesAnswered, WalkSuffices
    PROVE  Spec => []WalkReachesChanges
<1> DEFINE Inv == RunInv /\ EdgesFollow /\ RecordedTrees /\ WalkReachesChanges
<1>1. Init => RecordedTrees /\ WalkReachesChanges
  BY DEF Init, RecordedTrees, WalkReachesChanges
<1>2. TypeOK /\ CommitRead /\ Inv /\ [Next]_vars => Inv'
  BY RunInvStep, RecordedStep, WalkStep
<1>3. QED
  BY <1>1, <1>2, TypeInitially, TypeStep, RunInitially, PTL DEF Spec

(* So a meta.json without the dirty flag describes the whole database       *)
(* between runs: nothing is assumed of what the walk finds, only that the   *)
(* queries, reads and writes of the runs succeed or end them.               *)
THEOREM IndexStaysWhole ==
    ASSUME Undisturbed, QueriesAnswered, WalkSuffices
    PROVE  Spec => []IndexIsWhole
BY WalkIsEnough, WholeIfWalkReaches, PTL

(* And "already up to date" is said only of the files in the working tree,  *)
(* when only committed trees are analysed.                                  *)
THEOREM UpToDateStaysTrue ==
    ASSUME Undisturbed, QueriesAnswered, "dirtyTree" \notin Disturbances, WalkSuffices
    PROVE  Spec => []UpToDateIsTrue
BY WalkIsEnough, UpToDateIsSound, PTL

=============================================================================
