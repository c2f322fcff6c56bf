-------------------------- MODULE ParseStoresProofs --------------------------
(***************************************************************************)
(* What the two stores of ParseStores guarantee for every number of        *)
(* chunks, files and shard names: over crashes between any two steps and   *)
(* upgrades, as long as the worker pool gives up no file; and with files   *)
(* given up, as long as every run of one version gets to its end.          *)
(***************************************************************************)
EXTENDS ParseStores, TLAPS

\* Nothing was given up, the loop's view of the indexes is no older than the
\* run, and no index is of a version to come.
Consistent ==
    /\ \A k \in Keys : quarantined[k] = {}
    /\ cache.version <= version /\ durIndex.version <= version
    /\ \A k, l \in current.keys : k = l
    /\ \A k, l \in parked : k = l
    /\ current.keys \cap parked = {}
    /\ phase # "parsing" => current = None /\ parked = {}

\* The results of this run: the chunk being dispatched is written but for what
\* is left, the others that were touched are written as a whole, and what is in
\* the run store is in the durable store.
RunStoreFilled ==
    phase \in {"parsing", "resolving"} =>
        /\ \A k \in Keys : \A n \in Named(runStore[k]) : k \in usedKeys
        /\ \A k \in current.keys : Files \subseteq FilesOf(runStore[k]) \cup current.left
        /\ \A k \in usedKeys \ current.keys : Files \subseteq FilesOf(runStore[k])
        /\ \A k \in Keys : \A n \in Named(runStore[k]) : durShards[k][n] = runStore[k][n]

\* A result that is vouched for is of this version.
ResultsAreCurrent ==
    /\ \A k \in Keys : graph[k] \in {0, version}
    /\ \A k \in Vouched(cache) : cache.shards[k] \in {0, version}

\* A chunk that both indexes vouch for and whose result can be read has all its
\* ParsedFiles, whatever the phase.
Backed ==
    \A k \in Vouched(cache) \cap Vouched(durIndex) :
        cache.shards[k] # 0 => Files \subseteq FilesOf(durShards[k])

\* While a chunk is dispatched or parked it is not vouched for.
NotVouched(k) ==
    ~ (k \in Vouched(cache) /\ k \in Vouched(durIndex) /\ cache.shards[k] # 0)

LoopFits ==
    phase = "parsing" =>
        /\ durableHitKeys = Vouched(durIndex)
        /\ Vouched(cache) \subseteq onDiskKeys
        /\ onDiskKeys \subseteq Vouched(cache) \cup usedKeys
        /\ \A k \in current.keys \cup parked : NotVouched(k)

\* What the run leaves: touched chunks that are through have results of this
\* version and all their shards, until the two saves are over.
Through == usedKeys \ (current.keys \cup parked)

SavesFit ==
    /\ phase \in {"parsing", "resolving", "saving"} =>
         \A k \in Through : cache.shards[k] = version
    /\ phase \in {"parsing", "resolving", "saving", "built", "pruning"} =>
         \A k \in Through : Files \subseteq FilesOf(durShards[k])
    /\ phase = "built" =>
         /\ tmp.version = version /\ tmp.keys = usedKeys
         /\ \A k \in usedKeys : tmp.shards[k] = version
    /\ phase = "pruning" =>
         /\ cache.version = version /\ cache.keys = usedKeys
         /\ \A k \in usedKeys : cache.shards[k] = version

IInv ==
    /\ TypeOK /\ Consistent /\ RunStoreFilled /\ ResultsAreCurrent
    /\ Backed /\ LoopFits /\ SavesFit /\ CompleteIsServedNext

-----------------------------------------------------------------------------
(* Types, whatever may happen *)

LEMMA ConstantTypes ==
    /\ None \in [keys : SUBSET Keys, left : SUBSET Files]
    /\ NoShard \in Shard
    /\ NoShards \in [Keys -> [Names -> Shard]]
    /\ NoCache \in CacheDir
    /\ Versions \subseteq 0..MaxVersion
<1>1. MaxVersion \in Nat
  BY StoresAssumption
<1>2. NoShard \in Shard
  BY <1>1 DEF NoShard, Shard
<1>3. NoCache \in CacheDir
  BY <1>1 DEF NoCache, CacheDir
<1>4. NoShards \in [Keys -> [Names -> Shard]]
  BY <1>2 DEF NoShards
<1>5. QED
  BY <1>1, <1>2, <1>3, <1>4 DEF None, Versions

LEMMA FreshLoopTyped ==
    ASSUME FreshLoop
    PROVE  /\ onDiskKeys' \in SUBSET Keys /\ durableHitKeys' \in SUBSET Keys
           /\ usedKeys' \in SUBSET Keys /\ todo' \in SUBSET (Keys \ usedKeys')
           /\ parked' \in SUBSET usedKeys'
           /\ current' \in [keys : SUBSET usedKeys', left : SUBSET Files]
           /\ quarantined' \in [Keys -> SUBSET Files]
           /\ graph' \in [Keys -> 0..MaxVersion]
BY StoresAssumption DEF FreshLoop, None

LEMMA InitTyped == Init => TypeOK
<1> SUFFICES ASSUME Init
             PROVE  TypeOK
  OBVIOUS
<1>1. MaxVersion \in Nat \ {0}
  BY StoresAssumption
<1>2. durIndex \in Index
  BY <1>1 DEF Init, Index
<1>3. QED
  BY <1>1, <1>2, ConstantTypes DEF Init, TypeOK, Versions, Phase, None

\* Writing a shard keeps the types of both stores.
LEMMA WriteShardTyped ==
    ASSUME TypeOK, NEW k \in Keys, NEW n \in Names, NEW files \in SUBSET Files,
           WriteShard(k, n, files)
    PROVE  /\ durShards' \in [Keys -> [Names -> Shard]]
           /\ runStore' \in [Keys -> [Names -> Shard]]
<1> DEFINE shard == [files |-> files, version |-> version]
<1>1. shard \in Shard
  BY ConstantTypes DEF TypeOK, Shard
<1> HIDE DEF shard
<1>2. /\ durShards' = [durShards EXCEPT ![k][n] = shard]
      /\ runStore' = [runStore EXCEPT ![k][n] = shard]
  BY DEF WriteShard, shard
<1>3. QED
  BY <1>1, <1>2 DEF TypeOK

LEMMA StartRunTyped == TypeOK /\ StartRun => TypeOK'
<1> SUFFICES ASSUME TypeOK, StartRun
             PROVE  TypeOK'
  OBVIOUS
<1>1. Vouched(cache) \in SUBSET Keys /\ Vouched(durIndex) \in SUBSET Keys
  BY DEF TypeOK, Vouched, CacheDir, Index
<1>2. QED
  BY <1>1, ConstantTypes, StoresAssumption DEF StartRun, TypeOK, Phase, None

LEMMA ChunkStepTyped ==
    ASSUME TypeOK, NEW k \in Keys, ChunkStep(k)
    PROVE  TypeOK'
<1>1. CASE Hit(k)
  <2>1. cache.shards[k] \in 0..MaxVersion
    BY DEF TypeOK, CacheDir
  <2>2. todo' \in SUBSET (Keys \ usedKeys') /\ usedKeys' \in SUBSET Keys
    BY <1>1 DEF Hit, Touch, TypeOK
  <2>3. parked' \in SUBSET usedKeys' /\ current' \in [keys : SUBSET usedKeys', left : SUBSET Files]
    BY <1>1 DEF Hit, Touch, TypeOK
  <2>4. QED
    BY <1>1, <2>1, <2>2, <2>3 DEF Hit, TypeOK
<1>2. CASE Dispatch(k)
  <2>1. todo' \in SUBSET (Keys \ usedKeys') /\ usedKeys' \in SUBSET Keys
    BY <1>2 DEF Dispatch, Touch, TypeOK
  <2>2. parked' \in SUBSET usedKeys' /\ current' \in [keys : SUBSET usedKeys', left : SUBSET Files]
    BY <1>2 DEF Dispatch, Touch, TypeOK
  <2>3. QED
    BY <1>2, <2>1, <2>2 DEF Dispatch, TypeOK, diskVars
<1>3. CASE Flush(k)
  <2>1. PICK n \in Names, files \in SUBSET Files :
            WriteShard(k, n, files) /\ current' = [current EXCEPT !.left = @ \ files]
    BY <1>3 DEF Flush, TypeOK
  <2>2. current' \in [keys : SUBSET usedKeys, left : SUBSET Files]
    BY <2>1 DEF TypeOK
  <2>3. QED
    BY <1>3, <2>1, <2>2, WriteShardTyped DEF Flush, TypeOK
<1>4. CASE FlushLost(k)
  <2>1. PICK n \in Names, files \in SUBSET Files : WriteShard(k, n, files)
    BY <1>4 DEF FlushLost, TypeOK
  <2>2. QED
    BY <1>4, <2>1, WriteShardTyped DEF FlushLost, TypeOK, loopVars
<1>5. CASE GiveUp(k)
  BY <1>5 DEF GiveUp, TypeOK, diskVars
<1>6. CASE Park(k)
  BY <1>6 DEF Park, TypeOK, diskVars, None
<1>7. CASE Finalize(k)
  <2>1. version \in 0..MaxVersion
    BY ConstantTypes DEF TypeOK
  <2>2. cache' \in CacheDir /\ onDiskKeys' \in SUBSET Keys
    BY <1>7, <2>1, SMTT(30) DEF Finalize, TypeOK, CacheDir
  <2>3. QED
    BY <1>7, <2>1, <2>2 DEF Finalize, TypeOK
<1>8. CASE PruneChunk(k)
  BY <1>8, ConstantTypes DEF PruneChunk, TypeOK, loopVars
<1>9. QED
  BY <1>1, <1>2, <1>3, <1>4, <1>5, <1>6, <1>7, <1>8 DEF ChunkStep

LEMMA SaveStepTyped ==
    ASSUME TypeOK, Resolve \/ BuildTmp \/ RemoveEntry \/ RenameTmp \/ SaveDurableIndex
    PROVE  TypeOK'
<1>1. CASE Resolve
  BY <1>1, ConstantTypes DEF Resolve, TypeOK, Phase
<1>2. CASE BuildTmp
  <2>1. Kept \in SUBSET Keys
    BY DEF Kept, TypeOK
  <2>2. [k \in Keys |-> IF k \in Kept THEN cache.shards[k] ELSE 0] \in [Keys -> 0..MaxVersion]
    BY StoresAssumption DEF TypeOK, CacheDir
  <2>3. tmp' \in CacheDir
    BY <1>2, <2>1, <2>2, ConstantTypes DEF BuildTmp, TypeOK, CacheDir
  <2>4. QED
    BY <1>2, <2>3 DEF BuildTmp, TypeOK, Phase, diskVars, loopVars
<1>3. CASE RemoveEntry
  <2>1. cache' \in CacheDir
    <3>1. cache \in CacheDir /\ 0 \in 0..MaxVersion
      BY StoresAssumption DEF TypeOK
    <3>2. CASE cache' = [cache EXCEPT !.version = 0, !.keys = {}]
      BY <3>1, <3>2 DEF CacheDir
    <3>3. ASSUME NEW k \in Keys, cache' = [cache EXCEPT !.shards[k] = 0]
          PROVE  cache' \in CacheDir
      BY <3>1, <3>3 DEF CacheDir
    <3>4. QED
      BY <1>3, <3>2, <3>3 DEF RemoveEntry
  <2>2. QED
    BY <1>3, <2>1 DEF RemoveEntry, TypeOK, loopVars
<1>4. CASE RenameTmp
  BY <1>4, ConstantTypes DEF RenameTmp, TypeOK, Phase, loopVars
<1>5. CASE SaveDurableIndex
  <2>1. durIndex' \in Index
    BY <1>5, ConstantTypes DEF SaveDurableIndex, TypeOK, Index
  <2>2. QED
    BY <1>5, <2>1 DEF SaveDurableIndex, TypeOK, Phase, loopVars
<1>6. QED
  BY <1>1, <1>2, <1>3, <1>4, <1>5

LEMMA StepTyped == TypeOK /\ [Next]_vars => TypeOK'
<1> SUFFICES ASSUME TypeOK, [Next]_vars
             PROVE  TypeOK'
  OBVIOUS
<1>1. CASE StartRun
  BY <1>1, StartRunTyped
<1>2. CASE \E k \in Keys : ChunkStep(k)
  BY <1>2, ChunkStepTyped
<1>3. CASE EndOfLoop
  BY <1>3 DEF EndOfLoop, TypeOK, Phase, diskVars, loopVars
<1>4. CASE Resolve \/ BuildTmp \/ RemoveEntry \/ RenameTmp \/ SaveDurableIndex
  BY <1>4, SaveStepTyped
<1>5. CASE Crash
  <2>1. tmp' \in CacheDir /\ phase' \in Phase
    BY <1>5, ConstantTypes DEF Crash, Phase
  <2>2. QED
    BY <1>5, <2>1, FreshLoopTyped DEF Crash, TypeOK, diskVars
<1>6. CASE Upgrade
  <2>1. version' \in Versions
    BY <1>6, StoresAssumption DEF Upgrade, TypeOK, Versions
  <2>2. QED
    BY <1>6, <2>1, FreshLoopTyped DEF Upgrade, TypeOK, diskVars
<1>7. CASE UNCHANGED vars
  BY <1>7 DEF TypeOK, vars, diskVars, loopVars
<1>8. QED
  BY <1>1, <1>2, <1>3, <1>4, <1>5, <1>6, <1>7 DEF Next

\* The types hold in every run, crash and upgrade included.
THEOREM StoresTypeCorrect == Spec => []TypeOK
<1>1. QED
  BY InitTyped, StepTyped, PTL DEF Spec

-----------------------------------------------------------------------------
(* The stores, when no file is given up *)

LEMMA NoShardIsEmpty ==
    /\ NoShard.files = {}
    /\ \A k \in Keys : Named(NoShards[k]) = {}
BY DEF NoShard, NoShards, Named

\* What an index vouches for is something it lists.
LEMMA VouchedListed ==
    ASSUME NEW index
    PROVE  Vouched(index) \subseteq index.keys
BY DEF Vouched

LEMMA StoresInitially == Init => IInv
<1> SUFFICES ASSUME Init
             PROVE  IInv
  OBVIOUS
<1>1. TypeOK
  BY InitTyped
<1>2. Consistent
  BY <1>1 DEF Init, Consistent, NoCache, TypeOK, Versions
<1>3. Vouched(cache) = {} /\ usedKeys = {}
  BY DEF Init, Vouched, NoCache
<1>4. QED
  BY <1>1, <1>2, <1>3
     DEF IInv, Init, RunStoreFilled, ResultsAreCurrent, Backed, LoopFits,
         SavesFit, Through, CompleteIsServedNext

LEMMA StartRunInv == IInv /\ StartRun => IInv'
<1> SUFFICES ASSUME IInv, StartRun
             PROVE  IInv'
  OBVIOUS
<1> USE DEF IInv
<1>1. TypeOK'
  BY StartRunTyped
<1>2. Consistent'
  BY DEF Consistent, StartRun, None
<1>3. /\ usedKeys' = {} /\ current'.keys = {} /\ parked' = {} /\ phase' = "parsing"
      /\ Vouched(cache)' = Vouched(cache) /\ Vouched(durIndex)' = Vouched(durIndex)
  BY DEF StartRun, None, Vouched
<1>4. RunStoreFilled'
  BY <1>3, NoShardIsEmpty DEF RunStoreFilled, StartRun
<1>5. ResultsAreCurrent' /\ Backed'
  BY <1>3 DEF ResultsAreCurrent, Backed, StartRun
<1>6. LoopFits'
  BY <1>3 DEF LoopFits, StartRun
<1>7. SavesFit' /\ CompleteIsServedNext'
  BY <1>3 DEF SavesFit, Through, CompleteIsServedNext
<1>8. QED
  BY <1>1, <1>2, <1>4, <1>5, <1>6, <1>7

\* A hit restores all shards of a chunk and a result of this version.
LEMMA HitInv ==
    ASSUME IInv, NEW k \in Keys, Hit(k)
    PROVE  IInv'
<1> USE DEF IInv
<1>1. TypeOK'
  BY ChunkStepTyped DEF ChunkStep
<1>2. /\ phase = "parsing" /\ phase' = "parsing" /\ current = None /\ parked = {}
      /\ current' = None /\ parked' = {} /\ k \notin usedKeys /\ usedKeys' = usedKeys \cup {k}
      /\ None.keys = {}
  BY DEF Hit, Comes, Touch, TypeOK, None
<1>3. /\ Vouched(cache)' = Vouched(cache) /\ Vouched(durIndex)' = Vouched(durIndex)
      /\ UNCHANGED <<version, cache, durShards>>
  BY DEF Hit, Vouched
<1>4. /\ k \in Vouched(cache) /\ k \in Vouched(durIndex)
      /\ cache.shards[k] = version /\ Files \subseteq FilesOf(durShards[k])
  <2>1. k \in Vouched(cache) /\ k \in Vouched(durIndex) /\ cache.shards[k] # 0
    BY <1>2 DEF Hit, Cached, LoopFits
  <2>2. QED
    BY <2>1 DEF ResultsAreCurrent, Backed
<1>5. Consistent'
  BY <1>2 DEF Consistent, Hit
<1>6. runStore'[k] = durShards[k] /\ \A l \in Keys \ {k} : runStore'[l] = runStore[l]
  BY DEF Hit, TypeOK
<1>7. RunStoreFilled'
  BY <1>2, <1>3, <1>4, <1>6 DEF RunStoreFilled, TypeOK
<1>8. ResultsAreCurrent' /\ Backed'
  <2>1. \A l \in Keys : graph'[l] = IF l = k THEN version ELSE graph[l]
    BY <1>4 DEF Hit, TypeOK
  <2>2. QED
    BY <1>2, <1>3, <2>1 DEF ResultsAreCurrent, Backed, TypeOK
<1>9. LoopFits'
  BY <1>2, <1>3 DEF LoopFits, Hit
<1>10. SavesFit' /\ CompleteIsServedNext'
  BY <1>2, <1>3, <1>4 DEF SavesFit, Through, CompleteIsServedNext
<1>11. QED
  BY <1>1, <1>5, <1>7, <1>8, <1>9, <1>10

\* A chunk is dispatched because one of the two stores does not have it.
LEMMA DispatchInv ==
    ASSUME IInv, NEW k \in Keys, Dispatch(k)
    PROVE  IInv'
<1> USE DEF IInv
<1>1. TypeOK'
  BY ChunkStepTyped DEF ChunkStep
<1>2. /\ phase = "parsing" /\ phase' = "parsing" /\ current = None /\ None.keys = {}
      /\ current'.keys = {k} /\ current'.left = Files /\ UNCHANGED parked
      /\ k \notin usedKeys /\ k \notin parked /\ usedKeys' = usedKeys \cup {k}
  BY DEF Dispatch, Comes, Touch, TypeOK, None
<1>3. /\ Vouched(cache)' = Vouched(cache) /\ Vouched(durIndex)' = Vouched(durIndex)
      /\ UNCHANGED <<version, cache, durIndex, durShards, runStore>>
  BY DEF Dispatch, Vouched, diskVars
<1>4. NotVouched(k) /\ \A l \in parked : NotVouched(l)
  BY <1>2 DEF Dispatch, Cached, LoopFits, NotVouched
<1>5. Consistent'
  BY <1>2, <1>3 DEF Consistent, Dispatch
<1>6. RunStoreFilled'
  BY <1>2, <1>3 DEF RunStoreFilled, TypeOK
<1>7. ResultsAreCurrent' /\ Backed'
  BY <1>2, <1>3 DEF ResultsAreCurrent, Backed, Dispatch
<1>8. LoopFits'
  <2>1. \A l \in Keys : NotVouched(l)' <=> NotVouched(l)
    BY <1>3 DEF NotVouched
  <2>2. QED
    BY <1>1, <1>2, <1>3, <1>4, <2>1 DEF LoopFits, Dispatch, TypeOK
<1>9. SavesFit' /\ CompleteIsServedNext'
  <2>1. Through' = Through
    BY <1>2 DEF Through
  <2>2. QED
    BY <1>2, <1>3, <2>1 DEF SavesFit, CompleteIsServedNext
<1>10. QED
  BY <1>1, <1>5, <1>6, <1>7, <1>8, <1>9

\* A new shard of a dispatched chunk adds its files to both stores.
LEMMA WriteShardFills ==
    ASSUME TypeOK, NEW k \in Keys, NEW n \in Names \ Named(runStore[k]),
           NEW files \in SUBSET Files, WriteShard(k, n, files)
    PROVE  /\ FilesOf(runStore'[k]) = FilesOf(runStore[k]) \cup files
           /\ durShards'[k][n] = runStore'[k][n]
           /\ \A m \in Names \ {n} : /\ durShards'[k][m] = durShards[k][m]
                                     /\ runStore'[k][m] = runStore[k][m]
           /\ \A l \in Keys \ {k} : /\ durShards'[l] = durShards[l]
                                    /\ runStore'[l] = runStore[l]
<1> DEFINE shard == [files |-> files, version |-> version]
<1>1. shard.files = files
  OBVIOUS
<1> HIDE DEF shard
<1>2. /\ durShards' = [durShards EXCEPT ![k][n] = shard]
      /\ runStore' = [runStore EXCEPT ![k][n] = shard]
  BY DEF WriteShard, shard
<1>3. /\ durShards'[k][n] = shard /\ runStore'[k][n] = shard
      /\ \A m \in Names \ {n} : /\ durShards'[k][m] = durShards[k][m]
                                /\ runStore'[k][m] = runStore[k][m]
      /\ \A l \in Keys \ {k} : durShards'[l] = durShards[l] /\ runStore'[l] = runStore[l]
  BY <1>2 DEF TypeOK
<1>4. runStore[k][n].files = {}
  BY NoShardIsEmpty DEF Named
<1>5. FilesOf(runStore'[k]) = FilesOf(runStore[k]) \cup files
  BY <1>1, <1>3, <1>4 DEF FilesOf
<1>6. QED
  BY <1>3, <1>5

\* Both outcomes of a write: the result is delivered, or the job is parsed again.
LEMMA WriteInv ==
    ASSUME IInv, NEW k \in Keys, Flush(k) \/ FlushLost(k)
    PROVE  IInv'
<1> USE DEF IInv
<1>1. TypeOK'
  BY ChunkStepTyped DEF ChunkStep
<1>2. /\ k \in current.keys /\ current'.keys = current.keys
      /\ UNCHANGED <<version, cache, durIndex, phase, onDiskKeys, durableHitKeys, todo, parked,
                     usedKeys, quarantined, graph, tmp>>
  BY DEF Flush, FlushLost, TypeOK, loopVars
<1>3. phase = "parsing" /\ k \in usedKeys /\ k \notin Through
  BY <1>2 DEF Consistent, None, Through, TypeOK
<1>4. PICK n \in Names \ Named(runStore[k]), files \in SUBSET Files :
        /\ WriteShard(k, n, files)
        /\ current.left \subseteq current'.left \cup files
  BY ZenonT(60) DEF Flush, FlushLost, TypeOK, loopVars
<1>5. /\ FilesOf(runStore'[k]) = FilesOf(runStore[k]) \cup files
      /\ durShards'[k][n] = runStore'[k][n]
      /\ \A m \in Names \ {n} : /\ durShards'[k][m] = durShards[k][m]
                                /\ runStore'[k][m] = runStore[k][m]
      /\ \A l \in Keys \ {k} : durShards'[l] = durShards[l] /\ runStore'[l] = runStore[l]
  BY <1>4, WriteShardFills
<1>6. Vouched(cache)' = Vouched(cache) /\ Vouched(durIndex)' = Vouched(durIndex)
  BY <1>2 DEF Vouched
<1>7. Consistent'
  BY <1>2, <1>3 DEF Consistent
<1>8. RunStoreFilled'
  <2>1. \A l \in Keys : \A m \in Named(runStore'[l]) :
          l \in usedKeys /\ durShards'[l][m] = runStore'[l][m]
    <3> SUFFICES ASSUME NEW l \in Keys, NEW m \in Named(runStore'[l])
                 PROVE  l \in usedKeys /\ durShards'[l][m] = runStore'[l][m]
      OBVIOUS
    <3>1. CASE l # k
      BY <1>3, <1>5, <3>1 DEF RunStoreFilled, Named
    <3>2. CASE l = k /\ m # n
      BY <1>3, <1>5, <3>2 DEF RunStoreFilled, Named
    <3>3. CASE l = k /\ m = n
      BY <1>3, <1>5, <3>3
    <3>4. QED
      BY <3>1, <3>2, <3>3
  <2>2. \A l \in current.keys : Files \subseteq FilesOf(runStore'[l]) \cup current'.left
    <3>1. current.keys = {k}
      BY <1>2 DEF Consistent
    <3>2. Files \subseteq FilesOf(runStore[k]) \cup current.left
      BY <1>2, <1>3 DEF RunStoreFilled
    <3>3. QED
      BY <1>4, <1>5, <3>1, <3>2
  <2>3. \A l \in usedKeys \ current.keys : Files \subseteq FilesOf(runStore'[l])
    BY <1>2, <1>3, <1>5 DEF RunStoreFilled, TypeOK
  <2>4. QED
    BY <1>2, <2>1, <2>2, <2>3 DEF RunStoreFilled
<1>9. NotVouched(k)
  BY <1>2, <1>3 DEF LoopFits
<1>10. ResultsAreCurrent' /\ Backed'
  <2>1. ResultsAreCurrent'
    BY <1>2, <1>6 DEF ResultsAreCurrent
  <2>2. \A l \in Vouched(cache) : l \in Keys
    BY VouchedListed DEF TypeOK, CacheDir
  <2>3. Backed'
    BY <1>2, <1>5, <1>6, <1>9, <2>2 DEF Backed, NotVouched
  <2>4. QED
    BY <2>1, <2>3
<1>11. LoopFits'
  BY <1>2, <1>6 DEF LoopFits, NotVouched
<1>12. SavesFit' /\ CompleteIsServedNext'
  <2>1. Through' = Through /\ Through \subseteq Keys
    BY <1>2 DEF Through, TypeOK
  <2>2. QED
    BY <1>2, <1>3, <1>5, <2>1 DEF SavesFit, CompleteIsServedNext
<1>13. QED
  BY <1>1, <1>7, <1>8, <1>10, <1>11, <1>12

LEMMA ParkInv ==
    ASSUME IInv, NEW k \in Keys, Park(k)
    PROVE  IInv'
<1> USE DEF IInv
<1>1. TypeOK'
  BY ChunkStepTyped DEF ChunkStep
<1>2. /\ current.keys = {k} /\ current.left = {} /\ parked = {}
      /\ parked' = {k} /\ current' = None /\ None.keys = {}
      /\ k \in usedKeys /\ phase = "parsing"
      /\ UNCHANGED <<version, diskVars, phase, onDiskKeys, durableHitKeys, todo, usedKeys,
                     quarantined, graph, tmp>>
  BY DEF Park, Consistent, None, TypeOK
<1>3. /\ Vouched(cache)' = Vouched(cache) /\ Vouched(durIndex)' = Vouched(durIndex)
      /\ Through' = Through
  BY <1>2 DEF Vouched, diskVars, Through
<1>4. Consistent'
  BY <1>2 DEF Consistent, diskVars
<1>5. RunStoreFilled'
  BY <1>2 DEF RunStoreFilled, diskVars
<1>6. ResultsAreCurrent' /\ Backed'
  BY <1>2, <1>3 DEF ResultsAreCurrent, Backed, diskVars
<1>7. LoopFits'
  BY <1>2, <1>3 DEF LoopFits, NotVouched, diskVars
<1>8. SavesFit' /\ CompleteIsServedNext'
  BY <1>2, <1>3 DEF SavesFit, CompleteIsServedNext, diskVars
<1>9. QED
  BY <1>1, <1>4, <1>5, <1>6, <1>7, <1>8

\* The results of a parked chunk are stored: all its shards are there.
LEMMA FinalizeInv ==
    ASSUME IInv, NEW k \in Keys, Finalize(k)
    PROVE  IInv'
<1> USE DEF IInv
<1>1. TypeOK'
  BY ChunkStepTyped DEF ChunkStep
<1>2. /\ parked = {k} /\ parked' = {} /\ k \in usedKeys /\ k \notin current.keys
      /\ phase = "parsing"
      /\ UNCHANGED <<version, durIndex, durShards, runStore, phase, durableHitKeys, todo,
                     current, usedKeys, quarantined, tmp>>
  BY DEF Finalize, Consistent, TypeOK
<1>3. /\ cache'.version = cache.version /\ cache'.keys = cache.keys
      /\ \A l \in Keys : cache'.shards[l] = IF l = k THEN version ELSE cache.shards[l]
      /\ onDiskKeys' = onDiskKeys \cup {k}
  BY DEF Finalize, Complete, Consistent, TypeOK, CacheDir
<1>4. Vouched(cache)' = Vouched(cache) /\ Vouched(durIndex)' = Vouched(durIndex)
  BY <1>2, <1>3 DEF Vouched
<1>5. Vouched(cache) \subseteq Keys
  BY VouchedListed DEF TypeOK, CacheDir
<1>6. Files \subseteq FilesOf(durShards[k])
  <2>1. Files \subseteq FilesOf(runStore[k])
    BY <1>2 DEF RunStoreFilled
  <2>2. \A n \in Named(runStore[k]) : durShards[k][n] = runStore[k][n]
    BY <1>2 DEF RunStoreFilled
  <2>3. FilesOf(runStore[k]) \subseteq FilesOf(durShards[k])
    BY <2>2, NoShardIsEmpty DEF FilesOf, Named
  <2>4. QED
    BY <2>1, <2>3
<1>7. Consistent'
  BY <1>2, <1>3 DEF Consistent
<1>8. RunStoreFilled'
  BY <1>2 DEF RunStoreFilled
<1>9. ResultsAreCurrent' /\ Backed'
  <2>1. \A l \in Keys : graph'[l] \in {0, version}
    BY DEF Finalize, ResultsAreCurrent, TypeOK
  <2>2. ResultsAreCurrent'
    BY <1>2, <1>3, <1>4, <1>5, <2>1 DEF ResultsAreCurrent
  <2>3. Backed'
    BY <1>2, <1>3, <1>4, <1>5, <1>6 DEF Backed
  <2>4. QED
    BY <2>2, <2>3
<1>10. LoopFits'
  <2>1. \A l \in current.keys : NotVouched(l)'
    BY <1>2, <1>3, <1>4, <1>5 DEF LoopFits, NotVouched
  <2>2. QED
    BY <1>2, <1>3, <1>4, <2>1 DEF LoopFits
<1>11. SavesFit' /\ CompleteIsServedNext'
  <2>1. Through' = Through \cup {k} /\ Through \subseteq Keys
    BY <1>2 DEF Through, TypeOK
  <2>2. QED
    BY <1>2, <1>3, <1>6, <2>1 DEF SavesFit, CompleteIsServedNext
<1>12. QED
  BY <1>1, <1>7, <1>8, <1>9, <1>10, <1>11

\* The run store has done its part when scope resolution begins.
LEMMA LoopEndsInv == IInv /\ (EndOfLoop \/ Resolve) => IInv'
<1> SUFFICES ASSUME IInv, EndOfLoop \/ Resolve
             PROVE  IInv'
  OBVIOUS
<1> USE DEF IInv
<1>1. TypeOK'
  BY StepTyped DEF Next
<1>2. /\ current = None /\ parked = {} /\ None.keys = {} /\ current' = None /\ parked' = {}
      /\ phase \in {"parsing", "resolving"} /\ phase' \in {"resolving", "saving"}
      /\ UNCHANGED <<version, cache, durIndex, durShards, usedKeys, quarantined, graph>>
  BY DEF EndOfLoop, Resolve, Consistent, None, diskVars, loopVars
<1>3. /\ Vouched(cache)' = Vouched(cache) /\ Vouched(durIndex)' = Vouched(durIndex)
      /\ Through' = Through
  BY <1>2 DEF Vouched, Through
<1>4. Consistent'
  BY <1>2 DEF Consistent
<1>5. RunStoreFilled'
  BY <1>2 DEF RunStoreFilled, EndOfLoop, Resolve, diskVars, loopVars
<1>6. ResultsAreCurrent' /\ Backed'
  BY <1>2, <1>3 DEF ResultsAreCurrent, Backed
<1>7. LoopFits' /\ CompleteIsServedNext'
  BY <1>2 DEF LoopFits, CompleteIsServedNext
<1>8. SavesFit'
  BY <1>2, <1>3 DEF SavesFit
<1>9. QED
  BY <1>1, <1>4, <1>5, <1>6, <1>7, <1>8

\* The new cache holds every chunk of the run, and replaces the old one.
LEMMA SaveCacheInv == IInv /\ (BuildTmp \/ RemoveEntry \/ RenameTmp) => IInv'
<1> SUFFICES ASSUME IInv, BuildTmp \/ RemoveEntry \/ RenameTmp
             PROVE  IInv'
  OBVIOUS
<1> USE DEF IInv
<1>1. TypeOK'
  BY StepTyped DEF Next
<1>2. version \in Nat \ {0} /\ usedKeys \subseteq Keys
  BY StoresAssumption DEF TypeOK, Versions
<1>3. /\ phase \in {"saving", "built"} /\ phase' \in {"built", "pruning"}
      /\ current = None /\ parked = {} /\ current' = None /\ parked' = {} /\ None.keys = {}
      /\ UNCHANGED <<version, durIndex, durShards, usedKeys, quarantined, graph>>
  BY DEF BuildTmp, RemoveEntry, RenameTmp, Consistent, None, diskVars, loopVars
<1>4. Vouched(durIndex)' = Vouched(durIndex) /\ Through' = Through /\ Through = usedKeys
  BY <1>3 DEF Vouched, Through
<1>5. RunStoreFilled' /\ LoopFits' /\ CompleteIsServedNext'
  BY <1>3 DEF RunStoreFilled, LoopFits, CompleteIsServedNext
<1>6. CASE BuildTmp
  <2>1. UNCHANGED cache /\ phase' = "built" /\ phase = "saving"
    BY <1>6 DEF BuildTmp, diskVars
  <2>2. Vouched(cache)' = Vouched(cache)
    BY <1>3, <2>1 DEF Vouched
  <2>3. Consistent' /\ ResultsAreCurrent' /\ Backed'
    BY <1>3, <1>4, <2>1, <2>2 DEF Consistent, ResultsAreCurrent, Backed
  <2>4. \A k \in usedKeys : cache.shards[k] = version
    BY <1>4, <2>1 DEF SavesFit
  <2>5. Kept = usedKeys
    BY <1>2, <2>4 DEF Kept
  <2>6. /\ tmp'.version = version /\ tmp'.keys = usedKeys
        /\ \A k \in usedKeys : tmp'.shards[k] = version
    BY <1>2, <1>6, <2>4, <2>5 DEF BuildTmp
  <2>7. SavesFit'
    BY <1>3, <1>4, <2>1, <2>6 DEF SavesFit
  <2>8. QED
    BY <1>1, <1>5, <2>3, <2>7
<1>7. CASE RemoveEntry
  <2>1. /\ phase = "built" /\ phase' = "built" /\ UNCHANGED tmp
        /\ cache'.version \in {0, cache.version}
        /\ cache'.keys # {} => cache'.version = cache.version
        /\ cache'.keys \subseteq cache.keys
        /\ \A k \in Keys : cache'.shards[k] \in {0, cache.shards[k]}
    <3>1. cache \in CacheDir
      BY DEF TypeOK
    <3>2. CASE cache' = [cache EXCEPT !.version = 0, !.keys = {}]
      BY <1>7, <3>1, <3>2 DEF RemoveEntry, CacheDir
    <3>3. ASSUME NEW k \in Keys, cache' = [cache EXCEPT !.shards[k] = 0]
          PROVE  /\ cache'.version = cache.version /\ cache'.keys = cache.keys
                 /\ \A l \in Keys : cache'.shards[l] \in {0, cache.shards[l]}
      BY <3>1, <3>3 DEF CacheDir
    <3>4. QED
      BY <1>7, <3>2, <3>3 DEF RemoveEntry
  <2>2. Vouched(cache)' \subseteq Vouched(cache) /\ Vouched(cache) \subseteq Keys
    <3>1. Vouched(cache)' \subseteq Vouched(cache)
      BY <1>3, <2>1 DEF Vouched
    <3>2. QED
      BY <3>1, VouchedListed DEF TypeOK, CacheDir
  <2>3. Consistent'
    BY <1>2, <1>3, <2>1 DEF Consistent
  <2>4. ResultsAreCurrent' /\ Backed'
    BY <1>3, <1>4, <2>1, <2>2 DEF ResultsAreCurrent, Backed
  <2>5. SavesFit'
    BY <1>3, <1>4, <2>1 DEF SavesFit
  <2>6. QED
    BY <1>1, <1>5, <2>3, <2>4, <2>5
<1>8. CASE RenameTmp
  <2>1. /\ phase = "built" /\ phase' = "pruning" /\ cache' = tmp
        /\ tmp.version = version /\ tmp.keys = usedKeys
        /\ \A k \in usedKeys : tmp.shards[k] = version
        /\ \A k \in usedKeys : Files \subseteq FilesOf(durShards[k])
    BY <1>4, <1>8 DEF RenameTmp, SavesFit
  <2>2. Vouched(cache)' = usedKeys
    BY <1>3, <2>1 DEF Vouched
  <2>3. Consistent'
    BY <1>2, <1>3, <2>1 DEF Consistent
  <2>4. ResultsAreCurrent' /\ Backed'
    BY <1>3, <1>4, <2>1, <2>2 DEF ResultsAreCurrent, Backed
  <2>5. SavesFit'
    BY <1>3, <1>4, <2>1 DEF SavesFit
  <2>6. QED
    BY <1>1, <1>5, <2>3, <2>4, <2>5
<1>9. QED
  BY <1>6, <1>7, <1>8

\* Only chunks that the new cache does not list lose their shards.
LEMMA PruneChunkInv ==
    ASSUME IInv, NEW k \in Keys, PruneChunk(k)
    PROVE  IInv'
<1> USE DEF IInv
<1>1. TypeOK'
  BY ChunkStepTyped DEF ChunkStep
<1>2. /\ phase = "pruning" /\ phase' = "pruning" /\ k \notin cache.keys
      /\ \A l \in Keys \ {k} : durShards'[l] = durShards[l]
      /\ UNCHANGED <<version, cache, durIndex, runStore, phase, loopVars, tmp>>
  BY DEF PruneChunk, Keeps, TypeOK
<1>3. /\ Vouched(cache)' = Vouched(cache) /\ Vouched(durIndex)' = Vouched(durIndex)
      /\ Vouched(cache) \subseteq Keys \ {k}
      /\ Through' = Through /\ Through \subseteq Keys \ {k}
  <2>1. Vouched(cache)' = Vouched(cache) /\ Vouched(durIndex)' = Vouched(durIndex)
    BY <1>2 DEF Vouched
  <2>2. Vouched(cache) \subseteq Keys \ {k}
    BY <1>2, VouchedListed DEF TypeOK, CacheDir
  <2>3. Through' = Through /\ Through \subseteq usedKeys /\ usedKeys = cache.keys
    BY <1>2 DEF Through, loopVars, SavesFit
  <2>4. QED
    BY <1>2, <2>1, <2>2, <2>3 DEF TypeOK
<1>4. Consistent'
  BY <1>2 DEF Consistent, loopVars
<1>5. RunStoreFilled' /\ LoopFits' /\ CompleteIsServedNext'
  BY <1>2 DEF RunStoreFilled, LoopFits, CompleteIsServedNext
<1>6. ResultsAreCurrent' /\ Backed'
  BY <1>2, <1>3 DEF ResultsAreCurrent, Backed, loopVars
<1>7. SavesFit'
  BY <1>2, <1>3 DEF SavesFit, loopVars
<1>8. QED
  BY <1>1, <1>4, <1>5, <1>6, <1>7

\* The last step of a run: what it used is in both indexes.
LEMMA SaveDurableIndexInv == IInv /\ SaveDurableIndex => IInv'
<1> SUFFICES ASSUME IInv, SaveDurableIndex
             PROVE  IInv'
  OBVIOUS
<1> USE DEF IInv
<1>1. TypeOK'
  BY StepTyped DEF Next
<1>2. version \in Nat \ {0} /\ usedKeys \subseteq Keys
  BY StoresAssumption DEF TypeOK, Versions
<1>3. /\ phase = "pruning" /\ phase' = "idle"
      /\ durIndex'.version = version
      /\ durIndex'.keys = {k \in Keys : Named(durShards[k]) # {}}
      /\ UNCHANGED <<version, cache, durShards, runStore, loopVars, tmp>>
  BY DEF SaveDurableIndex
<1>4. /\ cache.version = version /\ cache.keys = usedKeys
      /\ \A k \in usedKeys : cache.shards[k] = version /\ Files \subseteq FilesOf(durShards[k])
  BY <1>3 DEF SavesFit, Consistent, None, Through
<1>5. /\ Vouched(cache)' = usedKeys /\ Vouched(cache) = usedKeys
      /\ Vouched(durIndex)' = durIndex'.keys
  BY <1>3, <1>4 DEF Vouched
<1>6. Consistent'
  BY <1>2, <1>3 DEF Consistent, loopVars
<1>7. RunStoreFilled' /\ LoopFits' /\ SavesFit'
  BY <1>3 DEF RunStoreFilled, LoopFits, SavesFit
<1>8. ResultsAreCurrent' /\ Backed'
  BY <1>3, <1>4, <1>5 DEF ResultsAreCurrent, Backed, loopVars
<1>9. CompleteIsServedNext'
  <2>1. \A k \in usedKeys : Named(durShards[k]) # {}
    <3> SUFFICES ASSUME NEW k \in usedKeys
                 PROVE  Named(durShards[k]) # {}
      OBVIOUS
    <3>1. PICK n \in Names : durShards[k][n].files # {}
      BY <1>4, StoresAssumption DEF FilesOf
    <3>2. QED
      BY <3>1, NoShardIsEmpty DEF Named
  <2>2. \A k \in usedKeys : k \in durIndex'.keys
    BY <1>2, <1>3, <2>1
  <2>3. usedKeys' = usedKeys /\ cache' = cache
    BY <1>3 DEF loopVars
  <2>4. QED
    BY <1>2, <1>4, <1>5, <2>2, <2>3 DEF CompleteIsServedNext
<1>10. QED
  BY <1>1, <1>6, <1>7, <1>8, <1>9

\* A crash forgets the run and keeps the disk; an upgrade outdates both indexes.
LEMMA EnvironmentInv == IInv /\ (Crash \/ Upgrade) => IInv'
<1> SUFFICES ASSUME IInv, Crash \/ Upgrade
             PROVE  IInv'
  OBVIOUS
<1> USE DEF IInv
<1>1. TypeOK'
  BY StepTyped DEF Next
<1>2. /\ phase' = "idle" /\ FreshLoop
      /\ UNCHANGED <<cache, durIndex, durShards>>
  BY DEF Crash, Upgrade, diskVars
<1>3. /\ usedKeys' = {} /\ current' = None /\ parked' = {} /\ None.keys = {}
      /\ \A k \in Keys : quarantined'[k] = {} /\ graph'[k] = 0
  BY <1>2 DEF FreshLoop, None
<1>4. RunStoreFilled' /\ LoopFits' /\ SavesFit' /\ CompleteIsServedNext'
  BY <1>2, <1>3 DEF RunStoreFilled, LoopFits, SavesFit, CompleteIsServedNext
<1>5. /\ version \in Nat /\ cache.version \in Nat /\ durIndex.version \in Nat
      /\ cache.version <= version /\ durIndex.version <= version
  BY StoresAssumption DEF TypeOK, Versions, CacheDir, Index, Consistent
<1>6. version' = version \/ version' = version + 1
  BY DEF Crash, Upgrade
<1>7. Consistent'
  BY <1>2, <1>3, <1>5, <1>6 DEF Consistent
<1>8. ResultsAreCurrent' /\ Backed'
  <2>1. CASE version' = version
    BY <1>2, <1>3, <2>1 DEF ResultsAreCurrent, Backed, Vouched
  <2>2. CASE version' = version + 1
    <3>1. Vouched(cache)' = {}
      BY <1>2, <1>5, <2>2 DEF Vouched
    <3>2. QED
      BY <1>3, <3>1 DEF ResultsAreCurrent, Backed
  <2>3. QED
    BY <1>6, <2>1, <2>2
<1>9. QED
  BY <1>1, <1>4, <1>7, <1>8

LEMMA StoresInductive ==
    ASSUME ~MayQuarantine, IInv, [Next]_vars
    PROVE  IInv'
<1>1. ASSUME NEW k \in Keys, ChunkStep(k)
      PROVE  IInv'
  <2>1. ~GiveUp(k)
    BY DEF GiveUp
  <2>2. QED
    BY <1>1, <2>1, HitInv, DispatchInv, WriteInv, ParkInv, FinalizeInv, PruneChunkInv
       DEF ChunkStep
<1>2. CASE UNCHANGED vars
  BY <1>2 DEF vars, diskVars, loopVars, IInv, TypeOK, Consistent, RunStoreFilled,
              ResultsAreCurrent, Backed, LoopFits, NotVouched, SavesFit, Through,
              CompleteIsServedNext, Vouched
<1>3. QED
  BY <1>1, <1>2, StartRunInv, LoopEndsInv, SaveCacheInv, SaveDurableIndexInv, EnvironmentInv
     DEF Next

LEMMA StoresInvariant ==
    ASSUME ~MayQuarantine
    PROVE  Spec => []IInv
<1>1. IInv /\ [Next]_vars => IInv'
  BY StoresInductive
<1>2. QED
  BY <1>1, StoresInitially, PTL DEF Spec

\* As long as the worker pool gives up no file, and over any number of runs,
\* crashes and upgrades: scope resolution has the ParsedFiles of every file, and
\* the indexes vouch only for what is there.
THEOREM StoresAreSound ==
    ASSUME ~MayQuarantine
    PROVE  Spec => [](ServedIsComplete /\ HitIsBacked)
<1>1. IInv => ServedIsComplete
  BY DEF IInv, ServedIsComplete, RunStoreFilled, Consistent, None
<1>2. IInv => HitIsBacked
  <2> SUFFICES ASSUME IInv
               PROVE  HitIsBacked
    OBVIOUS
  <2>1. \A k \in Keys : FilesOf(durShards[k]) \subseteq Files
    BY DEF IInv, TypeOK, Shard, FilesOf
  <2>2. Vouched(cache) \subseteq Keys
    BY VouchedListed DEF IInv, TypeOK, CacheDir
  <2>3. QED
    BY <2>1, <2>2 DEF IInv, HitIsBacked, Backed
<1>3. QED
  BY <1>1, <1>2, StoresInvariant, PTL

\* Under the same condition no graph is built from parse results of another
\* version, however many versions were installed and runs cut short before.
THEOREM GraphNeverMixesVersions ==
    ASSUME ~MayQuarantine
    PROVE  Spec => []GraphIsCurrent
<1>1. IInv => GraphIsCurrent
  BY DEF IInv, GraphIsCurrent, ResultsAreCurrent, TypeOK
<1>2. QED
  BY <1>1, StoresInvariant, PTL

\* Under the same condition a run that got to its end is served from both stores
\* by the next, whatever the runs before it left.
THEOREM FinishedRunIsServed ==
    ASSUME ~MayQuarantine
    PROVE  Spec => []CompleteIsServedNext
<1>1. IInv => CompleteIsServedNext
  BY DEF IInv
<1>2. QED
  BY <1>1, StoresInvariant, PTL

-----------------------------------------------------------------------------
(* The stores when files are given up, but every run gets to its end *)

\* One chunk at a time is dispatched, and one parked, while the loop runs.
OneAtATime ==
    /\ \A k, l \in current.keys : k = l
    /\ \A k, l \in parked : k = l
    /\ current.keys \cap parked = {}
    /\ phase # "parsing" => current = None /\ parked = {}

\* What is left of the chunk being dispatched.
LeftOf(k) == IF k \in current.keys THEN current.left ELSE {}

\* The run store has every file of a touched chunk that was not given up, but for
\* what is left, and all of it is in the durable store.
RunStoreFilledButForQuarantine ==
    phase \in {"parsing", "resolving"} =>
        /\ \A k \in usedKeys : Files \subseteq FilesOf(runStore[k]) \cup LeftOf(k) \cup quarantined[k]
        /\ \A k \in Keys : \A n \in Named(runStore[k]) :
             k \in usedKeys /\ durShards[k][n] = runStore[k][n]

\* Results are stored for whole chunks only, and not for one that lost a file.
ResultsAreWhole ==
    \A k \in Keys :
        /\ cache.shards[k] # 0 => quarantined[k] = {} /\ Files \subseteq FilesOf(durShards[k])
        /\ phase = "built" /\ tmp.shards[k] # 0 =>
             quarantined[k] = {} /\ Files \subseteq FilesOf(durShards[k])

\* A stored result is in both indexes, unless it is one of this run.
ResultsAreListed ==
    phase \in {"idle", "parsing", "resolving", "saving"} =>
        \A k \in Keys : cache.shards[k] # 0 =>
            \/ k \in Vouched(cache) /\ k \in Vouched(durIndex)
            \/ phase # "idle" /\ k \in Through

\* So a chunk is dispatched only if it has no result yet.
DispatchedHaveNoResult ==
    phase = "parsing" =>
        /\ durableHitKeys = Vouched(durIndex) /\ Vouched(cache) \subseteq onDiskKeys
        /\ \A k \in current.keys \cup parked : cache.shards[k] = 0

\* What becomes of the results of this run.
ResultsAreKept ==
    /\ phase \in {"parsing", "resolving", "saving"} =>
         \A k \in Through : quarantined[k] = {} => cache.shards[k] # 0
    /\ phase = "built" =>
         /\ tmp.version = version /\ tmp.keys = {k \in Keys : tmp.shards[k] # 0}
         /\ \A k \in usedKeys : quarantined[k] = {} => tmp.shards[k] # 0
    /\ phase = "pruning" =>
         /\ cache.version = version /\ cache.keys = {k \in Keys : cache.shards[k] # 0}
         /\ \A k \in usedKeys : quarantined[k] = {} => cache.shards[k] # 0
    /\ phase = "idle" =>
         /\ durIndex.keys \subseteq cache.keys
         /\ \A k \in cache.keys : cache.shards[k] # 0
         /\ \A k \in usedKeys : quarantined[k] = {} => cache.shards[k] # 0

QInv ==
    /\ TypeOK /\ OneAtATime /\ RunStoreFilledButForQuarantine /\ ResultsAreWhole
    /\ ResultsAreListed /\ DispatchedHaveNoResult /\ ResultsAreKept

LEMMA QuarantineInitially == Init => QInv
<1> SUFFICES ASSUME Init
             PROVE  QInv
  OBVIOUS
<1>1. TypeOK
  BY InitTyped
<1>2. usedKeys = {} /\ \A k \in Keys : cache.shards[k] = 0
  BY DEF Init, NoCache
<1>3. OneAtATime
  BY DEF Init, OneAtATime, None
<1>4. ResultsAreKept
  BY <1>2 DEF Init, ResultsAreKept, NoCache
<1>5. QED
  BY <1>1, <1>2, <1>3, <1>4
     DEF QInv, Init, RunStoreFilledButForQuarantine, ResultsAreWhole, ResultsAreListed,
         DispatchedHaveNoResult

LEMMA StartRunQuarantine ==
    ASSUME QInv, StartRun
    PROVE  QInv'
<1> USE DEF QInv
<1>1. TypeOK'
  BY StartRunTyped
<1>2. /\ usedKeys' = {} /\ current'.keys = {} /\ parked' = {}
      /\ phase = "idle" /\ phase' = "parsing"
      /\ \A k \in Keys : quarantined'[k] = {}
      /\ Vouched(cache)' = Vouched(cache) /\ Vouched(durIndex)' = Vouched(durIndex)
      /\ UNCHANGED <<cache, durShards>>
  BY DEF StartRun, None, Vouched
<1>3. OneAtATime'
  BY <1>2 DEF OneAtATime
<1>4. RunStoreFilledButForQuarantine'
  BY <1>2, NoShardIsEmpty DEF RunStoreFilledButForQuarantine, StartRun
<1>5. ResultsAreWhole'
  BY <1>2 DEF ResultsAreWhole
<1>6. ResultsAreListed'
  BY <1>2 DEF ResultsAreListed
<1>7. DispatchedHaveNoResult'
  BY <1>2 DEF DispatchedHaveNoResult, StartRun
<1>8. ResultsAreKept'
  BY <1>2 DEF ResultsAreKept, Through
<1>9. QED
  BY <1>1, <1>3, <1>4, <1>5, <1>6, <1>7, <1>8

\* A hit restores all shards of a chunk that lost no file.
LEMMA HitQuarantine ==
    ASSUME QInv, NEW k \in Keys, Hit(k)
    PROVE  QInv'
<1> USE DEF QInv
<1>1. TypeOK'
  BY ChunkStepTyped DEF ChunkStep
<1>2. /\ phase = "parsing" /\ phase' = "parsing" /\ current = None /\ parked = {}
      /\ current' = None /\ parked' = {} /\ k \notin usedKeys /\ usedKeys' = usedKeys \cup {k}
      /\ None.keys = {} /\ usedKeys \subseteq Keys
  BY DEF Hit, Comes, Touch, TypeOK, None
<1>3. /\ Vouched(cache)' = Vouched(cache) /\ Vouched(durIndex)' = Vouched(durIndex)
      /\ UNCHANGED <<cache, durShards, quarantined, onDiskKeys, durableHitKeys>>
  BY DEF Hit, Vouched
<1>4. cache.shards[k] # 0 /\ Files \subseteq FilesOf(durShards[k])
  BY DEF Hit, Cached, ResultsAreWhole
<1>5. Through' = Through \cup {k}
  BY <1>2 DEF Through
<1>6. OneAtATime'
  BY <1>2 DEF OneAtATime
<1>7. runStore'[k] = durShards[k] /\ \A l \in Keys \ {k} : runStore'[l] = runStore[l]
  BY DEF Hit, TypeOK
<1>8. RunStoreFilledButForQuarantine'
  BY <1>2, <1>3, <1>4, <1>7 DEF RunStoreFilledButForQuarantine, LeftOf
<1>9. ResultsAreWhole'
  BY <1>2, <1>3 DEF ResultsAreWhole
<1>10. ResultsAreListed'
  BY <1>2, <1>3, <1>5 DEF ResultsAreListed
<1>11. DispatchedHaveNoResult'
  BY <1>2, <1>3 DEF DispatchedHaveNoResult
<1>12. ResultsAreKept'
  BY <1>2, <1>3, <1>4, <1>5 DEF ResultsAreKept
<1>13. QED
  BY <1>1, <1>6, <1>8, <1>9, <1>10, <1>11, <1>12

\* A chunk that is dispatched has no result: one that has is in both indexes.
LEMMA DispatchQuarantine ==
    ASSUME QInv, NEW k \in Keys, Dispatch(k)
    PROVE  QInv'
<1> USE DEF QInv
<1>1. TypeOK'
  BY ChunkStepTyped DEF ChunkStep
<1>2. /\ phase = "parsing" /\ phase' = "parsing" /\ current = None /\ None.keys = {}
      /\ current'.keys = {k} /\ current'.left = Files /\ UNCHANGED parked
      /\ k \notin usedKeys /\ k \notin parked /\ usedKeys' = usedKeys \cup {k}
  BY DEF Dispatch, Comes, Touch, TypeOK, None
<1>3. /\ Vouched(cache)' = Vouched(cache) /\ Vouched(durIndex)' = Vouched(durIndex)
      /\ UNCHANGED <<cache, durShards, runStore, quarantined, onDiskKeys, durableHitKeys>>
  BY DEF Dispatch, Vouched, diskVars
<1>4. Through' = Through /\ k \notin Through
  BY <1>2 DEF Through
<1>5. cache.shards[k] = 0
  <2>1. CASE k \in Vouched(cache) /\ k \in Vouched(durIndex)
    BY <1>2, <2>1 DEF Dispatch, Cached, DispatchedHaveNoResult
  <2>2. QED
    BY <1>2, <1>4, <2>1 DEF ResultsAreListed
<1>6. OneAtATime'
  BY <1>2 DEF OneAtATime
<1>7. RunStoreFilledButForQuarantine'
  BY <1>2, <1>3 DEF RunStoreFilledButForQuarantine, LeftOf
<1>8. ResultsAreWhole'
  BY <1>2, <1>3 DEF ResultsAreWhole
<1>9. ResultsAreListed' /\ ResultsAreKept'
  BY <1>2, <1>3, <1>4 DEF ResultsAreListed, ResultsAreKept
<1>10. DispatchedHaveNoResult'
  BY <1>2, <1>3, <1>5 DEF DispatchedHaveNoResult
<1>11. QED
  BY <1>1, <1>6, <1>7, <1>8, <1>9, <1>10

LEMMA WriteQuarantine ==
    ASSUME QInv, NEW k \in Keys, Flush(k) \/ FlushLost(k)
    PROVE  QInv'
<1> USE DEF QInv
<1>1. TypeOK'
  BY ChunkStepTyped DEF ChunkStep
<1>2. /\ k \in current.keys /\ current'.keys = current.keys
      /\ UNCHANGED <<version, cache, durIndex, phase, onDiskKeys, durableHitKeys, parked,
                     usedKeys, quarantined, tmp>>
  BY DEF Flush, FlushLost, TypeOK, loopVars
<1>3. phase = "parsing" /\ k \in usedKeys /\ cache.shards[k] = 0 /\ current.keys = {k}
  BY <1>2 DEF OneAtATime, None, TypeOK, DispatchedHaveNoResult
<1>4. PICK n \in Names \ Named(runStore[k]), files \in SUBSET Files :
        /\ WriteShard(k, n, files)
        /\ current.left \subseteq current'.left \cup files
  BY ZenonT(60) DEF Flush, FlushLost, TypeOK, loopVars
<1>5. /\ FilesOf(runStore'[k]) = FilesOf(runStore[k]) \cup files
      /\ durShards'[k][n] = runStore'[k][n]
      /\ \A m \in Names \ {n} : /\ durShards'[k][m] = durShards[k][m]
                                /\ runStore'[k][m] = runStore[k][m]
      /\ \A l \in Keys \ {k} : durShards'[l] = durShards[l] /\ runStore'[l] = runStore[l]
  BY <1>4, WriteShardFills
<1>6. /\ Vouched(cache)' = Vouched(cache) /\ Vouched(durIndex)' = Vouched(durIndex)
      /\ Through' = Through
  BY <1>2 DEF Vouched, Through
<1>7. OneAtATime'
  BY <1>2, <1>3 DEF OneAtATime
<1>8. RunStoreFilledButForQuarantine'
  <2>1. \A l \in Keys : \A m \in Named(runStore'[l]) :
          l \in usedKeys /\ durShards'[l][m] = runStore'[l][m]
    <3> SUFFICES ASSUME NEW l \in Keys, NEW m \in Named(runStore'[l])
                 PROVE  l \in usedKeys /\ durShards'[l][m] = runStore'[l][m]
      OBVIOUS
    <3>1. CASE l # k
      BY <1>3, <1>5, <3>1 DEF RunStoreFilledButForQuarantine, Named
    <3>2. CASE l = k /\ m # n
      BY <1>3, <1>5, <3>2 DEF RunStoreFilledButForQuarantine, Named
    <3>3. CASE l = k /\ m = n
      BY <1>3, <1>5, <3>3
    <3>4. QED
      BY <3>1, <3>2, <3>3
  <2>2. Files \subseteq FilesOf(runStore'[k]) \cup current'.left \cup quarantined[k]
    <3>1. Files \subseteq FilesOf(runStore[k]) \cup current.left \cup quarantined[k]
      BY <1>3 DEF RunStoreFilledButForQuarantine, LeftOf
    <3>2. QED
      BY <1>4, <1>5, <3>1
  <2>3. \A l \in usedKeys \ {k} : Files \subseteq FilesOf(runStore'[l]) \cup quarantined[l]
    BY <1>3, <1>5 DEF RunStoreFilledButForQuarantine, LeftOf, TypeOK
  <2>4. QED
    BY <1>2, <1>3, <2>1, <2>2, <2>3 DEF RunStoreFilledButForQuarantine, LeftOf
<1>9. ResultsAreWhole'
  BY <1>2, <1>3, <1>5 DEF ResultsAreWhole
<1>10. ResultsAreListed' /\ ResultsAreKept'
  BY <1>2, <1>3, <1>6 DEF ResultsAreListed, ResultsAreKept
<1>11. DispatchedHaveNoResult'
  BY <1>2, <1>6 DEF DispatchedHaveNoResult
<1>12. QED
  BY <1>1, <1>7, <1>8, <1>9, <1>10, <1>11

\* A file is given up, or the chunk is parked.
LEMMA SettleQuarantine ==
    ASSUME QInv, NEW k \in Keys, GiveUp(k) \/ Park(k)
    PROVE  QInv'
<1> USE DEF QInv
<1>1. TypeOK'
  BY ChunkStepTyped DEF ChunkStep
<1>2. /\ k \in current.keys
      /\ UNCHANGED <<version, diskVars, phase, onDiskKeys, durableHitKeys, usedKeys, tmp>>
  BY DEF GiveUp, Park
<1>3. /\ phase = "parsing" /\ k \in usedKeys /\ cache.shards[k] = 0 /\ current.keys = {k}
      /\ None.keys = {}
  BY <1>2 DEF OneAtATime, None, TypeOK, DispatchedHaveNoResult
<1>4. /\ Vouched(cache)' = Vouched(cache) /\ Vouched(durIndex)' = Vouched(durIndex)
      /\ UNCHANGED <<cache, durIndex, durShards, runStore>>
  BY <1>2 DEF Vouched, diskVars
<1>5. /\ current'.keys \cup parked' = current.keys \cup parked /\ Through' = Through
      /\ k \notin Through
  BY <1>2, <1>3 DEF GiveUp, Park, Through, TypeOK
<1>6. OneAtATime'
  BY <1>2, <1>3 DEF OneAtATime, GiveUp, Park, TypeOK
<1>7. \A l \in Keys \ {k} : quarantined'[l] = quarantined[l]
  BY DEF GiveUp, Park, TypeOK
<1>8. RunStoreFilledButForQuarantine'
  <2>1. Files \subseteq FilesOf(runStore[k]) \cup current.left \cup quarantined[k]
    BY <1>3 DEF RunStoreFilledButForQuarantine, LeftOf
  <2>2. Files \subseteq FilesOf(runStore[k]) \cup LeftOf(k)' \cup quarantined'[k]
    <3>1. CASE GiveUp(k)
      <4>1. PICK f \in current.left : /\ current' = [current EXCEPT !.left = @ \ {f}]
                                      /\ quarantined' = [quarantined EXCEPT ![k] = @ \cup {f}]
        BY <3>1 DEF GiveUp
      <4>2. /\ current'.keys = {k} /\ current'.left = current.left \ {f}
            /\ quarantined'[k] = quarantined[k] \cup {f}
        BY <1>3, <4>1 DEF TypeOK
      <4>3. QED
        BY <2>1, <4>2 DEF LeftOf
    <3>2. CASE Park(k)
      BY <1>3, <2>1, <3>2 DEF Park, LeftOf
    <3>3. QED
      BY <3>1, <3>2
  <2>3. \A l \in usedKeys \ {k} :
          Files \subseteq FilesOf(runStore[l]) \cup LeftOf(l)' \cup quarantined'[l]
    <3>1. \A l \in usedKeys \ {k} : l \in Keys /\ LeftOf(l) = {}
      BY <1>3 DEF LeftOf, TypeOK
    <3>2. QED
      BY <1>3, <1>7, <3>1 DEF RunStoreFilledButForQuarantine
  <2>4. QED
    BY <1>2, <1>3, <1>4, <2>2, <2>3 DEF RunStoreFilledButForQuarantine
<1>9. ResultsAreWhole'
  BY <1>2, <1>3, <1>4, <1>7 DEF ResultsAreWhole
<1>10. ResultsAreListed'
  BY <1>2, <1>4, <1>5 DEF ResultsAreListed
<1>11. ResultsAreKept'
  <2>1. Through \subseteq Keys \ {k}
    BY <1>5 DEF Through, TypeOK
  <2>2. QED
    BY <1>2, <1>3, <1>4, <1>5, <1>7, <2>1 DEF ResultsAreKept
<1>12. DispatchedHaveNoResult'
  BY <1>2, <1>4, <1>5 DEF DispatchedHaveNoResult
<1>13. QED
  BY <1>1, <1>6, <1>8, <1>9, <1>10, <1>11, <1>12

\* The results of a parked chunk are stored if it lost no file.
LEMMA FinalizeQuarantine ==
    ASSUME QInv, NEW k \in Keys, Finalize(k)
    PROVE  QInv'
<1> USE DEF QInv
<1>1. TypeOK'
  BY ChunkStepTyped DEF ChunkStep
<1>2. /\ parked = {k} /\ parked' = {} /\ k \in usedKeys /\ k \notin current.keys
      /\ phase = "parsing" /\ cache.shards[k] = 0
      /\ UNCHANGED <<version, durIndex, durShards, runStore, phase, durableHitKeys,
                     current, usedKeys, quarantined, tmp>>
  BY DEF Finalize, OneAtATime, TypeOK, DispatchedHaveNoResult
<1>3. /\ cache'.version = cache.version /\ cache'.keys = cache.keys
      /\ \A l \in Keys \ {k} : cache'.shards[l] = cache.shards[l]
      /\ cache'.shards[k] = IF quarantined[k] = {} THEN version ELSE 0
      /\ onDiskKeys \subseteq onDiskKeys'
  <2>1. CASE quarantined[k] = {}
    <3>1. cache' = [cache EXCEPT !.shards[k] = version] /\ onDiskKeys \subseteq onDiskKeys'
      BY <2>1 DEF Finalize, Complete
    <3>2. QED
      BY <2>1, <3>1 DEF TypeOK, CacheDir
  <2>2. CASE quarantined[k] # {}
    BY <1>2, <2>2 DEF Finalize, Complete
  <2>3. QED
    BY <2>1, <2>2
<1>4. /\ Vouched(cache)' = Vouched(cache) /\ Vouched(durIndex)' = Vouched(durIndex)
      /\ Through' = Through \cup {k} /\ Through \subseteq Keys /\ version # 0
  BY <1>2, <1>3, StoresAssumption DEF Vouched, Through, TypeOK, Versions
<1>5. quarantined[k] = {} => Files \subseteq FilesOf(durShards[k])
  <2>1. Files \subseteq FilesOf(runStore[k]) \cup quarantined[k]
    BY <1>2 DEF RunStoreFilledButForQuarantine, LeftOf
  <2>2. \A n \in Named(runStore[k]) : durShards[k][n] = runStore[k][n]
    BY <1>2 DEF RunStoreFilledButForQuarantine
  <2>3. FilesOf(runStore[k]) \subseteq FilesOf(durShards[k])
    BY <2>2, NoShardIsEmpty DEF FilesOf, Named
  <2>4. QED
    BY <2>1, <2>3
<1>6. OneAtATime'
  BY <1>2 DEF OneAtATime
<1>7. RunStoreFilledButForQuarantine'
  BY <1>2 DEF RunStoreFilledButForQuarantine, LeftOf
<1>8. ResultsAreWhole'
  BY <1>2, <1>3, <1>5 DEF ResultsAreWhole
<1>9. ResultsAreListed'
  BY <1>2, <1>3, <1>4 DEF ResultsAreListed
<1>10. ResultsAreKept'
  BY <1>2, <1>3, <1>4 DEF ResultsAreKept
<1>11. DispatchedHaveNoResult'
  <2>1. current.keys \subseteq Keys \ {k}
    BY <1>2 DEF TypeOK
  <2>2. QED
    BY <1>2, <1>3, <1>4, <2>1 DEF DispatchedHaveNoResult
<1>12. QED
  BY <1>1, <1>6, <1>7, <1>8, <1>9, <1>10, <1>11

LEMMA LoopEndsQuarantine ==
    ASSUME QInv, EndOfLoop \/ Resolve
    PROVE  QInv'
<1> USE DEF QInv
<1>1. TypeOK'
  BY StepTyped DEF Next
<1>2. /\ current = None /\ parked = {} /\ None.keys = {} /\ current' = None /\ parked' = {}
      /\ phase \in {"parsing", "resolving"} /\ phase' \in {"resolving", "saving"}
      /\ UNCHANGED <<version, cache, durIndex, durShards, usedKeys, quarantined>>
  BY DEF EndOfLoop, Resolve, OneAtATime, None, diskVars, loopVars
<1>3. /\ Vouched(cache)' = Vouched(cache) /\ Vouched(durIndex)' = Vouched(durIndex)
      /\ Through' = Through
  BY <1>2 DEF Vouched, Through
<1>4. OneAtATime'
  BY <1>2 DEF OneAtATime
<1>5. RunStoreFilledButForQuarantine'
  BY <1>2 DEF RunStoreFilledButForQuarantine, LeftOf, EndOfLoop, Resolve, diskVars, loopVars
<1>6. ResultsAreWhole' /\ DispatchedHaveNoResult'
  BY <1>2 DEF ResultsAreWhole, DispatchedHaveNoResult
<1>7. ResultsAreListed' /\ ResultsAreKept'
  BY <1>2, <1>3 DEF ResultsAreListed, ResultsAreKept
<1>8. QED
  BY <1>1, <1>4, <1>5, <1>6, <1>7

\* The new cache holds the results of this run, and replaces the old one.
LEMMA SaveCacheQuarantine ==
    ASSUME QInv, BuildTmp \/ RemoveEntry \/ RenameTmp
    PROVE  QInv'
<1> USE DEF QInv
<1>1. TypeOK'
  BY StepTyped DEF Next
<1>2. /\ phase \in {"saving", "built"} /\ phase' \in {"built", "pruning"}
      /\ current = None /\ parked = {} /\ current' = None /\ parked' = {} /\ None.keys = {}
      /\ usedKeys \subseteq Keys
      /\ UNCHANGED <<version, durIndex, durShards, usedKeys, quarantined>>
  BY DEF BuildTmp, RemoveEntry, RenameTmp, OneAtATime, None, diskVars, loopVars, TypeOK
<1>3. Through = usedKeys
  BY <1>2 DEF Through
<1>4. OneAtATime'
  BY <1>2 DEF OneAtATime
<1>5. RunStoreFilledButForQuarantine' /\ ResultsAreListed' /\ DispatchedHaveNoResult'
  BY <1>2 DEF RunStoreFilledButForQuarantine, ResultsAreListed, DispatchedHaveNoResult
<1>6. CASE BuildTmp
  <2>1. UNCHANGED cache /\ phase = "saving" /\ phase' = "built"
    BY <1>6 DEF BuildTmp, diskVars
  <2>2. /\ tmp'.version = version /\ tmp'.keys = Kept
        /\ \A k \in Keys : tmp'.shards[k] = IF k \in Kept THEN cache.shards[k] ELSE 0
    BY <1>6 DEF BuildTmp
  <2>3. ResultsAreWhole'
    BY <1>2, <2>1, <2>2 DEF ResultsAreWhole, Kept
  <2>4. tmp'.keys = {k \in Keys : tmp'.shards[k] # 0}
    BY <1>2, <2>2 DEF Kept
  <2>5. \A k \in usedKeys : quarantined[k] = {} => tmp'.shards[k] # 0
    BY <1>2, <1>3, <2>1, <2>2 DEF ResultsAreKept, Kept
  <2>6. ResultsAreKept'
    BY <1>2, <2>1, <2>2, <2>4, <2>5 DEF ResultsAreKept
  <2>7. QED
    BY <1>1, <1>4, <1>5, <2>3, <2>6
<1>7. CASE RemoveEntry
  <2>1. /\ phase = "built" /\ phase' = "built" /\ UNCHANGED tmp
        /\ \A k \in Keys : cache'.shards[k] \in {0, cache.shards[k]}
    <3>1. cache \in CacheDir
      BY DEF TypeOK
    <3>2. CASE cache' = [cache EXCEPT !.version = 0, !.keys = {}]
      BY <1>7, <3>1, <3>2 DEF RemoveEntry, CacheDir
    <3>3. ASSUME NEW k \in Keys, cache' = [cache EXCEPT !.shards[k] = 0]
          PROVE  \A l \in Keys : cache'.shards[l] \in {0, cache.shards[l]}
      BY <3>1, <3>3 DEF CacheDir
    <3>4. QED
      BY <1>7, <3>2, <3>3 DEF RemoveEntry
  <2>2. ResultsAreWhole'
    BY <1>2, <2>1 DEF ResultsAreWhole
  <2>3. ResultsAreKept'
    BY <1>2, <2>1 DEF ResultsAreKept
  <2>4. QED
    BY <1>1, <1>4, <1>5, <2>2, <2>3
<1>8. CASE RenameTmp
  <2>1. phase = "built" /\ phase' = "pruning" /\ cache' = tmp
    BY <1>8 DEF RenameTmp
  <2>2. ResultsAreWhole'
    BY <1>2, <2>1 DEF ResultsAreWhole
  <2>3. ResultsAreKept'
    BY <1>2, <2>1 DEF ResultsAreKept
  <2>4. QED
    BY <1>1, <1>4, <1>5, <2>2, <2>3
<1>9. QED
  BY <1>6, <1>7, <1>8

\* Only chunks without a result lose their shards.
LEMMA PruneChunkQuarantine ==
    ASSUME QInv, NEW k \in Keys, PruneChunk(k)
    PROVE  QInv'
<1> USE DEF QInv
<1>1. TypeOK'
  BY ChunkStepTyped DEF ChunkStep
<1>2. /\ phase = "pruning" /\ phase' = "pruning" /\ k \notin cache.keys
      /\ \A l \in Keys \ {k} : durShards'[l] = durShards[l]
      /\ UNCHANGED <<version, cache, durIndex, runStore, phase, loopVars, tmp>>
  BY DEF PruneChunk, Keeps, TypeOK
<1>3. cache.shards[k] = 0
  BY <1>2 DEF ResultsAreKept
<1>4. OneAtATime'
  BY <1>2 DEF OneAtATime, loopVars
<1>5. RunStoreFilledButForQuarantine' /\ ResultsAreListed' /\ DispatchedHaveNoResult'
  BY <1>2 DEF RunStoreFilledButForQuarantine, ResultsAreListed, DispatchedHaveNoResult
<1>6. ResultsAreWhole'
  BY <1>2, <1>3 DEF ResultsAreWhole, loopVars
<1>7. ResultsAreKept'
  BY <1>2 DEF ResultsAreKept, loopVars
<1>8. QED
  BY <1>1, <1>4, <1>5, <1>6, <1>7

\* A stored result has its shards: it gets into both indexes.
LEMMA SaveDurableIndexQuarantine ==
    ASSUME QInv, SaveDurableIndex
    PROVE  QInv'
<1> USE DEF QInv
<1>1. TypeOK'
  BY StepTyped DEF Next
<1>2. /\ phase = "pruning" /\ phase' = "idle"
      /\ \A k \in Keys : Named(durShards[k]) # {} => k \in cache.keys
      /\ durIndex'.version = version
      /\ durIndex'.keys = {k \in Keys : Named(durShards[k]) # {}}
      /\ UNCHANGED <<version, cache, durShards, runStore, loopVars, tmp>>
  BY DEF SaveDurableIndex, Keeps
<1>3. cache.version = version /\ cache.keys = {k \in Keys : cache.shards[k] # 0}
  BY <1>2 DEF ResultsAreKept
<1>4. Vouched(cache)' = cache.keys /\ Vouched(durIndex)' = durIndex'.keys
  BY <1>2, <1>3 DEF Vouched
<1>5. \A k \in Keys : cache.shards[k] # 0 => Named(durShards[k]) # {}
  <2> SUFFICES ASSUME NEW k \in Keys, cache.shards[k] # 0
               PROVE  Named(durShards[k]) # {}
    OBVIOUS
  <2>1. Files \subseteq FilesOf(durShards[k])
    BY DEF ResultsAreWhole
  <2>2. PICK n \in Names : durShards[k][n].files # {}
    BY <2>1, StoresAssumption DEF FilesOf
  <2>3. QED
    BY <2>2, NoShardIsEmpty DEF Named
<1>6. OneAtATime'
  BY <1>2 DEF OneAtATime, loopVars
<1>7. RunStoreFilledButForQuarantine' /\ DispatchedHaveNoResult'
  BY <1>2 DEF RunStoreFilledButForQuarantine, DispatchedHaveNoResult
<1>8. ResultsAreWhole'
  BY <1>2 DEF ResultsAreWhole, loopVars
<1>9. ResultsAreListed'
  BY <1>2, <1>3, <1>4, <1>5 DEF ResultsAreListed
<1>10. ResultsAreKept'
  <2>1. durIndex'.keys \subseteq cache'.keys /\ \A k \in cache'.keys : cache'.shards[k] # 0
    BY <1>2, <1>3
  <2>2. \A k \in usedKeys' : quarantined'[k] = {} => cache'.shards[k] # 0
    BY <1>2 DEF ResultsAreKept, loopVars
  <2>3. QED
    BY <1>2, <2>1, <2>2 DEF ResultsAreKept
<1>11. QED
  BY <1>1, <1>6, <1>7, <1>8, <1>9, <1>10

LEMMA QuarantineInductive ==
    ASSUME ~MayCrash, MaxVersion = 1, QInv, [Next]_vars
    PROVE  QInv'
<1>1. ~Crash /\ ~Upgrade
  BY DEF Crash, Upgrade, QInv, TypeOK, Versions
<1>2. ASSUME NEW k \in Keys, ChunkStep(k)
      PROVE  QInv'
  BY <1>2, HitQuarantine, DispatchQuarantine, WriteQuarantine, SettleQuarantine,
     FinalizeQuarantine, PruneChunkQuarantine DEF ChunkStep
<1>3. CASE UNCHANGED vars
  BY <1>3 DEF vars, diskVars, loopVars, QInv, TypeOK, OneAtATime,
              RunStoreFilledButForQuarantine, LeftOf, ResultsAreWhole, ResultsAreListed,
              DispatchedHaveNoResult, ResultsAreKept, Through, Vouched
<1>4. QED
  BY <1>1, <1>2, <1>3, StartRunQuarantine, LoopEndsQuarantine, SaveCacheQuarantine,
     SaveDurableIndexQuarantine DEF Next

\* As long as every run gets to its end and the program is not replaced, and
\* whatever the worker pool gives up: a chunk with a quarantined file gets into
\* neither index, so that the next run parses it again.
THEOREM QuarantineIsNotStored ==
    ASSUME ~MayCrash, MaxVersion = 1
    PROVE  Spec => []QuarantinedIsRetried
<1>1. QInv => QuarantinedIsRetried
  BY DEF QInv, QuarantinedIsRetried, ResultsAreWhole, ResultsAreKept, TypeOK
<1>2. QInv /\ [Next]_vars => QInv'
  BY QuarantineInductive
<1>3. QED
  BY <1>1, <1>2, QuarantineInitially, PTL DEF Spec

\* Under the same conditions scope resolution has the ParsedFiles of every file
\* that was not given up, and the complete chunks are served next time.
THEOREM QuarantineSparesTheRest ==
    ASSUME ~MayCrash, MaxVersion = 1
    PROVE  Spec => [](ServedIsComplete /\ CompleteIsServedNext)
<1>1. QInv => ServedIsComplete
  BY DEF QInv, ServedIsComplete, RunStoreFilledButForQuarantine, OneAtATime, LeftOf, None
<1>2. QInv => CompleteIsServedNext
  BY DEF QInv, CompleteIsServedNext, ResultsAreListed, ResultsAreKept, TypeOK
<1>3. QInv /\ [Next]_vars => QInv'
  BY QuarantineInductive
<1>4. QED
  BY <1>1, <1>2, <1>3, QuarantineInitially, PTL DEF Spec

=============================================================================
