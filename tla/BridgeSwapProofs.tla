-------------------------- MODULE BridgeSwapProofs --------------------------
(***************************************************************************)
(* Safety of the bridge swap, for any number of syncing processes, readers *)
(* and syncs, when syncs of the group do not overlap, crashes do not cut   *)
(* the move of a sidecar and no reader restores a backup it saw too early. *)
(***************************************************************************)
EXTENDS BridgeSwap, TLAPS

At(steps) == {w \in Writers : writer[w].at \in steps}

(* One sync is under way at a time, and its number is the newest. *)
OneSync ==
  /\ \A w \in Writers : writer[w].sync <= last
  /\ \A w \in Swapping : writer[w].sync = last /\ last > 0
  /\ \A w \in Swapping, v \in Writers : v # w => writer[v].sync < last /\ v \notin Swapping
  /\ main <= last /\ bak <= last
  /\ \A n \in sidecar : n <= last
  /\ \A r \in Readers : reader[r].db <= last

(* What a sync has put in place once it got past a step. *)
SwapProgress ==
  /\ At({"installSide", "dropBak", "dropBakSide", "meta"}) # {} => main = last
  /\ At({"dropBakSide", "meta"}) # {} => bak = Absent
  /\ At({"meta"}) # {} => bakSide = Absent

(* A database stands next to its sidecar, except on the way. *)
SidecarsFollow ==
  /\ bak # Absent => bak \notin sidecar \/ bakSide = bak \/ (mainSide = bak /\ At({"moveSide"}) # {})
  /\ bakSide # Absent => At({"install", "installSide", "dropBak", "dropBakSide"}) # {}
  /\ main # Absent => main \notin sidecar \/ mainSide = main \/ At({"installSide"}) # {}
  /\ mainSide # Absent =>
       /\ mainSide \in sidecar
       /\ IF At({"moveSide"}) # {} THEN main = Absent /\ bak = mainSide ELSE main = mainSide
  /\ At({"install", "installSide"}) # {} => mainSide = Absent
  /\ \A r \in Readers : reader[r].at = "reading" => Whole(reader[r].db, reader[r].side)

IInv == TypeOK /\ OneSync /\ SwapProgress /\ SidecarsFollow /\ SyncIsInPlace

Alone == Disturbances \subseteq {"crash"}

LEMMA Initially == Init => IInv
BY BridgeAssumption
   DEF Init, IInv, TypeOK, OneSync, SwapProgress, SidecarsFollow, SyncIsInPlace, At, Swapping,
       Files, Syncs, Steps, Resting, Asking, Absent

ReaderSteps == {"idle", "found", "restore", "restoreSide", "open", "reading", "refused"}

LEMMA TypeStep ==
    ASSUME TypeOK, [Next]_vars
    PROVE  TypeOK'
<1> USE BridgeAssumption DEF TypeOK, Files, Syncs, Steps, Absent, files
<1>1. ASSUME NEW w \in Writers, Build(w)
      PROVE  TypeOK'
  BY <1>1 DEF Build, Swapping
<1>2. ASSUME NEW w \in Writers, MoveMain(w)
      PROVE  TypeOK'
  BY <1>2 DEF MoveMain, RenameFails, Goes
<1>3. ASSUME NEW w \in Writers, MoveSide(w)
      PROVE  TypeOK'
  BY <1>3 DEF MoveSide, Goes
<1>4. ASSUME NEW w \in Writers, Install(w)
      PROVE  TypeOK'
  BY <1>4 DEF Install, Goes
<1>5. ASSUME NEW w \in Writers, InstallSide(w)
      PROVE  TypeOK'
  BY <1>5 DEF InstallSide, Goes
<1>6. ASSUME NEW w \in Writers, DropBak(w)
      PROVE  TypeOK'
  BY <1>6 DEF DropBak, Goes
<1>7. ASSUME NEW w \in Writers, DropBakSide(w)
      PROVE  TypeOK'
  BY <1>7 DEF DropBakSide, Goes
<1>8. ASSUME NEW w \in Writers, WriteMeta(w)
      PROVE  TypeOK'
  BY <1>8 DEF WriteMeta, Goes
<1>9. ASSUME NEW w \in Writers, Crash(w)
      PROVE  TypeOK'
  BY <1>9 DEF Crash, Resting
<1>10. {main, mainSide, bak, bakSide, meta, last, Absent} \subseteq Files
  OBVIOUS
<1>11. ASSUME NEW r \in Readers, Look(r)
      PROVE  TypeOK'
  BY <1>11 DEF Look, Answers
<1>12. ASSUME NEW r \in Readers, LookAgain(r)
      PROVE  TypeOK'
  BY <1>12 DEF LookAgain, Answers
<1>13. ASSUME NEW r \in Readers, Restore(r)
      PROVE  TypeOK'
  <2>1. \A step \in ReaderSteps, db \in Files, side \in Files :
          Answers(r, step, db, side) =>
            reader' \in [Readers -> [at : ReaderSteps, db : Files, side : Files]]
    BY DEF Answers, ReaderSteps
  <2>2. {main', mainSide', bak', bakSide', meta', last'} \subseteq Files
    BY <1>10, <1>13 DEF Restore, Answers
  <2>3. reader' \in [Readers -> [at : ReaderSteps, db : Files, side : Files]]
    BY <1>10, <1>13, <2>1 DEF Restore, ReaderSteps
  <2>4. UNCHANGED <<sidecar, last, writer>>
    BY <1>13 DEF Restore, Answers
  <2>5. QED
    BY <2>2, <2>3, <2>4 DEF ReaderSteps
<1>14. ASSUME NEW r \in Readers, RestoreSide(r)
      PROVE  TypeOK'
  BY <1>14 DEF RestoreSide, Answers
<1>15. ASSUME NEW r \in Readers, Open(r)
      PROVE  TypeOK'
  <2>1. \A step \in ReaderSteps, db \in Files, side \in Files :
          Answers(r, step, db, side) =>
            reader' \in [Readers -> [at : ReaderSteps, db : Files, side : Files]]
    BY DEF Answers, ReaderSteps
  <2>2. {main', mainSide', bak', bakSide', meta', last'} \subseteq Files
    BY <1>10, <1>15 DEF Open, Answers
  <2>3. reader' \in [Readers -> [at : ReaderSteps, db : Files, side : Files]]
    BY <1>10, <1>15, <2>1 DEF Open, ReaderSteps
  <2>4. UNCHANGED <<sidecar, last, writer>>
    BY <1>15 DEF Open, Answers
  <2>5. QED
    BY <2>2, <2>3, <2>4 DEF ReaderSteps
<1>16. ASSUME NEW r \in Readers, Close(r)
      PROVE  TypeOK'
  BY <1>16 DEF Close, Answers
<1>17. CASE UNCHANGED vars
  BY <1>17 DEF vars
<1>18. QED
  BY <1>1, <1>2, <1>3, <1>4, <1>5, <1>6, <1>7, <1>8, <1>9, <1>11, <1>12, <1>13, <1>14, <1>15, <1>16, <1>17 DEF Next

LEMMA BuildInv ==
    ASSUME Alone, IInv, TypeOK', NEW w \in Writers, Build(w)
    PROVE  IInv'
<1> USE BridgeAssumption DEF Alone, IInv, Build, Swapping, At, files, Absent, Files
<1>1. OneSync'
  BY DEF TypeOK, OneSync, Syncs
<1>2. SwapProgress'
  BY DEF TypeOK, OneSync, SwapProgress
<1>3. SidecarsFollow'
  BY DEF TypeOK, OneSync, SwapProgress, SidecarsFollow, Whole
<1>4. SyncIsInPlace'
  BY DEF TypeOK, OneSync, SwapProgress, SyncIsInPlace
<1>5. QED
  BY <1>1, <1>2, <1>3, <1>4

LEMMA MoveMainInv ==
    ASSUME Alone, IInv, TypeOK', NEW w \in Writers, MoveMain(w)
    PROVE  IInv'
<1> USE BridgeAssumption DEF Alone, IInv, MoveMain, RenameFails, NothingParts, SidecarsInPlay, Goes, Swapping, At, files, Absent, Files
<1>1. OneSync'
  <2>1. main' \in {main, Absent} /\ bak' \in {bak, main} /\ UNCHANGED <<last, sidecar, reader>>
    OBVIOUS
  <2>2. last \in Nat
    BY DEF TypeOK
  <2>3. \A v \in Writers : writer'[v].sync = writer[v].sync
    BY DEF TypeOK
  <2>4. \A v \in Writers : v \in Swapping' <=> v \in Swapping
    BY DEF TypeOK
  <2>5. QED
    BY <2>1, <2>2, <2>3, <2>4 DEF OneSync
<1>2. SwapProgress'
  BY DEF TypeOK, OneSync, SwapProgress
<1>3. SidecarsFollow'
  BY DEF TypeOK, OneSync, SwapProgress, SidecarsFollow, Whole
<1>4. SyncIsInPlace'
  BY DEF TypeOK, OneSync, SwapProgress, SyncIsInPlace
<1>5. QED
  BY <1>1, <1>2, <1>3, <1>4

LEMMA MoveSideInv ==
    ASSUME Alone, IInv, TypeOK', NEW w \in Writers, MoveSide(w)
    PROVE  IInv'
<1> USE BridgeAssumption DEF Alone, IInv, MoveSide, Goes, Swapping, At, files, Absent, Files
<1>1. OneSync'
  BY DEF TypeOK, OneSync, Syncs
<1>2. SwapProgress'
  BY DEF TypeOK, OneSync, SwapProgress
<1>3. SidecarsFollow'
  BY DEF TypeOK, OneSync, SwapProgress, SidecarsFollow, Whole
<1>4. SyncIsInPlace'
  BY DEF TypeOK, OneSync, SwapProgress, SyncIsInPlace
<1>5. QED
  BY <1>1, <1>2, <1>3, <1>4

LEMMA InstallInv ==
    ASSUME Alone, IInv, TypeOK', NEW w \in Writers, Install(w)
    PROVE  IInv'
<1> USE BridgeAssumption DEF Alone, IInv, Install, Goes, Swapping, At, files, Absent, Files
<1>1. OneSync'
  BY DEF TypeOK, OneSync, Syncs
<1>2. SwapProgress'
  BY DEF TypeOK, OneSync, SwapProgress
<1>3. SidecarsFollow'
  BY DEF TypeOK, OneSync, SwapProgress, SidecarsFollow, Whole
<1>4. SyncIsInPlace'
  BY DEF TypeOK, OneSync, SwapProgress, SyncIsInPlace
<1>5. QED
  BY <1>1, <1>2, <1>3, <1>4

LEMMA InstallSideInv ==
    ASSUME Alone, IInv, TypeOK', NEW w \in Writers, InstallSide(w)
    PROVE  IInv'
<1> USE BridgeAssumption DEF Alone, IInv, InstallSide, Goes, Swapping, At, files, Absent, Files
<1>1. OneSync'
  BY DEF TypeOK, OneSync, Syncs
<1>2. SwapProgress'
  BY DEF TypeOK, OneSync, SwapProgress
<1>3. SidecarsFollow'
  BY DEF TypeOK, OneSync, SwapProgress, SidecarsFollow, Whole
<1>4. SyncIsInPlace'
  BY DEF TypeOK, OneSync, SwapProgress, SyncIsInPlace
<1>5. QED
  BY <1>1, <1>2, <1>3, <1>4

LEMMA DropBakInv ==
    ASSUME Alone, IInv, TypeOK', NEW w \in Writers, DropBak(w)
    PROVE  IInv'
<1> USE BridgeAssumption DEF Alone, IInv, DropBak, Goes, Swapping, At, files, Absent, Files
<1>1. OneSync'
  BY DEF TypeOK, OneSync, Syncs
<1>2. SwapProgress'
  BY DEF TypeOK, OneSync, SwapProgress
<1>3. SidecarsFollow'
  BY DEF TypeOK, OneSync, SwapProgress, SidecarsFollow, Whole
<1>4. SyncIsInPlace'
  BY DEF TypeOK, OneSync, SwapProgress, SyncIsInPlace
<1>5. QED
  BY <1>1, <1>2, <1>3, <1>4

LEMMA DropBakSideInv ==
    ASSUME Alone, IInv, TypeOK', NEW w \in Writers, DropBakSide(w)
    PROVE  IInv'
<1> USE BridgeAssumption DEF Alone, IInv, DropBakSide, Goes, Swapping, At, files, Absent, Files
<1>1. OneSync'
  BY DEF TypeOK, OneSync, Syncs
<1>2. SwapProgress'
  BY DEF TypeOK, OneSync, SwapProgress
<1>3. SidecarsFollow'
  BY DEF TypeOK, OneSync, SwapProgress, SidecarsFollow, Whole
<1>4. SyncIsInPlace'
  BY DEF TypeOK, OneSync, SwapProgress, SyncIsInPlace
<1>5. QED
  BY <1>1, <1>2, <1>3, <1>4

LEMMA WriteMetaInv ==
    ASSUME Alone, IInv, TypeOK', NEW w \in Writers, WriteMeta(w)
    PROVE  IInv'
<1> USE BridgeAssumption DEF Alone, IInv, WriteMeta, Goes, Swapping, At, files, Absent, Files
<1>1. OneSync'
  BY DEF TypeOK, OneSync, Syncs
<1>2. SwapProgress'
  BY DEF TypeOK, OneSync, SwapProgress
<1>3. SidecarsFollow'
  BY DEF TypeOK, OneSync, SwapProgress, SidecarsFollow, Whole
<1>4. SyncIsInPlace'
  BY DEF TypeOK, OneSync, SwapProgress, SyncIsInPlace
<1>5. QED
  BY <1>1, <1>2, <1>3, <1>4

LEMMA CrashInv ==
    ASSUME Alone, IInv, TypeOK', NEW w \in Writers, Crash(w)
    PROVE  IInv'
<1> USE BridgeAssumption DEF Alone, IInv, Crash, NothingParts, SidecarsInPlay, Resting, Swapping, At, files, Absent, Files
<1>1. OneSync'
  BY DEF TypeOK, OneSync, Syncs
<1>2. SwapProgress'
  BY DEF TypeOK, OneSync, SwapProgress
<1>3. SidecarsFollow'
  BY DEF TypeOK, OneSync, SwapProgress, SidecarsFollow, Whole
<1>4. SyncIsInPlace'
  BY DEF TypeOK, OneSync, SwapProgress, SyncIsInPlace
<1>5. QED
  BY <1>1, <1>2, <1>3, <1>4

LEMMA LookInv ==
    ASSUME Alone, IInv, TypeOK', NEW r \in Readers, Look(r)
    PROVE  IInv'
<1> USE BridgeAssumption DEF Alone, IInv, Look, Answers, Swapping, At, files, Absent, Files
<1>1. OneSync'
  BY DEF TypeOK, OneSync, Syncs
<1>2. SwapProgress'
  BY DEF TypeOK, OneSync, SwapProgress
<1>3. SidecarsFollow'
  BY DEF TypeOK, OneSync, SwapProgress, SidecarsFollow, Whole
<1>4. SyncIsInPlace'
  BY DEF TypeOK, OneSync, SwapProgress, SyncIsInPlace
<1>5. QED
  BY <1>1, <1>2, <1>3, <1>4

LEMMA LookAgainInv ==
    ASSUME Alone, IInv, TypeOK', NEW r \in Readers, LookAgain(r)
    PROVE  IInv'
<1> USE BridgeAssumption DEF Alone, IInv, LookAgain, Answers, Swapping, At, files, Absent, Files
<1>1. OneSync'
  BY DEF TypeOK, OneSync, Syncs
<1>2. SwapProgress'
  BY DEF TypeOK, OneSync, SwapProgress
<1>3. SidecarsFollow'
  BY DEF TypeOK, OneSync, SwapProgress, SidecarsFollow, Whole
<1>4. SyncIsInPlace'
  BY DEF TypeOK, OneSync, SwapProgress, SyncIsInPlace
<1>5. QED
  BY <1>1, <1>2, <1>3, <1>4

LEMMA RestoreInv ==
    ASSUME Alone, IInv, TypeOK', NEW r \in Readers, Restore(r)
    PROVE  IInv'
<1> USE BridgeAssumption DEF Alone, IInv, Restore, MayRestore, NothingParts, SidecarsInPlay, Answers, Swapping, At, files, Absent, Files
<1>1. OneSync'
  <2>1. UNCHANGED <<writer, last, sidecar>> /\ main' \in {main, bak} /\ bak' \in {bak, Absent}
    OBVIOUS
  <2>2. \A o \in Readers : reader'[o].db = reader[o].db \/ reader'[o].db \in {Absent, main}
    BY DEF TypeOK
  <2>3. last \in Nat
    BY DEF TypeOK
  <2>4. \A o \in Readers : reader'[o].db <= last
    BY <2>2, <2>3 DEF OneSync
  <2>5. QED
    BY <2>1, <2>3, <2>4 DEF OneSync
<1>2. SwapProgress'
  BY DEF TypeOK, OneSync, SwapProgress
<1>3. SidecarsFollow'
  <2>1. UNCHANGED <<mainSide, bakSide, sidecar, last, writer>>
    OBVIOUS
  <2>2. \A o \in Readers : reader'[o].at = "reading" => reader'[o] = reader[o]
    BY DEF TypeOK
  <2>3. CASE bak = Absent
    <3>1. UNCHANGED files
      BY <2>3
    <3>2. QED
      BY <2>1, <2>2, <3>1 DEF SidecarsFollow, Whole
  <2>4. CASE bak # Absent
    <3>1. main' = bak /\ bak' = Absent /\ main = Absent
      BY <2>4
    <3>2. QED
      BY <2>1, <2>2, <2>4, <3>1 DEF TypeOK, OneSync, SwapProgress, SidecarsFollow, Whole
  <2>5. QED
    BY <2>3, <2>4
<1>4. SyncIsInPlace'
  BY DEF TypeOK, OneSync, SwapProgress, SyncIsInPlace
<1>5. QED
  BY <1>1, <1>2, <1>3, <1>4

LEMMA RestoreSideInv ==
    ASSUME Alone, IInv, TypeOK', NEW r \in Readers, RestoreSide(r)
    PROVE  IInv'
<1> USE BridgeAssumption DEF Alone, IInv, RestoreSide, NothingParts, SidecarsInPlay, Answers, Swapping, At, files, Absent, Files
<1>1. OneSync'
  <2>1. UNCHANGED <<writer, last, sidecar>> /\ main' \in {main, bak} /\ bak' \in {bak, Absent}
    OBVIOUS
  <2>2. \A o \in Readers : reader'[o].db = reader[o].db \/ reader'[o].db \in {Absent, main}
    BY DEF TypeOK
  <2>3. last \in Nat
    BY DEF TypeOK
  <2>4. \A o \in Readers : reader'[o].db <= last
    BY <2>2, <2>3 DEF OneSync
  <2>5. QED
    BY <2>1, <2>3, <2>4 DEF OneSync
<1>2. SwapProgress'
  BY DEF TypeOK, OneSync, SwapProgress
<1>3. SidecarsFollow'
  BY DEF TypeOK, OneSync, SwapProgress, SidecarsFollow, Whole
<1>4. SyncIsInPlace'
  BY DEF TypeOK, OneSync, SwapProgress, SyncIsInPlace
<1>5. QED
  BY <1>1, <1>2, <1>3, <1>4

LEMMA OpenInv ==
    ASSUME Alone, IInv, TypeOK', NEW r \in Readers, Open(r)
    PROVE  IInv'
<1> USE BridgeAssumption DEF Alone, IInv, Open, NothingParts, SidecarsInPlay, Answers, Swapping, At, files, Absent, Files
<1>1. OneSync'
  <2>1. UNCHANGED <<writer, last, sidecar>> /\ main' \in {main, bak} /\ bak' \in {bak, Absent}
    OBVIOUS
  <2>2. \A o \in Readers : reader'[o].db = reader[o].db \/ reader'[o].db \in {Absent, main}
    BY DEF TypeOK
  <2>3. last \in Nat
    BY DEF TypeOK
  <2>4. \A o \in Readers : reader'[o].db <= last
    BY <2>2, <2>3 DEF OneSync
  <2>5. QED
    BY <2>1, <2>3, <2>4 DEF OneSync
<1>2. SwapProgress'
  BY DEF TypeOK, OneSync, SwapProgress
<1>3. SidecarsFollow'
  BY DEF TypeOK, OneSync, SwapProgress, SidecarsFollow, Whole
<1>4. SyncIsInPlace'
  BY DEF TypeOK, OneSync, SwapProgress, SyncIsInPlace
<1>5. QED
  BY <1>1, <1>2, <1>3, <1>4

LEMMA CloseInv ==
    ASSUME Alone, IInv, TypeOK', NEW r \in Readers, Close(r)
    PROVE  IInv'
<1> USE BridgeAssumption DEF Alone, IInv, Close, Answers, Swapping, At, files, Absent, Files
<1>1. OneSync'
  <2>1. UNCHANGED <<writer, last, sidecar>> /\ main' \in {main, bak} /\ bak' \in {bak, Absent}
    OBVIOUS
  <2>2. \A o \in Readers : reader'[o].db = reader[o].db \/ reader'[o].db \in {Absent, main}
    BY DEF TypeOK
  <2>3. last \in Nat
    BY DEF TypeOK
  <2>4. \A o \in Readers : reader'[o].db <= last
    BY <2>2, <2>3 DEF OneSync
  <2>5. QED
    BY <2>1, <2>3, <2>4 DEF OneSync
<1>2. SwapProgress'
  BY DEF TypeOK, OneSync, SwapProgress
<1>3. SidecarsFollow'
  BY DEF TypeOK, OneSync, SwapProgress, SidecarsFollow, Whole
<1>4. SyncIsInPlace'
  BY DEF TypeOK, OneSync, SwapProgress, SyncIsInPlace
<1>5. QED
  BY <1>1, <1>2, <1>3, <1>4

LEMMA IInvStep ==
    ASSUME Alone, IInv, [Next]_vars
    PROVE  IInv'
<1>1. TypeOK'
  BY TypeStep DEF IInv
<1>2. CASE UNCHANGED vars
  BY <1>1, <1>2 DEF vars, files, IInv, OneSync, SwapProgress, SidecarsFollow, SyncIsInPlace,
                    At, Swapping, Whole
<1>3. QED
  BY <1>1, <1>2, BuildInv, MoveMainInv, MoveSideInv, InstallInv, InstallSideInv, DropBakInv,
     DropBakSideInv, WriteMetaInv, CrashInv, LookInv, LookAgainInv, RestoreInv, RestoreSideInv,
     OpenInv, CloseInv
     DEF Next

\* The state stays well-formed whatever goes wrong.
THEOREM BridgeTypeCorrect == Spec => []TypeOK
<1>1. Init => TypeOK
  BY Initially DEF IInv
<1>2. QED
  BY <1>1, TypeStep, PTL DEF Spec

\* A query never reads a bridge without the sidecar that belongs to it, and the
\* sync that last reported success left its database, its meta.json and nothing
\* of the old ones, although syncs crash between any two renames.
THEOREM SwapLeavesWholeBridge ==
    ASSUME Alone
    PROVE  Spec => [](ReadersGetWholeBridge /\ SyncIsInPlace)
<1>1. IInv => ReadersGetWholeBridge /\ SyncIsInPlace
  BY DEF IInv, SidecarsFollow, ReadersGetWholeBridge, SyncIsInPlace, Whole, At, Swapping
<1>2. QED
  BY <1>1, Initially, IInvStep, PTL DEF Spec

LEMMA ServedStep ==
    ASSUME Alone, IInv, [Next]_vars
    PROVE  Served' >= Served
<1> USE DEF Served, IInv, Absent, Files
<1>1. main \in Nat /\ bak \in Nat /\ last \in Nat
  BY BridgeAssumption DEF TypeOK
<1>2. ASSUME NEW w \in Writers, Install(w)
      PROVE  Served' >= Served
  BY <1>1, <1>2 DEF Install, Goes, OneSync, Swapping
<1>3. ASSUME NEW w \in Writers, DropBak(w)
      PROVE  Served' >= Served
  BY <1>1, <1>3 DEF DropBak, Goes, OneSync, SwapProgress, Swapping, At
<1>4. ASSUME NEW r \in Readers, Restore(r)
      PROVE  Served' >= Served
  BY <1>1, <1>4 DEF Restore, Answers, MayRestore, Alone, files
<1>5. ASSUME NEW w \in Writers, MoveMain(w)
      PROVE  Served' >= Served
  BY <1>1, <1>5 DEF MoveMain, files
<1>6. ASSUME NEW w \in Writers,
             Build(w) \/ MoveSide(w) \/ InstallSide(w) \/ DropBakSide(w) \/ WriteMeta(w) \/ Crash(w)
      PROVE  Served' >= Served
  BY <1>1, <1>6 DEF Build, MoveSide, InstallSide, DropBakSide, WriteMeta, Crash, files
<1>7. ASSUME NEW r \in Readers, Look(r) \/ LookAgain(r) \/ RestoreSide(r) \/ Open(r) \/ Close(r)
      PROVE  Served' >= Served
  BY <1>1, <1>7 DEF Look, LookAgain, RestoreSide, Open, Close, files
<1>8. CASE UNCHANGED vars
  BY <1>1, <1>8 DEF vars
<1>9. QED
  BY <1>2, <1>3, <1>4, <1>5, <1>6, <1>7, <1>8 DEF Next

\* The database there is to use, the backup included, is never an older one than
\* before: neither a crash nor the recovery by a reader takes the group back.
THEOREM BridgeOnlyAdvances ==
    ASSUME Alone
    PROVE  Spec => ServedOnlyAdvances
<1>1. ASSUME IInv, [Next]_vars
      PROVE  [Served' >= Served]_vars
  BY <1>1, ServedStep
<1>2. QED
  BY <1>1, Initially, IInvStep, PTL DEF Spec, ServedOnlyAdvances

=============================================================================
