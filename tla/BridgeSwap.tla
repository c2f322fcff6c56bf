----------------------------- MODULE BridgeSwap -----------------------------
(***************************************************************************)
(* The bridge database of a group of repositories: `group sync` builds a   *)
(* new database in a staging directory and swaps it in, file by file,      *)
(* through bridge.lbug.bak; impact queries look for bridge.lbug and open   *)
(* it, and put the backup in its place when it went missing in between.    *)
(*                                                                         *)
(* A database is the number of the sync that built it; 0 is no file.  One  *)
(* sidecar stands for .wal and .shadow: a sync either leaves one, which    *)
(* then holds a part of its database, or leaves none.                      *)
(***************************************************************************)
EXTENDS Naturals

CONSTANTS
  Writers,       \* processes that run `group sync`
  Readers,       \* processes that run an impact query on the group
  MaxSyncs,      \* bound: syncs in a behaviour
  Disturbances   \* "crash", "sidecarFault", "lateRecovery", "parallelSync"

(* "crash": a sync stops between two file operations.  "sidecarFault": so  *)
(* it does, or a reader opens or restores a database, in the middle of a   *)
(* swap that moves sidecars.  "lateRecovery": a reader restores a backup   *)
(* it saw before the swap ended.  "parallelSync": two syncs overlap.       *)
ASSUME BridgeAssumption ==
  /\ MaxSyncs \in Nat
  /\ Disturbances \subseteq {"crash", "sidecarFault", "lateRecovery", "parallelSync"}

Syncs == 1..MaxSyncs
Files == 0..MaxSyncs
Absent == 0

VARIABLES
  main, mainSide,   \* bridge.lbug and its sidecar
  bak, bakSide,     \* bridge.lbug.bak and its sidecar
  meta,             \* meta.json: the sync it was written by
  sidecar,          \* the syncs that left a sidecar
  last,             \* syncs started
  writer,           \* step and number of each writer's sync
  reader            \* step of each reader and the files it opened

files == <<main, mainSide, bak, bakSide, meta>>
vars == <<main, mainSide, bak, bakSide, meta, sidecar, last, writer, reader>>

Steps == {"idle", "moveMain", "moveSide", "install", "installSide",
          "dropBak", "dropBakSide", "meta", "done"}
Resting == [at |-> "idle", sync |-> 0]
Asking == [at |-> "idle", db |-> Absent, side |-> Absent]

Init ==
  /\ main = Absent /\ mainSide = Absent /\ bak = Absent /\ bakSide = Absent
  /\ meta = 0 /\ sidecar = {} /\ last = 0
  /\ writer = [w \in Writers |-> Resting]
  /\ reader = [r \in Readers |-> Asking]

Swapping == {w \in Writers : writer[w].at \notin {"idle", "done"}}

(* Steps that may part a database from its sidecar need "sidecarFault". *)
SidecarsInPlay == mainSide # Absent \/ bakSide # Absent \/
                  \E w \in Swapping : writer[w].sync \in sidecar
NothingParts == SidecarsInPlay /\ Swapping # {} => "sidecarFault" \in Disturbances

-----------------------------------------------------------------------------
(* writeBridge, from the finished staging database on *)

\* Mutant: the staging database carries the number of the next sync.
BuildSkipsNumber(w) ==
  /\ writer[w].at \in {"idle", "done"} /\ last < MaxSyncs
  /\ Swapping = {} \/ "parallelSync" \in Disturbances
  /\ last' = last + 1
  /\ writer' = [writer EXCEPT ![w] = [at |-> "moveMain", sync |-> last' + 1]]
  /\ sidecar' \in {sidecar, sidecar \cup {last'}}
  /\ UNCHANGED <<files, reader>>

Build(w) ==
  /\ writer[w].at \in {"idle", "done"} /\ last < MaxSyncs
  /\ Swapping = {} \/ "parallelSync" \in Disturbances
  /\ last' = last + 1
  /\ writer' = [writer EXCEPT ![w] = [at |-> "moveMain", sync |-> last']]
  /\ sidecar' \in {sidecar, sidecar \cup {last'}}
  /\ UNCHANGED <<files, reader>>

Goes(w, from, to) ==
  /\ writer[w].at = from
  /\ writer' = [writer EXCEPT ![w].at = to]
  /\ UNCHANGED <<sidecar, last, reader>>

(* Without a bridge.lbug, or when it cannot be renamed, nothing is moved   *)
(* aside, not even a sidecar, and the swap goes on.                        *)
RenameFails == "crash" \in Disturbances /\ NothingParts

\* Mutant: the old database is removed instead of being moved to the backup.
MoveMainRemoves(w) ==
  \/ /\ main = Absent
     /\ Goes(w, "moveMain", "install")
     /\ UNCHANGED files
  \/ /\ main # Absent
     /\ Goes(w, "moveMain", "moveSide")
     /\ main' = Absent
     /\ UNCHANGED <<mainSide, bak, bakSide, meta>>

MoveMain(w) ==
  \/ /\ main # Absent => RenameFails
     /\ Goes(w, "moveMain", "install")
     /\ UNCHANGED files
  \/ /\ main # Absent
     /\ Goes(w, "moveMain", "moveSide")
     /\ bak' = main /\ main' = Absent
     /\ UNCHANGED <<mainSide, bakSide, meta>>

\* Mutant: the sidecar is copied to the backup and stays with the main file.
MoveSideCopies(w) ==
  /\ Goes(w, "moveSide", "install")
  /\ bakSide' = IF mainSide = Absent THEN bakSide ELSE mainSide
  /\ UNCHANGED <<main, mainSide, bak, meta>>

MoveSide(w) ==
  /\ Goes(w, "moveSide", "install")
  /\ bakSide' = IF mainSide = Absent THEN bakSide ELSE mainSide
  /\ mainSide' = Absent
  /\ UNCHANGED <<main, bak, meta>>

Install(w) ==
  /\ Goes(w, "install", "installSide")
  /\ main' = writer[w].sync
  /\ UNCHANGED <<mainSide, bak, bakSide, meta>>

InstallSide(w) ==
  /\ Goes(w, "installSide", "dropBak")
  /\ mainSide' = IF writer[w].sync \in sidecar THEN writer[w].sync ELSE mainSide
  /\ UNCHANGED <<main, bak, bakSide, meta>>

DropBak(w) ==
  /\ Goes(w, "dropBak", "dropBakSide")
  /\ bak' = Absent
  /\ UNCHANGED <<main, mainSide, bakSide, meta>>

DropBakSide(w) ==
  /\ Goes(w, "dropBakSide", "meta")
  /\ bakSide' = Absent
  /\ UNCHANGED <<main, mainSide, bak, meta>>

WriteMeta(w) ==
  /\ Goes(w, "meta", "done")
  /\ meta' = writer[w].sync
  /\ UNCHANGED <<main, mainSide, bak, bakSide>>

(* The process dies or a rename fails; the staging directory is of no use  *)
(* to anyone.                                                              *)
Crash(w) ==
  /\ "crash" \in Disturbances /\ w \in Swapping
  /\ NothingParts
  /\ writer' = [writer EXCEPT ![w] = Resting]
  /\ UNCHANGED <<files, sidecar, last, reader>>

-----------------------------------------------------------------------------
(* ensureBridgeReady and openBridgeDbReadOnly *)

Answers(r, step, db, side) ==
  /\ reader' = [reader EXCEPT ![r] = [at |-> step, db |-> db, side |-> side]]
  /\ UNCHANGED <<sidecar, last, writer>>

(* The query refuses a group that has no bridge.lbug at this moment. *)
Look(r) ==
  /\ reader[r].at = "idle"
  /\ Answers(r, IF main = Absent THEN "refused" ELSE "found", Absent, Absent)
  /\ UNCHANGED files

(* ensureBridgeDbFileAvailable looks again. *)
LookAgain(r) ==
  /\ reader[r].at = "found"
  /\ Answers(r, CASE main # Absent -> "open" [] main = Absent /\ bak # Absent -> "restore"
                [] OTHER -> "refused", Absent, Absent)
  /\ UNCHANGED files

MayRestore ==
  /\ NothingParts
  /\ main # Absent => "lateRecovery" \in Disturbances

Restore(r) ==
  /\ reader[r].at = "restore"
  /\ \/ /\ bak = Absent /\ Answers(r, "refused", Absent, Absent)
        /\ UNCHANGED files
     \/ /\ bak # Absent /\ MayRestore
        /\ Answers(r, "restoreSide", Absent, Absent)
        /\ main' = bak /\ bak' = Absent
        /\ UNCHANGED <<mainSide, bakSide, meta>>

RestoreSide(r) ==
  /\ reader[r].at = "restoreSide" /\ NothingParts
  /\ Answers(r, "open", Absent, Absent)
  /\ mainSide' = IF bakSide = Absent THEN mainSide ELSE bakSide
  /\ bakSide' = Absent
  /\ UNCHANGED <<main, bak, meta>>

(* The engine opens the file with whatever sidecar stands next to it, and  *)
(* refuses one of another database.                                        *)
Open(r) ==
  /\ reader[r].at = "open" /\ NothingParts
  /\ IF main = Absent \/ mainSide \notin {Absent, main}
     THEN Answers(r, "refused", Absent, Absent)
     ELSE Answers(r, "reading", main, mainSide)
  /\ UNCHANGED files

Close(r) ==
  /\ reader[r].at \in {"reading", "refused"}
  /\ Answers(r, "idle", Absent, Absent)
  /\ UNCHANGED files

-----------------------------------------------------------------------------
Next ==
  \/ \E w \in Writers : \/ Build(w) \/ MoveMain(w) \/ MoveSide(w) \/ Install(w)
                        \/ InstallSide(w) \/ DropBak(w) \/ DropBakSide(w)
                        \/ WriteMeta(w) \/ Crash(w)
  \/ \E r \in Readers : \/ Look(r) \/ LookAgain(r) \/ Restore(r) \/ RestoreSide(r)
                        \/ Open(r) \/ Close(r)

Spec == Init /\ [][Next]_vars

-----------------------------------------------------------------------------
TypeOK ==
  /\ {main, mainSide, bak, bakSide, meta, last} \subseteq Files
  /\ sidecar \subseteq Syncs
  /\ writer \in [Writers -> [at : Steps, sync : Files]]
  /\ reader \in [Readers -> [at : {"idle", "found", "restore", "restoreSide", "open",
                                   "reading", "refused"},
                             db : Files, side : Files]]

(* The database that is there to be used: bridge.lbug, or its backup. *)
Served == IF main # Absent THEN main ELSE bak

(* From the first installed database on there is always one to use, and it *)
(* is never an older one than before: neither a crash between two renames  *)
(* nor a reader that restores the backup takes the group back.             *)
ServedOnlyAdvances == [][Served' >= Served]_vars

Whole(db, side) == side = IF db \in sidecar THEN db ELSE Absent

(* A reader never opens a database without the sidecar that holds a part   *)
(* of it, and outside a swap bridge.lbug stands next to its own sidecar.   *)
ReadersGetWholeBridge ==
  /\ \A r \in Readers : reader[r].at = "reading" => Whole(reader[r].db, reader[r].side)
  /\ (Swapping = {} /\ main # Absent /\ \A r \in Readers : reader[r].at # "restoreSide")
       => Whole(main, mainSide)

(* When the last sync reported success, its database and its meta.json are *)
(* in place and no backup is left.                                         *)
SyncIsInPlace ==
  \A w \in Writers :
    (writer[w].at = "done" /\ writer[w].sync = last)
      => main = last /\ meta = last /\ bak = Absent /\ bakSide = Absent

(* Between syncs no query on the group is turned away while a database, or *)
(* the backup an interrupted sync left, is there to be opened.             *)
TurnsAway(r) == reader[r].at = "idle" /\ reader'[r].at = "refused"
NeverRefused == [][\A r \in Readers : TurnsAway(r) => Served = Absent \/ Swapping # {}]_vars

=============================================================================
