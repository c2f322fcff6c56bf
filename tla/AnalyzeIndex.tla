---------------------------- MODULE AnalyzeIndex ----------------------------
(***************************************************************************)
(* Successive runs of `gitnexus analyze` on one repository: what a run     *)
(* reads from meta.json, whether it writes the graph database whole or     *)
(* replaces the rows of a write set, the order in which the dirty flag,    *)
(* the rows, meta.json and the registry are written, and a run that stops  *)
(* at any of its awaits.                                                   *)
(*                                                                         *)
(* A file's content is the one thing the graph edges depend on: a record   *)
(* of a kind and the file it imports.  "use" calls the imported symbol,    *)
(* "via" re-exports it, "def" defines it, "plain" does neither.  A commit  *)
(* is named by its tree and a content hash by the content.                 *)
(***************************************************************************)
EXTENDS Naturals, FiniteSets

CONSTANTS
  Files,         \* repository paths
  NoFile,        \* the import of a file that imports nothing
  Steals,        \* <<s, t>>: when s exists, an import of t resolves to s
  Trees,         \* the working trees and commits considered
  MaxDepth,      \* MAX_IMPORTER_BFS_DEPTH
  NoMeta,        \* meta.json does not exist
  Disturbances   \* what may go wrong, see below

Kinds == {"absent", "plain", "def", "use", "via"}
Contents == [kind : Kinds, to : Files \cup {NoFile}]
Absent == [kind |-> "absent", to |-> NoFile]
Metas == [commit : Trees, hashes : [Files -> Contents],
          dirty : BOOLEAN, current : BOOLEAN]

(***************************************************************************)
(* "force": --force is used.  "upgrade": a release with a new index schema *)
(* is installed.  "rebuildCrash": a run stops between wiping the database  *)
(* under a clean meta.json and writing the new one.  "edit": the checkout  *)
(* changes during a run.  "dirtyTree": uncommitted changes are analysed.   *)
(* The last three are errors that the code catches and goes on from.       *)
(* "readError": a file cannot be read for its hash.  "queryError": a query *)
(* for importers fails.  "writeError": database files are not removed, or  *)
(* rows are not deleted or not inserted.                                   *)
(***************************************************************************)
ASSUME IndexAssumption ==
  /\ Trees \subseteq [Files -> Contents]
  /\ Steals \subseteq Files \X Files
  /\ MaxDepth \in Nat
  /\ NoMeta \notin Metas
  /\ IsFiniteSet(Files)
  /\ Disturbances \subseteq {"force", "upgrade", "rebuildCrash", "edit", "dirtyTree",
                              "readError", "queryError", "writeError"}

VARIABLES
  tree,        \* the working tree
  head,        \* the tree of the commit HEAD names
  meta,        \* meta.json
  db,          \* the graph database: rows of each file, edges, community rows
  registered,  \* registry.json has an entry for the repository
  outcome,     \* what the last run told its caller
  phase,       \* where the current run is
  forced,      \* options.force of the current run
  commit,      \* currentCommit, read when the run starts
  seen,        \* existingMeta, read when the run starts
  parsed,      \* the tree the pipeline parsed
  hashes,      \* newFileHashes
  writeSet,    \* effectiveWriteSet
  todo         \* filesToDelete not deleted yet

disk == <<meta, db, registered>>
locals == <<forced, commit, seen, parsed, hashes, writeSet, todo>>
vars == <<tree, head, meta, db, registered, outcome, phase, forced, commit,
          seen, parsed, hashes, writeSet, todo>>

NoTree == [f \in Files |-> Absent]
Present(t) == {f \in Files : t[f] # Absent}

(* The graph the pipeline builds from a tree. *)
Imported(t, f) ==
  LET taken == {s \in Present(t) : <<s, t[f].to>> \in Steals}
  IN  IF taken # {} THEN taken ELSE {t[f].to} \cap Present(t)

Reached(t, f) ==
  LET reached[n \in 0..Cardinality(Files)] ==
        IF n = 0 THEN Imported(t, f)
        ELSE reached[n-1] \cup
             UNION {Imported(t, g) : g \in {h \in reached[n-1] : t[h].kind = "via"}}
  IN  reached

Defining(t, f) ==
  {g \in Files : t[g].kind = "def" /\ g \in Reached(t, f)[Cardinality(Files)]}

ImportEdges(t, f) == {<<"IMPORTS", f, g>> : g \in Imported(t, f)}
CallEdges(t, f) == IF t[f].kind = "use" THEN {<<"CALLS", f, g>> : g \in Defining(t, f)} ELSE {}
GraphOf(t) == UNION {ImportEdges(t, f) \cup CallEdges(t, f) : f \in Present(t)}

WholeDb(t) == [rows |-> t, edges |-> GraphOf(t), groups |-> t]
EmptyDb == [rows |-> NoTree, edges |-> {}, groups |-> NoTree]

Phases == {"idle", "parse", "hash", "plan", "delete",
           "nodes", "edges", "save", "register"}

(* What an error that is caught may leave undone. *)
Skips(error, S) == IF error \in Disturbances THEN SUBSET S ELSE {{}}

-----------------------------------------------------------------------------
(* What a run decides. *)

\* Mutant: the shortcut compares commits and does not look at the working tree.
UpToDateByCommit(force) ==
  /\ meta # NoMeta /\ ~force /\ ~meta.dirty
  /\ meta.commit = head

UpToDate(force) ==
  /\ meta # NoMeta /\ ~force /\ ~meta.dirty
  /\ meta.commit = head
  /\ tree = head

IsIncremental ==
  /\ ~forced /\ seen # NoMeta
  /\ seen.current
  /\ Present(seen.hashes) # {}
  /\ Present(parsed) # {}

ToWrite == {f \in Present(hashes) : hashes[f] # seen.hashes[f]}
Deleted == Present(seen.hashes) \ Present(hashes)
Added == ToWrite \ Present(seen.hashes)

ShadowSeed ==
  {t \in Present(seen.hashes) \ ToWrite : \E s \in Added : <<s, t>> \in Steals}

Importers(f) == {g \in Files : <<"IMPORTS", g, f>> \in db.edges}

\* Mutant: files whose imports an added file takes over do not seed the walk.
WritableWithoutShadows(failed) ==
  LET walk[n \in 0..MaxDepth] ==
        IF n = 0 THEN [writable |-> ToWrite, frontier |-> ToWrite \cup Deleted]
        ELSE LET found == UNION {Importers(f) : f \in {g \in walk[n-1].frontier :
                                                       <<n-1, g>> \notin failed}}
             IN  [writable |-> walk[n-1].writable \cup found,
                  frontier |-> found \ walk[n-1].writable]
  IN  walk[MaxDepth].writable

(* The importers of changed files, breadth first, MaxDepth levels deep.  A *)
(* query that fails, for a file of a level, finds nobody.                  *)
WritableFiles(failed) ==
  LET walk[n \in 0..MaxDepth] ==
        IF n = 0 THEN [writable |-> ToWrite, frontier |-> ToWrite \cup Deleted \cup ShadowSeed]
        ELSE LET found == UNION {Importers(f) : f \in {g \in walk[n-1].frontier :
                                                       <<n-1, g>> \notin failed}}
             IN  [writable |-> walk[n-1].writable \cup found,
                  frontier |-> found \ walk[n-1].writable]
  IN  walk[MaxDepth].writable

Touching(edges, fs) == {e \in edges : e[2] \in fs \/ e[3] \in fs}

EffectiveWriteSet(writable) ==
  writable \cup UNION {{e[2], e[3]} : e \in Touching(GraphOf(parsed), writable)}

-----------------------------------------------------------------------------
Init ==
  /\ tree \in Trees /\ head = tree
  /\ meta = NoMeta /\ db = EmptyDb /\ registered = FALSE
  /\ outcome = "none" /\ phase = "idle"
  /\ forced = FALSE /\ commit = NoTree /\ seen = NoMeta
  /\ parsed = NoTree /\ hashes = NoTree
  /\ writeSet = {} /\ todo = {}

Forget ==
  /\ forced' = FALSE /\ commit' = NoTree /\ seen' = NoMeta
  /\ parsed' = NoTree /\ hashes' = NoTree
  /\ writeSet' = {} /\ todo' = {}

(* The user: git checkout or commit, and an uncommitted edit of one file. *)
MayChange == phase = "idle" \/ "edit" \in Disturbances

Checkout(t) ==
  /\ MayChange
  /\ tree' = t /\ head' = t
  /\ UNCHANGED <<disk, outcome, phase, locals>>

Edit(f, c) ==
  /\ MayChange /\ tree = head
  /\ tree' = [tree EXCEPT ![f] = c] /\ tree' \in Trees
  /\ UNCHANGED <<head, disk, outcome, phase, locals>>

Upgrade ==
  /\ "upgrade" \in Disturbances /\ phase = "idle" /\ meta # NoMeta
  /\ meta' = [meta EXCEPT !.current = FALSE]
  /\ UNCHANGED <<tree, head, db, registered, outcome, phase, locals>>

-----------------------------------------------------------------------------
(* One run of analyze, cut where the code awaits. *)

MayAnalyze(force) ==
  /\ phase = "idle"
  /\ force => "force" \in Disturbances
  /\ tree # head => "dirtyTree" \in Disturbances

\* Mutant: the shortcut answers without asking the registry.
FastPathUnregistered ==
  /\ MayAnalyze(FALSE) /\ UpToDate(FALSE)
  /\ outcome' = "upToDate"
  /\ UNCHANGED <<tree, head, disk, phase, locals>>

\* The command line asks the registry before it says "already up to date".
FastPath ==
  /\ MayAnalyze(FALSE) /\ UpToDate(FALSE)
  /\ outcome' = IF registered THEN "upToDate" ELSE "failed"
  /\ UNCHANGED <<tree, head, disk, phase, locals>>

\* The worker of a server job does not: it reports the job complete.
FastPathOfJob ==
  /\ MayAnalyze(FALSE) /\ UpToDate(FALSE)
  /\ outcome' = "complete"
  /\ UNCHANGED <<tree, head, disk, phase, locals>>

StartRun(force) ==
  /\ MayAnalyze(force) /\ ~UpToDate(force)
  /\ phase' = "parse" /\ outcome' = "none"
  /\ commit' = head /\ seen' = meta
  /\ forced' = (force \/ (meta # NoMeta /\ meta.dirty))
  /\ UNCHANGED <<tree, head, disk, parsed, hashes, writeSet, todo>>

Parse ==
  /\ phase = "parse" /\ phase' = "hash"
  /\ parsed' = tree
  /\ UNCHANGED <<tree, head, disk, outcome, forced, commit, seen, hashes, writeSet, todo>>

(* computeFileHashes reads the files again, then the write path is chosen: *)
(* the dirty flag is saved before the first row goes, or the files of the  *)
(* database are removed.  A file that cannot be read gets no hash.         *)
Hashed(unread) ==
  [f \in Files |-> IF f \in Present(parsed) \ unread THEN tree[f] ELSE Absent]

MarkDirty ==
  /\ phase = "hash" /\ IsIncremental /\ phase' = "plan"
  /\ \E unread \in Skips("readError", Present(parsed)) : hashes' = Hashed(unread)
  /\ meta' = [seen EXCEPT !.dirty = TRUE]
  /\ UNCHANGED <<tree, head, db, registered, outcome, forced, commit, seen, parsed,
                 writeSet, todo>>

Wipe ==
  /\ phase = "hash" /\ ~IsIncremental /\ phase' = "nodes"
  /\ \E unread \in Skips("readError", Present(parsed)) : hashes' = Hashed(unread)
  /\ \E kept \in Skips("writeError", {db}) : db' = IF kept = {} THEN EmptyDb ELSE db
  /\ writeSet' = Files
  /\ UNCHANGED <<tree, head, meta, registered, outcome, forced, commit, seen, parsed, todo>>

PlanWrite ==
  /\ phase = "plan" /\ phase' = "delete"
  /\ \E failed \in Skips("queryError", (0..(MaxDepth-1)) \X Files) :
       writeSet' = EffectiveWriteSet(WritableFiles(failed))
  /\ todo' = writeSet' \cup Deleted
  /\ UNCHANGED <<tree, head, disk, outcome, forced, commit, seen, parsed, hashes>>

(* A deletion that fails for a table leaves its rows, and their edges to   *)
(* rows that stay too.                                                     *)
DeleteRows(f) ==
  /\ phase = "delete" /\ f \in todo
  /\ todo' = todo \ {f}
  /\ \E kept \in Skips("writeError", {f}) : \E left \in SUBSET Touching(db.edges, kept) :
       db' = [db EXCEPT !.rows[f] = IF f \in kept THEN @ ELSE Absent,
                        !.edges = (@ \ Touching(@, {f})) \cup left]
  /\ UNCHANGED <<tree, head, meta, registered, outcome, phase, forced, commit, seen,
                 parsed, hashes, writeSet>>

DropGroups ==
  /\ phase = "delete" /\ todo = {} /\ phase' = "nodes"
  /\ \E kept \in Skips("writeError", {db.groups}) :
       db' = [db EXCEPT !.groups = IF kept = {} THEN NoTree ELSE @]
  /\ UNCHANGED <<tree, head, meta, registered, outcome, locals>>

(* COPY with IGNORE_ERRORS keeps a row whose key is already there, and     *)
(* leaves out a row that does not parse; edges are then inserted one by    *)
(* one, and those that fail are left out.                                  *)
Load(rows, new) ==
  [f \in Files |-> IF rows[f] = Absent THEN new[f] ELSE rows[f]]

LoadNodes ==
  /\ phase = "nodes" /\ phase' = "edges"
  /\ \E lost \in Skips("writeError", writeSet) :
       db' = [db EXCEPT
                !.rows = Load(@, [f \in Files |->
                                   IF f \in writeSet \ lost THEN parsed[f] ELSE Absent]),
                !.groups = IF @ = NoTree THEN parsed ELSE @]
  /\ UNCHANGED <<tree, head, meta, registered, outcome, locals>>

LoadEdges ==
  /\ phase = "edges" /\ phase' = "save"
  /\ \E lost \in Skips("writeError", Touching(GraphOf(parsed), writeSet)) :
       db' = [db EXCEPT !.edges = @ \cup
                {e \in Touching(GraphOf(parsed), writeSet) \ lost :
                   {e[2], e[3]} \subseteq Present(db.rows)}]
  /\ UNCHANGED <<tree, head, meta, registered, outcome, locals>>

\* Mutant: a forced run records no commit.
SaveMetaNoCommit ==
  /\ phase = "save" /\ phase' = "register"
  /\ meta' = [commit |-> IF forced THEN NoTree ELSE commit, hashes |-> hashes,
              dirty |-> FALSE, current |-> TRUE]
  /\ UNCHANGED <<tree, head, db, registered, outcome, locals>>

SaveMeta ==
  /\ phase = "save" /\ phase' = "register"
  /\ meta' = [commit |-> commit, hashes |-> hashes, dirty |-> FALSE, current |-> TRUE]
  /\ UNCHANGED <<tree, head, db, registered, outcome, locals>>

Register ==
  /\ phase = "register" /\ phase' = "idle"
  /\ registered' = TRUE /\ outcome' = "done"
  /\ Forget
  /\ UNCHANGED <<tree, head, meta, db>>

(* The process dies, or an await throws an error that nobody catches: a    *)
(* failing parse, COPY of nodes, full-text index or save gives the run up. *)
RebuildingUnderCleanMeta ==
  /\ phase \in {"nodes", "edges", "save"}
  /\ meta # NoMeta /\ ~meta.dirty

Stop ==
  /\ phase # "idle" /\ phase' = "idle"
  /\ RebuildingUnderCleanMeta => "rebuildCrash" \in Disturbances
  /\ outcome' = "failed"
  /\ Forget
  /\ UNCHANGED <<tree, head, disk>>

-----------------------------------------------------------------------------
User == \/ \E t \in Trees : Checkout(t)
        \/ \E f \in Files, c \in Contents : Edit(f, c)
        \/ Upgrade

Run == \/ FastPath \/ FastPathOfJob
       \/ \E force \in BOOLEAN : StartRun(force)
       \/ Parse \/ MarkDirty \/ Wipe
       \/ PlanWrite \/ \E f \in Files : DeleteRows(f)
       \/ DropGroups \/ LoadNodes \/ LoadEdges
       \/ SaveMeta \/ Register \/ Stop

Next == User \/ Run

Spec == Init /\ [][Next]_vars

-----------------------------------------------------------------------------
TypeOK ==
  /\ tree \in Trees /\ head \in Trees
  /\ meta \in Metas \cup {NoMeta} /\ seen \in Metas \cup {NoMeta}
  /\ db \in [rows : [Files -> Contents],
             edges : SUBSET ({"IMPORTS", "CALLS"} \X Files \X Files),
             groups : [Files -> Contents]]
  /\ registered \in BOOLEAN /\ forced \in BOOLEAN
  /\ outcome \in {"none", "upToDate", "complete", "done", "failed"}
  /\ phase \in Phases
  /\ commit \in Trees \cup {NoTree} /\ parsed \in Trees \cup {NoTree}
  /\ hashes \in [Files -> Contents]
  /\ writeSet \subseteq Files /\ todo \subseteq Files

(* Between runs, a meta.json without the dirty flag stands next to a       *)
(* database that is, row by row, edge by edge and community by community,  *)
(* what a full rebuild of the recorded files would have written.           *)
IndexIsWhole ==
  (phase = "idle" /\ meta # NoMeta /\ ~meta.dirty) => db = WholeDb(meta.hashes)

(* Every edge that the new content adds or takes away has an end in a file *)
(* whose rows the run replaces or deletes: what the walk over importers is *)
(* there for, and what IndexIsWhole rests on.                              *)
ChangedEdges ==
  LET old == GraphOf(seen.hashes)
      new == GraphOf(parsed)
  IN  (new \ old) \cup (old \ new)

WalkReachesChanges ==
  phase = "delete" => ChangedEdges = Touching(ChangedEdges, writeSet \cup Deleted)

(* The graphs for which the walk is deep enough: a definition is called    *)
(* over at most MaxDepth re-exports, one more if no file can take over its *)
(* imports, and a file that fills an import which had no better target     *)
(* before does not re-export another re-export.                            *)
ChainsAreShort ==
  \A t \in Trees, f \in Files : t[f].kind = "use" =>
    \A g \in Defining(t, f) : \E n \in 0..Cardinality(Files) :
      /\ g \in Reached(t, f)[n]
      /\ n <= MaxDepth \/ (n = MaxDepth + 1 /\ \A s \in Files : <<s, g>> \notin Steals)

ArrivalsAreShallow ==
  \A t, u \in Trees : \A h \in Present(t) :
    (u[h] = t[h] /\ Imported(t, h) \subseteq Imported(u, h)) =>
      \A y \in Imported(u, h) \ Imported(t, h) :
        u[y].kind = "via" => \A z \in Imported(u, y) : u[z].kind # "via"

WalkSuffices == MaxDepth > 0 /\ ChainsAreShort /\ ArrivalsAreShallow

(* A run that would answer "already up to date" stands on a database of    *)
(* exactly the files in the working tree.                                  *)
UpToDateIsTrue ==
  (phase = "idle" /\ UpToDate(FALSE)) => db = WholeDb(tree)

(* Whoever is told that the repository is analysed finds a meta.json       *)
(* without the dirty flag; after a full run, and on the command line also  *)
(* when nothing was to be done, the repository is in the registry.         *)
SuccessIsDiscoverable ==
  /\ outcome \in {"done", "upToDate", "complete"} => meta # NoMeta /\ ~meta.dirty
  /\ outcome \in {"done", "upToDate"} => registered

(* The same of a server job that had nothing to do. *)
CompleteJobIsDiscoverable == outcome = "complete" => registered

=============================================================================
