--------------------------- MODULE MCAnalyzeIndex ---------------------------
(* Instances of AnalyzeIndex: a caller a, two re-exporting files b and c,  *)
(* a definition d, and s, a file that takes over the imports of c.         *)
EXTENDS AnalyzeIndex, TLC

CONSTANTS a, b, c, d, s

Def == [kind |-> "def", to |-> NoFile]
Plain == [kind |-> "plain", to |-> NoFile]
Use(f) == [kind |-> "use", to |-> f]
Via(f) == [kind |-> "via", to |-> f]

TreesOf(may) == {t \in [Files -> UNION {may[f] : f \in Files}] :
                   \A f \in Files : t[f] \in may[f]}

(* Definitions move, re-exports come and go, s appears next to c. *)
MCFiles == {a, b, c, d, s}
MCTrees ==
  TreesOf(a :> {Use(b)} @@ b :> {Via(c)} @@ c :> {Absent, Plain, Via(d)}
          @@ d :> {Absent, Def} @@ s :> {Absent, Plain, Def})
MCSteals == {<<s, c>>}

(* A chain of re-exports whose middle file comes and goes. *)
ChainFiles == {a, b, c, d, s}
ChainTrees ==
  TreesOf(a :> {Use(b)} @@ b :> {Via(c)} @@ c :> {Absent, Via(d)}
          @@ d :> {Via(s)} @@ s :> {Def})

(* What tells the two instances apart. *)
ASSUME WalkSuffices <=> Trees # ChainTrees
=============================================================================
