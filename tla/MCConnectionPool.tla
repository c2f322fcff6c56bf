-------------------------- MODULE MCConnectionPool --------------------------
(* Instances of ConnectionPool: r1 and r2 share a database path, r3 has    *)
(* its own.                                                                *)
EXTENDS ConnectionPool, TLC

CONSTANTS r1, r2, r3, p1, p2, q1, q2, q3

MCPathOf == r1 :> p1 @@ r2 :> p1 @@ r3 :> p2
MCPathOf2 == r1 :> p1 @@ r2 :> p1
=============================================================================
