------------------------- MODULE MCDatabaseAdapter -------------------------
\* A server with operations of its own and processes that analyse.
EXTENDS DatabaseAdapter

CONSTANTS s, c1, c2, q1, u1, u2, a1, d1

MCProcOf == [o \in Ops |-> IF o = a1 THEN c1 ELSE IF o = u2 THEN c2 ELSE s]
=============================================================================
