---------------------------- MODULE MCRelations -----------------------------
(* One belongsTo field in each of three entities, which may or may not be   *)
(* its key: chains and cycles of every length up to three, dangling and     *)
(* missing targets, and relations that only lead to a cycle.                *)
EXTENDS Relations

CONSTANTS e1, e2, e3, r1, r2, r3

MCEntity == {e1, e2, e3}
MCRel == {r1, r2, r3}
MCOwner == [r \in MCRel |-> CASE r = r1 -> e1 [] r = r2 -> e2 [] r = r3 -> e3]
MCScalar == {UUID, Enum}
=============================================================================
