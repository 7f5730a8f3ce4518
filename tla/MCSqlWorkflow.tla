--------------------------- MODULE MCSqlWorkflow ---------------------------
(* Two levels, an engineer who submits and executes, and a dba who reviews at both. *)
EXTENDS SqlWorkflow

CONSTANTS g1, g2, s1, x1, x2, t1, t2, engineer, dba

MCChain == <<g1, g2>>

MCMember == [u \in User |-> IF u = dba THEN {g1, g2} ELSE {}]
=============================================================================
