------------------------------- MODULE MCOa -------------------------------
(* Two levels with an approver each, in Archery and in DingTalk. *)
EXTENDS DingtalkOa

CONSTANTS g1, g2, s1, d1, d2, k1, k2, engineer, leader, dba

MCChain == <<g1, g2>>

MCMember == [u \in User |-> CASE u = engineer -> {}
                              [] u = leader   -> {g1}
                              [] u = dba      -> {g2}]

\* The same people decide in DingTalk, and no one at both levels.
MCAuditor == [g \in Group |-> IF g = g1 THEN {leader} ELSE {dba}]
MCApprover == <<{leader}, {dba}>>
=============================================================================
