--------------------------- MODULE MCApplications ---------------------------
(* Two levels, and users that differ in what they may do. *)
EXTENDS Applications, TLC

CONSTANTS g1, g2, s1, s2, engineer, leader, dba, root

MCChain == <<g1, g2>>

\* The engineer is a reviewer too: only ban_self_audit stops a self approval.
MCMember == [u \in User |-> CASE u = engineer -> {g1}
                              [] u = leader   -> {g1}
                              [] u = dba      -> {g2}
                              [] u = root     -> {}]

\* Sessions differ in nothing but their names.
Sessions == Permutations(Session)
=============================================================================
