------------------------------ MODULE Approval ------------------------------
(***************************************************************************)
(* What an approval flow promises, without rows, handlers or sessions: the *)
(* levels are passed one at a time and in order, the last one approves the *)
(* workflow, an approved workflow can still be vetoed, and a veto or a     *)
(* withdrawal is final.  AuditFlow is checked to implement it when one     *)
(* request is handled at a time.                                           *)
(***************************************************************************)
EXTENDS Naturals

CONSTANT Levels      \* the number of levels of the chain, at least one

VARIABLES
    phase,           \* where the workflow stands
    passed           \* how many levels have been passed

approvalVars == <<phase, passed>>

Phase == {"draft", "review", "approved", "rejected", "aborted"}

ApprovalTypeOK == phase \in Phase /\ passed \in 0..Levels

ApprovalInit == phase = "draft" /\ passed = 0

\* The system itself may approve or reject a workflow that is submitted.
SubmitWorkflow ==
    /\ phase = "draft"
    /\ phase' \in {"review", "approved", "rejected"}
    /\ UNCHANGED passed

PassLevel ==
    /\ phase = "review"
    /\ passed' = passed + 1
    /\ phase' = IF passed' = Levels THEN "approved" ELSE "review"

Close ==
    /\ phase \in {"review", "approved"}
    /\ phase' \in {"rejected", "aborted"}
    /\ UNCHANGED passed

ApprovalNext == SubmitWorkflow \/ PassLevel \/ Close

ApprovalSpec == ApprovalInit /\ [][ApprovalNext]_approvalVars
=============================================================================
