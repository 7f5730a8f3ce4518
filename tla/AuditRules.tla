----------------------------- MODULE AuditRules -----------------------------
(***************************************************************************)
(* The rules of the approval flow: sql/utils/workflow_audit.py, class      *)
(* AuditV2, as functions of one row of the table workflow_audit.  Nothing  *)
(* here has state: AuditFlow applies these rules to the row that the       *)
(* request handlers share.                                                 *)
(*                                                                         *)
(* A row is abstracted to the columns the rules read and write:            *)
(* current_status, current_audit, next_audit and audit_auth_groups.  The   *)
(* last is written once, when the audit is created, with the constant      *)
(* Chain, or with "" when the system itself decides: a later change of the *)
(* resource group's settings does not reach an audit that exists.  The     *)
(* field auto records that the settings passed the workflow without        *)
(* anybody's review; a workflow they rejected has no such mark.            *)
(***************************************************************************)
EXTENDS Naturals, Sequences

CONSTANTS
    Group,              \* the permission groups a level can name
    NoGroup,            \* "-1": no group at this level
    Chain,              \* audit_auth_groups: the group of each level, in order
    User,               \* the users who send requests
    Creator,            \* create_user: the engineer who submitted the workflow
    Superuser,          \* users with is_superuser
    Reviewer,           \* users with the permission sql.sql_review
    ResourceGroupUser,  \* active users of the workflow's resource group
    Member,             \* Member[u]: the permission groups of user u
    BanSelfAudit        \* the configuration item ban_self_audit

ASSUME ChainAssumption ==
    /\ NoGroup \notin Group
    /\ Chain \in Seq(Group)
    /\ Chain # <<>>

ASSUME UserAssumption ==
    /\ Creator \in User
    /\ Superuser \subseteq User
    /\ Reviewer \subseteq User
    /\ ResourceGroupUser \subseteq User
    /\ Member \in [User -> SUBSET Group]
    /\ BanSelfAudit \in BOOLEAN

-----------------------------------------------------------------------------
(* Rows *)

WorkflowStatus == {"WAITING", "PASSED", "REJECTED", "ABORTED"}

WorkflowAction == {"PASS", "REJECT", "ABORT",
                   "EXECUTE_SET_TIME", "EXECUTE_START", "EXECUTE_END"}

\* The actions of the execution: they pass every check but that of the status.
ExecuteAction == {"EXECUTE_SET_TIME", "EXECUTE_START", "EXECUTE_END"}

\* What generate_audit_setting can answer for a new workflow.
AuditSetting == {"auto_reject", "auto_pass", "manual"}

\* "NONE" stands for the absence of a row.
AuditRow == [status  : WorkflowStatus \cup {"NONE"},
             current : Group \cup {NoGroup},
             next    : Group \cup {NoGroup},
             auto    : BOOLEAN]

NoRow == [status |-> "NONE", current |-> NoGroup, next |-> NoGroup,
          auto |-> FALSE]

\* Mutant: a rejected workflow can still be withdrawn.
SUPPORTED_OPERATION_GRID_rejectedAborts ==
    [NONE     |-> {},
     WAITING  |-> {"PASS", "REJECT", "ABORT"},
     PASSED   |-> {"REJECT", "ABORT"},
     REJECTED |-> {"ABORT"},
     ABORTED  |-> {}]

\* Mutant: what was passed can be passed again.
SUPPORTED_OPERATION_GRID_passedAgain ==
    [NONE     |-> {},
     WAITING  |-> {"PASS", "REJECT", "ABORT"},
     PASSED   |-> {"PASS", "REJECT", "ABORT",
                   "EXECUTE_SET_TIME", "EXECUTE_START", "EXECUTE_END"},
     REJECTED |-> {},
     ABORTED  |-> {}]

SUPPORTED_OPERATION_GRID ==
    [NONE     |-> {},
     WAITING  |-> {"PASS", "REJECT", "ABORT"},
     PASSED   |-> {"REJECT", "ABORT",
                   "EXECUTE_SET_TIME", "EXECUTE_START", "EXECUTE_END"},
     REJECTED |-> {},
     ABORTED  |-> {}]

-----------------------------------------------------------------------------
(* Positions in the chain *)

\* list.index: the first position of a group of the chain.
IndexOf(g) ==
    CHOOSE i \in DOMAIN Chain :
        /\ Chain[i] = g
        /\ \A j \in DOMAIN Chain : j < i => Chain[j] # g

\* The group after the one at position i, NoGroup behind the last.
NextGroup(i) == IF i + 1 > Len(Chain) THEN NoGroup ELSE Chain[i + 1]

-----------------------------------------------------------------------------
(* Operations on a row *)

\* Mutant: next_audit is not filled in.
create_audit_noNext(setting) ==
    [status  |-> CASE setting = "auto_reject" -> "REJECTED"
                   [] setting = "auto_pass"   -> "PASSED"
                   [] setting = "manual"      -> "WAITING",
     current |-> IF setting = "manual" THEN Chain[1] ELSE NoGroup,
     next    |-> NoGroup,
     auto    |-> setting = "auto_pass"]

create_audit(setting) ==
    CASE setting = "auto_reject" ->
            [status |-> "REJECTED", current |-> NoGroup, next |-> NoGroup,
             auto |-> FALSE]
      [] setting = "auto_pass" ->
            [status |-> "PASSED", current |-> NoGroup, next |-> NoGroup,
             auto |-> TRUE]
      [] setting = "manual" ->
            [status |-> "WAITING", current |-> Chain[1], next |-> NextGroup(1),
             auto |-> FALSE]

\* Mutant: the group after the old level instead of the one after the new.
operate_pass_oldNext(row) ==
    IF row.next = NoGroup
    THEN [row EXCEPT !.status = "PASSED", !.current = NoGroup]
    ELSE [row EXCEPT !.status  = "WAITING",
                     !.current = row.next,
                     !.next    = NextGroup(IndexOf(row.current))]

operate_pass(row) ==
    IF row.next = NoGroup
    THEN [row EXCEPT !.status = "PASSED", !.current = NoGroup]
    ELSE [row EXCEPT !.status  = "WAITING",
                     !.current = row.next,
                     !.next    = NextGroup(IndexOf(row.next))]

operate_reject(row) ==
    [row EXCEPT !.status = "REJECTED", !.current = NoGroup, !.next = NoGroup]

\* An abort leaves current_audit as it was.
operate_abort(row) == [row EXCEPT !.status = "ABORTED", !.next = NoGroup]

\* The row in the handler's hands after operate(), saved unless the action is
\* one of the execution: of those operate() returns without having done a thing.
operate(action, row) ==
    CASE action = "PASS"   -> operate_pass(row)
      [] action = "REJECT" -> operate_reject(row)
      [] action = "ABORT"  -> operate_abort(row)
      [] action \in ExecuteAction -> row

-----------------------------------------------------------------------------
(* Permissions *)

\* User.has_perm("sql.sql_review"): a superuser has every permission.
HasReviewPerm(u) == u \in Reviewer \cup Superuser

auth_group_users(g) == {u \in ResourceGroupUser : g \in Member[u]}

SelfAuditBanned(u) == u = Creator /\ BanSelfAudit

\* May u decide at the level of group g?  The resource group is only asked
\* whether somebody of g belongs to it, not whether u does.
EntitledAt(u, g) ==
    \/ u \in Superuser
    \/ /\ ~SelfAuditBanned(u)
       /\ HasReviewPerm(u)
       /\ auth_group_users(g) # {}
       /\ g \in Member[u]

\* Mutant: any reviewer may decide at any level.
can_operate_anyReviewer(action, u, row) ==
    /\ action \in SUPPORTED_OPERATION_GRID[row.status]
    /\ HasReviewPerm(u) \/ (action = "ABORT" /\ u = Creator)

can_operate(action, u, row) ==
    /\ action \in SUPPORTED_OPERATION_GRID[row.status]
    /\ \/ action \in ExecuteAction
       \/ action = "ABORT" /\ u = Creator
       \/ action = "PASS" /\ EntitledAt(u, row.current)
       \/ /\ action = "REJECT"
          /\ \/ EntitledAt(u, row.current)
             \* An approved workflow has no current group left to ask for.
             \/ /\ row.current = NoGroup
                /\ ~SelfAuditBanned(u)
                /\ HasReviewPerm(u)

\* Audit.can_review, which the cancel view consults: here the user must also
\* belong to the resource group.
can_review(u, row) ==
    /\ ~(SelfAuditBanned(u) /\ u \notin Superuser)
    /\ row.status = "WAITING"
    /\ u \in Superuser \cup auth_group_users(row.current)
    /\ HasReviewPerm(u)
=============================================================================
