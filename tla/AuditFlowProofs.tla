-------------------------- MODULE AuditFlowProofs --------------------------
(***************************************************************************)
(* The approval flow, proved for every chain, every set of users and any   *)
(* number of concurrent requests.                                          *)
(*                                                                         *)
(* The safety of the flow does not come from a lock, there is none: it     *)
(* comes from what every copy of the audit row carries with it.  RowInv    *)
(* says of a row, wherever it is held, that the levels before the one it   *)
(* stands at have been passed; approvals only grow, so a row that was true *)
(* when it was loaded is still true when it is written back.  AuditInv     *)
(* demands it of the row in the table and of every row a handler holds.    *)
(*                                                                         *)
(* That a level is not repeated and a closed audit stays closed does take  *)
(* turns: with one request at a time, the row a handler has loaded is the  *)
(* row in the table, and the flow is that of module Approval.              *)
(***************************************************************************)
EXTENDS AuditFlow, WellFoundedInduction, FiniteSetTheorems, TLAPS

(* LevelApproved and AllApproved, of any set of approvals. *)
PassedIn(A, i) == \E u \in User : EntitledAt(u, Chain[i]) /\ <<u, Chain[i]>> \in A

AllPassedIn(A) == \A i \in DOMAIN Chain : PassedIn(A, i)

(* A waiting row stands at a level, and the levels before it are passed; a  *)
(* passed row was passed by the system or has all its levels passed.        *)
RowInv(r, A) ==
    /\ r.status = "WAITING" =>
         \E i \in DOMAIN Chain : /\ r.current = Chain[i]
                                 /\ r.next = NextGroup(i)
                                 /\ \A j \in DOMAIN Chain : j < i => PassedIn(A, j)
    /\ r.status = "PASSED" => r.auto \/ AllPassedIn(A)

(* Everybody who holds a row agrees with the table on who decides.          *)
SameAudit(r, a) == r.status # "NONE" => a.status # "NONE" /\ r.auto = a.auto

(* What a request holds, while the table holds a and the approvals are A.   *)
HeldInv(q, a, A) ==
    /\ RowInv(q.row, A)
    /\ SameAudit(q.row, a)
    /\ q.pc = "created" => q.wf = "workflow_manreviewing" /\ q.row.status # "NONE"
    /\ q.view = "cancel" => q.act \in {"REJECT", "ABORT"}
    /\ q.view = "api" => q.act \in {"PASS", "ABORT"}

AuditInv ==
    /\ AuditTypeOK
    /\ RowInv(audit, approvals)
    /\ \A s \in Session : HeldInv(req[s], audit, approvals)
    /\ wf = "none" <=> audit.status = "NONE"
    /\ wf = "workflow_review_pass" => audit.auto \/ AllPassedIn(approvals)

-----------------------------------------------------------------------------
(* The chain *)

(* The chain is a function on 1..Len(Chain), and not empty. *)
LEMMA ChainFacts ==
    /\ Len(Chain) \in Nat /\ Len(Chain) >= 1
    /\ DOMAIN Chain = 1..Len(Chain)
    /\ \A i \in DOMAIN Chain : Chain[i] \in Group
    /\ 1 \in DOMAIN Chain
  BY ChainAssumption

(* list.index returns a position of the group, and no position of it is     *)
(* smaller.                                                                 *)
LEMMA IndexOfFirst ==
    ASSUME NEW i \in DOMAIN Chain
    PROVE  /\ IndexOf(Chain[i]) \in DOMAIN Chain
           /\ Chain[IndexOf(Chain[i])] = Chain[i]
           /\ IndexOf(Chain[i]) <= i
  <1> DEFINE S == {j \in DOMAIN Chain : Chain[j] = Chain[i]}
  <1>1. S \in SUBSET Nat /\ i \in S
    BY ChainFacts
  <1>2. PICK m \in S : \A j \in S : m <= j
    <2> DEFINE R == OpToRel(<, Nat)
    <2>1. IsWellFoundedOn(R, Nat)
      BY NatLessThanWellFounded
    <2>2. \E m \in S : \A j \in S : <<j, m>> \notin R
      <3> HIDE DEF R, S
      <3> QED
        BY <1>1, <2>1, WFMin
    <2>3. PICK m \in S : \A j \in S : <<j, m>> \notin R
      BY <2>2
    <2>4. ASSUME NEW j \in S PROVE ~(j < m)
      <3>1. <<j, m>> \notin R /\ j \in Nat /\ m \in Nat
        BY <1>1, <2>3
      <3> QED
        BY <3>1 DEF OpToRel
    <2> QED
      BY <1>1, <2>4
  <1>3. m \in DOMAIN Chain /\ Chain[m] = Chain[i]
        /\ \A j \in DOMAIN Chain : j < m => Chain[j] # Chain[i]
    BY <1>1, <1>2, ChainFacts
  <1>4. /\ IndexOf(Chain[i]) \in DOMAIN Chain
        /\ Chain[IndexOf(Chain[i])] = Chain[i]
        /\ \A j \in DOMAIN Chain : j < IndexOf(Chain[i]) => Chain[j] # Chain[i]
    BY <1>3 DEF IndexOf
  <1> QED
    BY <1>4, ChainFacts

(* The group after a level is that of the next level, or none after the last.*)
LEMMA NextGroupFacts ==
    ASSUME NEW i \in DOMAIN Chain
    PROVE  /\ NextGroup(i) \in Group \cup {NoGroup}
           /\ NextGroup(i) = NoGroup => i = Len(Chain)
           /\ NextGroup(i) # NoGroup => i + 1 \in DOMAIN Chain /\ NextGroup(i) = Chain[i + 1]
  BY ChainFacts, ChainAssumption DEF NextGroup

-----------------------------------------------------------------------------
(* Operations on a row keep it a row, and keep RowInv *)

LEMMA CreateAuditRow ==
    ASSUME NEW setting \in AuditSetting, NEW A
    PROVE  /\ create_audit(setting) \in AuditRow
           /\ create_audit(setting).status \in {"WAITING", "PASSED", "REJECTED"}
           /\ RowInv(create_audit(setting), A)
  BY ChainFacts, NextGroupFacts
  DEF AuditSetting, create_audit, AuditRow, WorkflowStatus, RowInv

LEMMA NoRowFacts ==
    ASSUME NEW A
    PROVE  NoRow \in AuditRow /\ NoRow.status = "NONE" /\ RowInv(NoRow, A)
  BY DEF NoRow, AuditRow, RowInv

(* A pass that somebody entitled to the row's level makes, recorded among    *)
(* the approvals.                                                           *)
LEMMA PassRow ==
    ASSUME NEW r \in AuditRow, NEW A, NEW u \in User,
           RowInv(r, A), can_operate("PASS", u, r)
    PROVE  /\ operate_pass(r) \in AuditRow
           /\ operate_pass(r).status # "NONE"
           /\ operate_pass(r).auto = r.auto
           /\ r.status # "NONE"
           /\ r.current \in Group
           /\ RowInv(operate_pass(r), A \cup {<<u, r.current>>})
  <1> DEFINE B == A \cup {<<u, r.current>>}
  <1>1. r.status = "WAITING" /\ EntitledAt(u, r.current)
    BY DEF can_operate, ExecuteAction, SUPPORTED_OPERATION_GRID, AuditRow, WorkflowStatus
  <1>2. PICK i \in DOMAIN Chain : /\ r.current = Chain[i]
                                  /\ r.next = NextGroup(i)
                                  /\ \A j \in DOMAIN Chain : j < i => PassedIn(A, j)
    BY <1>1 DEF RowInv
  <1>3. \A j \in DOMAIN Chain : j <= i => PassedIn(B, j)
    <2> SUFFICES ASSUME NEW j \in DOMAIN Chain, j <= i PROVE PassedIn(B, j)
      OBVIOUS
    <2>1. CASE j = i
      BY <1>1, <1>2, <2>1 DEF PassedIn
    <2>2. CASE j < i
      BY <1>2, <2>2 DEF PassedIn
    <2> QED
      BY <2>1, <2>2, ChainFacts
  <1>4. CASE r.next = NoGroup
    <2>1. AllPassedIn(B)
      <3>1. i = Len(Chain)
        BY <1>2, <1>4, NextGroupFacts
      <3>2. \A j \in DOMAIN Chain : j <= i
        BY <3>1, ChainFacts
      <3> QED
        BY <1>3, <3>2 DEF AllPassedIn
    <2> QED
      BY <1>1, <1>2, <1>4, <2>1, ChainFacts
      DEF operate_pass, RowInv, AuditRow, WorkflowStatus
  <1>5. CASE r.next # NoGroup
    <2> DEFINE k == IndexOf(r.next)
    <2>1. i + 1 \in DOMAIN Chain /\ r.next = Chain[i + 1]
      BY <1>2, <1>5, NextGroupFacts
    <2>2. k \in DOMAIN Chain /\ Chain[k] = r.next /\ k <= i + 1
      BY <2>1, IndexOfFirst
    <2>3. \A j \in DOMAIN Chain : j < k => PassedIn(B, j)
      <3>1. \A j \in DOMAIN Chain : j < k => j <= i
        <4> HIDE DEF k
        <4> QED
          BY <2>2, ChainFacts
      <3> QED
        BY <1>3, <3>1
    <2>4. NextGroup(k) \in Group \cup {NoGroup}
      BY <2>2, NextGroupFacts
    <2>5. operate_pass(r) = [r EXCEPT !.status = "WAITING", !.current = r.next,
                                      !.next = NextGroup(k)]
      BY <1>5 DEF operate_pass
    <2>6. operate_pass(r) \in AuditRow /\ operate_pass(r).status = "WAITING"
          /\ operate_pass(r).current = r.next /\ operate_pass(r).next = NextGroup(k)
          /\ operate_pass(r).auto = r.auto
      BY <2>4, <2>5 DEF AuditRow, WorkflowStatus
    <2> QED
      BY <1>1, <1>2, <2>2, <2>3, <2>6, ChainFacts DEF RowInv
  <1> QED
    BY <1>4, <1>5

(* A rejection or an abort closes the row. *)
LEMMA CloseRow ==
    ASSUME NEW r \in AuditRow, NEW A, NEW u \in User, NEW act \in {"REJECT", "ABORT"},
           can_operate(act, u, r)
    PROVE  /\ operate(act, r) \in AuditRow
           /\ operate(act, r).status \in {"REJECTED", "ABORTED"}
           /\ operate(act, r).auto = r.auto
           /\ r.status # "NONE"
           /\ RowInv(operate(act, r), A)
  <1>1. r.status # "NONE"
    BY DEF can_operate, SUPPORTED_OPERATION_GRID
  <1>2. CASE act = "REJECT"
    BY <1>1, <1>2 DEF operate, ExecuteAction, operate_reject, AuditRow, WorkflowStatus, RowInv
  <1>3. CASE act = "ABORT"
    BY <1>1, <1>3 DEF operate, ExecuteAction, operate_abort, AuditRow, WorkflowStatus, RowInv
  <1> QED
    BY <1>2, <1>3

(* What was true of a row stays true when approvals are added. *)
LEMMA RowInvMonotone ==
    ASSUME NEW r, NEW A, NEW B, A \subseteq B, RowInv(r, A)
    PROVE  RowInv(r, B)
  BY DEF RowInv, PassedIn, AllPassedIn

LEMMA AllPassedMonotone ==
    ASSUME NEW A, NEW B, A \subseteq B, AllPassedIn(A)
    PROVE  AllPassedIn(B)
  BY DEF PassedIn, AllPassedIn

-----------------------------------------------------------------------------
(* The invariant is inductive *)

(* A handler that changes its own request, adds approvals and keeps who     *)
(* decides disturbs no other session.                                       *)
LEMMA OthersKeep ==
    ASSUME AuditInv,
           NEW s \in Session, NEW r \in Request,
           req' = [req EXCEPT ![s] = r],
           approvals \subseteq approvals',
           audit.status # "NONE" => audit'.status # "NONE" /\ audit'.auto = audit.auto,
           HeldInv(r, audit', approvals')
    PROVE  /\ req' \in [Session -> Request]
           /\ \A q \in Session : HeldInv(req'[q], audit', approvals')
  <1>1. req \in [Session -> Request]
    BY DEF AuditInv, AuditTypeOK
  <1>2. req' \in [Session -> Request]
    BY <1>1
  <1>3. ASSUME NEW q \in Session PROVE HeldInv(req'[q], audit', approvals')
    <2>1. CASE q = s
      BY <1>1, <2>1
    <2>2. CASE q # s
      <3>1. req'[q] = req[q] /\ HeldInv(req[q], audit, approvals)
        BY <1>1, <2>2 DEF AuditInv
      <3>2. RowInv(req[q].row, approvals')
        BY <3>1, RowInvMonotone DEF HeldInv
      <3>3. SameAudit(req[q].row, audit')
        BY <3>1 DEF HeldInv, SameAudit
      <3> QED
        BY <3>1, <3>2, <3>3 DEF HeldInv
    <2> QED
      BY <2>1, <2>2
  <1> QED
    BY <1>2, <1>3

(* The request of a session whose handler is done. *)
LEMMA IdleFacts ==
    ASSUME NEW A, NEW a
    PROVE  Idle \in Request /\ HeldInv(Idle, a, A)
  <1>1. Idle.row = NoRow /\ Idle.pc = "idle" /\ Idle.view = "none"
    BY DEF Idle
  <1>2. Idle \in Request
    BY NoRowFacts, UserAssumption DEF Idle, Request, Stage, View, WfStatus
  <1> QED
    BY <1>1, <1>2, NoRowFacts DEF SameAudit, HeldInv

(* AuditInv, from the parts that a step has to re-establish. *)
LEMMA InvFromParts ==
    ASSUME audit' \in AuditRow, wf' \in WfStatus, approvals' \subseteq User \X Group,
           req' \in [Session -> Request],
           RowInv(audit', approvals'),
           \A q \in Session : HeldInv(req'[q], audit', approvals'),
           wf' = "none" <=> audit'.status = "NONE",
           wf' = "workflow_review_pass" => audit'.auto \/ AllPassedIn(approvals')
    PROVE  AuditInv'
  BY DEF AuditInv, AuditTypeOK

(* A step that loads or forgets a row writes nothing. *)
LEMMA ReadInv ==
    ASSUME AuditInv, NEW s \in Session, NEW r \in Request,
           req' = [req EXCEPT ![s] = r], HeldInv(r, audit, approvals),
           UNCHANGED <<audit, wf, approvals>>
    PROVE  AuditInv'
  <1>1. req' \in [Session -> Request] /\ \A q \in Session : HeldInv(req'[q], audit', approvals')
    BY OthersKeep
  <1> QED
    BY <1>1, InvFromParts DEF AuditInv, AuditTypeOK

LEMMA InitAuditInv == AuditInit => AuditInv
  <1> SUFFICES ASSUME AuditInit PROVE AuditInv
    OBVIOUS
  <1>1. audit = NoRow /\ wf = "none" /\ approvals = {} /\ req = [s \in Session |-> Idle]
    BY DEF AuditInit
  <1> QED
    BY <1>1, NoRowFacts, IdleFacts DEF AuditInv, AuditTypeOK, WfStatus

(* Submitting: until now there was no row to hold. *)
LEMMA SubmitInv ==
    ASSUME AuditInv, NEW s \in Session, NEW setting \in AuditSetting, Submit(s, setting)
    PROVE  AuditInv'
  <1> DEFINE new == create_audit(setting)
  <1> DEFINE r == [pc |-> "created", view |-> "submit", user |-> Creator, act |-> "SUBMIT",
                   row |-> new, wf |-> "workflow_manreviewing"]
  <1>1. /\ audit.status = "NONE" /\ audit' = new /\ approvals' = approvals
        /\ wf' = "workflow_manreviewing" /\ req' = [req EXCEPT ![s] = r]
    BY DEF Submit, AuditInv
  <1>2. /\ new \in AuditRow /\ new.status # "NONE" /\ RowInv(new, approvals)
    BY CreateAuditRow
  <1>3. r \in Request
    BY <1>2, UserAssumption DEF Request, Stage, View, WfStatus
  <1>4. HeldInv(r, audit', approvals')
    BY <1>1, <1>2 DEF HeldInv, SameAudit
  <1> HIDE DEF new, r
  <1>5. req' \in [Session -> Request] /\ \A q \in Session : HeldInv(req'[q], audit', approvals')
    BY <1>1, <1>2, <1>3, <1>4, OthersKeep
  <1>6. approvals' \subseteq User \X Group /\ wf' \in WfStatus
    BY <1>1 DEF AuditInv, AuditTypeOK, WfStatus
  <1> QED
    BY <1>1, <1>2, <1>5, <1>6, InvFromParts

(* The save after the transaction writes a status that the row it holds     *)
(* justifies, however much later it comes.                                  *)
LEMMA SubmitSaveInv ==
    ASSUME AuditInv, NEW s \in Session, SubmitSave(s)
    PROVE  AuditInv'
  <1>1. /\ req[s].pc = "created" /\ audit' = audit /\ approvals' = approvals
        /\ req' = [req EXCEPT ![s] = Idle]
    BY DEF SubmitSave, Done, At
  <1>2. req' \in [Session -> Request] /\ \A q \in Session : HeldInv(req'[q], audit', approvals')
    BY <1>1, IdleFacts, OthersKeep
  <1>3. HeldInv(req[s], audit, approvals) /\ audit.status # "NONE"
    BY <1>1 DEF AuditInv, HeldInv, SameAudit
  <1>4. wf' \in {"workflow_autoreviewwrong", "workflow_review_pass", "workflow_manreviewing"}
    BY <1>1, <1>3 DEF SubmitSave, HeldInv
  <1>5. wf' = "workflow_review_pass" => req[s].row.status = "PASSED"
    BY <1>1, <1>3 DEF SubmitSave, HeldInv
  <1>6. wf' = "workflow_review_pass" => audit.auto \/ AllPassedIn(approvals)
    BY <1>3, <1>5 DEF HeldInv, SameAudit, RowInv
  <1>7. wf' \in WfStatus /\ wf' # "none"
    BY <1>4 DEF WfStatus
  <1> QED
    BY <1>1, <1>2, <1>3, <1>6, <1>7, InvFromParts DEF AuditInv, AuditTypeOK

(* A write of operate(): the row it computes from the one it loaded.         *)
LEMMA OperateInv ==
    ASSUME AuditInv, NEW s \in Session, NEW r \in Request, NEW new \in AuditRow,
           req' = [req EXCEPT ![s] = r],
           audit' = new, approvals \subseteq approvals', approvals' \subseteq User \X Group,
           req[s].row.status # "NONE", new.status # "NONE", new.auto = req[s].row.auto,
           RowInv(new, approvals'),
           \/ r = Idle
           \/ /\ r.row = new /\ r.pc # "created"
              /\ r.view = req[s].view /\ r.act = req[s].act,
           wf' = wf \/ wf' = "workflow_abort" \/
             (wf' = "workflow_review_pass" /\ new.status = "PASSED")
    PROVE  AuditInv'
  <1>1. audit.status # "NONE" /\ new.auto = audit.auto /\ wf # "none"
    BY DEF AuditInv, HeldInv, SameAudit
  <1>2. HeldInv(r, new, approvals')
    <2>1. CASE r = Idle
      BY <2>1, IdleFacts
    <2>2. CASE /\ r.row = new /\ r.pc # "created"
               /\ r.view = req[s].view /\ r.act = req[s].act
      BY <2>2 DEF AuditInv, HeldInv, SameAudit
    <2> QED
      BY <2>1, <2>2
  <1>3. req' \in [Session -> Request] /\ \A q \in Session : HeldInv(req'[q], audit', approvals')
    BY <1>1, <1>2, OthersKeep
  <1>4. wf' \in WfStatus /\ wf' # "none"
    BY <1>1 DEF AuditInv, AuditTypeOK, WfStatus
  <1>5. wf' = "workflow_review_pass" => new.auto \/ AllPassedIn(approvals')
    <2>1. CASE new.status = "PASSED"
      BY <2>1 DEF RowInv
    <2>2. CASE wf' = wf
      BY <1>1, <2>2, AllPassedMonotone DEF AuditInv
    <2> QED
      BY <2>1, <2>2
  <1> QED
    BY <1>3, <1>4, <1>5, InvFromParts

LEMMA ReqFacts ==
    ASSUME AuditInv, NEW s \in Session
    PROVE  req[s] \in Request /\ HeldInv(req[s], audit, approvals)
  BY DEF AuditInv, AuditTypeOK

LEMMA PassedLoadInv ==
    ASSUME AuditInv, NEW s \in Session, NEW u \in User, PassedLoad(s, u)
    PROVE  AuditInv'
  <1> DEFINE r == [pc |-> "loaded", view |-> "passed", user |-> u, act |-> "PASS",
                   row |-> audit, wf |-> wf]
  <1>1. r \in Request /\ HeldInv(r, audit, approvals)
    BY DEF AuditInv, AuditTypeOK, Request, Stage, View, HeldInv, SameAudit
  <1>2. req' = [req EXCEPT ![s] = r] /\ UNCHANGED <<audit, wf, approvals>>
    BY DEF PassedLoad
  <1> QED
    BY <1>1, <1>2, ReadInv

LEMMA PassedOperateInv ==
    ASSUME AuditInv, NEW s \in Session, PassedOperate(s)
    PROVE  AuditInv'
  <1> DEFINE row == req[s].row
  <1> DEFINE new == operate_pass(row)
  <1>1. /\ can_operate("PASS", req[s].user, row) /\ audit' = new
        /\ approvals' = approvals \cup {<<req[s].user, row.current>>}
        /\ wf' = IF new.status = "PASSED" THEN "workflow_review_pass" ELSE wf
        /\ req' = [req EXCEPT ![s] = Idle]
    BY DEF PassedOperate, Done
  <1>2. row \in AuditRow /\ req[s].user \in User /\ RowInv(row, approvals)
    BY ReqFacts DEF Request, HeldInv
  <1>3. /\ new \in AuditRow /\ new.status # "NONE" /\ new.auto = row.auto
        /\ row.status # "NONE" /\ row.current \in Group
        /\ RowInv(new, approvals')
    BY <1>1, <1>2, PassRow
  <1>4. approvals \subseteq approvals' /\ approvals' \subseteq User \X Group
    BY <1>1, <1>2, <1>3 DEF AuditInv, AuditTypeOK
  <1>5. Idle \in Request
    BY IdleFacts
  <1> HIDE DEF row, new
  <1> QED
    BY <1>1, <1>3, <1>4, <1>5, OperateInv DEF row

LEMMA CancelCheckInv ==
    ASSUME AuditInv, NEW s \in Session, NEW u \in User, CancelCheck(s, u)
    PROVE  AuditInv'
  <1> DEFINE r == [pc |-> "checked", view |-> "cancel", user |-> u,
                   act |-> IF u = Creator THEN "ABORT" ELSE "REJECT",
                   row |-> NoRow, wf |-> wf]
  <1>1. r \in Request /\ HeldInv(r, audit, approvals)
    BY NoRowFacts DEF AuditInv, AuditTypeOK, Request, Stage, View, HeldInv, SameAudit
  <1>2. req' = [req EXCEPT ![s] = r] /\ UNCHANGED <<audit, wf, approvals>>
    BY DEF CancelCheck
  <1> QED
    BY <1>1, <1>2, ReadInv

LEMMA CancelLoadInv ==
    ASSUME AuditInv, NEW s \in Session, CancelLoad(s)
    PROVE  AuditInv'
  <1> DEFINE r == [req[s] EXCEPT !.pc = "loaded", !.row = audit]
  <1>1. r \in Request /\ HeldInv(r, audit, approvals)
    BY ReqFacts DEF AuditInv, AuditTypeOK, Request, Stage, View, HeldInv, SameAudit
  <1>2. req' = [req EXCEPT ![s] = r] /\ UNCHANGED <<audit, wf, approvals>>
    BY DEF CancelLoad, AuditInv, AuditTypeOK
  <1> QED
    BY <1>1, <1>2, ReadInv

LEMMA CancelOperateInv ==
    ASSUME AuditInv, NEW s \in Session, CancelOperate(s)
    PROVE  AuditInv'
  <1> DEFINE new == operate(req[s].act, req[s].row)
  <1>1. /\ can_operate(req[s].act, req[s].user, req[s].row) /\ audit' = new
        /\ wf' = "workflow_abort" /\ approvals' = approvals
        /\ req' = [req EXCEPT ![s] = Idle]
    BY DEF CancelOperate, Done
  <1>2. /\ new \in AuditRow /\ new.status # "NONE" /\ new.auto = req[s].row.auto
        /\ req[s].row.status # "NONE" /\ RowInv(new, approvals')
    <2>1. req[s].act \in {"REJECT", "ABORT"}
      BY ReqFacts DEF CancelOperate, At, HeldInv
    <2> QED
      BY <1>1, <2>1, ReqFacts, CloseRow DEF Request
  <1>3. approvals \subseteq approvals' /\ approvals' \subseteq User \X Group /\ Idle \in Request
    BY <1>1, IdleFacts DEF AuditInv, AuditTypeOK
  <1> HIDE DEF new
  <1> QED
    BY <1>1, <1>2, <1>3, OperateInv

LEMMA ApiLoadInv ==
    ASSUME AuditInv, NEW s \in Session, NEW u \in User, NEW act \in {"PASS", "ABORT"},
           ApiLoad(s, u, act)
    PROVE  AuditInv'
  <1> DEFINE r == [pc |-> "loaded", view |-> "api", user |-> u, act |-> act,
                   row |-> audit, wf |-> wf]
  <1>1. r \in Request /\ HeldInv(r, audit, approvals)
    BY DEF AuditInv, AuditTypeOK, Request, Stage, View, HeldInv, SameAudit
  <1>2. req' = [req EXCEPT ![s] = r] /\ UNCHANGED <<audit, wf, approvals>>
    BY DEF ApiLoad
  <1> QED
    BY <1>1, <1>2, ReadInv

LEMMA ApiOperateInv ==
    ASSUME AuditInv, NEW s \in Session, ApiOperate(s)
    PROVE  AuditInv'
  <1> DEFINE row == req[s].row
  <1> DEFINE new == operate(req[s].act, row)
  <1> DEFINE r == [req[s] EXCEPT !.pc = "operated", !.row = new]
  <1>1. /\ can_operate(req[s].act, req[s].user, row) /\ audit' = new
        /\ approvals' = IF req[s].act = "PASS"
                        THEN approvals \cup {<<req[s].user, row.current>>} ELSE approvals
        /\ wf' = wf /\ req' = [req EXCEPT ![s] = r]
    BY DEF ApiOperate, AuditInv, AuditTypeOK
  <1>2. row \in AuditRow /\ req[s].user \in User /\ RowInv(row, approvals)
    BY ReqFacts DEF Request, HeldInv
  <1>3. /\ new \in AuditRow /\ new.status # "NONE" /\ new.auto = row.auto
        /\ row.status # "NONE" /\ RowInv(new, approvals')
        /\ approvals \subseteq approvals' /\ approvals' \subseteq User \X Group
    <2>1. approvals \subseteq User \X Group
      BY DEF AuditInv, AuditTypeOK
    <2>2. CASE req[s].act = "PASS"
      <3>1. new = operate_pass(row) /\ can_operate("PASS", req[s].user, row)
        BY <1>1, <2>2 DEF operate, ExecuteAction
      <3>2. approvals' = approvals \cup {<<req[s].user, row.current>>}
        BY <1>1, <2>2
      <3>3. /\ operate_pass(row) \in AuditRow /\ operate_pass(row).status # "NONE"
            /\ operate_pass(row).auto = row.auto /\ row.status # "NONE" /\ row.current \in Group
            /\ RowInv(operate_pass(row), approvals \cup {<<req[s].user, row.current>>})
        <4> HIDE DEF row
        <4> QED
          BY <1>2, <3>1, PassRow
      <3> HIDE DEF new
      <3> QED
        BY <1>2, <2>1, <3>1, <3>2, <3>3
    <2>3. CASE req[s].act = "ABORT"
      BY <1>1, <1>2, <2>1, <2>3, CloseRow
    <2>4. req[s].act \in {"PASS", "ABORT"}
      BY ReqFacts DEF ApiOperate, At, HeldInv
    <2> QED
      BY <2>2, <2>3, <2>4
  <1>4. /\ r \in Request /\ r.row = new /\ r.pc # "created"
        /\ r.view = req[s].view /\ r.act = req[s].act
    BY <1>3, ReqFacts DEF Request, Stage
  <1> HIDE DEF new, r
  <1> QED
    BY <1>1, <1>3, <1>4, OperateInv

(* The REST view's second write, in another transaction than the first.      *)
LEMMA ApiSaveInv ==
    ASSUME AuditInv, NEW s \in Session, ApiSave(s)
    PROVE  AuditInv'
  <1>1. /\ audit' = audit /\ approvals' = approvals /\ req' = [req EXCEPT ![s] = Idle]
        /\ wf' = wf \/ (req[s].row.status # "NONE" /\
             wf' \in {"workflow_abort", "workflow_review_pass"})
        /\ wf' = wf \/ wf' = "workflow_abort" \/ req[s].row.status = "PASSED"
    BY DEF ApiSave, Done
  <1>2. req' \in [Session -> Request] /\ \A q \in Session : HeldInv(req'[q], audit', approvals')
    BY <1>1, IdleFacts, OthersKeep
  <1>3. wf' \in WfStatus /\ (wf' = "none" <=> audit.status = "NONE")
    BY <1>1, ReqFacts DEF AuditInv, AuditTypeOK, HeldInv, SameAudit, WfStatus
  <1>4. wf' = "workflow_review_pass" => audit.auto \/ AllPassedIn(approvals)
    BY <1>1, ReqFacts DEF AuditInv, HeldInv, SameAudit, RowInv
  <1> QED
    BY <1>1, <1>2, <1>3, <1>4, InvFromParts DEF AuditInv, AuditTypeOK

LEMMA RefusedInv ==
    ASSUME AuditInv, NEW s \in Session, Refused(s)
    PROVE  AuditInv'
  BY IdleFacts, ReadInv DEF Refused, Done
-----------------------------------------------------------------------------
(* The theorems *)

LEMMA StepAuditInv == AuditInv /\ [AuditNext]_auditVars => AuditInv'
  <1> SUFFICES ASSUME AuditInv, [AuditNext]_auditVars PROVE AuditInv'
    OBVIOUS
  <1>1. ASSUME NEW s \in Session, NEW setting \in AuditSetting, Submit(s, setting)
        PROVE AuditInv'
    BY <1>1, SubmitInv
  <1>2. ASSUME NEW s \in Session, SubmitSave(s) PROVE AuditInv'
    BY <1>2, SubmitSaveInv
  <1>3. ASSUME NEW s \in Session, NEW u \in User, PassedLoad(s, u) PROVE AuditInv'
    BY <1>3, PassedLoadInv
  <1>4. ASSUME NEW s \in Session, NEW u \in User, CancelCheck(s, u) PROVE AuditInv'
    BY <1>4, CancelCheckInv
  <1>5. ASSUME NEW s \in Session, NEW u \in User, NEW act \in {"PASS", "ABORT"},
               ApiLoad(s, u, act)
        PROVE AuditInv'
    BY <1>5, ApiLoadInv
  <1>6. ASSUME NEW s \in Session, PassedOperate(s) PROVE AuditInv'
    BY <1>6, PassedOperateInv
  <1>7. ASSUME NEW s \in Session, CancelLoad(s) PROVE AuditInv'
    BY <1>7, CancelLoadInv
  <1>8. ASSUME NEW s \in Session, CancelOperate(s) PROVE AuditInv'
    BY <1>8, CancelOperateInv
  <1>9. ASSUME NEW s \in Session, ApiOperate(s) PROVE AuditInv'
    BY <1>9, ApiOperateInv
  <1>10. ASSUME NEW s \in Session, ApiSave(s) PROVE AuditInv'
    BY <1>10, ApiSaveInv
  <1>11. ASSUME NEW s \in Session, Refused(s) PROVE AuditInv'
    BY <1>11, RefusedInv
  <1>12. CASE UNCHANGED auditVars
    BY <1>12 DEF auditVars, AuditInv, AuditTypeOK
  <1> QED
    BY <1>1, <1>2, <1>3, <1>4, <1>5, <1>6, <1>7, <1>8, <1>9, <1>10, <1>11, <1>12
    DEF AuditNext, Handler

THEOREM AuditInvariant == AuditSpec => []AuditInv
  BY InitAuditInv, StepAuditInv, PTL DEF AuditSpec

LEMMA InvImpliesProperties ==
    AuditInv => AuditTypeOK /\ RowOnChain /\ EveryLevelApproved /\ ReleasedOnlyIfApproved
  BY DEF AuditInv, RowInv, RowOnChain, EveryLevelApproved, ReleasedOnlyIfApproved,
         AllApproved, LevelApproved, AllPassedIn, PassedIn

(* The rows and the requests always have the types the code gives them.     *)
THEOREM AuditTypes == AuditSpec => []AuditTypeOK
  BY AuditInvariant, InvImpliesProperties, PTL

(* For every chain, a waiting audit stands at a level of it and names the    *)
(* level after: current_audit and next_audit never part.                     *)
THEOREM AuditRowOnChain == AuditSpec => []RowOnChain
  BY AuditInvariant, InvImpliesProperties, PTL

(* For every chain and any number of concurrent handlers, an audit that was  *)
(* not passed by the system is passed only after every level was.            *)
THEOREM AuditEveryLevelApproved == AuditSpec => []EveryLevelApproved
  BY AuditInvariant, InvImpliesProperties, PTL

(* So is the workflow released only then, although its status is written     *)
(* after the audit row, and by whoever comes last.                           *)
THEOREM AuditReleasedOnlyIfApproved == AuditSpec => []ReleasedOnlyIfApproved
  BY AuditInvariant, InvImpliesProperties, PTL

-----------------------------------------------------------------------------
(* One request at a time *)

(* No request begins before the one before it is answered, ...              *)
OneAtATime == \A s, t \in Session : s = t

(* ... and no group has two levels: list.index finds the level meant.       *)
DistinctLevels == \A i, j \in DOMAIN Chain : Chain[i] = Chain[j] => i = j

(* The levels before i are passed, and there is no approval of another.     *)
PassedBefore(A, i) ==
    /\ \A j \in DOMAIN Chain : j < i => PassedIn(A, j)
    /\ \A a \in A : \E j \in DOMAIN Chain : j < i /\ a[2] = Chain[j]

(* Then whoever has loaded a row holds the row in the table: nobody else    *)
(* writes.                                                                  *)
HoldsCurrent == \A s \in Session : req[s].pc = "loaded" => req[s].row = audit

(* And the level an audit waits at is the first that nobody has passed.     *)
LevelsInOrder ==
    /\ audit.status = "NONE" => approvals = {}
    /\ audit.status = "WAITING" =>
         \E i \in DOMAIN Chain : /\ audit.current = Chain[i]
                                 /\ audit.next = NextGroup(i)
                                 /\ PassedBefore(approvals, i)

AloneInv == OneAtATime /\ AuditInv /\ HoldsCurrent

OrderInv == DistinctLevels /\ AloneInv /\ LevelsInOrder

LevelsPassed(A) == {k \in DOMAIN Chain : \A j \in 1..k : PassedIn(A, j)}

(* The levels that count as passed are those before the level that is next. *)
LEMMA LevelsBefore ==
    ASSUME DistinctLevels, NEW A, NEW i \in 1..(Len(Chain) + 1), PassedBefore(A, i)
    PROVE  LevelsPassed(A) = 1..(i - 1) /\ Cardinality(LevelsPassed(A)) = i - 1
  <1>1. i \in Nat /\ i >= 1 /\ DOMAIN Chain = 1..Len(Chain) /\ Len(Chain) \in Nat
    BY ChainFacts
  <1>2. ASSUME NEW j \in DOMAIN Chain, ~(j < i) PROVE ~PassedIn(A, j)
    BY <1>2 DEF PassedIn, PassedBefore, DistinctLevels
  <1>3. ASSUME NEW k \in LevelsPassed(A) PROVE k \in 1..(i - 1)
    <2>1. k \in DOMAIN Chain /\ k \in 1..k /\ \A j \in 1..k : PassedIn(A, j)
      BY <1>1 DEF LevelsPassed
    <2>2. k < i
      BY <1>2, <2>1
    <2> QED
      BY <1>1, <2>1, <2>2
  <1>4. ASSUME NEW k \in 1..(i - 1) PROVE k \in LevelsPassed(A)
    <2>1. k \in DOMAIN Chain
      BY <1>1
    <2>2. \A j \in 1..k : j \in DOMAIN Chain /\ j < i
      BY <1>1
    <2> QED
      BY <2>1, <2>2 DEF LevelsPassed, PassedBefore
  <1>5. LevelsPassed(A) = 1..(i - 1)
    BY <1>3, <1>4
  <1>6. Cardinality(1..(i - 1)) = i - 1
    BY <1>1, FS_Interval
  <1> QED
    BY <1>5, <1>6

LEMMA InitOrder ==
    AuditInit => LevelsInOrder /\ HoldsCurrent /\ Cardinality(LevelsPassed(approvals)) = 0
  <1> SUFFICES ASSUME AuditInit PROVE LevelsInOrder /\ HoldsCurrent /\ Cardinality(LevelsPassed(approvals)) = 0
    OBVIOUS
  <1>1. audit.status = "NONE" /\ approvals = {} /\ \A s \in Session : req[s].pc = "idle"
    BY NoRowFacts DEF AuditInit, Idle
  <1>2. LevelsPassed(approvals) = {}
    <2> SUFFICES ASSUME NEW k \in DOMAIN Chain, \A j \in 1..k : PassedIn(approvals, j) PROVE FALSE
      BY DEF LevelsPassed
    <2>1. k \in 1..k
      BY ChainFacts
    <2> QED
      BY <1>1, <2>1 DEF PassedIn
  <1>3. Cardinality({}) = 0
    BY FS_EmptySet
  <1> QED
    BY <1>1, <1>2, <1>3 DEF LevelsInOrder, HoldsCurrent

-----------------------------------------------------------------------------
(* What a handler does to the audit, when nothing happened to it since it   *)
(* was loaded: nothing, or one of the steps of the abstract flow.           *)

Created ==
    /\ audit.status = "NONE"
    /\ \E setting \in AuditSetting : audit' = create_audit(setting)
    /\ approvals' = approvals

PassedOn ==
    \E u \in User :
        /\ can_operate("PASS", u, audit)
        /\ audit' = operate_pass(audit)
        /\ approvals' = approvals \cup {<<u, audit.current>>}

ClosedBy ==
    /\ audit.status \in {"WAITING", "PASSED"}
    /\ audit'.status \in {"REJECTED", "ABORTED"}
    /\ approvals' = approvals

(* A rejection or an abort is supported for these two states only. *)
LEMMA CloseStates ==
    ASSUME NEW r \in AuditRow, NEW u, NEW act \in {"REJECT", "ABORT"}, can_operate(act, u, r)
    PROVE  r.status \in {"WAITING", "PASSED"}
  BY DEF can_operate, SUPPORTED_OPERATION_GRID, AuditRow, WorkflowStatus

(* A handler that has loaded the row finds it in the table, and is the only *)
(* one who has.                                                             *)
LEMMA LoadedRow ==
    ASSUME AloneInv, NEW s \in Session, req[s].pc = "loaded"
    PROVE  /\ req[s].row = audit /\ req[s].user \in User
           /\ \A t \in Session : t = s
  BY ReqFacts DEF AloneInv, OneAtATime, HoldsCurrent, Request

LEMMA AloneStep ==
    ASSUME AloneInv, AuditNext
    PROVE  /\ HoldsCurrent'
           /\ Created \/ PassedOn \/ ClosedBy \/ UNCHANGED <<audit, approvals>>
  <1> DEFINE Facts == /\ HoldsCurrent'
                      /\ Created \/ PassedOn \/ ClosedBy \/ UNCHANGED <<audit, approvals>>
  <1>1. AuditInv /\ \A s \in Session : req[s] \in Request /\ HeldInv(req[s], audit, approvals)
    BY ReqFacts DEF AloneInv
  <1>2. req \in [Session -> Request] /\ audit \in AuditRow
    BY <1>1 DEF AuditInv, AuditTypeOK
  <1>3. ASSUME NEW s \in Session, NEW r, req' = [req EXCEPT ![s] = r],
               r.pc = "loaded" => r.row = audit'
        PROVE  HoldsCurrent'
    <2>1. req'[s] = r /\ \A t \in Session : t = s
      BY <1>2, <1>3 DEF AloneInv, OneAtATime
    <2> QED
      BY <1>3, <2>1 DEF HoldsCurrent
  <1>4. Idle.pc = "idle"
    BY DEF Idle
  <1>5. ASSUME NEW s \in Session, NEW setting \in AuditSetting, Submit(s, setting) PROVE Facts
    <2>1. PICK r : r = [pc |-> "created", view |-> "submit", user |-> Creator, act |-> "SUBMIT",
                        row |-> create_audit(setting), wf |-> "workflow_manreviewing"]
      OBVIOUS
    <2>2. req' = [req EXCEPT ![s] = r] /\ r.pc = "created"
      BY <1>5, <2>1 DEF Submit
    <2>3. HoldsCurrent'
      BY <1>3, <2>2
    <2>4. Created
      BY <1>1, <1>5 DEF Submit, AuditInv, Created
    <2> QED
      BY <2>3, <2>4
  <1>6. ASSUME NEW s \in Session, SubmitSave(s) \/ ApiSave(s) \/ Refused(s) PROVE Facts
    BY <1>3, <1>4, <1>6 DEF SubmitSave, ApiSave, Refused, Done
  <1>7. ASSUME NEW s \in Session, NEW u \in User, PassedLoad(s, u) PROVE Facts
    <2>1. PICK r : r = [pc |-> "loaded", view |-> "passed", user |-> u, act |-> "PASS",
                        row |-> audit, wf |-> wf]
      OBVIOUS
    <2>2. req' = [req EXCEPT ![s] = r] /\ r.row = audit' /\ UNCHANGED <<audit, approvals>>
      BY <1>7, <2>1 DEF PassedLoad
    <2> QED
      BY <1>3, <2>2
  <1>8. ASSUME NEW s \in Session, NEW u \in User, CancelCheck(s, u) PROVE Facts
    <2>1. PICK r : r = [pc |-> "checked", view |-> "cancel", user |-> u,
                        act |-> IF u = Creator THEN "ABORT" ELSE "REJECT",
                        row |-> NoRow, wf |-> wf]
      OBVIOUS
    <2>2. req' = [req EXCEPT ![s] = r] /\ r.pc = "checked" /\ UNCHANGED <<audit, approvals>>
      BY <1>8, <2>1 DEF CancelCheck
    <2> QED
      BY <1>3, <2>2
  <1>9. ASSUME NEW s \in Session, NEW u \in User, NEW act \in {"PASS", "ABORT"}, ApiLoad(s, u, act)
        PROVE  Facts
    <2>1. PICK r : r = [pc |-> "loaded", view |-> "api", user |-> u, act |-> act,
                        row |-> audit, wf |-> wf]
      OBVIOUS
    <2>2. req' = [req EXCEPT ![s] = r] /\ r.row = audit' /\ UNCHANGED <<audit, approvals>>
      BY <1>9, <2>1 DEF ApiLoad
    <2> QED
      BY <1>3, <2>2
  <1>10. ASSUME NEW s \in Session, CancelLoad(s) PROVE Facts
    <2>1. PICK r : r = [req[s] EXCEPT !.pc = "loaded", !.row = audit]
      OBVIOUS
    <2>2. req' = [req EXCEPT ![s] = r] /\ UNCHANGED <<audit, approvals>>
      BY <1>2, <1>10, <2>1 DEF CancelLoad
    <2>3. r.row = audit
      BY <1>2, <2>1 DEF Request
    <2> QED
      BY <1>3, <2>2, <2>3
  <1>11. ASSUME NEW s \in Session, PassedOperate(s) PROVE Facts
    <2>1. req[s].pc = "loaded" /\ req' = [req EXCEPT ![s] = Idle]
      BY <1>11 DEF PassedOperate, At, Done
    <2>2. req[s].row = audit /\ req[s].user \in User
      BY <2>1, LoadedRow
    <2>3. PassedOn
      BY <1>11, <2>2 DEF PassedOperate, PassedOn
    <2> QED
      BY <1>3, <1>4, <2>1, <2>3
  <1>12. ASSUME NEW s \in Session, CancelOperate(s) PROVE Facts
    <2>1. req[s].pc = "loaded" /\ req[s].view = "cancel" /\ req' = [req EXCEPT ![s] = Idle]
      BY <1>12 DEF CancelOperate, At, Done
    <2>2. req[s].row = audit /\ req[s].user \in User /\ req[s].act \in {"REJECT", "ABORT"}
      BY <1>1, <2>1, LoadedRow DEF HeldInv
    <2>3. /\ can_operate(req[s].act, req[s].user, audit)
          /\ audit' = operate(req[s].act, audit) /\ approvals' = approvals
      BY <1>12, <2>2 DEF CancelOperate
    <2>4. ClosedBy
      BY <1>2, <2>2, <2>3, CloseRow, CloseStates DEF ClosedBy
    <2> QED
      BY <1>3, <1>4, <2>1, <2>4
  <1>13. ASSUME NEW s \in Session, ApiOperate(s) PROVE Facts
    <2>1. req[s].pc = "loaded" /\ req[s].view = "api"
      BY <1>13 DEF ApiOperate, At
    <2>2. req[s].row = audit /\ req[s].user \in User /\ req[s].act \in {"PASS", "ABORT"}
      BY <1>1, <2>1, LoadedRow DEF HeldInv
    <2>3. PICK new, r : new = operate(req[s].act, audit)
                        /\ r = [req[s] EXCEPT !.pc = "operated", !.row = new]
      OBVIOUS
    <2>4. /\ can_operate(req[s].act, req[s].user, audit) /\ audit' = new
          /\ approvals' = IF req[s].act = "PASS"
                          THEN approvals \cup {<<req[s].user, audit.current>>} ELSE approvals
          /\ req' = [req EXCEPT ![s] = r]
      BY <1>2, <1>13, <2>2, <2>3 DEF ApiOperate
    <2>5. r.pc = "operated"
      BY <1>2, <2>3 DEF Request
    <2>6. HoldsCurrent'
      BY <1>3, <2>4, <2>5
    <2>7. CASE req[s].act = "PASS"
      BY <2>2, <2>3, <2>4, <2>6, <2>7 DEF operate, ExecuteAction, PassedOn
    <2>8. CASE req[s].act = "ABORT"
      <3>1. ClosedBy
        BY <1>2, <2>2, <2>3, <2>4, <2>8, CloseRow, CloseStates DEF ClosedBy
      <3> QED
        BY <2>6, <3>1
    <2> QED
      BY <2>2, <2>7, <2>8
  <1> HIDE DEF Facts
  <1>14. Facts
    BY <1>5, <1>6, <1>7, <1>8, <1>9, <1>10, <1>11, <1>12, <1>13 DEF AuditNext, Handler
  <1> QED
    BY <1>14 DEF Facts

(* A pass approves the level that is next, and moves on to the one after. *)
LEMMA PassedOnOrder ==
    ASSUME OrderInv, PassedOn
    PROVE  \E i \in DOMAIN Chain :
             /\ audit.status = "WAITING"
             /\ PassedBefore(approvals, i)
             /\ PassedBefore(approvals', i + 1)
             /\ \/ i = Len(Chain) /\ audit'.status = "PASSED"
                \/ /\ i + 1 \in DOMAIN Chain /\ audit'.status = "WAITING"
                   /\ audit'.current = Chain[i + 1] /\ audit'.next = NextGroup(i + 1)
  <1>1. PICK u \in User : /\ can_operate("PASS", u, audit)
                          /\ audit' = operate_pass(audit)
                          /\ approvals' = approvals \cup {<<u, audit.current>>}
    BY DEF PassedOn
  <1>2. audit \in AuditRow
    BY DEF OrderInv, AloneInv, AuditInv, AuditTypeOK
  <1>3. audit.status = "WAITING" /\ EntitledAt(u, audit.current)
    BY <1>1, <1>2 DEF can_operate, ExecuteAction, SUPPORTED_OPERATION_GRID, AuditRow, WorkflowStatus
  <1>4. PICK i \in DOMAIN Chain : /\ audit.current = Chain[i]
                                  /\ audit.next = NextGroup(i)
                                  /\ PassedBefore(approvals, i)
    BY <1>3 DEF OrderInv, LevelsInOrder
  <1>5. PassedBefore(approvals', i + 1)
    <2>1. ASSUME NEW j \in DOMAIN Chain, j < i + 1 PROVE PassedIn(approvals', j)
      <3>1. CASE j = i
        BY <1>1, <1>3, <1>4, <3>1 DEF PassedIn
      <3>2. CASE j < i
        BY <1>1, <1>4, <3>2 DEF PassedBefore, PassedIn
      <3> QED
        BY <2>1, <3>1, <3>2, ChainFacts
    <2>2. ASSUME NEW a \in approvals' PROVE \E j \in DOMAIN Chain : j < i + 1 /\ a[2] = Chain[j]
      <3>1. CASE a \in approvals
        <4>1. PICK j \in DOMAIN Chain : j < i /\ a[2] = Chain[j]
          BY <1>4, <3>1 DEF PassedBefore
        <4>2. j < i + 1
          BY <4>1, ChainFacts
        <4> QED
          BY <4>1, <4>2
      <3>2. CASE a = <<u, Chain[i]>>
        <4>1. i < i + 1 /\ a[2] = Chain[i]
          BY <3>2, ChainFacts
        <4> QED
          BY <4>1
      <3> QED
        BY <1>1, <1>4, <2>2, <3>1, <3>2
    <2> QED
      BY <2>1, <2>2 DEF PassedBefore
  <1>6. CASE audit.next = NoGroup
    <2>1. i = Len(Chain)
      BY <1>4, <1>6, NextGroupFacts
    <2>2. audit'.status = "PASSED"
      BY <1>1, <1>2, <1>6 DEF operate_pass, AuditRow
    <2> QED
      BY <1>3, <1>4, <1>5, <2>1, <2>2
  <1>7. CASE audit.next # NoGroup
    <2>1. i + 1 \in DOMAIN Chain /\ audit.next = Chain[i + 1]
      BY <1>4, <1>7, NextGroupFacts
    <2>2. IndexOf(audit.next) = i + 1
      BY <2>1, IndexOfFirst DEF OrderInv, DistinctLevels
    <2>3. audit' = [audit EXCEPT !.status = "WAITING", !.current = audit.next,
                                 !.next = NextGroup(i + 1)]
      BY <1>1, <1>7, <2>2 DEF operate_pass
    <2>4. audit'.status = "WAITING" /\ audit'.current = Chain[i + 1] /\ audit'.next = NextGroup(i + 1)
      BY <1>2, <2>1, <2>3 DEF AuditRow
    <2> QED
      BY <1>3, <1>4, <1>5, <2>1, <2>4
  <1> QED
    BY <1>6, <1>7

(* Every change of the audit is a step of the abstract flow. *)
LEMMA OrderStep ==
    ASSUME OrderInv, Created \/ PassedOn \/ ClosedBy
    PROVE  LevelsInOrder' /\ Abstract!ApprovalNext
  <1>1. /\ DistinctLevels /\ Len(Chain) \in Nat /\ Len(Chain) >= 1
        /\ DOMAIN Chain = 1..Len(Chain)
    BY ChainFacts DEF OrderInv
  <1>2. CASE Created
    <2>1. PICK setting \in AuditSetting : audit' = create_audit(setting)
      BY <1>2 DEF Created
    <2>2. audit.status = "NONE" /\ approvals = {} /\ approvals' = {}
      BY <1>2 DEF Created, OrderInv, LevelsInOrder
    <2>3. audit'.status \in {"WAITING", "PASSED", "REJECTED"}
      BY <2>1, CreateAuditRow
    <2>4. audit'.status = "WAITING" => audit'.current = Chain[1] /\ audit'.next = NextGroup(1)
      BY <2>1 DEF create_audit, AuditSetting
    <2>5. PassedBefore({}, 1) /\ 1 \in DOMAIN Chain
      BY <1>1 DEF PassedBefore
    <2>6. LevelsInOrder'
      BY <2>2, <2>3, <2>4, <2>5 DEF LevelsInOrder
    <2>7. Abstract!SubmitWorkflow
      BY <2>2, <2>3 DEF Abstract!SubmitWorkflow, LevelApproved
    <2> QED
      BY <2>6, <2>7 DEF Abstract!ApprovalNext
  <1>3. CASE PassedOn
    <2>1. PICK i \in DOMAIN Chain :
             /\ audit.status = "WAITING"
             /\ PassedBefore(approvals, i)
             /\ PassedBefore(approvals', i + 1)
             /\ \/ i = Len(Chain) /\ audit'.status = "PASSED"
                \/ /\ i + 1 \in DOMAIN Chain /\ audit'.status = "WAITING"
                   /\ audit'.current = Chain[i + 1] /\ audit'.next = NextGroup(i + 1)
      BY <1>3, PassedOnOrder
    <2>2. LevelsInOrder'
      BY <2>1 DEF LevelsInOrder
    <2>3. i \in Nat /\ i \in 1..(Len(Chain) + 1) /\ i + 1 \in 1..(Len(Chain) + 1)
      BY <1>1
    <2>4. Cardinality(LevelsPassed(approvals)) = i - 1
      BY <1>1, <2>1, <2>3, LevelsBefore
    <2>5. Cardinality(LevelsPassed(approvals')) = i
      BY <1>1, <2>1, <2>3, LevelsBefore
    <2>6. Cardinality(LevelsPassed(approvals)') = Cardinality(LevelsPassed(approvals)) + 1
      BY <2>3, <2>4, <2>5
    <2>7. Abstract!PassLevel
      BY <1>1, <2>1, <2>3, <2>5, <2>6
      DEF Abstract!PassLevel, LevelsPassed, PassedIn, LevelApproved
    <2> QED
      BY <2>2, <2>7 DEF Abstract!ApprovalNext
  <1>4. CASE ClosedBy
    <2>1. LevelsInOrder'
      BY <1>4 DEF ClosedBy, LevelsInOrder
    <2>2. Abstract!Close
      BY <1>4 DEF ClosedBy, Abstract!Close, LevelApproved
    <2> QED
      BY <2>1, <2>2 DEF Abstract!ApprovalNext
  <1> QED
    BY <1>2, <1>3, <1>4

LEMMA AloneInit == ASSUME AuditInit, OneAtATime PROVE AloneInv
  BY InitAuditInv, InitOrder DEF AloneInv

(* A step that is not of a handler of the approval flow, as long as it      *)
(* leaves the audit and the requests alone.                                 *)
LEMMA AloneKept ==
    ASSUME AloneInv, AuditInv', AuditNext \/ UNCHANGED <<audit, approvals, req>>
    PROVE  AloneInv'
  BY AloneStep DEF AloneInv, HoldsCurrent, OneAtATime

(* What ClosedStaysClosed asks of a step. *)
StaysClosed ==
    /\ audit.status \in {"REJECTED", "ABORTED"} => audit' = audit
    /\ audit.status = "PASSED" => audit'.status # "WAITING"

LEMMA AloneCloses ==
    ASSUME AloneInv, AuditNext \/ UNCHANGED audit
    PROVE  StaysClosed
  <1>1. audit \in AuditRow
    BY DEF AloneInv, AuditInv, AuditTypeOK
  <1>2. CASE UNCHANGED audit
    BY <1>2 DEF StaysClosed
  <1>3. CASE Created
    BY <1>3 DEF Created, StaysClosed
  <1>4. CASE PassedOn
    BY <1>1, <1>4 DEF PassedOn, StaysClosed, can_operate, SUPPORTED_OPERATION_GRID, AuditRow,
       WorkflowStatus
  <1>5. CASE ClosedBy
    BY <1>5 DEF ClosedBy, StaysClosed
  <1> QED
    BY <1>2, <1>3, <1>4, <1>5, AloneStep

LEMMA OrderKept ==
    ASSUME OrderInv, AuditInv', AuditNext \/ UNCHANGED <<audit, approvals, req>>
    PROVE  OrderInv' /\ [Abstract!ApprovalNext]_(Abstract!approvalVars)
  <1>1. AloneInv' /\ DistinctLevels'
    BY AloneKept DEF OrderInv, DistinctLevels
  <1>2. CASE UNCHANGED <<audit, approvals>>
    <2>1. LevelsInOrder'
      BY <1>2 DEF OrderInv, LevelsInOrder
    <2>2. UNCHANGED Abstract!approvalVars
      BY <1>2 DEF Abstract!approvalVars, LevelApproved
    <2> QED
      BY <1>1, <2>1, <2>2 DEF OrderInv
  <1>3. CASE Created \/ PassedOn \/ ClosedBy
    BY <1>1, <1>3, OrderStep DEF OrderInv
  <1> QED
    BY <1>2, <1>3, AloneStep DEF OrderInv

LEMMA OrderInit ==
    ASSUME AuditInit, OneAtATime, DistinctLevels
    PROVE  OrderInv /\ Abstract!ApprovalInit
  <1>1. OrderInv
    BY AloneInit, InitOrder DEF OrderInv
  <1>2. audit.status = "NONE" /\ Cardinality(LevelsPassed(approvals)) = 0
    BY InitOrder, NoRowFacts DEF AuditInit
  <1>3. Abstract!ApprovalInit
    BY <1>2 DEF Abstract!ApprovalInit, LevelsPassed, PassedIn, LevelApproved
  <1> QED
    BY <1>1, <1>3

(* While requests are handled one at a time, an audit that was rejected or  *)
(* aborted is not written again, and one that was passed does not go back   *)
(* to waiting: SUPPORTED_OPERATION_GRID, for every chain and set of users.  *)
THEOREM AuditClosedStaysClosed == OneAtATime /\ AuditSpec => ClosedStaysClosed
  <1>1. OneAtATime /\ AuditInit => AloneInv
    BY AloneInit
  <1>2. AloneInv /\ AuditInv' /\ [AuditNext]_auditVars => AloneInv'
    BY AloneKept DEF auditVars
  <1>3. AloneInv /\ [AuditNext]_auditVars
          => [/\ audit.status \in {"REJECTED", "ABORTED"} => audit' = audit
              /\ audit.status = "PASSED" => audit'.status # "WAITING"]_auditVars
    BY AloneCloses DEF auditVars, StaysClosed
  <1> QED
    BY <1>1, <1>2, <1>3, AuditInvariant, PTL DEF AuditSpec, ClosedStaysClosed

(* And the handlers then implement the abstract approval flow: the levels   *)
(* are passed one at a time and in order, the last one approves.  A chain   *)
(* must not name a group twice, for list.index would go back to the first   *)
(* of its levels.                                                           *)
THEOREM AuditImplementsApproval ==
    OneAtATime /\ DistinctLevels /\ AuditSpec => ImplementsApproval
  <1>1. OneAtATime /\ DistinctLevels /\ AuditInit => OrderInv /\ Abstract!ApprovalInit
    BY OrderInit
  <1>2. OrderInv /\ AuditInv' /\ [AuditNext]_auditVars
          => OrderInv' /\ [Abstract!ApprovalNext]_(Abstract!approvalVars)
    BY OrderKept DEF auditVars
  <1> QED
    BY <1>1, <1>2, AuditInvariant, PTL DEF AuditSpec, ImplementsApproval, Abstract!ApprovalSpec
=============================================================================
