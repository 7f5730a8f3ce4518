-------------------------- MODULE DingtalkOaProofs --------------------------
(***************************************************************************)
(* Approval by DingTalk beside approval on the web, proved for every chain *)
(* and whitelist, and any number of users, requests, instances and         *)
(* callbacks: no level of the chain comes for free.                        *)
(*                                                                         *)
(* The argument of AuditFlowProofs, that the levels before the one a row   *)
(* stands at were passed by people entitled to, is lost with the callbacks:*)
(* a repeated event spends one decision on two levels.  What is left is    *)
(* the count.  CoveredRow says of a row, wherever it is held, that it has  *)
(* no more levels behind it than passes were recorded; passes only grow,   *)
(* so this too stays true of a row that is written back late.              *)
(*                                                                         *)
(* More holds while handlers take turns: a request at work holds the row   *)
(* in the table, an event that is about to be applied was screened for the *)
(* row as it is, and the two rows differ only between a request's writes.  *)
(***************************************************************************)
EXTENDS DingtalkOa, AuditFlowProofs

CoveredRow(r, n) ==
    /\ r.status = "WAITING" =>
         \E i \in DOMAIN Chain : r.current = Chain[i] /\ r.next = NextGroup(i) /\ i <= n + 1
    /\ r.status = "PASSED" => r.auto \/ Len(Chain) <= n

OaRequest == [pc : Stage, view : View, user : User,
              act : {"SUBMIT", "PASS", "REJECT", "ABORT"},
              row : AuditRow, wf : OaWfStatus]

HeldCovered(q, a, n) ==
    /\ CoveredRow(q.row, n)
    /\ SameAudit(q.row, a)
    /\ q.pc = "created" => q.wf = "workflow_manreviewing" /\ q.row.status # "NONE"
    /\ q.view = "passed" => q.act = "PASS"
    /\ q.view = "cancel" => q.act \in {"REJECT", "ABORT"}
    /\ q.view = "api" => q.act \in {"PASS", "ABORT"}

(* The rows and the requests.                                               *)
CoverInv ==
    /\ audit \in AuditRow /\ wf \in OaWfStatus
    /\ approvals \subseteq User \X (Group \cup {NoGroup})
    /\ req \in [Session -> OaRequest]
    /\ passes \in Nat
    /\ CoveredRow(audit, passes)
    /\ \A s \in Session : HeldCovered(req[s], audit, passes)
    /\ wf = "none" => audit.status = "NONE"
    /\ wf = "workflow_review_pass" => audit.auto \/ Len(Chain) <= passes

(* DingTalk and the callbacks; a callback at work has an event in hand.      *)
CallInv ==
    /\ oa \in [Instance -> [status : OaStatus, level : Level]]
    /\ ext \in Instance \cup {NoInstance, "none"}
    /\ start \in Instance \cup {NoInstance}
    /\ owed \in [Event -> 0..MaxSend]
    /\ logged \subseteq Event
    /\ dl \in [Delivery -> Call]
    /\ \A d \in Delivery : dl[d].pc # "idle" => dl[d].ev \in Event
    /\ moved \subseteq Event
    /\ calm \in BOOLEAN /\ lost \in BOOLEAN

OaInv == CoverInv /\ CallInv

-----------------------------------------------------------------------------
(* Rows *)

LEMMA CoveredMonotone ==
    ASSUME NEW r, NEW m \in Nat, NEW n \in Nat, m <= n, CoveredRow(r, m)
    PROVE  CoveredRow(r, n)
  <1>1. Len(Chain) \in Nat /\ \A i \in DOMAIN Chain : i \in Nat
    BY ChainFacts
  <1>2. r.status = "PASSED" => r.auto \/ Len(Chain) <= n
    BY <1>1 DEF CoveredRow
  <1>3. \A i \in DOMAIN Chain : i <= m + 1 => i <= n + 1
    BY <1>1
  <1> QED
    BY <1>2, <1>3 DEF CoveredRow

LEMMA CreateCovered ==
    ASSUME NEW setting \in AuditSetting, NEW n \in Nat
    PROVE  CoveredRow(create_audit(setting), n)
  BY ChainFacts DEF AuditSetting, create_audit, CoveredRow

LEMMA ClosedCovered ==
    ASSUME NEW r, NEW n \in Nat, r.status \in {"NONE", "REJECTED", "ABORTED"}
    PROVE  CoveredRow(r, n)
  BY DEF CoveredRow

(* One more level, one more pass: whoever makes it.                          *)
LEMMA PassCovered ==
    ASSUME NEW r \in AuditRow, NEW n \in Nat, r.status = "WAITING", CoveredRow(r, n)
    PROVE  /\ operate_pass(r) \in AuditRow
           /\ operate_pass(r).status \in {"WAITING", "PASSED"}
           /\ operate_pass(r).auto = r.auto
           /\ CoveredRow(operate_pass(r), n + 1)
  <1>1. PICK i \in DOMAIN Chain : r.current = Chain[i] /\ r.next = NextGroup(i) /\ i <= n + 1
    BY DEF CoveredRow
  <1>2. CASE r.next = NoGroup
    <2>1. Len(Chain) <= n + 1
      BY <1>1, <1>2, NextGroupFacts
    <2> QED
      BY <1>2, <2>1 DEF operate_pass, CoveredRow, AuditRow, WorkflowStatus
  <1>3. CASE r.next # NoGroup
    <2> DEFINE k == IndexOf(r.next)
    <2>1. i + 1 \in DOMAIN Chain /\ r.next = Chain[i + 1]
      BY <1>1, <1>3, NextGroupFacts
    <2>2. k \in DOMAIN Chain /\ Chain[k] = r.next /\ k <= i + 1
      BY <2>1, IndexOfFirst
    <2>3. k <= (n + 1) + 1
      <3>1. i \in Nat /\ k \in Nat
        BY <2>2, ChainFacts
      <3> HIDE DEF k
      <3> QED
        BY <1>1, <2>2, <3>1
    <2>4. NextGroup(k) \in Group \cup {NoGroup}
      BY <2>2, NextGroupFacts
    <2>5. operate_pass(r) = [r EXCEPT !.status = "WAITING", !.current = r.next,
                                      !.next = NextGroup(k)]
      BY <1>3 DEF operate_pass
    <2>6. operate_pass(r) \in AuditRow /\ operate_pass(r).status = "WAITING"
          /\ operate_pass(r).current = r.next /\ operate_pass(r).next = NextGroup(k)
          /\ operate_pass(r).auto = r.auto
      BY <2>4, <2>5 DEF AuditRow, WorkflowStatus
    <2> QED
      BY <2>2, <2>3, <2>6 DEF CoveredRow
  <1> QED
    BY <1>2, <1>3

(* What operate() may do to a row that a view holds.                         *)
LEMMA OperateCovered ==
    ASSUME NEW r \in AuditRow, NEW n \in Nat, NEW u \in User, NEW act \in {"PASS", "REJECT", "ABORT"},
           CoveredRow(r, n), can_operate(act, u, r)
    PROVE  /\ operate(act, r) \in AuditRow
           /\ operate(act, r).status # "NONE"
           /\ operate(act, r).auto = r.auto
           /\ r.status # "NONE"
           /\ CoveredRow(operate(act, r), IF act = "PASS" THEN n + 1 ELSE n)
  <1>1. act \in SUPPORTED_OPERATION_GRID[r.status]
    BY DEF can_operate
  <1>2. r.status # "NONE" /\ (act = "PASS" => r.status = "WAITING")
    BY <1>1 DEF SUPPORTED_OPERATION_GRID, AuditRow, WorkflowStatus
  <1>3. CASE act = "PASS"
    BY <1>2, <1>3, PassCovered DEF operate, ExecuteAction
  <1>4. CASE act = "REJECT"
    BY <1>2, <1>4 DEF operate, ExecuteAction, operate_reject, AuditRow, WorkflowStatus, CoveredRow
  <1>5. CASE act = "ABORT"
    BY <1>2, <1>5 DEF operate, ExecuteAction, operate_abort, AuditRow, WorkflowStatus, CoveredRow
  <1> QED
    BY <1>3, <1>4, <1>5

-----------------------------------------------------------------------------
(* The views of AuditFlow *)

(* A step that gives one session a request that holds a covered row, and     *)
(* takes nothing away, leaves what the other sessions hold covered.          *)
LEMMA OthersCovered ==
    ASSUME CoverInv, NEW s \in Session, NEW r \in OaRequest,
           req' = [req EXCEPT ![s] = r],
           passes' \in Nat, passes <= passes',
           audit.status # "NONE" => audit'.status # "NONE" /\ audit'.auto = audit.auto,
           HeldCovered(r, audit', passes')
    PROVE  /\ req' \in [Session -> OaRequest]
           /\ \A q \in Session : HeldCovered(req'[q], audit', passes')
  <1>1. req \in [Session -> OaRequest] /\ passes \in Nat
    BY DEF CoverInv
  <1>2. ASSUME NEW q \in Session PROVE HeldCovered(req'[q], audit', passes')
    <2>1. CASE q = s
      BY <1>1, <2>1
    <2>2. CASE q # s
      <3>1. req'[q] = req[q] /\ HeldCovered(req[q], audit, passes)
        BY <1>1, <2>2 DEF CoverInv
      <3>2. CoveredRow(req[q].row, passes')
        BY <1>1, <3>1, CoveredMonotone DEF HeldCovered
      <3> QED
        BY <3>1, <3>2 DEF HeldCovered, SameAudit
    <2> QED
      BY <2>1, <2>2
  <1> QED
    BY <1>1, <1>2

LEMMA IdleCovered ==
    ASSUME NEW a, NEW n \in Nat
    PROVE  Idle \in OaRequest /\ HeldCovered(Idle, a, n)
  <1>1. Idle.row = NoRow /\ Idle.pc = "idle" /\ Idle.view = "none"
    BY DEF Idle
  <1>2. NoRow \in AuditRow /\ NoRow.status = "NONE"
    BY DEF NoRow, AuditRow
  <1>3. Idle \in OaRequest
    BY <1>2, UserAssumption DEF Idle, OaRequest, Stage, View, OaWfStatus, WfStatus
  <1> QED
    BY <1>1, <1>2, <1>3 DEF SameAudit, HeldCovered, CoveredRow

LEMMA HeldFacts ==
    ASSUME CoverInv, NEW s \in Session
    PROVE  /\ req[s] \in OaRequest /\ HeldCovered(req[s], audit, passes)
           /\ req[s].row \in AuditRow /\ req[s].user \in User /\ CoveredRow(req[s].row, passes)
           /\ SameAudit(req[s].row, audit)
  BY DEF CoverInv, OaRequest, HeldCovered

(* A session that loads a row, or gives its request up. *)
LEMMA ReadCovered ==
    ASSUME CoverInv, NEW s \in Session, NEW r \in OaRequest,
           req' = [req EXCEPT ![s] = r], HeldCovered(r, audit, passes),
           UNCHANGED <<audit, wf, approvals>>, passes' \in {passes, passes + 1}
    PROVE  CoverInv'
  <1>1. passes \in Nat /\ passes' \in Nat /\ passes <= passes' /\ Len(Chain) \in Nat
    BY ChainFacts DEF CoverInv
  <1>2. HeldCovered(r, audit', passes')
    BY <1>1, CoveredMonotone DEF HeldCovered
  <1>3. req' \in [Session -> OaRequest] /\ \A q \in Session : HeldCovered(req'[q], audit', passes')
    BY <1>1, <1>2, OthersCovered
  <1>4. CoveredRow(audit', passes')
    BY <1>1, CoveredMonotone DEF CoverInv
  <1>5. Len(Chain) <= passes => Len(Chain) <= passes'
    BY <1>1
  <1> QED
    BY <1>1, <1>3, <1>4, <1>5 DEF CoverInv

(* A write of the row that operate() computes from the one a view holds.     *)
LEMMA WriteCovered ==
    ASSUME CoverInv, NEW s \in Session, NEW r \in OaRequest, NEW new \in AuditRow,
           req' = [req EXCEPT ![s] = r],
           audit' = new, approvals' \subseteq User \X (Group \cup {NoGroup}),
           passes' \in {passes, passes + 1},
           req[s].row.status # "NONE", new.status # "NONE", new.auto = req[s].row.auto,
           CoveredRow(new, passes'),
           \/ r = Idle
           \/ /\ r.row = new /\ r.pc # "created"
              /\ r.view = req[s].view /\ r.act = req[s].act,
           wf' = wf \/ wf' = "workflow_abort" \/
             (wf' = "workflow_review_pass" /\ new.status = "PASSED")
    PROVE  CoverInv'
  <1>1. passes \in Nat /\ passes' \in Nat /\ passes <= passes' /\ Len(Chain) \in Nat
    BY ChainFacts DEF CoverInv
  <1>2. audit.status # "NONE" /\ new.auto = audit.auto /\ wf # "none"
    BY HeldFacts DEF CoverInv, SameAudit
  <1>3. HeldCovered(r, new, passes')
    <2>1. CASE r = Idle
      BY <1>1, <2>1, IdleCovered
    <2>2. CASE /\ r.row = new /\ r.pc # "created"
               /\ r.view = req[s].view /\ r.act = req[s].act
      BY <2>2, HeldFacts DEF HeldCovered, SameAudit
    <2> QED
      BY <2>1, <2>2
  <1>4. req' \in [Session -> OaRequest] /\ \A q \in Session : HeldCovered(req'[q], audit', passes')
    BY <1>1, <1>2, <1>3, OthersCovered
  <1>5. wf' \in OaWfStatus /\ wf' # "none"
    BY <1>2 DEF CoverInv, OaWfStatus, WfStatus
  <1>6. wf' = "workflow_review_pass" => new.auto \/ Len(Chain) <= passes'
    <2>1. CASE new.status = "PASSED"
      BY <2>1 DEF CoveredRow
    <2>2. CASE wf' = wf
      BY <1>1, <1>2, <2>2 DEF CoverInv
    <2> QED
      BY <2>1, <2>2
  <1> QED
    BY <1>1, <1>4, <1>5, <1>6 DEF CoverInv

(* A view counts a pass in the step that makes it, and nowhere else.         *)
LEMMA WebCount ==
    ASSUME CoverInv, NEW s \in Session, WebStep(s)
    PROVE  /\ passes' \in {passes, passes + 1}
           /\ req[s].pc = "loaded" /\ req[s].act = "PASS"
                /\ can_operate("PASS", req[s].user, req[s].row) => passes' = passes + 1
           /\ req[s].pc = "loaded" /\ req[s].act # "PASS" => passes' = passes
  BY DEF WebStep

LEMMA SubmitCovered ==
    ASSUME CoverInv, NEW s \in Session, WebStep(s), NEW setting \in AuditSetting,
           Submit(s, setting)
    PROVE  CoverInv'
  <1> DEFINE new == create_audit(setting)
  <1> DEFINE r == [pc |-> "created", view |-> "submit", user |-> Creator, act |-> "SUBMIT",
                   row |-> new, wf |-> "workflow_manreviewing"]
  <1>1. /\ audit.status = "NONE" /\ audit' = new /\ approvals' = approvals
        /\ wf' = "workflow_manreviewing" /\ req' = [req EXCEPT ![s] = r]
    BY DEF Submit, CoverInv
  <1>2. passes' \in Nat /\ passes <= passes'
    BY WebCount DEF CoverInv
  <1>3. new \in AuditRow /\ new.status # "NONE" /\ CoveredRow(new, passes')
    BY <1>2, CreateAuditRow, CreateCovered
  <1>4. r \in OaRequest
    BY <1>3, UserAssumption DEF OaRequest, Stage, View, OaWfStatus, WfStatus
  <1>5. HeldCovered(r, audit', passes')
    BY <1>1, <1>3 DEF HeldCovered, SameAudit
  <1> HIDE DEF new, r
  <1>6. req' \in [Session -> OaRequest] /\ \A q \in Session : HeldCovered(req'[q], audit', passes')
    BY <1>1, <1>2, <1>4, <1>5, OthersCovered
  <1> QED
    BY <1>1, <1>2, <1>3, <1>6 DEF CoverInv, OaWfStatus, WfStatus

(* The late save of the submit API releases only what the system passed.     *)
LEMMA SubmitSaveCovered ==
    ASSUME CoverInv, NEW s \in Session, WebStep(s), SubmitSave(s)
    PROVE  CoverInv'
  <1>1. /\ req[s].pc = "created" /\ audit' = audit /\ approvals' = approvals
        /\ req' = [req EXCEPT ![s] = Idle]
    BY DEF SubmitSave, Done, At
  <1>2. passes \in Nat /\ passes' \in Nat /\ passes <= passes' /\ Len(Chain) \in Nat
    BY WebCount, ChainFacts DEF CoverInv
  <1>3. /\ audit.status # "NONE" /\ req[s].row.auto = audit.auto
        /\ req[s].wf = "workflow_manreviewing"
    BY <1>1, HeldFacts DEF HeldCovered, SameAudit
  <1>4. /\ wf' \in {"workflow_autoreviewwrong", "workflow_review_pass", "workflow_manreviewing"}
        /\ wf' = "workflow_review_pass" => req[s].row.status = "PASSED"
    BY <1>3 DEF SubmitSave
  <1>5. wf' = "workflow_review_pass" => audit.auto \/ Len(Chain) <= passes'
    BY <1>2, <1>3, <1>4, HeldFacts DEF CoveredRow
  <1>6. req' \in [Session -> OaRequest] /\ \A q \in Session : HeldCovered(req'[q], audit', passes')
    BY <1>1, <1>2, IdleCovered, OthersCovered
  <1>7. CoveredRow(audit', passes')
    BY <1>1, <1>2, CoveredMonotone DEF CoverInv
  <1>8. wf' \in OaWfStatus /\ wf' # "none"
    BY <1>4 DEF OaWfStatus, WfStatus
  <1> QED
    BY <1>1, <1>2, <1>3, <1>5, <1>6, <1>7, <1>8 DEF CoverInv

LEMMA LoadCovered ==
    ASSUME CoverInv, NEW s \in Session, WebStep(s),
           \/ \E u \in User : PassedLoad(s, u) \/ CancelCheck(s, u)
           \/ \E u \in User, act \in {"PASS", "ABORT"} : ApiLoad(s, u, act)
           \/ CancelLoad(s)
    PROVE  CoverInv'
  <1>1. audit \in AuditRow /\ CoveredRow(audit, passes) /\ wf \in OaWfStatus /\ passes \in Nat
    BY DEF CoverInv
  <1>2. NoRow \in AuditRow /\ CoveredRow(NoRow, passes) /\ NoRow.status = "NONE"
    BY DEF NoRow, AuditRow, CoveredRow
  <1>3. passes' \in {passes, passes + 1}
    BY WebCount
  <1>4. ASSUME NEW u \in User, PassedLoad(s, u) PROVE CoverInv'
    <2> DEFINE r == [pc |-> "loaded", view |-> "passed", user |-> u, act |-> "PASS",
                     row |-> audit, wf |-> wf]
    <2>1. r \in OaRequest /\ HeldCovered(r, audit, passes)
      BY <1>1 DEF OaRequest, Stage, View, HeldCovered, SameAudit
    <2> QED
      BY <1>3, <1>4, <2>1, ReadCovered DEF PassedLoad
  <1>5. ASSUME NEW u \in User, CancelCheck(s, u) PROVE CoverInv'
    <2> DEFINE r == [pc |-> "checked", view |-> "cancel", user |-> u,
                     act |-> IF u = Creator THEN "ABORT" ELSE "REJECT",
                     row |-> NoRow, wf |-> wf]
    <2>1. r \in OaRequest /\ HeldCovered(r, audit, passes)
      BY <1>1, <1>2 DEF OaRequest, Stage, View, HeldCovered, SameAudit
    <2> QED
      BY <1>3, <1>5, <2>1, ReadCovered DEF CancelCheck
  <1>6. ASSUME NEW u \in User, NEW act \in {"PASS", "ABORT"}, ApiLoad(s, u, act) PROVE CoverInv'
    <2> DEFINE r == [pc |-> "loaded", view |-> "api", user |-> u, act |-> act,
                     row |-> audit, wf |-> wf]
    <2>1. r \in OaRequest /\ HeldCovered(r, audit, passes)
      BY <1>1 DEF OaRequest, Stage, View, HeldCovered, SameAudit
    <2> QED
      BY <1>3, <1>6, <2>1, ReadCovered DEF ApiLoad
  <1>7. CASE CancelLoad(s)
    <2> DEFINE r == [req[s] EXCEPT !.pc = "loaded", !.row = audit]
    <2>1. r \in OaRequest /\ HeldCovered(r, audit, passes)
      BY <1>1, HeldFacts DEF OaRequest, Stage, View, HeldCovered, SameAudit
    <2>2. req' = [req EXCEPT ![s] = r] /\ UNCHANGED <<audit, wf, approvals>>
      BY <1>7 DEF CancelLoad, CoverInv
    <2> QED
      BY <1>3, <2>1, <2>2, ReadCovered
  <1> QED
    BY <1>4, <1>5, <1>6, <1>7

LEMMA PassedOperateCovered ==
    ASSUME CoverInv, NEW s \in Session, WebStep(s), PassedOperate(s)
    PROVE  CoverInv'
  <1> DEFINE row == req[s].row
  <1> DEFINE new == operate_pass(row)
  <1>1. /\ can_operate("PASS", req[s].user, row) /\ audit' = new
        /\ approvals' = approvals \cup {<<req[s].user, row.current>>}
        /\ wf' = IF new.status = "PASSED" THEN "workflow_review_pass" ELSE wf
        /\ req' = [req EXCEPT ![s] = Idle] /\ req[s].pc = "loaded" /\ req[s].view = "passed"
    BY DEF PassedOperate, Done, At
  <1>2. row \in AuditRow /\ req[s].user \in User /\ CoveredRow(row, passes)
        /\ passes \in Nat /\ row.current \in Group \cup {NoGroup}
    BY HeldFacts DEF CoverInv, AuditRow
  <1>3. new = operate("PASS", row)
    BY DEF operate, ExecuteAction
  <1>4. /\ new \in AuditRow /\ new.status # "NONE" /\ new.auto = row.auto
        /\ row.status # "NONE" /\ CoveredRow(new, passes + 1)
    <2> HIDE DEF row, new
    <2> QED
      BY <1>1, <1>2, <1>3, OperateCovered
  <1>5. req[s].act = "PASS" => passes' = passes + 1
    BY <1>1, WebCount
  <1>6. req[s].act = "PASS"
    BY <1>1, HeldFacts DEF HeldCovered
  <1>7. approvals' \subseteq User \X (Group \cup {NoGroup}) /\ Idle \in OaRequest
    BY <1>1, <1>2, IdleCovered DEF CoverInv
  <1> HIDE DEF row, new
  <1> QED
    BY <1>1, <1>4, <1>5, <1>6, <1>7, WriteCovered DEF row

LEMMA CancelOperateCovered ==
    ASSUME CoverInv, NEW s \in Session, WebStep(s), CancelOperate(s)
    PROVE  CoverInv'
  <1> DEFINE new == operate(req[s].act, req[s].row)
  <1>1. /\ can_operate(req[s].act, req[s].user, req[s].row) /\ audit' = new
        /\ wf' = "workflow_abort" /\ approvals' = approvals
        /\ req' = [req EXCEPT ![s] = Idle] /\ req[s].pc = "loaded" /\ req[s].view = "cancel"
    BY DEF CancelOperate, Done, At
  <1>2. req[s].act \in {"REJECT", "ABORT"} /\ passes' = passes /\ passes \in Nat
    BY <1>1, HeldFacts, WebCount DEF HeldCovered, CoverInv
  <1>3. /\ new \in AuditRow /\ new.status # "NONE" /\ new.auto = req[s].row.auto
        /\ req[s].row.status # "NONE" /\ CoveredRow(new, passes')
    BY <1>1, <1>2, HeldFacts, OperateCovered
  <1>4. approvals' \subseteq User \X (Group \cup {NoGroup}) /\ Idle \in OaRequest
    BY <1>1, <1>2, IdleCovered DEF CoverInv
  <1> HIDE DEF new
  <1> QED
    BY <1>1, <1>2, <1>3, <1>4, WriteCovered

LEMMA ApiOperateCovered ==
    ASSUME CoverInv, NEW s \in Session, WebStep(s), ApiOperate(s)
    PROVE  CoverInv'
  <1> DEFINE row == req[s].row
  <1> DEFINE new == operate(req[s].act, row)
  <1> DEFINE r == [req[s] EXCEPT !.pc = "operated", !.row = new]
  <1>1. /\ can_operate(req[s].act, req[s].user, row) /\ audit' = new
        /\ approvals' \in {approvals, approvals \cup {<<req[s].user, row.current>>}}
        /\ wf' = wf /\ req' = [req EXCEPT ![s] = r]
        /\ req[s].pc = "loaded" /\ req[s].view = "api"
    BY DEF ApiOperate, At, CoverInv
  <1>2. row \in AuditRow /\ req[s].user \in User /\ CoveredRow(row, passes)
        /\ passes \in Nat /\ row.current \in Group \cup {NoGroup}
        /\ req[s].act \in {"PASS", "ABORT"}
    BY <1>1, HeldFacts DEF CoverInv, AuditRow, HeldCovered
  <1>3. passes' = IF req[s].act = "PASS" THEN passes + 1 ELSE passes
    BY <1>1, <1>2, WebCount
  <1>4. /\ new \in AuditRow /\ new.status # "NONE" /\ new.auto = row.auto
        /\ row.status # "NONE" /\ CoveredRow(new, passes')
    <2> HIDE DEF row
    <2> QED
      BY <1>1, <1>2, <1>3, OperateCovered
  <1>5. approvals' \subseteq User \X (Group \cup {NoGroup})
    <2> HIDE DEF row
    <2> QED
      BY <1>1, <1>2 DEF CoverInv
  <1>6. /\ r \in OaRequest /\ r.row = new /\ r.pc # "created"
        /\ r.view = req[s].view /\ r.act = req[s].act
    BY <1>4, HeldFacts DEF OaRequest, Stage
  <1> HIDE DEF new, r
  <1> QED
    BY <1>1, <1>3, <1>4, <1>5, <1>6, WriteCovered

LEMMA ApiSaveCovered ==
    ASSUME CoverInv, NEW s \in Session, WebStep(s), ApiSave(s)
    PROVE  CoverInv'
  <1>1. /\ audit' = audit /\ approvals' = approvals /\ req' = [req EXCEPT ![s] = Idle]
        /\ wf' = wf \/ (req[s].row.status # "NONE" /\
             wf' \in {"workflow_abort", "workflow_review_pass"})
        /\ wf' = wf \/ wf' = "workflow_abort" \/ req[s].row.status = "PASSED"
    BY DEF ApiSave, Done
  <1>2. passes \in Nat /\ passes' \in Nat /\ passes <= passes' /\ Len(Chain) \in Nat
    BY WebCount, ChainFacts DEF CoverInv
  <1>3. req' \in [Session -> OaRequest] /\ \A q \in Session : HeldCovered(req'[q], audit', passes')
    BY <1>1, <1>2, IdleCovered, OthersCovered
  <1>4. wf' \in OaWfStatus /\ (wf' = "none" => audit.status = "NONE")
    BY <1>1, HeldFacts DEF CoverInv, SameAudit, OaWfStatus, WfStatus
  <1>5. wf' = "workflow_review_pass" => audit.auto \/ Len(Chain) <= passes'
    BY <1>1, <1>2, HeldFacts DEF CoverInv, SameAudit, CoveredRow
  <1>6. CoveredRow(audit', passes')
    BY <1>1, <1>2, CoveredMonotone DEF CoverInv
  <1> QED
    BY <1>1, <1>2, <1>3, <1>4, <1>5, <1>6 DEF CoverInv

LEMMA WebCovered ==
    ASSUME CoverInv, NEW s \in Session, WebStep(s)
    PROVE  CoverInv'
  <1>1. ASSUME NEW setting \in AuditSetting, Submit(s, setting) PROVE CoverInv'
    BY <1>1, SubmitCovered
  <1>2. CASE Refused(s)
    <2>1. passes \in Nat /\ passes' \in {passes, passes + 1}
      BY WebCount DEF CoverInv
    <2> QED
      BY <1>2, <2>1, IdleCovered, ReadCovered DEF Refused, Done
  <1>3. Handler(s) \/ ApiSave(s)
    BY DEF WebStep
  <1> QED
    BY <1>1, <1>2, <1>3, SubmitSaveCovered, LoadCovered, PassedOperateCovered,
       CancelOperateCovered, ApiOperateCovered, ApiSaveCovered
    DEF Handler

-----------------------------------------------------------------------------
(* The callbacks and DingTalk *)

(* What the handler of an event does to the rows: it counts the pass it      *)
(* makes, and never releases a workflow with less than a full count.         *)
LEMMA ApplyCovered ==
    ASSUME CoverInv, CallInv, NEW d \in Delivery, Apply(d)
    PROVE  CoverInv'
  <1>1. /\ audit \in AuditRow /\ passes \in Nat /\ Len(Chain) \in Nat
        /\ CoveredRow(audit, passes) /\ req' = req
        /\ audit.current \in Group \cup {NoGroup}
        /\ approvals \subseteq User \X (Group \cup {NoGroup})
    BY ChainFacts DEF CoverInv, Apply, AuditRow
  <1>2. dl[d].ev \in Event /\ dl[d].ev.by \in User
    BY DEF CallInv, Apply, Event
  <1>3. approvals' \subseteq User \X (Group \cup {NoGroup})
    BY <1>1, <1>2 DEF Apply
  <1>4. CASE UNCHANGED <<audit, wf, approvals, passes>>
    BY <1>1, <1>4 DEF CoverInv
  <1>5. ASSUME audit' \in AuditRow, passes' \in {passes, passes + 1}, CoveredRow(audit', passes'),
               audit'.status # "NONE", audit'.auto = audit.auto,
               wf' \in OaWfStatus, wf' # "none" \/ (wf' = wf /\ audit.status # "NONE"),
               \/ wf' = "workflow_review_pass" /\ audit'.status = "PASSED"
               \/ wf' = wf
               \/ wf' # "workflow_review_pass"
        PROVE CoverInv'
    <2>1. passes' \in Nat /\ passes <= passes'
      BY <1>1, <1>5
    <2>2. ASSUME NEW q \in Session PROVE HeldCovered(req'[q], audit', passes')
      <3>1. CoveredRow(req[q].row, passes')
        BY <1>1, <2>1, HeldFacts, CoveredMonotone
      <3> QED
        BY <1>1, <1>5, <3>1, HeldFacts DEF HeldCovered, SameAudit
    <2>3. wf' # "none"
      BY <1>5 DEF CoverInv
    <2>4. wf' = "workflow_review_pass" => audit'.auto \/ Len(Chain) <= passes'
      BY <1>1, <1>5, <2>1 DEF CoverInv, CoveredRow
    <2> QED
      BY <1>1, <1>3, <1>5, <2>1, <2>2, <2>3, <2>4 DEF CoverInv
  <1>6. CASE audit.status = "WAITING" /\ _apply_node_pass
    <2>1. /\ audit' \in AuditRow /\ audit'.status \in {"WAITING", "PASSED"}
          /\ audit'.auto = audit.auto /\ CoveredRow(audit', passes + 1) /\ passes' = passes + 1
      BY <1>1, <1>6, PassCovered DEF _apply_node_pass
    <2>2. wf' = IF audit'.status = "PASSED" THEN "workflow_review_pass" ELSE wf
      BY <1>6 DEF _apply_node_pass
    <2>3. wf' \in OaWfStatus
      BY <2>2 DEF CoverInv, OaWfStatus, WfStatus
    <2> QED
      BY <1>5, <1>6, <2>1, <2>2, <2>3
  <1>7. CASE _apply_node_reject
    BY <1>1, <1>5, <1>7
    DEF _apply_node_reject, operate_reject, AuditRow, WorkflowStatus, CoveredRow, OaWfStatus
  <1>8. CASE _apply_abort
    BY <1>1, <1>5, <1>8
    DEF _apply_abort, operate_abort, AuditRow, WorkflowStatus, CoveredRow, OaWfStatus, WfStatus
  <1> QED
    BY <1>4, <1>6, <1>7, <1>8 DEF Apply

(* Everybody else leaves the rows and the requests alone. *)
LEMMA RestCovered ==
    ASSUME CoverInv, UNCHANGED <<auditVars, passes>>
    PROVE  CoverInv'
  BY DEF CoverInv, auditVars

LEMMA EventFacts ==
    ASSUME NEW k \in Instance, NEW i \in Level, NEW u \in OaApprover[i]
    PROVE  /\ [inst |-> k, kind |-> "agree", level |-> i, by |-> u] \in Event
           /\ [inst |-> k, kind |-> "refuse", level |-> i, by |-> u] \in Event
           /\ [inst |-> k, kind |-> "terminate", level |-> i, by |-> Creator] \in Event
  <1>1. u \in User /\ Creator \in User
    BY OaAssumption, UserAssumption DEF Level
  <1> QED
    BY <1>1 DEF Event

LEMMA SendFacts ==
    ASSUME CallInv, NEW e \in Event, Send(e)
    PROVE  owed' \in [Event -> 0..MaxSend]
  BY OaAssumption DEF CallInv, Send

LEMMA DingtalkCall ==
    ASSUME CallInv, Dingtalk
    PROVE  CallInv'
  <1>1. PICK k \in Instance : OaTerminate(k) \/ \E u \in User : OaAgree(k, u) \/ OaRefuse(k, u)
    BY DEF Dingtalk
  <1>2. oa \in [Instance -> [status : OaStatus, level : Level]] /\ oa[k].level \in Level
    BY DEF CallInv
  <1>3. UNCHANGED <<ext, start, logged, dl, moved, calm, lost>>
    BY <1>1 DEF OaTerminate, OaAgree, OaRefuse
  <1>4. ASSUME NEW u \in User, OaAgree(k, u) PROVE CallInv'
    <2> DEFINE i == oa[k].level
    <2>1. oa' \in [Instance -> [status : OaStatus, level : Level]]
      <3>1. i # Len(Chain) => i + 1 \in Level
        BY <1>2, ChainFacts DEF Level
      <3>2. CASE i = Len(Chain)
        BY <1>2, <1>4, <3>2 DEF OaAgree, OaStatus
      <3>3. CASE i # Len(Chain)
        BY <1>2, <1>4, <3>1, <3>3 DEF OaAgree, OaStatus
      <3> QED
        BY <3>2, <3>3
    <2>2. owed' \in [Event -> 0..MaxSend]
      BY <1>2, <1>4, EventFacts, SendFacts DEF OaAgree
    <2> QED
      BY <1>3, <2>1, <2>2 DEF CallInv
  <1>5. ASSUME NEW u \in User, OaRefuse(k, u) PROVE CallInv'
    <2>1. oa' \in [Instance -> [status : OaStatus, level : Level]]
      BY <1>2, <1>5 DEF OaRefuse, OaStatus
    <2>2. owed' \in [Event -> 0..MaxSend]
      BY <1>2, <1>5, EventFacts, SendFacts DEF OaRefuse
    <2> QED
      BY <1>3, <2>1, <2>2 DEF CallInv
  <1>6. CASE OaTerminate(k)
    <2>1. oa' \in [Instance -> [status : OaStatus, level : Level]]
      BY <1>2, <1>6 DEF OaTerminate, OaStatus
    <2>2. [inst |-> k, kind |-> "terminate", level |-> oa[k].level, by |-> Creator] \in Event
      BY <1>2, UserAssumption DEF Event
    <2>3. owed' \in [Event -> 0..MaxSend]
      BY <1>6, <2>2, SendFacts DEF OaTerminate
    <2> QED
      BY <1>3, <2>1, <2>3 DEF CallInv
  <1> QED
    BY <1>1, <1>4, <1>5, <1>6

LEMMA CallbackCall ==
    ASSUME CallInv, NEW d \in Delivery,
           Callback(d) \/ Raised(d) \/ Fail(d) \/ \E e \in Event : Receive(d, e)
    PROVE  CallInv'
  <1>1. /\ dl \in [Delivery -> Call] /\ owed \in [Event -> 0..MaxSend] /\ MaxSend \in Nat
        /\ logged \subseteq Event /\ moved \subseteq Event /\ calm \in BOOLEAN
        /\ lost \in BOOLEAN
        /\ \A c \in Delivery : dl[c].pc # "idle" => dl[c].ev \in Event
    BY OaAssumption DEF CallInv
  <1>2. NoCall \in Call /\ NoCall.pc = "idle"
    BY ChainFacts, UserAssumption DEF NoCall, NoEvent, Call
  <1>3. ASSUME NEW e \in Event, Receive(d, e) PROVE CallInv'
    <2>1. owed' \in [Event -> 0..MaxSend]
      BY <1>1, <1>3 DEF Receive
    <2>2. dl' \in [Delivery -> Call] /\ \A c \in Delivery : dl'[c].pc # "idle" => dl'[c].ev \in Event
      <3>1. CASE e \in logged
        BY <1>1, <1>3, <3>1 DEF Receive
      <3>2. CASE e \notin logged
        <4>1. [pc |-> "received", ev |-> e] \in Call
          BY DEF Call
        <4>2. dl' = [dl EXCEPT ![d] = [pc |-> "received", ev |-> e]]
          BY <1>3, <3>2 DEF Receive
        <4> QED
          BY <1>1, <4>1, <4>2
      <3> QED
        BY <3>1, <3>2
    <2>3. calm' \in BOOLEAN
      BY <1>3 DEF Receive
    <2> QED
      BY <1>3, <2>1, <2>2, <2>3 DEF Receive, CallInv
  <1>4. CASE Screen(d)
    <2>1. /\ dl[d].pc = "received"
          /\ \E pc \in {"applying", "logging"} : dl' = [dl EXCEPT ![d].pc = pc]
      BY <1>4 DEF Screen
    <2>2. dl' \in [Delivery -> Call] /\ \A c \in Delivery : dl'[c].pc # "idle" => dl'[c].ev \in Event
      BY <1>1, <2>1 DEF Call
    <2> QED
      BY <1>4, <2>2 DEF Screen, CallInv
  <1>5. CASE Apply(d)
    <2>1. dl[d].pc = "applying" /\ dl' = [dl EXCEPT ![d].pc = "logging"]
      BY <1>5 DEF Apply
    <2>2. dl' \in [Delivery -> Call] /\ \A c \in Delivery : dl'[c].pc # "idle" => dl'[c].ev \in Event
      BY <1>1, <2>1 DEF Call
    <2>3. moved' \subseteq Event
      BY <1>1, <1>5, <2>1 DEF Apply
    <2> QED
      BY <1>5, <2>2, <2>3 DEF Apply, CallInv
  <1>6. CASE Log(d) \/ Fail(d)
    <2>1. dl[d].pc # "idle" \/ dl[d] # NoCall
      BY <1>6 DEF Log, Fail
    <2>2. dl' = [dl EXCEPT ![d] = NoCall]
      BY <1>6 DEF Log, Fail
    <2>3. dl' \in [Delivery -> Call] /\ \A c \in Delivery : dl'[c].pc # "idle" => dl'[c].ev \in Event
      BY <1>1, <1>2, <2>2
    <2>4. logged' \subseteq Event /\ calm' \in BOOLEAN
      BY <1>1, <1>6 DEF Log, Fail
    <2> QED
      BY <1>6, <2>3, <2>4 DEF Log, Fail, CallInv
  <1>7. CASE Raised(d)
    <2>1. dl[d].pc \in {"received", "applying"} /\ dl' = [dl EXCEPT ![d].pc = "logging"]
      BY <1>7 DEF Raised
    <2>2. dl' \in [Delivery -> Call] /\ \A c \in Delivery : dl'[c].pc # "idle" => dl'[c].ev \in Event
      BY <1>1, <2>1 DEF Call
    <2>3. lost' \in BOOLEAN
      BY <1>7 DEF Raised
    <2> QED
      BY <1>7, <2>2, <2>3 DEF Raised, CallInv
  <1> QED
    BY <1>3, <1>4, <1>5, <1>6, <1>7 DEF Callback

LEMMA StartCallInv ==
    ASSUME CallInv, StartFallback \/ StartRow \/ \E k \in Instance : StartCall(k)
    PROVE  CallInv'
  BY DEF CallInv, StartFallback, StartRow, StartCall, OaStatus

LEMMA WebCall ==
    ASSUME CallInv, NEW s \in Session, WebStep(s)
    PROVE  CallInv'
  BY DEF CallInv, WebStep

-----------------------------------------------------------------------------
(* The theorems *)

LEMMA InitOaInv == OaInit => OaInv
  <1> SUFFICES ASSUME OaInit PROVE OaInv
    OBVIOUS
  <1>1. /\ audit = NoRow /\ wf = "none" /\ approvals = {} /\ passes = 0
        /\ req = [s \in Session |-> Idle]
    BY DEF OaInit, AuditInit
  <1>2. NoRow \in AuditRow /\ NoRow.status = "NONE"
    BY DEF NoRow, AuditRow
  <1>3. CoverInv
    BY <1>1, <1>2, IdleCovered DEF CoverInv, CoveredRow, OaWfStatus, WfStatus
  <1>4. NoCall \in Call /\ NoCall.pc = "idle" /\ 1 \in Level /\ MaxSend \in Nat
    BY ChainFacts, UserAssumption, OaAssumption DEF NoCall, NoEvent, Call, Level
  <1>5. CallInv
    <2>1. calm \in BOOLEAN /\ lost \in BOOLEAN
      BY DEF OaInit
    <2> QED
      BY <1>4, <2>1 DEF OaInit, CallInv, OaStatus
  <1> QED
    BY <1>3, <1>5 DEF OaInv

LEMMA StepOaInv == OaInv /\ [OaNext]_allVars => OaInv'
  <1> SUFFICES ASSUME CoverInv, CallInv, [OaNext]_allVars PROVE CoverInv' /\ CallInv'
    BY DEF OaInv
  <1>1. ASSUME NEW s \in Session, WebStep(s) PROVE CoverInv' /\ CallInv'
    BY <1>1, WebCovered, WebCall
  <1>2. CASE StartFallback \/ StartRow \/ \E k \in Instance : StartCall(k)
    <2>1. UNCHANGED <<auditVars, passes>>
      BY <1>2 DEF StartFallback, StartRow, StartCall
    <2> QED
      BY <1>2, <2>1, RestCovered, StartCallInv
  <1>3. CASE Dingtalk
    <2>1. UNCHANGED <<auditVars, passes>>
      BY <1>3 DEF Dingtalk, OaTerminate, OaAgree, OaRefuse
    <2> QED
      BY <1>3, <2>1, RestCovered, DingtalkCall
  <1>4. ASSUME NEW d \in Delivery,
               Callback(d) \/ Raised(d) \/ Fail(d) \/ \E e \in Event : Receive(d, e)
        PROVE CoverInv' /\ CallInv'
    <2>1. CASE Apply(d)
      BY <1>4, <2>1, ApplyCovered, CallbackCall
    <2>2. CASE ~Apply(d)
      <3>1. UNCHANGED <<auditVars, passes>>
        BY <1>4, <2>2 DEF Callback, Screen, Log, Raised, Fail, Receive
      <3> QED
        BY <1>4, <3>1, RestCovered, CallbackCall
    <2> QED
      BY <2>1, <2>2
  <1>5. CASE UNCHANGED allVars
    BY <1>5, RestCovered DEF allVars, oaVars, CallInv
  <1> QED
    BY <1>1, <1>2, <1>3, <1>4, <1>5 DEF OaNext

THEOREM OaInvariant == OaSpec => []OaInv
  BY InitOaInv, StepOaInv, PTL DEF OaSpec

LEMMA OaInvImpliesProperties ==
    OaInv => OaTypeOK /\ NoFreeLevel /\ ReleasedCovered
  <1> SUFFICES ASSUME OaInv PROVE OaTypeOK /\ NoFreeLevel /\ ReleasedCovered
    OBVIOUS
  <1>1. OaTypeOK
    BY DEF OaInv, CoverInv, CallInv, OaTypeOK, OaRequest
  <1>2. passes \in Nat /\ Len(Chain) \in Nat /\ CoveredRow(audit, passes)
    BY ChainFacts DEF OaInv, CoverInv
  <1>3. LevelsDone <= passes
    <2>1. CASE audit.status = "WAITING"
      <3>1. PICK i \in DOMAIN Chain : audit.current = Chain[i] /\ i <= passes + 1
        BY <1>2, <2>1 DEF CoveredRow
      <3>2. i \in Nat /\ IndexOf(audit.current) \in Nat /\ IndexOf(audit.current) <= i
        BY <3>1, IndexOfFirst, ChainFacts
      <3>3. LevelsDone = IndexOf(audit.current) - 1
        BY <2>1 DEF LevelsDone
      <3> QED
        BY <1>2, <3>1, <3>2, <3>3
    <2>2. CASE audit.status = "PASSED" /\ ~audit.auto
      BY <1>2, <2>2 DEF CoveredRow, LevelsDone
    <2>3. CASE audit.status # "WAITING" /\ ~(audit.status = "PASSED" /\ ~audit.auto)
      BY <1>2, <2>3 DEF LevelsDone
    <2> QED
      BY <2>1, <2>2, <2>3
  <1>4. ReleasedCovered
    BY <1>2 DEF OaInv, CoverInv, ReleasedCovered
  <1> QED
    BY <1>1, <1>3, <1>4 DEF NoFreeLevel

(* The rows, the callbacks and DingTalk always have the types given.         *)
THEOREM OaTypes == OaSpec => []OaTypeOK
  BY OaInvariant, OaInvImpliesProperties, PTL

(* For every chain and any number of repeated, reordered and overlapping     *)
(* callbacks and views, the audit has no more levels behind it than passes   *)
(* were recorded.                                                           *)
THEOREM OaNoFreeLevel == OaSpec => []NoFreeLevel
  BY OaInvariant, OaInvImpliesProperties, PTL

(* So a workflow that the system did not pass is released only with as many  *)
(* passes as its chain has levels, whoever writes the status last.           *)
THEOREM OaReleasedCovered == OaSpec => []ReleasedCovered
  BY OaInvariant, OaInvImpliesProperties, PTL

-----------------------------------------------------------------------------
(* While handlers take turns *)

(* RowsAgree, of any two rows.                                              *)
SameStory(a, w) ==
    /\ a.status = "NONE" <=> w = "none"
    /\ a.status = "WAITING" <=> w = "workflow_manreviewing"
    /\ a.status = "PASSED" <=> w = "workflow_review_pass"

(* A request at work holds the row in the table.  Between its two writes    *)
(* the second is still to make the status say what the audit says.          *)
Told(q, a, w) ==
    /\ q.pc \in {"created", "loaded", "operated"} => q.row = a
    /\ q.pc = "created" => /\ q.wf = "workflow_manreviewing"
                           /\ a.status \in {"WAITING", "PASSED", "REJECTED"}
    /\ q.pc = "operated" => /\ a.status # "NONE"
                            /\ a.status = "WAITING" => w = "workflow_manreviewing"
    /\ q.pc \in {"checked", "loaded"} => SameStory(a, w)

Rested(q) == q.pc = "idle"

(* An approver whose event is about to be applied is on the whitelist of    *)
(* the group the audit stands at.                                           *)
Screened(c, a) ==
    c.pc = "applying" /\ c.ev.kind # "terminate" =>
        a.current # NoGroup /\ c.ev.by \in OaAuditor[a.current]

Turns ==
    /\ \A s, t \in Session : Rested(req[s]) \/ Rested(req[t]) \/ s = t
    /\ \A d, c \in Delivery : Rested(dl[d]) \/ Rested(dl[c]) \/ d = c
    /\ \A d \in Delivery, s \in Session : Rested(dl[d]) \/ Rested(req[s])
    /\ \A s \in Session : Rested(req[s]) \/ Told(req[s], audit, wf)
    /\ \A d \in Delivery : Screened(dl[d], audit)
    /\ (\A s \in Session : Rested(req[s])) => SameStory(audit, wf)

LEMMA RestFacts ==
    /\ Rested(Idle) /\ Rested(NoCall)
    /\ Quiet => /\ \A s \in Session : Rested(req[s])
                /\ \A d \in Delivery : Rested(dl[d])
  BY DEF Rested, Idle, NoCall, Quiet

(* A step of the only request at work, from what it leaves behind. *)
LEMMA RequestTurn ==
    ASSUME CoverInv, NEW s \in Session, NEW r, req' = [req EXCEPT ![s] = r], UNCHANGED dl,
           \A t \in Session : t # s => Rested(req[t]), \A d \in Delivery : Rested(dl[d]),
           Rested(r) => SameStory(audit', wf'),
           Rested(r) \/ Told(r, audit', wf')
    PROVE  Turns'
  <1>1. req'[s] = r /\ \A t \in Session : t # s => Rested(req'[t])
    BY DEF CoverInv
  <1>2. \A d \in Delivery : Rested(dl'[d]) /\ Screened(dl[d], audit)'
    BY DEF Rested, Screened
  <1> QED
    BY <1>1, <1>2 DEF Turns

(* A step of callback d that leaves the rows alone, or is the only one at work. *)
LEMMA CallTurn ==
    ASSUME CallInv, Turns, NEW d \in Delivery, NEW c, dl' = [dl EXCEPT ![d] = c],
           UNCHANGED req,
           \/ Rested(c) \/ ~Rested(dl[d])
           \/ /\ \A s \in Session : Rested(req[s])
              /\ \A e \in Delivery : Rested(dl[e]),
           Screened(c, audit'),
           UNCHANGED <<audit, wf>> \/ (~Rested(dl[d]) /\ SameStory(audit', wf'))
    PROVE  Turns'
  <1>1. dl'[d] = c /\ \A e \in Delivery : e # d => dl'[e] = dl[e]
    BY DEF CallInv
  <1>2. ~Rested(dl[d]) => /\ \A s \in Session : Rested(req[s])
                          /\ \A e \in Delivery : e # d => Rested(dl[e])
    BY DEF Turns
  <1>3. \A e, f \in Delivery : Rested(dl'[e]) \/ Rested(dl'[f]) \/ e = f
    BY <1>1, <1>2 DEF Turns
  <1>4. \A e \in Delivery, s \in Session : Rested(dl'[e]) \/ Rested(req'[s])
    BY <1>1, <1>2 DEF Turns
  <1>5. \A e \in Delivery : Screened(dl[e], audit)'
    <2> SUFFICES ASSUME NEW e \in Delivery PROVE Screened(dl[e], audit)'
      OBVIOUS
    <2>1. CASE e = d
      BY <1>1, <2>1
    <2>2. CASE e # d /\ Rested(dl[e])
      BY <1>1, <2>2 DEF Rested, Screened
    <2>3. CASE e # d /\ UNCHANGED audit
      BY <1>1, <2>3 DEF Turns
    <2> QED
      BY <1>2, <2>1, <2>2, <2>3
  <1>6. \A s \in Session : Rested(req'[s]) \/ Told(req[s], audit, wf)'
    BY <1>2 DEF Turns
  <1>7. (\A s \in Session : Rested(req'[s])) => SameStory(audit', wf')
    BY DEF Turns
  <1> QED
    BY <1>3, <1>4, <1>5, <1>6, <1>7 DEF Turns

(* What operate() leaves behind in the row, for the status to follow.        *)
LEMMA OperatedRow ==
    ASSUME NEW r \in AuditRow, NEW n \in Nat, NEW u \in User, NEW act \in {"PASS", "REJECT", "ABORT"},
           CoveredRow(r, n), can_operate(act, u, r)
    PROVE  /\ operate(act, r).status # "NONE"
           /\ operate(act, r).status = "WAITING" => r.status = "WAITING"
           /\ act = "PASS" => r.status = "WAITING" /\ operate(act, r) = operate_pass(r)
                              /\ operate_pass(r).status \in {"WAITING", "PASSED"}
           /\ act # "PASS" => operate(act, r).status \in {"REJECTED", "ABORTED"}
  <1>1. act \in SUPPORTED_OPERATION_GRID[r.status]
    BY DEF can_operate
  <1>2. r.status # "NONE" /\ (act = "PASS" => r.status = "WAITING")
    BY <1>1 DEF SUPPORTED_OPERATION_GRID, AuditRow, WorkflowStatus
  <1>3. CASE act = "PASS"
    BY <1>2, <1>3, PassCovered DEF operate, ExecuteAction
  <1>4. CASE act = "REJECT"
    BY <1>2, <1>4 DEF operate, ExecuteAction, operate_reject, AuditRow
  <1>5. CASE act = "ABORT"
    BY <1>2, <1>5 DEF operate, ExecuteAction, operate_abort, AuditRow
  <1> QED
    BY <1>3, <1>4, <1>5

LEMMA WebTurns ==
    ASSUME OaInv, Turns, calm', NEW s \in Session, WebStep(s)
    PROVE  Turns'
  <1>1. CoverInv /\ UNCHANGED dl /\ (req[s] = Idle => Quiet)
    BY DEF OaInv, WebStep
  <1>2. /\ req \in [Session -> OaRequest] /\ audit \in AuditRow
        /\ req[s].row \in AuditRow /\ req[s].user \in User /\ CoveredRow(req[s].row, passes)
        /\ passes \in Nat /\ HeldCovered(req[s], audit, passes)
    BY <1>1, HeldFacts DEF CoverInv
  <1>3. ASSUME req[s] = Idle \/ ~Rested(req[s])
        PROVE  /\ \A t \in Session : t # s => Rested(req[t])
               /\ \A d \in Delivery : Rested(dl[d])
    BY <1>1, <1>3, RestFacts DEF Turns
  <1>4. ASSUME ~Rested(req[s]) PROVE Told(req[s], audit, wf)
    BY <1>4 DEF Turns
  <1>5. req[s] = Idle => SameStory(audit, wf)
    BY <1>1, RestFacts DEF Turns
  <1>6. ASSUME NEW setting \in AuditSetting, Submit(s, setting) PROVE Turns'
    <2>1. PICK r : r = [pc |-> "created", view |-> "submit", user |-> Creator, act |-> "SUBMIT",
                        row |-> create_audit(setting), wf |-> "workflow_manreviewing"]
      OBVIOUS
    <2>2. req' = [req EXCEPT ![s] = r] /\ req[s] = Idle /\ audit' = create_audit(setting)
      BY <1>6, <2>1 DEF Submit
    <2>3. ~Rested(r) /\ Told(r, audit', wf')
      BY <2>1, <2>2, CreateAuditRow DEF Told, Rested
    <2> QED
      BY <1>1, <1>3, <2>2, <2>3, RequestTurn
  <1>7. CASE SubmitSave(s)
    <2>1. req[s].pc = "created" /\ req' = [req EXCEPT ![s] = Idle] /\ audit' = audit
      BY <1>7 DEF SubmitSave, At, Done
    <2>2. /\ req[s].row = audit /\ req[s].wf = "workflow_manreviewing"
          /\ audit.status \in {"WAITING", "PASSED", "REJECTED"}
      BY <1>4, <2>1 DEF Told, Rested
    <2>3. SameStory(audit', wf')
      BY <1>7, <2>1, <2>2 DEF SubmitSave, SameStory
    <2>4. ~Rested(req[s])
      BY <2>1 DEF Rested
    <2> QED
      BY <1>1, <1>3, <2>1, <2>3, <2>4, RestFacts, RequestTurn
  <1>8. ASSUME NEW u \in User, PassedLoad(s, u) PROVE Turns'
    <2>1. PICK r : r = [pc |-> "loaded", view |-> "passed", user |-> u, act |-> "PASS",
                        row |-> audit, wf |-> wf]
      OBVIOUS
    <2>2. req' = [req EXCEPT ![s] = r] /\ req[s] = Idle /\ UNCHANGED <<audit, wf>>
      BY <1>8, <2>1 DEF PassedLoad
    <2>3. ~Rested(r) /\ Told(r, audit', wf')
      BY <1>5, <2>1, <2>2 DEF Told, Rested
    <2> QED
      BY <1>1, <1>3, <2>2, <2>3, RequestTurn
  <1>9. ASSUME NEW u \in User, CancelCheck(s, u) PROVE Turns'
    <2>1. PICK r : r = [pc |-> "checked", view |-> "cancel", user |-> u,
                        act |-> IF u = Creator THEN "ABORT" ELSE "REJECT",
                        row |-> NoRow, wf |-> wf]
      OBVIOUS
    <2>2. req' = [req EXCEPT ![s] = r] /\ req[s] = Idle /\ UNCHANGED <<audit, wf>>
      BY <1>9, <2>1 DEF CancelCheck
    <2>3. ~Rested(r) /\ Told(r, audit', wf')
      BY <1>5, <2>1, <2>2 DEF Told, Rested
    <2> QED
      BY <1>1, <1>3, <2>2, <2>3, RequestTurn
  <1>10. ASSUME NEW u \in User, NEW act \in {"PASS", "ABORT"}, ApiLoad(s, u, act) PROVE Turns'
    <2>1. PICK r : r = [pc |-> "loaded", view |-> "api", user |-> u, act |-> act,
                        row |-> audit, wf |-> wf]
      OBVIOUS
    <2>2. req' = [req EXCEPT ![s] = r] /\ req[s] = Idle /\ UNCHANGED <<audit, wf>>
      BY <1>10, <2>1 DEF ApiLoad
    <2>3. ~Rested(r) /\ Told(r, audit', wf')
      BY <1>5, <2>1, <2>2 DEF Told, Rested
    <2> QED
      BY <1>1, <1>3, <2>2, <2>3, RequestTurn
  <1>11. CASE CancelLoad(s)
    <2>1. PICK r : r = [req[s] EXCEPT !.pc = "loaded", !.row = audit]
      OBVIOUS
    <2>2. req[s].pc = "checked" /\ req' = [req EXCEPT ![s] = r] /\ UNCHANGED <<audit, wf>>
      BY <1>2, <1>11, <2>1 DEF CancelLoad, At
    <2>3. r.pc = "loaded" /\ r.row = audit
      BY <1>2, <2>1 DEF OaRequest
    <2>4. ~Rested(req[s]) /\ SameStory(audit, wf)
      BY <1>4, <2>2 DEF Told, Rested
    <2>5. ~Rested(r) /\ Told(r, audit', wf')
      BY <2>2, <2>3, <2>4 DEF Told, Rested
    <2> QED
      BY <1>1, <1>3, <2>2, <2>4, <2>5, RequestTurn
  <1>12. ASSUME req[s].pc = "loaded"
         PROVE  ~Rested(req[s]) /\ req[s].row = audit /\ SameStory(audit, wf)
    BY <1>4, <1>12 DEF Told, Rested
  <1>13. CASE Refused(s)
    <2>1. /\ req[s].pc = "loaded" /\ req' = [req EXCEPT ![s] = Idle]
          /\ UNCHANGED <<audit, wf>>
      BY <1>13 DEF Refused, Done
    <2> QED
      BY <1>1, <1>3, <1>12, <2>1, RestFacts, RequestTurn
  <1>14. CASE PassedOperate(s)
    <2>1. /\ req[s].pc = "loaded" /\ req' = [req EXCEPT ![s] = Idle]
          /\ audit' = operate_pass(req[s].row) /\ can_operate("PASS", req[s].user, req[s].row)
          /\ wf' = IF audit'.status = "PASSED" THEN "workflow_review_pass" ELSE wf
      BY <1>14 DEF PassedOperate, At, Done
    <2>2. audit.status = "WAITING" /\ audit'.status \in {"WAITING", "PASSED"}
      BY <1>2, <1>12, <2>1, OperatedRow
    <2>3. SameStory(audit', wf')
      BY <1>12, <2>1, <2>2 DEF SameStory
    <2> QED
      BY <1>1, <1>3, <1>12, <2>1, <2>3, RestFacts, RequestTurn
  <1>15. CASE CancelOperate(s)
    <2>1. /\ req[s].pc = "loaded" /\ req' = [req EXCEPT ![s] = Idle] /\ req[s].view = "cancel"
          /\ audit' = operate(req[s].act, req[s].row) /\ wf' = "workflow_abort"
          /\ can_operate(req[s].act, req[s].user, req[s].row)
      BY <1>15 DEF CancelOperate, At, Done
    <2>2. req[s].act \in {"REJECT", "ABORT"}
      BY <1>2, <2>1 DEF HeldCovered
    <2>3. audit'.status \in {"REJECTED", "ABORTED"}
      BY <1>2, <2>1, <2>2, OperatedRow
    <2>4. SameStory(audit', wf')
      BY <2>1, <2>3 DEF SameStory
    <2> QED
      BY <1>1, <1>3, <1>12, <2>1, <2>4, RestFacts, RequestTurn
  <1>16. CASE ApiOperate(s)
    <2>1. PICK new, r : new = operate(req[s].act, req[s].row)
                        /\ r = [req[s] EXCEPT !.pc = "operated", !.row = new]
      OBVIOUS
    <2>2. /\ req[s].pc = "loaded" /\ req' = [req EXCEPT ![s] = r] /\ req[s].view = "api"
          /\ audit' = new /\ wf' = wf
          /\ can_operate(req[s].act, req[s].user, req[s].row)
      BY <1>2, <1>16, <2>1 DEF ApiOperate, At
    <2>3. req[s].act \in {"PASS", "ABORT"}
      BY <1>2, <2>2 DEF HeldCovered
    <2>4. r.pc = "operated" /\ r.row = new
      BY <1>2, <2>1 DEF OaRequest
    <2>5. new.status # "NONE" /\ (new.status = "WAITING" => req[s].row.status = "WAITING")
      BY <1>2, <2>1, <2>2, <2>3, OperatedRow
    <2>6. new.status = "WAITING" => wf = "workflow_manreviewing"
      BY <1>12, <2>2, <2>5 DEF SameStory
    <2>7. ~Rested(r) /\ Told(r, audit', wf')
      BY <2>2, <2>4, <2>5, <2>6 DEF Told, Rested
    <2> QED
      BY <1>1, <1>3, <1>12, <2>2, <2>7, RequestTurn
  <1>17. CASE ApiSave(s)
    <2>1. req[s].pc = "operated" /\ req' = [req EXCEPT ![s] = Idle] /\ audit' = audit
      BY <1>17 DEF ApiSave, At, Done
    <2>2. /\ ~Rested(req[s]) /\ req[s].row = audit /\ audit.status # "NONE"
          /\ audit.status = "WAITING" => wf = "workflow_manreviewing"
      BY <1>4, <2>1 DEF Told, Rested
    <2>3. audit.status \in {"WAITING", "PASSED", "REJECTED", "ABORTED"}
      BY <1>2, <2>2 DEF AuditRow, WorkflowStatus
    <2>4. SameStory(audit', wf')
      BY <1>17, <2>1, <2>2, <2>3 DEF ApiSave, SameStory
    <2> QED
      BY <1>1, <1>3, <2>1, <2>2, <2>4, RestFacts, RequestTurn
  <1>18. Handler(s) \/ ApiSave(s)
    BY DEF WebStep
  <1> QED
    BY <1>6, <1>7, <1>8, <1>9, <1>10, <1>11, <1>13, <1>14, <1>15, <1>16, <1>17, <1>18 DEF Handler

LEMMA ReceiveTurns ==
    ASSUME OaInv, Turns, calm', NEW d \in Delivery, NEW e \in Event, Receive(d, e)
    PROVE  Turns'
  <1>1. CallInv /\ UNCHANGED <<req, audit, wf>> /\ (e \in logged \/ Quiet)
    BY DEF OaInv, Receive, auditVars
  <1>2. CASE e \in logged
    <2>1. UNCHANGED <<dl, req, audit, wf>>
      BY <1>1, <1>2 DEF Receive
    <2> QED
      BY <2>1 DEF Turns
  <1>3. CASE e \notin logged
    <2>1. PICK c : c = [pc |-> "received", ev |-> e]
      OBVIOUS
    <2>2. dl' = [dl EXCEPT ![d] = c]
      BY <1>3, <2>1 DEF Receive
    <2>3. Screened(c, audit')
      BY <2>1 DEF Screened
    <2> QED
      BY <1>1, <1>3, <2>2, <2>3, RestFacts, CallTurn
  <1> QED
    BY <1>2, <1>3

LEMMA ScreenTurns ==
    ASSUME OaInv, Turns, NEW d \in Delivery, Screen(d)
    PROVE  Turns'
  <1> DEFINE e == dl[d].ev
  <1> DEFINE entitled == audit.current # NoGroup /\ e.by \in OaAuditor[audit.current]
  <1>1. PICK pc, c : /\ pc = IF ext = e.inst /\ (e.kind = "terminate" \/ entitled)
                             THEN "applying" ELSE "logging"
                     /\ c = [dl[d] EXCEPT !.pc = pc]
    OBVIOUS
  <1>2. /\ dl[d].pc = "received" /\ dl' = [dl EXCEPT ![d] = c]
        /\ UNCHANGED <<req, audit, wf>>
    BY <1>1 DEF Screen, OaInv, CallInv, auditVars
  <1>3. c.pc = pc /\ c.ev = e
    BY <1>1 DEF OaInv, CallInv, Call
  <1>4. Screened(c, audit')
    BY <1>1, <1>2, <1>3 DEF Screened
  <1>5. CallInv /\ ~Rested(dl[d])
    BY <1>2 DEF OaInv, Rested
  <1> HIDE DEF e, entitled
  <1> QED
    BY <1>2, <1>4, <1>5, CallTurn

(* A handler that raises writes no row. *)
LEMMA RaisedTurns ==
    ASSUME OaInv, Turns, NEW d \in Delivery, Raised(d)
    PROVE  Turns'
  <1>1. PICK c : c = [dl[d] EXCEPT !.pc = "logging"]
    OBVIOUS
  <1>2. /\ dl[d].pc \in {"received", "applying"} /\ dl' = [dl EXCEPT ![d] = c]
        /\ UNCHANGED <<req, audit, wf>> /\ CallInv
    BY <1>1 DEF Raised, OaInv, auditVars
  <1>3. c.pc = "logging"
    BY <1>1, <1>2 DEF CallInv, Call
  <1>4. ~Rested(dl[d]) /\ Screened(c, audit')
    BY <1>2, <1>3 DEF Rested, Screened
  <1> QED
    BY <1>2, <1>4, CallTurn

(* A callback that ends, or dies. *)
LEMMA EndTurns ==
    ASSUME OaInv, Turns, NEW d \in Delivery, Log(d) \/ Fail(d)
    PROVE  Turns'
  <1>1. dl' = [dl EXCEPT ![d] = NoCall] /\ UNCHANGED <<req, audit, wf>> /\ CallInv
    BY DEF Log, Fail, auditVars, OaInv
  <1>2. Rested(NoCall) /\ Screened(NoCall, audit')
    BY DEF Rested, NoCall, Screened
  <1> QED
    BY <1>1, <1>2, CallTurn

(* The transaction of a callback writes both rows.                           *)
LEMMA ApplyTurns ==
    ASSUME OaInv, Turns, NEW d \in Delivery, Apply(d)
    PROVE  Turns'
  <1>1. PICK c : c = [dl[d] EXCEPT !.pc = "logging"]
    OBVIOUS
  <1>2. /\ dl[d].pc = "applying" /\ dl' = [dl EXCEPT ![d] = c] /\ UNCHANGED req
        /\ CallInv /\ CoverInv /\ audit \in AuditRow /\ passes \in Nat
    BY <1>1 DEF Apply, OaInv, CallInv, CoverInv
  <1>3. c.pc = "logging"
    BY <1>1, <1>2 DEF CallInv, Call
  <1>4. ~Rested(dl[d]) /\ Screened(c, audit') /\ SameStory(audit, wf)
    BY <1>2, <1>3 DEF Rested, Screened, Turns
  <1>5. CASE UNCHANGED <<audit, wf>>
    BY <1>2, <1>4, <1>5, CallTurn
  <1>6. CASE audit.status = "WAITING" /\ _apply_node_pass
    <2>1. audit'.status \in {"WAITING", "PASSED"}
      BY <1>2, <1>6, PassCovered DEF _apply_node_pass, CoverInv
    <2>2. SameStory(audit', wf')
      BY <1>4, <1>6, <2>1 DEF _apply_node_pass, SameStory
    <2> QED
      BY <1>2, <1>4, <2>2, CallTurn
  <1>7. CASE _apply_node_reject
    <2>1. audit'.status = "REJECTED" /\ wf' = "workflow_review_reject"
      BY <1>2, <1>7 DEF _apply_node_reject, operate_reject, AuditRow
    <2>2. SameStory(audit', wf')
      BY <2>1 DEF SameStory
    <2> QED
      BY <1>2, <1>4, <2>2, CallTurn
  <1>8. CASE _apply_abort
    <2>1. audit'.status = "ABORTED" /\ wf' = "workflow_abort"
      BY <1>2, <1>8 DEF _apply_abort, operate_abort, AuditRow
    <2>2. SameStory(audit', wf')
      BY <2>1 DEF SameStory
    <2> QED
      BY <1>2, <1>4, <2>2, CallTurn
  <1> QED
    BY <1>5, <1>6, <1>7, <1>8 DEF Apply

LEMMA RowsKeepTurns ==
    ASSUME Turns, UNCHANGED <<audit, wf, req, dl>>
    PROVE  Turns'
  BY DEF Turns

LEMMA TurnsStep ==
    ASSUME OaInv, Turns, calm', OaNext
    PROVE  Turns'
  <1>1. CASE StartFallback \/ StartRow \/ Dingtalk \/ \E k \in Instance : StartCall(k)
    <2>1. UNCHANGED <<audit, wf, req, dl>>
      BY <1>1 DEF StartFallback, StartRow, StartCall, Dingtalk, OaTerminate, OaAgree, OaRefuse,
         auditVars
    <2> QED
      BY <2>1, RowsKeepTurns
  <1>2. ASSUME NEW d \in Delivery,
               Callback(d) \/ Raised(d) \/ Fail(d) \/ \E e \in Event : Receive(d, e)
        PROVE  Turns'
    BY <1>2, ReceiveTurns, ScreenTurns, ApplyTurns, RaisedTurns, EndTurns DEF Callback
  <1>3. ASSUME NEW s \in Session, WebStep(s) PROVE Turns'
    BY <1>3, WebTurns
  <1> QED
    BY <1>1, <1>2, <1>3 DEF OaNext

(* calm never comes back. *)
LEMMA CalmStays ==
    ASSUME OaInv, OaNext, calm'
    PROVE  calm
  <1>1. CASE StartFallback \/ StartRow \/ Dingtalk \/ \E k \in Instance : StartCall(k)
    BY <1>1 DEF StartFallback, StartRow, StartCall, Dingtalk, OaTerminate, OaAgree, OaRefuse
  <1>2. ASSUME NEW d \in Delivery,
               Callback(d) \/ Raised(d) \/ Fail(d) \/ \E e \in Event : Receive(d, e)
        PROVE  calm
    BY <1>2 DEF Callback, Receive, Screen, Apply, Log, Raised, Fail
  <1>3. ASSUME NEW s \in Session, WebStep(s) PROVE calm
    BY <1>3 DEF WebStep
  <1> QED
    BY <1>1, <1>2, <1>3 DEF OaNext

LEMMA TurnsInit == OaInit => Turns
  <1> SUFFICES ASSUME OaInit PROVE Turns
    OBVIOUS
  <1>1. (\A s \in Session : Rested(req[s])) /\ (\A d \in Delivery : Rested(dl[d]))
    BY DEF OaInit, AuditInit, Rested, Idle, NoCall
  <1>2. SameStory(audit, wf)
    BY DEF OaInit, AuditInit, NoRow, SameStory
  <1>3. \A d \in Delivery : Screened(dl[d], audit)
    BY <1>1 DEF Rested, Screened
  <1> QED
    BY <1>1, <1>2, <1>3 DEF Turns

(* While handlers take turns, a request at work holds the row in the table,  *)
(* and the two rows differ only between its two writes.                      *)
THEOREM OaTurns == OaSpec => [](calm => Turns)
  <1>1. OaInit => (calm => Turns)
    BY TurnsInit
  <1>2. OaInv /\ (calm => Turns) /\ [OaNext]_allVars => (calm => Turns)'
    <2>1. ASSUME OaInv, calm => Turns, OaNext, calm' PROVE Turns'
      BY <2>1, CalmStays, TurnsStep
    <2>2. ASSUME calm => Turns, UNCHANGED allVars, calm' PROVE Turns'
      BY <2>2, RowsKeepTurns DEF allVars, auditVars, oaVars
    <2> QED
      BY <2>1, <2>2
  <1> QED
    BY <1>1, <1>2, OaInvariant, PTL DEF OaSpec

(* While handlers take turns, the audit and the workflow agree at rest, the  *)
(* callback's rejections apart: for any number of callbacks and views.       *)
THEOREM OaRowsAgree == OaSpec => []CalmRowsAgree
  <1>1. (calm => Turns) => CalmRowsAgree
    BY RestFacts DEF Turns, SameStory, CalmRowsAgree, RowsAgree
  <1> QED
    BY <1>1, OaTurns, PTL

(* Nobody decides for two groups: who is asked at level i of the template in *)
(* DingTalk is on the whitelist of the group of that level only.             *)
OneGroupEach ==
    \A i, j \in Level : \A u \in OaApprover[i] :
        u \in OaAuditor[Chain[j]] => Chain[j] = Chain[i]

LEMMA EventLevel ==
    ASSUME OaInv, calm => Turns, OneGroupEach, OaNext, NEW d \in Delivery,
           dl[d].pc = "applying", dl'[d].pc = "logging", dl[d].ev.kind = "agree",
           audit' # audit, calm
    PROVE  audit.current = Chain[dl[d].ev.level]
  <1>1. dl \in [Delivery -> Call] /\ dl[d].ev \in Event
    BY DEF OaInv, CallInv
  <1>2. PICK c \in Delivery : Apply(c)
    <2>1. ASSUME NEW s \in Session, WebStep(s) PROVE FALSE
      BY <2>1 DEF WebStep
    <2>2. CASE StartFallback \/ StartRow \/ Dingtalk \/ \E k \in Instance : StartCall(k)
      BY <2>2 DEF StartFallback, StartRow, StartCall, Dingtalk, OaTerminate, OaAgree, OaRefuse,
         auditVars
    <2>3. ASSUME NEW c \in Delivery,
                 Screen(c) \/ Log(c) \/ Raised(c) \/ Fail(c)
                   \/ \E e \in Event : Receive(c, e)
          PROVE  FALSE
      BY <2>3 DEF Screen, Log, Raised, Fail, Receive, auditVars
    <2> QED
      BY <2>1, <2>2, <2>3 DEF OaNext, Callback
  <1>3. c = d
    BY <1>1, <1>2 DEF Apply
  <1>4. audit.status = "WAITING"
    BY <1>2, <1>3 DEF Apply
  <1>5. PICK i \in DOMAIN Chain : audit.current = Chain[i]
    BY <1>4 DEF OaInv, CoverInv, CoveredRow
  <1>6. dl[d].ev.by \in OaAuditor[audit.current]
    BY DEF Turns, Screened
  <1>7. dl[d].ev.by \in OaApprover[dl[d].ev.level] /\ dl[d].ev.level \in Level
    BY <1>1 DEF Event
  <1> QED
    BY <1>5, <1>6, <1>7 DEF OneGroupEach, Level

(* While handlers take turns, and if nobody decides for two groups, an       *)
(* agreement moves the audit only from the level it was given for, however   *)
(* often it arrives and wherever a worker died with it.                      *)
THEOREM OaEventForItsLevel == OneGroupEach /\ OaSpec => EventForItsLevel
  <1> DEFINE ForItsLevel ==
        \A d \in Delivery :
          /\ dl[d].pc = "applying"
          /\ dl'[d].pc = "logging"
          /\ dl[d].ev.kind = "agree"
          /\ audit' # audit
          /\ calm
          => audit.current = Chain[dl[d].ev.level]
  <1>1. OneGroupEach /\ OaInv /\ (calm => Turns) /\ [OaNext]_allVars => [ForItsLevel]_allVars
    BY EventLevel
  <1>2. OneGroupEach /\ [OaNext]_allVars => OneGroupEach'
    BY DEF OneGroupEach, Level
  <1> QED
    BY <1>1, <1>2, OaInvariant, OaTurns, PTL DEF OaSpec, EventForItsLevel
=============================================================================
