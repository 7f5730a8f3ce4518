--------------------------- MODULE GhostTaskProofs ---------------------------
(***************************************************************************)
(* The gh-ost tasks of a workflow, proved for any number of ALTERs, small  *)
(* tables and processes.                                                   *)
(*                                                                         *)
(* Success is never reported for an ALTER that was not applied, with any   *)
(* workers, views and faults.  A row becomes successful in one place,      *)
(* FinalSave, which saves an object that a thread has held since its       *)
(* verdict; and the verdict rests on the log of whichever process of the   *)
(* task was started last.  So the invariant says of the rows, of the       *)
(* objects of the threads and of the logs what the property says of the    *)
(* rows alone.  applied only grows, which is why an object may be saved    *)
(* however late.                                                           *)
(*                                                                         *)
(* The chain is followed, with any workers, views and faults, if nobody    *)
(* starts before the chain is written: whoever is about to launch a task,  *)
(* or has, found the one before it successful.                             *)
(*                                                                         *)
(* With one worker that starts once, without faults, the outcome of the    *)
(* workflow is right and a failed task leaves no process: the behaviour    *)
(* goes through five phases, in the last of which one thread at a time     *)
(* hands the work on.                                                      *)
(***************************************************************************)
EXTENDS GhostTask, Extrema

RowsOK(r, a) ==
    /\ r \in [Alter -> Row]
    /\ \A i \in Alter : r[i].status = "success" => i \in a

\* A request that is to save its object as it is will not report success.
RequestOK(q) ==
    /\ q \in Request
    /\ q.pc # "idle" => q.task \in Alter
    /\ q.pc = "reset" => q.obj.status = "queued"

RequestsOK(r) ==
    /\ r \in [Worker -> Request]
    /\ \A w \in Worker : RequestOK(r[w])

ThreadOK(t, i, a) ==
    /\ t \in Thread
    /\ t.obj.status = "success" => i \in a
    /\ t.pc \in {"popen", "save"} => t.next \in Alter

ThreadsOK(pl, a) ==
    /\ pl \in [Worker -> [Alter -> Thread]]
    /\ \A w \in Worker, i \in Alter : ThreadOK(pl[w][i], i, a)

ProcessOK(q, a) ==
    /\ q \in Process
    /\ q.st # "none" => q.task \in Alter
    /\ q.st \in {"swapped", "done"} \/ q.said = "done" => q.task \in a

ProcessesOK(pr, a) ==
    /\ pr \in [Pid -> Process]
    /\ \A p \in Pid : ProcessOK(pr[p], a)

GhostInv ==
    /\ wf \in {"workflow_review_pass", "workflow_finish", "workflow_exception",
               "workflow_abort"}
    /\ native \in Seq(NativeResult)
    /\ applied \subseteq Alter
    /\ RowsOK(row, applied)
    /\ RequestsOK(req)
    /\ ThreadsOK(poller, applied)
    /\ ProcessesOK(proc, applied)

USE GhostAssumption

-----------------------------------------------------------------------------
(* One row, request, thread or process changes *)

LEMMA RowChange ==
    ASSUME NEW r, NEW a, RowsOK(r, a), NEW i \in Alter, NEW x \in Row,
           x.status = "success" => i \in a
    PROVE  RowsOK([r EXCEPT ![i] = x], a)
  BY DEF RowsOK

LEMMA RequestChange ==
    ASSUME NEW r, RequestsOK(r), NEW w \in Worker, NEW q, RequestOK(q)
    PROVE  RequestsOK([r EXCEPT ![w] = q])
  <1>1. q \in Request
    BY DEF RequestOK
  <1> QED
    BY <1>1 DEF RequestsOK

LEMMA ThreadChange ==
    ASSUME NEW pl, NEW a, ThreadsOK(pl, a), NEW w \in Worker, NEW i \in Alter,
           NEW t, ThreadOK(t, i, a)
    PROVE  ThreadsOK([pl EXCEPT ![w] = [@ EXCEPT ![i] = t]], a)
  <1>1. t \in Thread
    BY DEF ThreadOK
  <1>2. pl[w] \in [Alter -> Thread]
    BY DEF ThreadsOK
  <1> DEFINE new == [pl EXCEPT ![w] = [@ EXCEPT ![i] = t]]
  <1>3. new \in [Worker -> [Alter -> Thread]]
    BY <1>1, <1>2 DEF ThreadsOK
  <1>4. ASSUME NEW v \in Worker, NEW j \in Alter PROVE ThreadOK(new[v][j], j, a)
    <2>1. new[v][j] = IF v = w /\ j = i THEN t ELSE pl[v][j]
      BY <1>2 DEF ThreadsOK
    <2> QED
      BY <2>1 DEF ThreadsOK
  <1> QED
    BY <1>3, <1>4 DEF ThreadsOK

LEMMA ProcessChange ==
    ASSUME NEW pr, NEW a, ProcessesOK(pr, a), NEW p \in Pid, NEW q, ProcessOK(q, a)
    PROVE  ProcessesOK([pr EXCEPT ![p] = q], a)
  <1>1. q \in Process
    BY DEF ProcessOK
  <1> QED
    BY <1>1 DEF ProcessesOK

LEMMA IdleOK == Idle \in Request /\ RequestOK(Idle) /\ NoRow \in Row
  <1>1. NoRow \in Row
    BY DEF NoRow, Row
  <1>2. <<>> \in Seq(NativeResult)
    OBVIOUS
  <1>3. Idle \in Request
    BY <1>1, <1>2 DEF Idle, Request
  <1> QED
    BY <1>1, <1>3 DEF RequestOK, Idle

LEMMA OffOK ==
    ASSUME NEW i \in Alter, NEW a
    PROVE  /\ Off \in Thread /\ ThreadOK(Off, i, a)
           /\ ThreadOK([Off EXCEPT !.pc = "new"], i, a)
           /\ \A b \in BOOLEAN : ThreadOK([Off EXCEPT !.pc = "write", !.bad = b], i, a)
  <1>1. NoRow \in Row /\ NoRow.status = "none"
    BY DEF NoRow, Row
  <1>2. Off \in Thread /\ Off.obj = NoRow
    BY <1>1 DEF Off, Thread
  <1> QED
    BY <1>1, <1>2 DEF ThreadOK, Off, Thread

-----------------------------------------------------------------------------
(* Processes and logs *)

LEMMA DeadOK ==
    ASSUME NEW q, NEW a, ProcessOK(q, a), q.st # "none"
    PROVE  ProcessOK(Dead(q), a) /\ ProcessOK([Dead(q) EXCEPT !.said = "fatal"], a)
  BY DEF ProcessOK, Dead, Process

LEMMA KilledOK ==
    ASSUME NEW p \in 0..MaxPid, ProcessesOK(proc, applied)
    PROVE  ProcessesOK(Killed(p), applied)
  <1>1. CASE is_alive(p)
    <2>1. p \in Pid /\ proc[p].st # "none"
      BY <1>1 DEF is_alive, Pid
    <2>2. ProcessOK(Dead(proc[p]), applied)
      BY <2>1, DeadOK DEF ProcessesOK
    <2>3. Killed(p) = [proc EXCEPT ![p] = Dead(proc[p])]
      BY <1>1 DEF Killed
    <2>4. ProcessesOK([proc EXCEPT ![p] = Dead(proc[p])], applied)
      BY <2>1, <2>2, ProcessChange
    <2> QED
      BY <2>3, <2>4
  <1>2. CASE ~is_alive(p)
    BY <1>2 DEF Killed
  <1> QED
    BY <1>1, <1>2

LEMMA NewProcess ==
    ASSUME NEW i \in Alter, NEW a, NEW forced \in BOOLEAN, NEW q,
           \/ q = [NoProcess EXCEPT !.task = i, !.st = "starting", !.forced = forced]
           \/ q = [NoProcess EXCEPT !.task = i, !.st = "dead", !.said = "fatal",
                                    !.forced = forced]
    PROVE  ProcessOK(q, a)
  <1>1. i \in 0..Alters
    BY DEF Alter
  <1>2. CASE q = [NoProcess EXCEPT !.task = i, !.st = "starting", !.forced = forced]
    <2>1. q = [task |-> i, st |-> "starting", sock |-> FALSE, said |-> "", forced |-> forced]
      BY <1>2 DEF NoProcess
    <2> QED
      BY <1>1, <2>1 DEF ProcessOK, Process
  <1>3. CASE q = [NoProcess EXCEPT !.task = i, !.st = "dead", !.said = "fatal",
                                    !.forced = forced]
    <2>1. q = [task |-> i, st |-> "dead", sock |-> FALSE, said |-> "fatal", forced |-> forced]
      BY <1>3 DEF NoProcess
    <2> QED
      BY <1>1, <2>1 DEF ProcessOK, Process
  <1> QED
    BY <1>2, <1>3

LEMMA StartedOK ==
    ASSUME NEW i \in Alter, NEW forced \in BOOLEAN, ProcessesOK(proc, applied),
           StartFails(i, forced) \/ \E p \in Pid : Started(i, p, forced)
    PROVE  ProcessesOK(proc', applied)
  <1>1. CASE proc' = proc
    BY <1>1
  <1>2. ASSUME NEW p \in Pid, NEW q, proc' = [proc EXCEPT ![p] = q],
               \/ q = [NoProcess EXCEPT !.task = i, !.st = "starting", !.forced = forced]
               \/ q = [NoProcess EXCEPT !.task = i, !.st = "dead", !.said = "fatal",
                                        !.forced = forced]
        PROVE  ProcessesOK(proc', applied)
    <2>1. ProcessOK(q, applied)
      BY <1>2, NewProcess
    <2>2. ProcessesOK([proc EXCEPT ![p] = q], applied)
      BY <2>1, ProcessChange
    <2> QED
      BY <1>2, <2>2
  <1> QED
    BY <1>1, <1>2 DEF StartFails, Started

\* The log that a thread finds, if it says that gh-ost is done, is that of a
\* process which has swapped the table of this task.
LEMMA DoneIsApplied ==
    ASSUME ProcessesOK(proc, applied), NEW i \in Alter, Newest(i).said = "done"
    PROVE  i \in applied
  <1> DEFINE started == {p \in Pid : proc[p].task = i}
  <1>1. started # {}
    BY DEF Newest, NoProcess
  <1>2. started \in SUBSET (0..MaxPid) /\ MaxPid \in Nat
    BY DEF Pid
  <1>3. Max(started) \in started
    <2> HIDE DEF started
    <2> QED
      BY <1>1, <1>2, MaxExists
  <1>4. Newest(i) = proc[Max(started)]
    BY <1>1 DEF Newest
  <1> QED
    BY <1>3, <1>4 DEF ProcessesOK, ProcessOK

LEMMA Monotone ==
    ASSUME NEW a, NEW b, a \subseteq b
    PROVE  /\ \A r : RowsOK(r, a) => RowsOK(r, b)
           /\ \A pl : ThreadsOK(pl, a) => ThreadsOK(pl, b)
           /\ \A pr : ProcessesOK(pr, a) => ProcessesOK(pr, b)
  <1>1. ASSUME NEW r, RowsOK(r, a) PROVE RowsOK(r, b)
    BY <1>1 DEF RowsOK
  <1>2. ASSUME NEW pl, ThreadsOK(pl, a) PROVE ThreadsOK(pl, b)
    <2>1. \A t, i : ThreadOK(t, i, a) => ThreadOK(t, i, b)
      BY DEF ThreadOK
    <2> QED
      BY <1>2, <2>1 DEF ThreadsOK
  <1>3. ASSUME NEW pr, ProcessesOK(pr, a) PROVE ProcessesOK(pr, b)
    <2>1. \A q : ProcessOK(q, a) => ProcessOK(q, b)
      BY DEF ProcessOK
    <2> QED
      BY <1>3, <2>1 DEF ProcessesOK
  <1> QED
    BY <1>1, <1>2, <1>3

-----------------------------------------------------------------------------
(* The steps of a process *)

LEMMA ProcessStepOK ==
    ASSUME GhostInv, NEW p \in Pid, ProcessStep(p)
    PROVE  GhostInv'
  <1>1. /\ proc \in [Pid -> Process] /\ proc[p] \in Process
        /\ ProcessOK(proc[p], applied) /\ ProcessesOK(proc, applied)
    BY DEF GhostInv, ProcessesOK
  <1>2. ASSUME NEW q, ProcessOK(q, applied), proc' = [proc EXCEPT ![p] = q],
               UNCHANGED <<wf, row, native, applied, req, poller>>
        PROVE  GhostInv'
    <2>1. ProcessesOK(proc', applied)
      BY <1>1, <1>2, ProcessChange
    <2> QED
      BY <1>2, <2>1 DEF GhostInv
  <1>3. CASE Bind(p)
    <2>1. ProcessOK([Dead(proc[p]) EXCEPT !.said = "fatal"], applied)
      BY <1>1, <1>3, DeadOK DEF Bind
    <2>2. ProcessOK([proc[p] EXCEPT !.st = "copying", !.sock = TRUE], applied)
      BY <1>1, <1>3 DEF Bind, ProcessOK, Process
    <2> DEFINE q == IF SocketTaken(proc[p].task)
                    THEN [Dead(proc[p]) EXCEPT !.said = "fatal"]
                    ELSE [proc[p] EXCEPT !.st = "copying", !.sock = TRUE]
    <2>3. ProcessOK(q, applied)
      BY <2>1, <2>2
    <2>4. proc' = [proc EXCEPT ![p] = q]
      BY <1>3 DEF Bind
    <2> HIDE DEF q
    <2> QED
      BY <1>2, <1>3, <2>3, <2>4 DEF Bind
  <1>4. CASE Swap(p)
    <2> DEFINE q == [proc[p] EXCEPT !.st = "swapped"]
    <2>1. proc[p].task \in Alter
      BY <1>1, <1>4 DEF Swap, ProcessOK
    <2>2. applied' \subseteq Alter /\ applied \subseteq applied'
      BY <1>4, <2>1 DEF Swap, GhostInv
    <2>3. /\ RowsOK(row', applied') /\ ThreadsOK(poller', applied')
          /\ ProcessesOK(proc, applied')
      BY <1>4, <2>2, Monotone DEF Swap, GhostInv
    <2>4. ProcessOK(q, applied')
      BY <1>1, <1>4, <2>1 DEF Swap, ProcessOK, Process
    <2>5. proc' = [proc EXCEPT ![p] = q]
      BY <1>4 DEF Swap
    <2> HIDE DEF q
    <2>6. ProcessesOK(proc', applied')
      BY <2>3, <2>4, <2>5, ProcessChange
    <2> QED
      BY <1>4, <2>2, <2>3, <2>6 DEF Swap, GhostInv
  <1>5. CASE SayDone(p)
    <2> DEFINE q == [proc[p] EXCEPT !.st = "done", !.said = "done"]
    <2>1. ProcessOK(q, applied)
      BY <1>1, <1>5 DEF SayDone, ProcessOK, Process
    <2>2. proc' = [proc EXCEPT ![p] = q]
      BY <1>5 DEF SayDone
    <2> HIDE DEF q
    <2> QED
      BY <1>2, <1>5, <2>1, <2>2 DEF SayDone
  <1>6. CASE Exit(p)
    <2>1. ProcessOK(Dead(proc[p]), applied)
      BY <1>1, <1>6, DeadOK DEF Exit
    <2> QED
      BY <1>2, <1>6, <2>1 DEF Exit
  <1>7. CASE Fatal(p)
    <2>1. ProcessOK([Dead(proc[p]) EXCEPT !.said = "fatal"], applied)
      BY <1>1, <1>7, DeadOK DEF Fatal
    <2> QED
      BY <1>2, <1>7, <2>1 DEF Fatal
  <1> QED
    BY <1>3, <1>4, <1>5, <1>6, <1>7 DEF ProcessStep

-----------------------------------------------------------------------------
(* The views *)

\* A step of request w that leaves the threads alone.
LEMMA Handles ==
    ASSUME GhostInv, NEW w \in Worker, NEW q, RequestOK(q),
           req' = [req EXCEPT ![w] = q], RowsOK(row', applied),
           ProcessesOK(proc', applied), native' \in Seq(NativeResult),
           UNCHANGED <<wf, applied, poller>>
    PROVE  GhostInv'
  <1>1. RequestsOK(req')
    BY RequestChange DEF GhostInv
  <1> QED
    BY <1>1 DEF GhostInv

LEMMA GhostFacts ==
    ASSUME GhostInv
    PROVE  /\ row \in [Alter -> Row] /\ \A i \in Alter : row[i] \in Row
           /\ RowsOK(row, applied) /\ ProcessesOK(proc, applied)
           /\ \A w \in Worker : req[w] \in Request /\ RequestOK(req[w]) /\ req[w].obj \in Row
           /\ native \in Seq(NativeResult)
  <1>1. /\ row \in [Alter -> Row] /\ RowsOK(row, applied) /\ ProcessesOK(proc, applied)
        /\ native \in Seq(NativeResult)
        /\ \A w \in Worker : RequestOK(req[w])
    BY DEF GhostInv, RowsOK, RequestsOK
  <1>2. \A w \in Worker : req[w] \in Request /\ req[w].obj \in Row
    BY <1>1 DEF RequestOK, Request
  <1> QED
    BY <1>1, <1>2

LEMMA FirstAlter == 1 \in Alter /\ Alters \in Alter /\ Alter \subseteq 0..Alters
  BY DEF Alter

RowStatus == {"none", "precheck_failed"} \cup Active \cup Terminal

LEMMA RowFields ==
    ASSUME NEW r \in Row
    PROVE  /\ r = [status |-> r.status, pid |-> r.pid, pre |-> r.pre, dep |-> r.dep]
           /\ r.pid \in 0..MaxPid /\ r.pre \in BOOLEAN /\ r.dep \in BOOLEAN
  BY DEF Row

LEMMA RowWith ==
    ASSUME NEW r \in Row, NEW status \in RowStatus, NEW q, q = [r EXCEPT !.status = status]
    PROVE  q \in Row /\ q.status = status
  <1>1. q = [status |-> status, pid |-> r.pid, pre |-> r.pre, dep |-> r.dep]
    BY RowFields
  <1> QED
    BY <1>1, RowFields DEF Row, RowStatus

LEMMA RowQueued ==
    ASSUME NEW r \in Row, NEW q, q = [r EXCEPT !.status = "queued", !.pid = 0]
    PROVE  q \in Row /\ q.status = "queued"
  <1>1. r = [status |-> r.status, pid |-> r.pid, pre |-> r.pre, dep |-> r.dep]
    BY RowFields
  <1>2. q = [status |-> "queued", pid |-> 0, pre |-> r.pre, dep |-> r.dep]
    BY <1>1
  <1>3. 0 \in 0..MaxPid
    OBVIOUS
  <1> QED
    BY <1>2, <1>3, RowFields DEF Row, Active

LEMMA MakeRequest ==
    ASSUME NEW view \in Views, NEW obj \in Row, NEW list \in Seq(NativeResult), NEW i \in Alter,
           NEW pc \in {"enabling", "reset", "popen", "killed", "dropped"},
           pc = "reset" => obj.status = "queued",
           NEW q, q = [pc |-> pc, view |-> view, task |-> i, obj |-> obj, native |-> list]
    PROVE  RequestOK(q)
  <1>1. i \in 0..Alters
    BY FirstAlter
  <1> QED
    BY <1>1 DEF RequestOK, Request

LEMMA NewRequest ==
    ASSUME NEW view \in Views, NEW r \in Row, NEW i \in Alter, NEW q,
           \/ q = [Idle EXCEPT !.pc = "enabling", !.view = view, !.task = i]
           \/ q = [Idle EXCEPT !.pc = "killed", !.view = view, !.task = i, !.obj = r]
           \/ q = [Idle EXCEPT !.pc = "dropped", !.view = view, !.task = i, !.obj = r]
    PROVE  RequestOK(q)
  <1>1. \/ q = [pc |-> "enabling", view |-> view, task |-> i, obj |-> NoRow, native |-> <<>>]
        \/ q = [pc |-> "killed", view |-> view, task |-> i, obj |-> r, native |-> <<>>]
        \/ q = [pc |-> "dropped", view |-> view, task |-> i, obj |-> r, native |-> <<>>]
    BY DEF Idle
  <1>2. NoRow \in Row /\ <<>> \in Seq(NativeResult)
    BY IdleOK
  <1>3. ASSUME NEW pc \in {"enabling", "killed", "dropped"}, NEW obj \in Row,
               q = [pc |-> pc, view |-> view, task |-> i, obj |-> obj, native |-> <<>>]
        PROVE  RequestOK(q)
    <2>1. pc \in {"enabling", "reset", "popen", "killed", "dropped"} /\ pc # "reset"
      OBVIOUS
    <2> QED
      BY <1>2, <1>3, <2>1, MakeRequest, Zenon
  <1> QED
    BY <1>1, <1>2, <1>3

\* What a request begins with.
LEMMA Arrivals ==
    ASSUME NEW w \in Worker, Arrive(w)
    PROVE  \/ EnableCheck(w) \/ Abort(w) \/ \E i \in Alter : StartCheck(w, i)
           \/ \E i \in Alter, view \in Views :
                 RetryCheck(w, view, i) \/ CancelKill(w, view, i) \/ RollbackDrop(w, view, i)
  <1>1. ASSUME NEW view, NEW i,
               RetryCheck(w, view, i) \/ CancelKill(w, view, i) \/ RollbackDrop(w, view, i)
        PROVE  view \in Views
    BY <1>1 DEF RetryCheck, CancelKill, RollbackDrop, Free
  <1> QED
    BY <1>1 DEF Arrive

LEMMA ArriveIdle == \A w \in Worker : Arrive(w) => req[w].pc = "idle"
  <1> SUFFICES ASSUME NEW w \in Worker, Arrive(w) PROVE req[w] = Idle
    BY DEF Idle
  <1> QED
    BY Arrivals
      DEF EnableCheck, Abort, StartCheck, RetryCheck, CancelKill, RollbackDrop, Free

LEMMA ArriveOK ==
    ASSUME GhostInv, NEW w \in Worker, Arrive(w)
    PROVE  GhostInv'
  <1>1. CASE EnableCheck(w)
    <2>1. PICK q : q = [Idle EXCEPT !.pc = "enabling", !.view = "enable", !.task = 1]
      OBVIOUS
    <2>2. "enable" \in Views
      BY <1>1 DEF EnableCheck, Free
    <2>3. RequestOK(q)
      BY <2>1, <2>2, NewRequest, IdleOK, FirstAlter
    <2> QED
      BY <1>1, <2>1, <2>3, Handles, GhostFacts DEF EnableCheck
  <1>2. ASSUME NEW view, NEW i \in Alter, RetryCheck(w, view, i) PROVE GhostInv'
    <2>1. view \in Views /\ row[i] \in Row
      BY <1>2, GhostFacts DEF RetryCheck, Free
    <2>2. PICK obj : obj = [row[i] EXCEPT !.status = "queued", !.pid = 0]
      OBVIOUS
    <2>3. obj \in Row /\ obj.status = "queued"
      BY <2>1, <2>2, RowQueued
    <2>4. PICK q : q = [pc |-> "reset", view |-> view, task |-> i, obj |-> obj, native |-> <<>>]
      OBVIOUS
    <2>5. <<>> \in Seq(NativeResult)
      OBVIOUS
    <2>6. RequestOK(q)
      BY <2>1, <2>3, <2>4, <2>5, MakeRequest
    <2> QED
      BY <1>2, <2>2, <2>4, <2>6, Handles, GhostFacts DEF RetryCheck
  <1>3. ASSUME NEW view, NEW i \in Alter, CancelKill(w, view, i) PROVE GhostInv'
    <2>1. PICK q : q = [Idle EXCEPT !.pc = "killed", !.view = view, !.task = i, !.obj = row[i]]
      OBVIOUS
    <2>2. view \in Views /\ row[i] \in Row
      BY <1>3, GhostFacts DEF CancelKill, Free
    <2>3. RequestOK(q)
      BY <2>1, <2>2, NewRequest
    <2>4. row[i].pid \in 0..MaxPid
      BY <2>2 DEF Row
    <2>5. ProcessesOK(proc', applied)
      BY <1>3, <2>4, KilledOK, GhostFacts DEF CancelKill
    <2> QED
      BY <1>3, <2>1, <2>3, <2>5, Handles, GhostFacts DEF CancelKill
  <1>4. ASSUME NEW view, NEW i \in Alter, RollbackDrop(w, view, i) PROVE GhostInv'
    <2>1. PICK q : q = [Idle EXCEPT !.pc = "dropped", !.view = view, !.task = i, !.obj = row[i]]
      OBVIOUS
    <2>2. view \in Views /\ row[i] \in Row
      BY <1>4, GhostFacts DEF RollbackDrop, Free
    <2>3. RequestOK(q)
      BY <2>1, <2>2, NewRequest
    <2> QED
      BY <1>4, <2>1, <2>3, Handles, GhostFacts DEF RollbackDrop
  <1>5. CASE Abort(w)
    <2>1. \A i \in Alter : [row[i] EXCEPT !.status = "cancelled"] \in Row
      BY GhostFacts DEF Row, Terminal
    <2>2. \A i \in Alter : [row[i] EXCEPT !.status = "cancelled"].status = "cancelled"
      BY GhostFacts DEF Row
    <2>3. RowsOK(row', applied)
      BY <1>5, <2>1, <2>2, GhostFacts DEF Abort, RowsOK
    <2> QED
      BY <1>5, <2>3 DEF Abort, GhostInv
  <1>6. ASSUME NEW i \in Alter, StartCheck(w, i) PROVE GhostInv'
    <2> DEFINE q == [pc |-> "popen", view |-> "start", task |-> i, obj |-> row[i], native |-> native]
    <2>1. "start" \in Views
      BY <1>6 DEF StartCheck, Free
    <2>2. RequestOK(q)
      BY <2>1, FirstAlter, GhostFacts DEF RequestOK, Request
    <2> HIDE DEF q
    <2> QED
      BY <1>6, <2>2, Handles, GhostFacts DEF StartCheck, q
  <1> QED
    BY <1>1, <1>2, <1>3, <1>4, <1>5, <1>6, Arrivals

LEMMA RowLinked ==
    ASSUME NEW r \in Row, NEW dep \in BOOLEAN, NEW q, q = [r EXCEPT !.dep = dep]
    PROVE  q \in Row /\ q.status = r.status
  <1>1. r = [status |-> r.status, pid |-> r.pid, pre |-> r.pre, dep |-> r.dep]
    BY RowFields
  <1>2. q = [status |-> r.status, pid |-> r.pid, pre |-> r.pre, dep |-> dep]
    BY <1>1
  <1>3. r.status \in RowStatus
    BY DEF Row, RowStatus
  <1> QED
    BY <1>2, <1>3, RowFields DEF Row, RowStatus

LEMMA RowStarted ==
    ASSUME NEW r \in Row, NEW p \in Pid, NEW q, q = [r EXCEPT !.pid = p]
    PROVE  q \in Row /\ q.status = r.status
  <1>1. r = [status |-> r.status, pid |-> r.pid, pre |-> r.pre, dep |-> r.dep]
    BY RowFields
  <1>2. q = [status |-> r.status, pid |-> p, pre |-> r.pre, dep |-> r.dep]
    BY <1>1
  <1>3. r.status \in RowStatus /\ p \in 0..MaxPid
    BY DEF Row, RowStatus, Pid
  <1> QED
    BY <1>2, <1>3, RowFields DEF Row, RowStatus

\* What is saved with a status of its own, other than success, is harmless.
LEMMA SavedWith ==
    ASSUME GhostInv, NEW i \in Alter, NEW r \in Row,
           NEW status \in RowStatus \ {"success"},
           row' = [row EXCEPT ![i] = [r EXCEPT !.status = status]]
    PROVE  RowsOK(row', applied)
  <1>1. PICK q : q = [r EXCEPT !.status = status]
    OBVIOUS
  <1>2. q \in Row /\ q.status = status
    BY <1>1, RowWith
  <1>3. RowsOK(row, applied) /\ q.status # "success"
    BY <1>2, GhostFacts
  <1>4. RowsOK([row EXCEPT ![i] = q], applied)
    BY <1>2, <1>3, RowChange
  <1> QED
    BY <1>1, <1>4

LEMMA RequestWith ==
    ASSUME NEW r, RequestOK(r), r.pc # "idle", NEW pc \in {"linking", "popen", "native"},
           NEW q, q = [r EXCEPT !.pc = pc]
    PROVE  RequestOK(q)
  BY DEF RequestOK, Request

LEMMA RequestMoved ==
    ASSUME NEW r, RequestOK(r), NEW i \in Alter, NEW q, q = [r EXCEPT !.task = i]
    PROVE  RequestOK(q)
  <1>1. i \in 0..Alters
    BY FirstAlter
  <1> QED
    BY <1>1 DEF RequestOK, Request

LEMMA PollersWithOK ==
    ASSUME GhostInv, NEW w \in Worker, NEW i \in Alter
    PROVE  ThreadsOK(PollersWith(w, i), applied)
  <1>1. PICK t : t = [Off EXCEPT !.pc = "new"]
    OBVIOUS
  <1>2. ThreadOK(t, i, applied)
    BY <1>1, OffOK
  <1>3. ThreadsOK([poller EXCEPT ![w] = [@ EXCEPT ![i] = t]], applied)
    BY <1>2, ThreadChange DEF GhostInv
  <1>4. PollersWith(w, i) \in {poller, [poller EXCEPT ![w] = [@ EXCEPT ![i] = t]]}
    BY <1>1 DEF PollersWith
  <1> QED
    BY <1>3, <1>4 DEF GhostInv

LEMMA EnableOK ==
    ASSUME GhostInv, NEW w \in Worker,
           EnableLink(w) \/ \E passed \in BOOLEAN : EnableWrite(w, passed)
    PROVE  GhostInv'
  <1>1. ASSUME NEW passed \in BOOLEAN, EnableWrite(w, passed) PROVE GhostInv'
    <2>1. PICK i \in Alter : i = req[w].task
      BY <1>1, GhostFacts DEF EnableWrite, RequestOK
    <2>2. PICK status \in RowStatus \ {"success"} :
             status = IF passed THEN "queued" ELSE "precheck_failed"
      BY DEF RowStatus, Active
    <2>3. PICK x : x = [row[i] EXCEPT !.status = status, !.pre = passed]
      OBVIOUS
    <2>4. row' = [row EXCEPT ![i] = x]
      BY <1>1, <2>1, <2>2, <2>3, GhostFacts DEF EnableWrite
    <2>5. x \in Row /\ x.status = status
      <3> DEFINE r == row[i]
      <3>1. r \in Row
        BY GhostFacts
      <3> HIDE DEF r
      <3>2. r = [status |-> r.status, pid |-> r.pid, pre |-> r.pre, dep |-> r.dep]
        BY <3>1, RowFields
      <3>3. x = [status |-> status, pid |-> r.pid, pre |-> passed, dep |-> r.dep]
        BY <2>3, <3>2 DEF r
      <3> QED
        BY <3>1, <3>3, RowFields DEF Row, RowStatus
    <2>6. RowsOK(row', applied)
      BY <2>4, <2>5, RowChange, GhostFacts
    <2>7. CASE i = Alters
      <3>1. PICK q : q = [req[w] EXCEPT !.pc = "linking"]
        OBVIOUS
      <3>2. req' = [req EXCEPT ![w] = q]
        BY <1>1, <2>1, <2>7, <3>1 DEF EnableWrite
      <3>3. RequestOK(q)
        BY <1>1, <3>1, RequestWith, GhostFacts DEF EnableWrite
      <3> QED
        BY <1>1, <2>6, <3>2, <3>3, Handles, GhostFacts DEF EnableWrite
    <2>8. CASE i # Alters
      <3>1. i + 1 \in Alter /\ i + 1 \in 0..Alters
        BY <2>8 DEF Alter
      <3>2. PICK q : q = [req[w] EXCEPT !.task = @ + 1]
        OBVIOUS
      <3>3. req' = [req EXCEPT ![w] = q]
        BY <1>1, <2>1, <2>8, <3>2 DEF EnableWrite
      <3>4. q = [req[w] EXCEPT !.task = i + 1]
        BY <2>1, <3>2
      <3>5. RequestOK(q)
        BY <1>1, <3>1, <3>4, RequestMoved, GhostFacts DEF EnableWrite
      <3> QED
        BY <1>1, <2>6, <3>3, <3>5, Handles, GhostFacts DEF EnableWrite
    <2> QED
      BY <2>7, <2>8
  <1>2. CASE EnableLink(w)
    <2>1. ASSUME NEW i \in Alter
          PROVE  row'[i] \in Row /\ row'[i].status = row[i].status
      <3>1. row[i] \in Row /\ (row[i].dep \/ i > 1) \in BOOLEAN
        BY GhostFacts DEF Row
      <3>2. row'[i] = [row[i] EXCEPT !.dep = row[i].dep \/ i > 1]
        BY <1>2 DEF EnableLink
      <3> QED
        BY <3>1, <3>2, RowLinked
    <2>2. row' \in [Alter -> Row]
      BY <1>2, <2>1 DEF EnableLink
    <2>3. RowsOK(row', applied)
      BY <2>1, <2>2, GhostFacts DEF RowsOK
    <2>4. native' \in Seq(NativeResult)
      <3>1. [k \in 1..Natives |-> "pending"] \in Seq(NativeResult)
        BY DEF NativeResult
      <3> QED
        BY <1>2, <3>1, GhostFacts DEF EnableLink
    <2> QED
      BY <1>2, <2>3, <2>4, Handles, GhostFacts, IdleOK DEF EnableLink, Answer
  <1> QED
    BY <1>1, <1>2

LEMMA NativeOK ==
    ASSUME GhostInv, NEW w \in Worker,
           NativeSave(w) \/ \E outcome \in {"success", "error", "exception"} : NativeStep(w, outcome)
    PROVE  GhostInv'
  <1> DEFINE list == req[w].native
  <1>1. list \in Seq(NativeResult) /\ req[w] \in Request /\ RequestOK(req[w])
    BY GhostFacts DEF Request
  <1>2. CASE NativeSave(w)
    BY <1>1, <1>2, Handles, GhostFacts, IdleOK DEF NativeSave, Answer
  <1>3. ASSUME NEW outcome \in {"success", "error", "exception"}, NativeStep(w, outcome)
        PROVE  GhostInv'
    <2>1. PICK k \in DOMAIN list :
            req' = [req EXCEPT ![w].native =
                     [l \in DOMAIN @ |->
                        CASE l = k -> IF outcome = "success" THEN "success" ELSE "failed"
                          [] l > k /\ @[l] = "pending" /\ outcome = "exception" -> "skipped"
                          [] OTHER -> @[l]]]
      BY <1>3 DEF NativeStep
    <2>2. PICK new : new = [l \in DOMAIN list |->
                        CASE l = k -> IF outcome = "success" THEN "success" ELSE "failed"
                          [] l > k /\ list[l] = "pending" /\ outcome = "exception" -> "skipped"
                          [] OTHER -> list[l]]
      OBVIOUS
    <2>3. new \in Seq(NativeResult)
      <3>1. DOMAIN list = 1..Len(list) /\ Len(list) \in Nat
        BY <1>1
      <3>2. \A l \in DOMAIN list : list[l] \in NativeResult
        BY <1>1
      <3>3. \A l \in DOMAIN list : new[l] \in NativeResult
        BY <2>2, <3>2 DEF NativeResult
      <3>4. DOMAIN new = 1..Len(list)
        BY <2>2, <3>1
      <3> HIDE DEF list
      <3>5. new = [l \in 1..Len(list) |-> new[l]]
        BY <2>2, <3>1
      <3> QED
        BY <3>1, <3>3, <3>4, <3>5
    <2>4. PICK q : q = [req[w] EXCEPT !.native = new]
      OBVIOUS
    <2>5. RequestOK(q)
      BY <1>1, <2>3, <2>4 DEF RequestOK, Request
    <2>6. req' = [req EXCEPT ![w] = q]
      BY <2>1, <2>2, <2>4
    <2> QED
      BY <1>3, <2>5, <2>6, Handles, GhostFacts DEF NativeStep
  <1> QED
    BY <1>2, <1>3

LEMMA SaveOK ==
    ASSUME GhostInv, NEW w \in Worker,
           RetryReset(w) \/ LaunchFails(w) \/ CancelSave(w) \/ RollbackSave(w)
    PROVE  GhostInv'
  <1>1. /\ req[w].task \in Alter /\ req[w].obj \in Row
        /\ req[w].pc = "reset" => req[w].obj.status = "queued"
    BY GhostFacts DEF RequestOK, RetryReset, LaunchFails, CancelSave, RollbackSave
  <1>2. {"failed", "cancelled", "rolled_back"} \subseteq RowStatus \ {"success"}
    BY DEF RowStatus, Terminal
  <1>3. CASE RetryReset(w)
    <2>1. RowsOK([row EXCEPT ![req[w].task] = req[w].obj], applied)
      BY <1>1, <1>3, RowChange, GhostFacts DEF RetryReset
    <2>2. PICK q : q = [req[w] EXCEPT !.pc = "popen"]
      OBVIOUS
    <2>3. RequestOK(q)
      BY <1>3, <2>2, RequestWith, GhostFacts DEF RetryReset
    <2> QED
      BY <1>3, <2>1, <2>2, <2>3, Handles, GhostFacts DEF RetryReset, Save
  <1>4. CASE LaunchFails(w)
    <2>1. row' = [row EXCEPT ![req[w].task] = [req[w].obj EXCEPT !.status = "failed"]]
      BY <1>4 DEF LaunchFails, Save
    <2>2. RowsOK(row', applied)
      BY <1>1, <1>2, <2>1, SavedWith
    <2>3. ProcessesOK(proc', applied)
      BY <1>1, <1>4, StartedOK, GhostFacts DEF LaunchFails, Forced
    <2> QED
      BY <1>4, <2>2, <2>3, Handles, GhostFacts, IdleOK DEF LaunchFails, Answer
  <1>5. CASE CancelSave(w)
    <2>1. row' = [row EXCEPT ![req[w].task] = [req[w].obj EXCEPT !.status = "cancelled"]]
      BY <1>5 DEF CancelSave, Save
    <2>2. RowsOK(row', applied)
      BY <1>1, <1>2, <2>1, SavedWith, FirstAlter
    <2> QED
      BY <1>5, <2>2, Handles, GhostFacts, IdleOK DEF CancelSave, Answer
  <1>6. CASE RollbackSave(w)
    <2>1. row' = [row EXCEPT ![req[w].task] = [req[w].obj EXCEPT !.status = "rolled_back"]]
      BY <1>6 DEF RollbackSave, Save
    <2>2. RowsOK(row', applied)
      BY <1>1, <1>2, <2>1, SavedWith, FirstAlter
    <2> QED
      BY <1>6, <2>2, Handles, GhostFacts, IdleOK DEF RollbackSave, Answer
  <1> QED
    BY <1>3, <1>4, <1>5, <1>6

LEMMA LaunchOK ==
    ASSUME GhostInv, NEW w \in Worker, Launch(w) \/ LaunchSave(w)
    PROVE  GhostInv'
  <1>1. req[w].task \in Alter /\ req[w].obj \in Row /\ RequestOK(req[w])
    BY GhostFacts DEF RequestOK, Launch, LaunchSave
  <1>2. CASE Launch(w)
    <2>1. PICK p \in Pid : Started(req[w].task, p, Forced(w))
                           /\ req' = [req EXCEPT ![w].pc = "save", ![w].obj.pid = p]
      BY <1>2 DEF Launch
    <2>2. ProcessesOK(proc', applied)
      BY <1>1, <2>1, StartedOK, GhostFacts DEF Forced
    <2>3. PICK obj : obj = [req[w].obj EXCEPT !.pid = p]
      OBVIOUS
    <2>4. obj \in Row
      BY <1>1, <2>3, RowStarted
    <2>5. PICK q : q = [req[w] EXCEPT !.pc = "save", !.obj = obj]
      OBVIOUS
    <2>6. RequestOK(q)
      BY <1>1, <2>4, <2>5 DEF RequestOK, Request
    <2>7. req' = [req EXCEPT ![w] = q]
      BY <2>1, <2>3, <2>5
    <2> QED
      BY <1>2, <2>2, <2>6, <2>7, Handles, GhostFacts DEF Launch
  <1>3. CASE LaunchSave(w)
    <2>1. row' = [row EXCEPT ![req[w].task] = [req[w].obj EXCEPT !.status = "running"]]
      BY <1>3 DEF LaunchSave, Save
    <2>2. "running" \in RowStatus \ {"success"}
      BY DEF RowStatus, Active
    <2>3. RowsOK(row', applied)
      BY <1>1, <2>1, <2>2, SavedWith
    <2>4. ThreadsOK(poller', applied)
      BY <1>1, <1>3, PollersWithOK DEF LaunchSave
    <2>5. PICK q : q = [req[w] EXCEPT !.pc = "native"]
      OBVIOUS
    <2>6. RequestOK(q)
      BY <1>3, <2>5, RequestWith, GhostFacts DEF LaunchSave
    <2>7. req' = [req EXCEPT ![w] = q] \/ req' = [req EXCEPT ![w] = Idle]
      BY <1>3, <2>5 DEF LaunchSave, Answer
    <2>8. RequestsOK(req')
      BY <2>6, <2>7, RequestChange, IdleOK DEF GhostInv
    <2> QED
      BY <1>3, <2>3, <2>4, <2>8 DEF LaunchSave, GhostInv
  <1> QED
    BY <1>2, <1>3

LEMMA RequestStepOK ==
    ASSUME GhostInv, NEW w \in Worker, RequestStep(w)
    PROVE  GhostInv'
  BY EnableOK, NativeOK, SaveOK, LaunchOK DEF RequestStep

-----------------------------------------------------------------------------
(* The threads *)

\* A step of thread i of worker w.
LEMMA Polls ==
    ASSUME GhostInv, NEW w \in Worker, NEW i \in Alter, NEW t, ThreadOK(t, i, applied),
           poller' = [poller EXCEPT ![w][i] = t], RowsOK(row', applied),
           ProcessesOK(proc', applied),
           wf' \in {wf, "workflow_finish", "workflow_exception"},
           UNCHANGED <<native, applied, req>>
    PROVE  GhostInv'
  <1>1. ThreadsOK(poller', applied)
    BY ThreadChange DEF GhostInv
  <1> QED
    BY <1>1 DEF GhostInv

LEMMA ThreadFacts ==
    ASSUME GhostInv, NEW w \in Worker, NEW i \in Alter
    PROVE  /\ ThreadOK(poller[w][i], i, applied) /\ poller[w][i] \in Thread
           /\ poller[w][i].obj \in Row /\ poller[w][i].nobj \in Row
           /\ poller[w][i].pc \in {"popen", "save"} => poller[w][i].next \in Alter
  <1>1. ThreadOK(poller[w][i], i, applied)
    BY DEF GhostInv, ThreadsOK
  <1> QED
    BY <1>1 DEF ThreadOK, Thread

LEMMA ThreadWith ==
    ASSUME NEW i \in Alter, NEW a, NEW t, ThreadOK(t, i, a),
           NEW pc \in {"next", "sync"}, NEW q, q = [t EXCEPT !.pc = pc]
    PROVE  ThreadOK(q, i, a)
  BY DEF ThreadOK, Thread

\* The thread takes an object in hand.
LEMMA ThreadHolds ==
    ASSUME NEW i \in Alter, NEW a, NEW t, ThreadOK(t, i, a), NEW obj \in Row,
           obj.status = "success" => i \in a,
           NEW pc \in {"loop", "final"}, NEW q, q = [t EXCEPT !.pc = pc, !.obj = obj]
    PROVE  ThreadOK(q, i, a)
  BY DEF ThreadOK, Thread

LEMMA ThreadTurns ==
    ASSUME NEW i \in Alter, NEW a, NEW t, ThreadOK(t, i, a), NEW obj \in Row, NEW j \in Alter,
           NEW q, \/ q = [t EXCEPT !.pc = "popen", !.next = j, !.nobj = obj]
                  \/ q = [t EXCEPT !.pc = "save", !.nobj = obj] /\ t.next \in Alter
    PROVE  ThreadOK(q, i, a)
  <1>1. j \in 0..Alters
    BY FirstAlter
  <1> QED
    BY <1>1 DEF ThreadOK, Thread

LEMMA SocketOK ==
    ASSUME NEW q, NEW a, ProcessOK(q, a), NEW sock \in BOOLEAN, NEW r,
           r = [q EXCEPT !.sock = sock]
    PROVE  ProcessOK(r, a)
  BY DEF ProcessOK, Process

LEMMA PollOK ==
    ASSUME GhostInv, NEW w \in Worker, NEW i \in Alter,
           \/ PollLoad(w, i) \/ FinalSave(w, i)
           \/ \E status \in {"success", "failed"} : PollVerdict(w, i, status)
    PROVE  GhostInv'
  <1>1. CASE PollLoad(w, i) /\ row[i].status \in Active
    <2>1. PICK obj : obj = [row[i] EXCEPT !.status = "running"]
      OBVIOUS
    <2>2. "running" \in RowStatus
      BY DEF RowStatus, Active
    <2>3. obj \in Row /\ obj.status = "running"
      BY <2>1, <2>2, RowWith, GhostFacts
    <2>4. RowsOK([row EXCEPT ![i] = obj], applied)
      BY <2>3, RowChange, GhostFacts
    <2>5. PICK t : t = [poller[w][i] EXCEPT !.pc = "loop", !.obj = obj]
      OBVIOUS
    <2>6. ThreadOK(t, i, applied)
      BY <2>3, <2>5, ThreadHolds, ThreadFacts
    <2>7. row' = [row EXCEPT ![i] = obj] /\ poller' = [poller EXCEPT ![w][i] = t]
      BY <1>1, <2>1, <2>5 DEF PollLoad, Save
    <2> QED
      BY <1>1, <2>4, <2>6, <2>7, Polls, GhostFacts DEF PollLoad
  <1>2. CASE PollLoad(w, i) /\ row[i].status \notin Active
    BY <1>2, OffOK, Polls, GhostFacts DEF PollLoad
  <1>3. CASE FinalSave(w, i)
    <2>1. RowsOK(row', applied)
      BY <1>3, RowChange, ThreadFacts, GhostFacts DEF FinalSave, Save, ThreadOK
    <2>2. PICK pc \in {"next", "sync"} : poller' = [poller EXCEPT ![w][i].pc = pc]
      BY <1>3 DEF FinalSave
    <2>3. PICK t : t = [poller[w][i] EXCEPT !.pc = pc]
      OBVIOUS
    <2>4. ThreadOK(t, i, applied)
      BY <2>3, ThreadWith, ThreadFacts
    <2>5. poller' = [poller EXCEPT ![w][i] = t]
      BY <2>2, <2>3
    <2> QED
      BY <1>3, <2>1, <2>4, <2>5, Polls, GhostFacts DEF FinalSave
  <1>4. ASSUME NEW status \in {"success", "failed"}, PollVerdict(w, i, status)
        PROVE  GhostInv'
    <2> DEFINE old == poller[w][i].obj
    <2>1. status = "success" => i \in applied
      BY <1>4, DoneIsApplied, GhostFacts DEF PollVerdict, Verdict
    <2>2. PICK obj : obj = [old EXCEPT !.status = status]
      OBVIOUS
    <2>3. status \in RowStatus /\ old \in Row
      BY ThreadFacts DEF RowStatus, Terminal
    <2>4. obj \in Row /\ obj.status = status
      BY <2>2, <2>3, RowWith
    <2>5. PICK t : t = [poller[w][i] EXCEPT !.pc = "final", !.obj = obj]
      OBVIOUS
    <2>6. ThreadOK(t, i, applied)
      BY <2>1, <2>4, <2>5, ThreadHolds, ThreadFacts
    <2>7. poller' = [poller EXCEPT ![w][i] = t]
      BY <1>4, <2>2, <2>5 DEF PollVerdict
    <2>8. ProcessesOK(proc', applied)
      <3> DEFINE killed == Killed(old.pid)
      <3>1. ProcessesOK(killed, applied)
        BY <2>3, KilledOK, GhostFacts DEF Row
      <3>2. CASE old.pid = 0
        BY <1>4, <3>2, GhostFacts DEF PollVerdict
      <3>3. CASE old.pid # 0
        <4>1. proc' = [p \in Pid |-> [killed[p] EXCEPT !.sock = @ /\ Table[proc[p].task] # Table[i]]]
          BY <1>4, <3>3 DEF PollVerdict
        <4> HIDE DEF killed
        <4>2. ASSUME NEW p \in Pid PROVE ProcessOK(proc'[p], applied)
          <5>1. ProcessOK(killed[p], applied)
            BY <3>1 DEF ProcessesOK
          <5>2. PICK sock \in BOOLEAN : sock = (killed[p].sock /\ Table[proc[p].task] # Table[i])
            BY <5>1 DEF ProcessOK, Process
          <5>3. proc'[p] = [killed[p] EXCEPT !.sock = sock]
            BY <4>1, <5>2
          <5> QED
            BY <5>1, <5>3, SocketOK
        <4>3. \A p \in Pid : proc'[p] \in Process
          BY <4>2 DEF ProcessOK
        <4> QED
          BY <4>1, <4>2, <4>3 DEF ProcessesOK
      <3> QED
        BY <3>2, <3>3
    <2> QED
      BY <1>4, <2>6, <2>7, <2>8, Polls, GhostFacts DEF PollVerdict
  <1> QED
    BY <1>1, <1>2, <1>3, <1>4

LEMMA ChainOK ==
    ASSUME GhostInv, NEW w \in Worker, NEW i \in Alter,
           NextPick(w, i) \/ NextLaunch(w, i) \/ NextFails(w, i) \/ NextSave(w, i)
    PROVE  GhostInv'
  <1> DEFINE old == poller[w][i]
  <1>1. CASE NextPick(w, i)
    <2>1. ASSUME NEW j \in Alter,
                 poller' = [poller EXCEPT ![w][i] = [@ EXCEPT !.pc = "popen", !.next = j,
                                                            !.nobj = row[j]]]
          PROVE  GhostInv'
      <3>1. PICK t : t = [old EXCEPT !.pc = "popen", !.next = j, !.nobj = row[j]]
        OBVIOUS
      <3>2. ThreadOK(t, i, applied)
        BY <3>1, ThreadTurns, ThreadFacts, GhostFacts
      <3> QED
        BY <1>1, <2>1, <3>1, <3>2, Polls, GhostFacts DEF NextPick
    <2>2. CASE poller' = [poller EXCEPT ![w][i].pc = "sync"]
      <3>1. PICK t : t = [old EXCEPT !.pc = "sync"]
        OBVIOUS
      <3>2. ThreadOK(t, i, applied)
        BY <3>1, ThreadWith, ThreadFacts
      <3> QED
        BY <1>1, <2>2, <3>1, <3>2, Polls, GhostFacts DEF NextPick
    <2> QED
      BY <1>1, <2>1, <2>2 DEF NextPick
  <1>2. CASE NextLaunch(w, i)
    <2>1. PICK p \in Pid : Started(old.next, p, FALSE)
                           /\ poller' = [poller EXCEPT ![w][i] = [@ EXCEPT !.pc = "save", !.nobj.pid = p]]
      BY <1>2 DEF NextLaunch
    <2>2. old.next \in Alter
      BY <1>2, ThreadFacts DEF NextLaunch, At
    <2>3. ProcessesOK(proc', applied)
      BY <2>1, <2>2, StartedOK, GhostFacts
    <2>4. PICK obj : obj = [old.nobj EXCEPT !.pid = p]
      OBVIOUS
    <2>5. obj \in Row
      BY <2>4, RowStarted, ThreadFacts
    <2>6. PICK t : t = [old EXCEPT !.pc = "save", !.nobj = obj]
      OBVIOUS
    <2>7. ThreadOK(t, i, applied)
      BY <2>2, <2>5, <2>6, ThreadTurns, ThreadFacts
    <2>8. poller' = [poller EXCEPT ![w][i] = t]
      BY <2>1, <2>4, <2>6
    <2> QED
      BY <1>2, <2>3, <2>7, <2>8, Polls, GhostFacts DEF NextLaunch
  <1>3. CASE NextFails(w, i)
    <2>1. old.next \in Alter /\ "failed" \in RowStatus \ {"success"}
      BY <1>3, ThreadFacts DEF NextFails, At, RowStatus, Terminal
    <2>2. RowsOK(row', applied)
      BY <1>3, <2>1, SavedWith, ThreadFacts DEF NextFails, Save
    <2>3. ProcessesOK(proc', applied)
      BY <1>3, <2>1, StartedOK, GhostFacts DEF NextFails
    <2>4. PICK t : t = [old EXCEPT !.pc = "sync"]
      OBVIOUS
    <2>5. ThreadOK(t, i, applied)
      BY <2>4, ThreadWith, ThreadFacts
    <2> QED
      BY <1>3, <2>2, <2>3, <2>4, <2>5, Polls DEF NextFails
  <1>4. CASE NextSave(w, i)
    <2>1. old.next \in Alter /\ "running" \in RowStatus \ {"success"}
      BY <1>4, ThreadFacts DEF NextSave, At, RowStatus, Active
    <2>2. RowsOK(row', applied)
      BY <1>4, <2>1, SavedWith, ThreadFacts DEF NextSave, Save
    <2>3. PICK pl : pl = PollersWith(w, old.next)
      OBVIOUS
    <2>4. ThreadsOK(pl, applied)
      BY <2>1, <2>3, PollersWithOK
    <2>5. PICK t : t = [pl[w][i] EXCEPT !.pc = "sync"]
      OBVIOUS
    <2>6. ThreadOK(t, i, applied)
      BY <2>4, <2>5, ThreadWith DEF ThreadsOK
    <2>7. poller' = [pl EXCEPT ![w] = [@ EXCEPT ![i] = t]]
      BY <1>4, <2>3, <2>5 DEF NextSave
    <2>8. ThreadsOK(poller', applied)
      BY <2>4, <2>6, <2>7, ThreadChange
    <2> QED
      BY <1>4, <2>2, <2>8 DEF NextSave, GhostInv
  <1> QED
    BY <1>1, <1>2, <1>3, <1>4

LEMMA SyncOK ==
    ASSUME GhostInv, NEW w \in Worker, NEW i \in Alter, SyncRead(w, i) \/ SyncWrite(w, i)
    PROVE  GhostInv'
  <1>1. CASE SyncRead(w, i)
    <2>1. PICK bad \in BOOLEAN : bad = \E k \in DOMAIN native : native[k] # "success"
      OBVIOUS
    <2>2. PICK t : t = [Off EXCEPT !.pc = "write", !.bad = bad]
      OBVIOUS
    <2>3. ThreadOK(t, i, applied) /\ ThreadOK(Off, i, applied)
      BY <2>2, OffOK
    <2>4. poller' = [poller EXCEPT ![w][i] = t] \/ poller' = [poller EXCEPT ![w][i] = Off]
      BY <1>1, <2>1, <2>2 DEF SyncRead
    <2> QED
      BY <1>1, <2>3, <2>4, Polls, GhostFacts DEF SyncRead
  <1>2. CASE SyncWrite(w, i)
    <2>1. wf' \in {"workflow_finish", "workflow_exception"}
      BY <1>2 DEF SyncWrite
    <2> QED
      BY <1>2, <2>1, OffOK, Polls, GhostFacts DEF SyncWrite
  <1> QED
    BY <1>1, <1>2

LEMMA FaultOK ==
    ASSUME GhostInv, NEW w \in Worker,
           \/ Restart(w)
           \/ \E i \in Alter, marked \in BOOLEAN : PollCrash(w, i, marked)
    PROVE  GhostInv'
  <1>1. CASE Restart(w)
    <2>1. RequestsOK(req')
      BY <1>1, RequestChange, IdleOK DEF Restart, GhostInv
    <2>2. \A i \in Alter : Off \in Thread /\ ThreadOK(Off, i, applied)
      BY OffOK
    <2>3. poller' \in [Worker -> [Alter -> Thread]]
      BY <1>1, <2>2 DEF Restart, GhostInv, ThreadsOK
    <2>4. ASSUME NEW v \in Worker, NEW i \in Alter PROVE ThreadOK(poller'[v][i], i, applied)
      BY <1>1, <2>2 DEF Restart, GhostInv, ThreadsOK
    <2>5. ThreadsOK(poller', applied)
      BY <2>3, <2>4 DEF ThreadsOK
    <2> QED
      BY <1>1, <2>1, <2>5 DEF Restart, GhostInv
  <1>2. ASSUME NEW i \in Alter, NEW marked \in BOOLEAN, PollCrash(w, i, marked)
        PROVE  GhostInv'
    <2>1. "failed" \in RowStatus \ {"success"}
      BY DEF RowStatus, Terminal
    <2>2. row' = row \/ row' = [row EXCEPT ![i] = [row[i] EXCEPT !.status = "failed"]]
      BY <1>2 DEF PollCrash
    <2>3. RowsOK(row', applied)
      BY <2>1, <2>2, SavedWith, GhostFacts
    <2> QED
      BY <1>2, <2>3, OffOK, Polls, GhostFacts DEF PollCrash
  <1> QED
    BY <1>1, <1>2

-----------------------------------------------------------------------------
(* The theorems *)

LEMMA GhostInitOK == Init => GhostInv
  <1> SUFFICES ASSUME Init PROVE GhostInv
    OBVIOUS
  <1>1. NoRow \in Row /\ NoRow.status = "none"
    BY DEF NoRow, Row
  <1>2. RowsOK(row, applied)
    BY <1>1 DEF Init, RowsOK
  <1>3. RequestsOK(req)
    BY IdleOK DEF Init, RequestsOK
  <1>4. ThreadsOK(poller, applied)
    BY OffOK DEF Init, ThreadsOK
  <1>5. NoProcess \in Process /\ ProcessOK(NoProcess, applied)
    BY DEF NoProcess, Process, ProcessOK
  <1>6. ProcessesOK(proc, applied)
    BY <1>5 DEF Init, ProcessesOK
  <1>7. native \in Seq(NativeResult)
    BY DEF Init
  <1> QED
    BY <1>2, <1>3, <1>4, <1>6, <1>7 DEF Init, GhostInv

LEMMA GhostStep == GhostInv /\ [Next]_vars => GhostInv'
  <1> SUFFICES ASSUME GhostInv, [Next]_vars PROVE GhostInv'
    OBVIOUS
  <1>1. ASSUME NEW p \in Pid, ProcessStep(p) PROVE GhostInv'
    BY <1>1, ProcessStepOK
  <1>2. ASSUME NEW w \in Worker, Arrive(w) PROVE GhostInv'
    BY <1>2, ArriveOK
  <1>3. ASSUME NEW w \in Worker, RequestStep(w) PROVE GhostInv'
    BY <1>3, RequestStepOK
  <1>4. ASSUME NEW w \in Worker, NEW i \in Alter, PollerStep(w, i) PROVE GhostInv'
    BY <1>4, PollOK, ChainOK, SyncOK DEF PollerStep
  <1>5. ASSUME NEW w \in Worker, Restart(w) PROVE GhostInv'
    BY <1>5, FaultOK
  <1>6. ASSUME NEW w \in Worker, NEW i \in Alter, NEW marked \in BOOLEAN, PollCrash(w, i, marked)
        PROVE  GhostInv'
    BY <1>6, FaultOK
  <1>7. CASE UNCHANGED vars
    BY <1>7 DEF vars, GhostInv
  <1> QED
    BY <1>1, <1>2, <1>3, <1>4, <1>5, <1>6, <1>7 DEF Next

\* What the rows, the objects in hand and the logs say of success is true of
\* the tables, in every behaviour of the views, threads and processes.
THEOREM GhostInvariant == Spec => []GhostInv
  BY GhostInitOK, GhostStep, PTL DEF Spec

\* Every row, request, thread and process keeps its type.
THEOREM GhostTypes == Spec => []GhostTypeOK
  <1>1. GhostInv => GhostTypeOK
    BY DEF GhostInv, GhostTypeOK, RowsOK, RequestsOK, ThreadsOK, ProcessesOK
  <1> QED
    BY <1>1, GhostInvariant, PTL

\* A task whose row says success has had its table swapped, whatever starts,
\* retries, cancellations, restarts and dying threads came between.
THEOREM GhostSuccess == Spec => []SuccessIsApplied
  <1>1. GhostInv => SuccessIsApplied
    BY DEF GhostInv, RowsOK, SuccessIsApplied
  <1> QED
    BY <1>1, GhostInvariant, PTL

-----------------------------------------------------------------------------
(* The order of the chain.  Enabling writes the rows first and the chain     *)
(* last, so a start in between would see no dependency.  When users start    *)
(* nothing before that (Linked), whatever is in hand was loaded from a row   *)
(* that knows its dependency, and was taken when the task before it was      *)
(* successful, hence applied.                                                *)

LinkedRows(r) == \A i \in Alter \ {1} : r[i].dep

\* The ALTER before i, if there is one, is applied.
After(i, a) == i = 1 \/ i - 1 \in a

Starts == {"start", "retry"} \cup AdminViews

Quiet ==
    /\ \A w \in Worker : req[w].view \notin Starts
    /\ \A w \in Worker, i \in Alter : poller[w][i] = Off

\* Only an administrator's retry starts a task that is not yet after an applied
\* one; his requests too keep the dependencies.
RequestChain(q, a) ==
    /\ q.pc \in {"reset", "popen", "save", "native"} => q.view \in Starts
    /\ q.pc \in {"reset", "popen", "save", "killed", "dropped"} => (q.task # 1 => q.obj.dep)
    /\ q.pc \in {"reset", "popen", "save"} => After(q.task, a) \/ q.view = "adminRetry"

ThreadChain(t, i, a) ==
    /\ t.pc \in {"loop", "final"} /\ i # 1 => t.obj.dep
    /\ t.pc \in {"popen", "save"} => After(t.next, a) /\ (t.next # 1 => t.nobj.dep)

ProcessChain(pr, a) ==
    \A p \in Pid : pr[p].task # 0 /\ ~pr[p].forced => After(pr[p].task, a)

ChainInv ==
    /\ Quiet \/ LinkedRows(row)
    /\ \A w \in Worker : RequestChain(req[w], applied)
    /\ \A w \in Worker, i \in Alter : ThreadChain(poller[w][i], i, applied)
    /\ ProcessChain(proc, applied)

LEMMA RowSaved ==
    ASSUME NEW r \in Row, NEW status, NEW p, NEW pre
    PROVE  /\ [r EXCEPT !.status = status].dep = r.dep
           /\ [r EXCEPT !.status = status, !.pid = p].dep = r.dep
           /\ [r EXCEPT !.status = status, !.pre = pre].dep = r.dep
           /\ [r EXCEPT !.pid = p].dep = r.dep
  BY RowFields

LEMMA LinkedChange ==
    ASSUME row \in [Alter -> Row], LinkedRows(row), NEW i \in Alter, NEW x,
           i # 1 => x.dep, row' = [row EXCEPT ![i] = x]
    PROVE  LinkedRows(row')
  BY DEF LinkedRows

\* No step of a view takes a dependency from a linked chain, ...
LEMMA ViewKeepsLinks ==
    ASSUME GhostInv, ChainInv, LinkedRows(row), NEW w \in Worker, Arrive(w) \/ RequestStep(w)
    PROVE  LinkedRows(row')
  <1>1. /\ row \in [Alter -> Row] /\ \A i \in Alter : row[i] \in Row
        /\ req[w].obj \in Row /\ RequestOK(req[w]) /\ RequestChain(req[w], applied)
    BY GhostFacts DEF ChainInv
  <1>2. CASE UNCHANGED row
    BY <1>2
  <1>3. ASSUME NEW passed \in BOOLEAN, EnableWrite(w, passed) PROVE LinkedRows(row')
    <2>1. req[w].task \in Alter
      BY <1>1, <1>3 DEF EnableWrite, RequestOK
    <2>2. PICK status : status = IF passed THEN "queued" ELSE "precheck_failed"
      OBVIOUS
    <2>3. PICK x : x = [row[req[w].task] EXCEPT !.status = status, !.pre = passed]
      OBVIOUS
    <2>4. row' = [row EXCEPT ![req[w].task] = x]
      BY <1>1, <1>3, <2>1, <2>2, <2>3 DEF EnableWrite
    <2>5. x.dep = row[req[w].task].dep
      BY <1>1, <2>1, <2>3, RowSaved
    <2> QED
      BY <1>1, <2>1, <2>4, <2>5, LinkedChange DEF LinkedRows
  <1>4. CASE EnableLink(w)
    <2>1. ASSUME NEW i \in Alter \ {1} PROVE row'[i].dep
      <3>1. i > 1 /\ row[i] \in Row
        BY <1>1 DEF Alter
      <3>2. row'[i] = [row[i] EXCEPT !.dep = TRUE]
        BY <1>4, <3>1 DEF EnableLink
      <3> QED
        BY <3>1, <3>2, RowFields
    <2> QED
      BY <2>1 DEF LinkedRows
  <1>5. CASE RetryReset(w)
    <2>1. req[w].task \in Alter /\ (req[w].task # 1 => req[w].obj.dep)
      BY <1>1, <1>5 DEF RetryReset, RequestOK, RequestChain
    <2> QED
      BY <1>1, <1>5, <2>1, LinkedChange DEF RetryReset, Save
  <1>6. CASE LaunchFails(w) \/ LaunchSave(w) \/ CancelSave(w) \/ RollbackSave(w)
    <2>1. req[w].task \in Alter /\ (req[w].task # 1 => req[w].obj.dep)
      BY <1>1, <1>6
        DEF LaunchFails, LaunchSave, CancelSave, RollbackSave, RequestOK, RequestChain
    <2>2. PICK status \in {"failed", "running", "cancelled", "rolled_back"} :
             row' = [row EXCEPT ![req[w].task] = [req[w].obj EXCEPT !.status = status]]
      BY <1>6 DEF LaunchFails, LaunchSave, CancelSave, RollbackSave, Save
    <2>3. [req[w].obj EXCEPT !.status = status].dep = req[w].obj.dep
      BY <1>1, RowSaved
    <2>4. PICK x : x = [req[w].obj EXCEPT !.status = status]
      OBVIOUS
    <2> QED
      BY <1>1, <2>1, <2>2, <2>3, <2>4, LinkedChange
  <1>7. CASE Abort(w)
    <2>1. ASSUME NEW i \in Alter \ {1} PROVE row'[i].dep
      <3>1. PICK x : x = [row[i] EXCEPT !.status = "cancelled"]
        OBVIOUS
      <3>2. x.dep = row[i].dep
        BY <1>1, <3>1, RowSaved
      <3>3. row'[i] = row[i] \/ row'[i] = x
        BY <1>7, <3>1 DEF Abort
      <3> QED
        BY <3>2, <3>3 DEF LinkedRows
    <2> QED
      BY <2>1 DEF LinkedRows
  <1>8. CASE \/ EnableCheck(w) \/ \E i \in Alter : StartCheck(w, i)
             \/ \E i \in Alter, view \in Views :
                   RetryCheck(w, view, i) \/ CancelKill(w, view, i) \/ RollbackDrop(w, view, i)
    BY <1>2, <1>8 DEF EnableCheck, RetryCheck, CancelKill, RollbackDrop, StartCheck
  <1>9. CASE \/ Launch(w) \/ NativeSave(w)
             \/ \E outcome \in {"success", "error", "exception"} : NativeStep(w, outcome)
    BY <1>2, <1>9 DEF Launch, NativeSave, NativeStep
  <1> QED
    BY <1>3, <1>4, <1>5, <1>6, <1>7, <1>8, <1>9, Arrivals DEF RequestStep

\* ... and neither does one of a thread.
LEMMA ThreadKeepsLinks ==
    ASSUME GhostInv, ChainInv, LinkedRows(row), NEW w \in Worker, NEW i \in Alter,
           PollerStep(w, i) \/ \E marked \in BOOLEAN : PollCrash(w, i, marked)
    PROVE  LinkedRows(row')
  <1> DEFINE t == poller[w][i]
  <1>1. /\ row \in [Alter -> Row] /\ row[i] \in Row /\ (i # 1 => row[i].dep)
        /\ t.obj \in Row /\ t.nobj \in Row /\ ThreadChain(t, i, applied)
        /\ t.pc \in {"popen", "save"} => t.next \in Alter
    BY GhostFacts, ThreadFacts DEF ChainInv, LinkedRows
  <1>2. CASE UNCHANGED row
    BY <1>2
  <1>3. CASE PollLoad(w, i) \/ \E marked \in BOOLEAN : PollCrash(w, i, marked)
    <2>1. PICK status \in {"running", "failed"} :
             row' \in {row, [row EXCEPT ![i] = [row[i] EXCEPT !.status = status]]}
      BY <1>3 DEF PollLoad, PollCrash, Save
    <2>2. PICK x : x = [row[i] EXCEPT !.status = status]
      OBVIOUS
    <2>3. x.dep = row[i].dep
      BY <1>1, <2>2, RowSaved
    <2> QED
      BY <1>1, <2>1, <2>2, <2>3, LinkedChange
  <1>4. CASE FinalSave(w, i)
    BY <1>1, <1>4, LinkedChange DEF FinalSave, Save, At, ThreadChain
  <1>5. CASE NextFails(w, i) \/ NextSave(w, i)
    <2>1. t.next \in Alter /\ (t.next # 1 => t.nobj.dep)
      BY <1>1, <1>5 DEF NextFails, NextSave, At, ThreadChain
    <2>2. PICK status \in {"failed", "running"} :
             row' = [row EXCEPT ![t.next] = [t.nobj EXCEPT !.status = status]]
      BY <1>5 DEF NextFails, NextSave, Save
    <2>3. PICK x : x = [t.nobj EXCEPT !.status = status]
      OBVIOUS
    <2>4. x.dep = t.nobj.dep
      BY <1>1, <2>3, RowSaved
    <2> QED
      BY <1>1, <2>1, <2>2, <2>3, <2>4, LinkedChange
  <1>6. CASE \/ NextPick(w, i) \/ NextLaunch(w, i) \/ SyncRead(w, i) \/ SyncWrite(w, i)
             \/ \E status \in {"success", "failed"} : PollVerdict(w, i, status)
    BY <1>2, <1>6 DEF NextPick, NextLaunch, SyncRead, SyncWrite, PollVerdict
  <1> QED
    BY <1>3, <1>4, <1>5, <1>6 DEF PollerStep

LEMMA LinkStays ==
    ASSUME GhostInv, ChainInv, Next, Linked
    PROVE  Quiet' \/ LinkedRows(row')
  <1>1. CASE LinkedRows(row)
    <2>1. ASSUME NEW p \in Pid, ProcessStep(p) PROVE LinkedRows(row')
      BY <1>1, <2>1 DEF ProcessStep, Bind, Swap, SayDone, Exit, Fatal
    <2>2. ASSUME NEW w \in Worker, Restart(w) PROVE LinkedRows(row')
      BY <1>1, <2>2 DEF Restart
    <2> QED
      BY <1>1, <2>1, <2>2, ViewKeepsLinks, ThreadKeepsLinks DEF Next
  <1>2. CASE Quiet /\ ~LinkedRows(row)
    <2>1. /\ \A w \in Worker : req[w].view \notin Starts /\ req[w] \in Request
          /\ \A w \in Worker : RequestChain(req[w], applied)
          /\ \A w \in Worker, i \in Alter : poller[w][i] = Off
          /\ req \in [Worker -> Request] /\ poller \in [Worker -> [Alter -> Thread]]
      BY <1>2, GhostFacts DEF Quiet, ChainInv, GhostInv, RequestsOK, ThreadsOK
    <2>2. ASSUME NEW p \in Pid, ProcessStep(p) PROVE Quiet'
      BY <1>2, <2>2 DEF ProcessStep, Bind, Swap, SayDone, Exit, Fatal, Quiet
    <2>3. ASSUME NEW w \in Worker, NEW q, q.view \notin Starts, req' = [req EXCEPT ![w] = q],
                 UNCHANGED poller
          PROVE  Quiet'
      BY <2>1, <2>3 DEF Quiet
    <2>4. Idle.view \notin Starts
      BY DEF Idle, Starts, AdminViews
    <2>5. ASSUME NEW w \in Worker, NEW pc, NEW task, NEW obj, NEW view, view \notin Starts,
                 req' = [req EXCEPT ![w] = [Idle EXCEPT !.pc = pc, !.view = view, !.task = task]]
                 \/ req' = [req EXCEPT ![w] = [Idle EXCEPT !.pc = pc, !.view = view, !.task = task,
                                                           !.obj = obj]],
                 UNCHANGED poller
          PROVE  Quiet'
      <3>1. PICK q : q = [Idle EXCEPT !.pc = pc, !.view = view, !.task = task]
        OBVIOUS
      <3>2. PICK r : r = [Idle EXCEPT !.pc = pc, !.view = view, !.task = task, !.obj = obj]
        OBVIOUS
      <3>3. q.view \notin Starts /\ r.view \notin Starts
        BY <2>5, <3>1, <3>2 DEF Idle
      <3> QED
        BY <2>3, <2>5, <3>1, <3>2, <3>3
    <2>6. ASSUME NEW w \in Worker, Arrive(w) PROVE Quiet'
      <3>1. CASE EnableCheck(w)
        BY <2>5, <3>1 DEF EnableCheck, Starts, AdminViews
      <3>2. CASE Abort(w)
        BY <1>2, <3>2 DEF Abort, Quiet
      <3>3. ASSUME req[w] = Idle, req'[w].view \in Starts PROVE Quiet'
        BY <1>2, <3>3 DEF Linked, LinkedRows, Starts
      <3>4. ASSUME NEW i \in Alter, StartCheck(w, i) PROVE Quiet'
        <4>1. req[w] = Idle /\ req'[w].view \in Starts
          BY <2>1, <3>4 DEF StartCheck, Free, Starts
        <4> QED
          BY <3>3, <4>1
      <3>5. ASSUME NEW i \in Alter, NEW view, RetryCheck(w, view, i),
                   view \in {"retry", "adminRetry"}
            PROVE  Quiet'
        <4>1. req[w] = Idle /\ req'[w].view = view
          BY <2>1, <3>5 DEF RetryCheck, Free
        <4> QED
          BY <3>3, <3>5, <4>1 DEF Starts, AdminViews
      <3>6. ASSUME NEW i \in Alter, NEW view, view \notin Starts,
                   CancelKill(w, view, i) \/ RollbackDrop(w, view, i)
            PROVE  Quiet'
        <4>1. PICK pc : req' = [req EXCEPT ![w] = [Idle EXCEPT !.pc = pc, !.view = view,
                                                               !.task = i, !.obj = row[i]]]
          BY <3>6 DEF CancelKill, RollbackDrop
        <4>2. poller' = poller
          BY <3>6 DEF CancelKill, RollbackDrop
        <4> QED
          BY <2>5, <3>6, <4>1, <4>2
      <3>7. ASSUME NEW i \in Alter, NEW view, view \in Starts,
                   CancelKill(w, view, i) \/ RollbackDrop(w, view, i)
            PROVE  Quiet'
        <4>1. PICK pc : req' = [req EXCEPT ![w] = [Idle EXCEPT !.pc = pc, !.view = view,
                                                               !.task = i, !.obj = row[i]]]
          BY <3>7 DEF CancelKill, RollbackDrop
        <4>2. PICK q : q = [Idle EXCEPT !.pc = pc, !.view = view, !.task = i, !.obj = row[i]]
          OBVIOUS
        <4>3. q.view = view
          BY <4>2 DEF Idle
        <4>4. req'[w] = q
          BY <2>1, <4>1, <4>2
        <4>5. req[w] = Idle
          BY <3>7 DEF CancelKill, RollbackDrop, Free
        <4> QED
          BY <3>3, <3>7, <4>3, <4>4, <4>5
      <3> QED
        BY <2>6, <3>1, <3>2, <3>4, <3>5, <3>6, <3>7 DEF Arrive
    <2>7. ASSUME NEW w \in Worker, RequestStep(w) PROVE Quiet'
      <3>1. req[w].pc \notin {"reset", "popen", "save", "native"}
        BY <2>1 DEF RequestChain
      <3>2. ASSUME NEW passed \in BOOLEAN, EnableWrite(w, passed) PROVE Quiet'
        <4>1. PICK q : q = [req[w] EXCEPT !.pc = "linking"]
          OBVIOUS
        <4>2. PICK r : r = [req[w] EXCEPT !.task = @ + 1]
          OBVIOUS
        <4>3. q.view = req[w].view /\ r.view = req[w].view
          BY <2>1, <4>1, <4>2 DEF Request
        <4>4. req' = [req EXCEPT ![w] = q] \/ req' = [req EXCEPT ![w] = r]
          BY <3>2, <4>1, <4>2 DEF EnableWrite
        <4> QED
          BY <2>1, <2>3, <3>2, <4>3, <4>4 DEF EnableWrite
      <3>3. CASE EnableLink(w) \/ CancelSave(w) \/ RollbackSave(w)
        BY <2>3, <2>4, <3>3 DEF EnableLink, CancelSave, RollbackSave, Answer
      <3> QED
        BY <2>7, <3>1, <3>2, <3>3
          DEF RequestStep, RetryReset, Launch, LaunchFails, LaunchSave, NativeStep, NativeSave
    <2>8. ASSUME NEW w \in Worker, NEW i \in Alter,
                 PollerStep(w, i) \/ \E marked \in BOOLEAN : PollCrash(w, i, marked)
          PROVE  FALSE
      <3>1. poller[w][i].pc = "off"
        BY <2>1 DEF Off
      <3> QED
        BY <2>8, <3>1
          DEF PollerStep, PollLoad, FinalSave, PollVerdict, NextPick, NextLaunch, NextFails, NextSave,
              SyncRead, SyncWrite, PollCrash, At
    <2>9. ASSUME NEW w \in Worker, Restart(w) PROVE Quiet'
      <3>1. \A v \in Worker : req'[v] \in {req[v], Idle}
        BY <2>1, <2>9 DEF Restart
      <3>2. \A v \in Worker, i \in Alter : poller'[v][i] = Off
        BY <2>1, <2>9 DEF Restart
      <3> QED
        BY <2>1, <2>4, <3>1, <3>2 DEF Quiet
    <2> QED
      BY <2>2, <2>6, <2>7, <2>8, <2>9 DEF Next
  <1> QED
    BY <1>1, <1>2 DEF ChainInv

LEMMA ChainMonotone ==
    ASSUME NEW a, NEW b, a \subseteq b
    PROVE  /\ \A i : After(i, a) => After(i, b)
           /\ \A q : RequestChain(q, a) => RequestChain(q, b)
           /\ \A t, i : ThreadChain(t, i, a) => ThreadChain(t, i, b)
           /\ \A pr : ProcessChain(pr, a) => ProcessChain(pr, b)
  <1>1. \A i : After(i, a) => After(i, b)
    BY DEF After
  <1> QED
    BY <1>1 DEF RequestChain, ThreadChain, ProcessChain

\* A task that is next in a linked chain may be started.
LEMMA NextIsAfter ==
    ASSUME GhostInv, LinkedRows(row), NEW i \in Alter, NextInChain(i)
    PROVE  After(i, applied) /\ (i # 1 => row[i].dep)
  <1>1. i # 1 => row[i].dep /\ row[i - 1].status = "success"
    BY DEF LinkedRows, NextInChain
  <1>2. i # 1 => i - 1 \in Alter
    BY DEF Alter
  <1> QED
    BY <1>1, <1>2, GhostFacts DEF RowsOK, After

LEMMA StartedTask ==
    ASSUME GhostInv, NEW i \in Alter, NEW forced \in BOOLEAN, After(i, applied) \/ forced,
           ProcessChain(proc, applied),
           StartFails(i, forced) \/ \E p \in Pid : Started(i, p, forced)
    PROVE  ProcessChain(proc', applied)
  <1>1. CASE proc' = proc
    BY <1>1
  <1>2. ASSUME NEW p \in Pid, NEW q, proc' = [proc EXCEPT ![p] = q],
               \/ q = [NoProcess EXCEPT !.task = i, !.st = "starting", !.forced = forced]
               \/ q = [NoProcess EXCEPT !.task = i, !.st = "dead", !.said = "fatal",
                                        !.forced = forced]
        PROVE  ProcessChain(proc', applied)
    <2>1. q.task = i /\ q.forced = forced
      BY <1>2 DEF NoProcess
    <2> QED
      BY <1>2, <2>1 DEF ProcessChain, GhostInv, ProcessesOK
  <1> QED
    BY <1>1, <1>2 DEF StartFails, Started

\* Nothing else gives a process a task.
LEMMA SameTask ==
    ASSUME ProcessChain(proc, applied), NEW a, applied \subseteq a,
           \A p \in Pid : proc'[p].task = proc[p].task /\ proc'[p].forced = proc[p].forced
    PROVE  ProcessChain(proc', a)
  BY ChainMonotone DEF ProcessChain

LEMMA DeadTask ==
    ASSUME NEW q \in Process
    PROVE  /\ Dead(q) \in Process /\ Dead(q).task = q.task /\ Dead(q).forced = q.forced
           /\ [Dead(q) EXCEPT !.said = "fatal"].task = q.task
           /\ [Dead(q) EXCEPT !.said = "fatal"].forced = q.forced
  BY DEF Dead, Process

LEMMA KilledTask ==
    ASSUME proc \in [Pid -> Process], NEW p
    PROVE  \A x \in Pid : /\ Killed(p)[x].task = proc[x].task /\ Killed(p)[x] \in Process
                          /\ Killed(p)[x].forced = proc[x].forced
  <1>1. \A x \in Pid : /\ proc[x] \in Process /\ Dead(proc[x]).task = proc[x].task
                       /\ Dead(proc[x]) \in Process /\ Dead(proc[x]).forced = proc[x].forced
    BY DeadTask
  <1>2. \A x \in Pid : Killed(p)[x] \in {proc[x], Dead(proc[x])}
    BY DEF Killed
  <1> QED
    BY <1>1, <1>2

LEMMA ProcessStepChain ==
    ASSUME GhostInv, ChainInv, NEW p \in Pid, ProcessStep(p)
    PROVE  /\ applied \subseteq applied' /\ UNCHANGED <<req, poller>>
           /\ ProcessChain(proc', applied')
  <1>1. proc \in [Pid -> Process] /\ proc[p] \in Process
    BY DEF GhostInv, ProcessesOK
  <1>2. applied \subseteq applied' /\ UNCHANGED <<req, poller>>
    BY DEF ProcessStep, Bind, Swap, SayDone, Exit, Fatal
  <1>3. CASE Bind(p)
    <2>1. PICK q : q = IF SocketTaken(proc[p].task) THEN [Dead(proc[p]) EXCEPT !.said = "fatal"]
                       ELSE [proc[p] EXCEPT !.st = "copying", !.sock = TRUE]
      OBVIOUS
    <2>2. /\ [proc[p] EXCEPT !.st = "copying", !.sock = TRUE].task = proc[p].task
          /\ [proc[p] EXCEPT !.st = "copying", !.sock = TRUE].forced = proc[p].forced
      BY <1>1 DEF Process
    <2>3. q.task = proc[p].task /\ q.forced = proc[p].forced
      BY <1>1, <2>1, <2>2, DeadTask
    <2>4. proc' = [proc EXCEPT ![p] = q]
      BY <1>3, <2>1 DEF Bind
    <2> QED
      BY <1>1, <1>2, <2>3, <2>4, SameTask DEF ChainInv
  <1>4. CASE Swap(p) \/ SayDone(p)
    <2>1. PICK q : q = [proc[p] EXCEPT !.st = "swapped"]
      OBVIOUS
    <2>2. PICK r : r = [proc[p] EXCEPT !.st = "done", !.said = "done"]
      OBVIOUS
    <2>3. /\ q.task = proc[p].task /\ q.forced = proc[p].forced
          /\ r.task = proc[p].task /\ r.forced = proc[p].forced
      BY <1>1, <2>1, <2>2 DEF Process
    <2>4. proc' = [proc EXCEPT ![p] = q] \/ proc' = [proc EXCEPT ![p] = r]
      BY <1>4, <2>1, <2>2 DEF Swap, SayDone
    <2> QED
      BY <1>1, <1>2, <2>3, <2>4, SameTask DEF ChainInv
  <1>5. CASE Exit(p) \/ Fatal(p)
    <2>1. PICK q : /\ q.task = proc[p].task /\ q.forced = proc[p].forced
                   /\ proc' = [proc EXCEPT ![p] = q]
      BY <1>1, <1>5, DeadTask DEF Exit, Fatal
    <2> QED
      BY <1>1, <1>2, <2>1, SameTask DEF ChainInv
  <1> QED
    BY <1>2, <1>3, <1>4, <1>5 DEF ProcessStep

LEMMA ViewStepChain ==
    ASSUME GhostInv, ChainInv, Linked, NEW w \in Worker, Arrive(w) \/ RequestStep(w),
           Quiet' \/ LinkedRows(row')
    PROVE  ChainInv'
  <1>1. /\ req \in [Worker -> Request] /\ req[w] \in Request /\ RequestOK(req[w])
        /\ req[w].obj \in Row /\ RequestChain(req[w], applied)
        /\ proc \in [Pid -> Process] /\ ProcessChain(proc, applied)
        /\ poller \in [Worker -> [Alter -> Thread]]
        /\ \A v \in Worker, j \in Alter : ThreadChain(poller[v][j], j, applied)
    BY GhostFacts DEF ChainInv, GhostInv, RequestsOK, ProcessesOK, ThreadsOK
  <1>2. ASSUME NEW q, RequestChain(q, applied), req' = [req EXCEPT ![w] = q],
               ProcessChain(proc', applied), UNCHANGED <<applied, poller>>
        PROVE  ChainInv'
    <2>1. \A v \in Worker : RequestChain(req'[v], applied)
      BY <1>1, <1>2 DEF ChainInv
    <2> QED
      BY <1>1, <1>2, <2>1 DEF ChainInv
  <1>3. RequestChain(Idle, applied)
    BY DEF Idle, RequestChain
  <1>4. ASSUME NEW q, q.pc \in {"idle", "enabling", "linking"} PROVE RequestChain(q, applied)
    BY <1>4 DEF RequestChain
  <1>5. CASE EnableCheck(w)
    <2>1. PICK q : q = [Idle EXCEPT !.pc = "enabling", !.view = "enable", !.task = 1]
      OBVIOUS
    <2>2. q.pc = "enabling"
      BY <2>1 DEF Idle
    <2>3. RequestChain(q, applied)
      BY <1>4, <2>2
    <2> QED
      BY <1>1, <1>2, <1>5, <2>1, <2>3 DEF EnableCheck
  <1>6. CASE Abort(w)
    BY <1>1, <1>6 DEF Abort, ChainInv
  <1>7. ASSUME NEW view \in Views, NEW i \in Alter, Free(w, view), Concerns(view, i),
               req'[w].view = view
        PROVE  i # 1 => row[i].dep
    BY <1>7 DEF Free, Concerns, Linked, Starts
  <1>7a. ASSUME NEW view \in Views, NEW i \in Alter, RetryCheck(w, view, i),
                view \in {"retry", "adminRetry"}
         PROVE  ChainInv'
    <2>1. PICK obj : obj = [row[i] EXCEPT !.status = "queued", !.pid = 0]
      OBVIOUS
    <2>2. PICK q : q = [pc |-> "reset", view |-> view, task |-> i, obj |-> obj, native |-> <<>>]
      OBVIOUS
    <2>3. /\ req' = [req EXCEPT ![w] = q] /\ Free(w, view) /\ Concerns(view, i)
          /\ UNCHANGED <<row, proc, applied, poller>>
      BY <1>7a, <2>1, <2>2 DEF RetryCheck
    <2>4. view \in Starts /\ req'[w].view = view
      BY <1>1, <1>7a, <2>2, <2>3 DEF Starts, AdminViews
    <2>5. i # 1 => row[i].dep
      BY <1>7, <2>3, <2>4
    <2>6. obj.dep = row[i].dep
      BY <2>1, RowSaved, GhostFacts
    <2>7. After(i, applied) \/ view = "adminRetry"
      BY <1>7a, <2>3 DEF Concerns, AdminViews, After
    <2>8. RequestChain(q, applied)
      BY <2>2, <2>4, <2>5, <2>6, <2>7 DEF RequestChain
    <2> QED
      BY <1>1, <1>2, <2>3, <2>8
  <1>7b. ASSUME NEW view \in Views, NEW i \in Alter,
                CancelKill(w, view, i) \/ RollbackDrop(w, view, i)
         PROVE  ChainInv'
    <2>1. PICK pc \in {"killed", "dropped"} :
             req' = [req EXCEPT ![w] = [Idle EXCEPT !.pc = pc, !.view = view, !.task = i,
                                                    !.obj = row[i]]]
      BY <1>7b DEF CancelKill, RollbackDrop
    <2>2. PICK q : q = [Idle EXCEPT !.pc = pc, !.view = view, !.task = i, !.obj = row[i]]
      OBVIOUS
    <2>3. q.pc = pc /\ q.view = view /\ q.task = i /\ q.obj = row[i]
      BY <2>2 DEF Idle
    <2>4. /\ req' = [req EXCEPT ![w] = q] /\ Free(w, view) /\ Concerns(view, i)
          /\ UNCHANGED <<row, applied, poller>>
      BY <1>7b, <2>1, <2>2 DEF CancelKill, RollbackDrop
    <2>5. req'[w].view = view
      BY <1>1, <2>3, <2>4
    <2>6. i # 1 => row[i].dep
      BY <1>7, <2>4, <2>5 DEF Starts
    <2>7. RequestChain(q, applied)
      BY <2>3, <2>6 DEF RequestChain
    <2>8. ProcessChain(proc', applied)
      <3>1. CASE proc' = proc
        BY <1>1, <3>1
      <3>2. CASE proc' = Killed(row[i].pid)
        BY <1>1, <3>2, KilledTask, SameTask
      <3> QED
        BY <1>7b, <3>1, <3>2 DEF CancelKill, RollbackDrop
    <2> QED
      BY <1>2, <2>4, <2>7, <2>8
  <1>8. ASSUME NEW i \in Alter, StartCheck(w, i) PROVE ChainInv'
    <2>1. PICK q : q = [pc |-> "popen", view |-> "start", task |-> i, obj |-> row[i], native |-> native]
      OBVIOUS
    <2>2. req' = [req EXCEPT ![w] = q] /\ UNCHANGED <<row, proc, applied, poller>> /\ NextInChain(i)
      BY <1>8, <2>1 DEF StartCheck
    <2>3. LinkedRows(row)
      <3>1. req'[w].view = "start"
        BY <1>1, <2>1, <2>2
      <3> QED
        BY <1>8, <3>1 DEF Linked, LinkedRows, StartCheck, Free
    <2>4. RequestChain(q, applied)
      BY <2>1, <2>2, <2>3, NextIsAfter DEF RequestChain, Starts
    <2> QED
      BY <1>1, <1>2, <2>2, <2>4
  <1>9. ASSUME NEW passed \in BOOLEAN, EnableWrite(w, passed) PROVE ChainInv'
    <2>1. PICK q : q = [req[w] EXCEPT !.pc = "linking"]
      OBVIOUS
    <2>2. PICK r : r = [req[w] EXCEPT !.task = @ + 1]
      OBVIOUS
    <2>3. req' = [req EXCEPT ![w] = q] \/ req' = [req EXCEPT ![w] = r]
      BY <1>9, <2>1, <2>2 DEF EnableWrite
    <2>4. q.pc = "linking" /\ r.pc = "enabling"
      BY <1>1, <1>9, <2>1, <2>2 DEF EnableWrite, Request
    <2> QED
      BY <1>1, <1>2, <1>4, <1>9, <2>3, <2>4 DEF EnableWrite
  <1>10. CASE EnableLink(w) \/ CancelSave(w) \/ RollbackSave(w) \/ NativeSave(w)
    BY <1>1, <1>2, <1>3, <1>10 DEF EnableLink, CancelSave, RollbackSave, NativeSave, Answer
  <1>11. CASE RetryReset(w)
    <2>1. PICK q : q = [req[w] EXCEPT !.pc = "popen"]
      OBVIOUS
    <2>2. RequestChain(q, applied)
      BY <1>1, <1>11, <2>1 DEF RetryReset, RequestChain, Request
    <2> QED
      BY <1>1, <1>2, <1>11, <2>1, <2>2 DEF RetryReset
  <1>12. CASE Launch(w)
    <2>1. PICK p \in Pid : Started(req[w].task, p, Forced(w))
                           /\ req' = [req EXCEPT ![w].pc = "save", ![w].obj.pid = p]
      BY <1>12 DEF Launch
    <2>2. /\ req[w].task \in Alter /\ req[w].view \in Starts
          /\ After(req[w].task, applied) \/ Forced(w)
          /\ req[w].task # 1 => req[w].obj.dep
      BY <1>1, <1>12 DEF Launch, RequestOK, RequestChain, Forced
    <2>3. ProcessChain(proc', applied)
      BY <1>1, <2>1, <2>2, StartedTask DEF Forced
    <2>4. PICK obj : obj = [req[w].obj EXCEPT !.pid = p]
      OBVIOUS
    <2>5. obj.dep = req[w].obj.dep
      BY <1>1, <2>4, RowSaved
    <2>6. PICK q : q = [req[w] EXCEPT !.pc = "save", !.obj = obj]
      OBVIOUS
    <2>7. q.pc = "save" /\ q.view = req[w].view /\ q.task = req[w].task /\ q.obj = obj
      BY <1>1, <2>6 DEF Request
    <2>8. RequestChain(q, applied)
      BY <2>2, <2>5, <2>7 DEF RequestChain, Forced
    <2>9. req' = [req EXCEPT ![w] = q]
      BY <2>1, <2>4, <2>6
    <2> QED
      BY <1>2, <1>12, <2>3, <2>8, <2>9 DEF Launch
  <1>13. CASE LaunchFails(w)
    <2>1. req[w].task \in Alter /\ (After(req[w].task, applied) \/ Forced(w))
      BY <1>1, <1>13 DEF LaunchFails, RequestOK, RequestChain, Forced
    <2>2. ProcessChain(proc', applied)
      BY <1>1, <1>13, <2>1, StartedTask DEF LaunchFails, Forced
    <2> QED
      BY <1>2, <1>3, <1>13, <2>2 DEF LaunchFails, Answer
  <1>14. CASE LaunchSave(w)
    <2>1. PICK q : q = [req[w] EXCEPT !.pc = "native"]
      OBVIOUS
    <2>2. RequestChain(q, applied)
      BY <1>1, <1>14, <2>1 DEF LaunchSave, RequestChain, Request
    <2>3. req' = [req EXCEPT ![w] = q] \/ req' = [req EXCEPT ![w] = Idle]
      BY <1>14, <2>1 DEF LaunchSave, Answer
    <2>4. \A v \in Worker : RequestChain(req'[v], applied)
      BY <1>1, <1>3, <2>2, <2>3 DEF ChainInv
    <2>5. ASSUME NEW v \in Worker, NEW j \in Alter PROVE ThreadChain(poller'[v][j], j, applied)
      <3>1. poller'[v][j] = poller[v][j] \/ poller'[v][j] = [Off EXCEPT !.pc = "new"]
        BY <1>1, <1>14 DEF LaunchSave, PollersWith
      <3>2. PICK t : t = [Off EXCEPT !.pc = "new"]
        OBVIOUS
      <3>3. t.pc = "new"
        BY <3>2 DEF Off
      <3> QED
        BY <1>1, <3>1, <3>2, <3>3 DEF ThreadChain
    <2> QED
      BY <1>1, <1>14, <2>4, <2>5 DEF LaunchSave, ChainInv
  <1>15. ASSUME NEW outcome \in {"success", "error", "exception"}, NativeStep(w, outcome)
         PROVE  ChainInv'
    <2>1. PICK new : req' = [req EXCEPT ![w].native = new]
      BY <1>15 DEF NativeStep
    <2>2. PICK q : q = [req[w] EXCEPT !.native = new]
      OBVIOUS
    <2>3. q.pc = "native" /\ q.view = req[w].view
      BY <1>1, <1>15, <2>2 DEF NativeStep, Request
    <2>4. RequestChain(q, applied)
      BY <1>1, <1>15, <2>3 DEF NativeStep, RequestChain
    <2>5. req' = [req EXCEPT ![w] = q]
      BY <2>1, <2>2
    <2> QED
      BY <1>1, <1>2, <1>15, <2>4, <2>5 DEF NativeStep
  <1> QED
    <2>1. ASSUME Arrive(w) PROVE ChainInv'
      <3>1. ASSUME NEW i \in Alter, NEW view, RetryCheck(w, view, i),
                   view \in {"retry", "adminRetry"}
            PROVE  ChainInv'
        <4>1. view \in Views
          BY <3>1 DEF RetryCheck, Free
        <4> QED
          BY <1>7a, <3>1, <4>1
      <3>2. ASSUME NEW i \in Alter, NEW view, CancelKill(w, view, i) \/ RollbackDrop(w, view, i)
            PROVE  ChainInv'
        <4>1. view \in Views
          BY <3>2 DEF CancelKill, RollbackDrop, Free
        <4> QED
          BY <1>7b, <3>2, <4>1
      <3> QED
        BY <1>5, <1>6, <1>8, <2>1, <3>1, <3>2 DEF Arrive
    <2> QED
      BY <1>9, <1>10, <1>11, <1>12, <1>13, <1>14, <1>15, <2>1 DEF RequestStep

LEMMA ThreadStepChain ==
    ASSUME GhostInv, ChainInv, NEW w \in Worker, NEW i \in Alter,
           PollerStep(w, i) \/ \E marked \in BOOLEAN : PollCrash(w, i, marked),
           LinkedRows(row), LinkedRows(row')
    PROVE  ChainInv'
  <1> DEFINE old == poller[w][i]
  <1>1. /\ poller \in [Worker -> [Alter -> Thread]] /\ old \in Thread
        /\ old.obj \in Row /\ old.nobj \in Row /\ ThreadChain(old, i, applied)
        /\ old.pc \in {"popen", "save"} => old.next \in Alter
        /\ row \in [Alter -> Row] /\ row[i] \in Row /\ (i # 1 => row[i].dep)
        /\ proc \in [Pid -> Process] /\ ProcessChain(proc, applied)
        /\ \A v \in Worker : RequestChain(req[v], applied)
        /\ \A v \in Worker, j \in Alter : ThreadChain(poller[v][j], j, applied)
    BY GhostFacts, ThreadFacts DEF ChainInv, GhostInv, ThreadsOK, ProcessesOK, LinkedRows
  <1>2. ASSUME NEW t, ThreadChain(t, i, applied), poller' = [poller EXCEPT ![w][i] = t],
               ProcessChain(proc', applied), UNCHANGED <<applied, req>>
        PROVE  ChainInv'
    <2>1. \A v \in Worker, j \in Alter : ThreadChain(poller'[v][j], j, applied)
      BY <1>1, <1>2
    <2> QED
      BY <1>1, <1>2, <2>1 DEF ChainInv
  <1>3. ASSUME NEW t, t.pc \in {"off", "new", "next", "sync", "write"}
        PROVE  ThreadChain(t, i, applied)
    BY <1>3 DEF ThreadChain
  <1>4. PICK sync : sync = [old EXCEPT !.pc = "sync"]
    OBVIOUS
  <1>5. ThreadChain(Off, i, applied) /\ ThreadChain(sync, i, applied)
    BY <1>1, <1>3, <1>4 DEF Off, Thread
  <1>6. CASE PollLoad(w, i)
    <2>1. PICK obj : obj = [row[i] EXCEPT !.status = "running"]
      OBVIOUS
    <2>2. PICK t : t = [old EXCEPT !.pc = "loop", !.obj = obj]
      OBVIOUS
    <2>3. obj.dep = row[i].dep /\ t.pc = "loop" /\ t.obj = obj
      BY <1>1, <2>1, <2>2, RowSaved DEF Thread
    <2>4. ThreadChain(t, i, applied)
      BY <1>1, <2>3 DEF ThreadChain
    <2>5. poller' = [poller EXCEPT ![w][i] = t] \/ poller' = [poller EXCEPT ![w][i] = Off]
      BY <1>6, <2>1, <2>2 DEF PollLoad
    <2> QED
      BY <1>1, <1>2, <1>5, <1>6, <2>4, <2>5 DEF PollLoad
  <1>7. ASSUME NEW status \in {"success", "failed"}, PollVerdict(w, i, status) PROVE ChainInv'
    <2>1. PICK obj : obj = [old.obj EXCEPT !.status = status]
      OBVIOUS
    <2>2. PICK t : t = [old EXCEPT !.pc = "final", !.obj = obj]
      OBVIOUS
    <2>3. obj.dep = old.obj.dep /\ t.pc = "final" /\ t.obj = obj
      BY <1>1, <2>1, <2>2, RowSaved DEF Thread
    <2>4. ThreadChain(t, i, applied)
      BY <1>1, <1>7, <2>3 DEF ThreadChain, PollVerdict, At
    <2>5. poller' = [poller EXCEPT ![w][i] = t]
      BY <1>7, <2>1, <2>2 DEF PollVerdict
    <2>6. \A p \in Pid : proc'[p].task = proc[p].task /\ proc'[p].forced = proc[p].forced
      <3> DEFINE killed == Killed(old.obj.pid)
      <3>1. \A p \in Pid : /\ killed[p].task = proc[p].task /\ killed[p] \in Process
                           /\ killed[p].forced = proc[p].forced
        BY <1>1, KilledTask
      <3>2. CASE proc' = [p \in Pid |-> [killed[p] EXCEPT !.sock =
                                           @ /\ Table[proc[p].task] # Table[i]]]
        <4> HIDE DEF killed
        <4>1. ASSUME NEW p \in Pid
              PROVE  proc'[p].task = killed[p].task /\ proc'[p].forced = killed[p].forced
          <5>1. PICK sock : sock = (killed[p].sock /\ Table[proc[p].task] # Table[i])
            OBVIOUS
          <5>2. proc'[p] = [killed[p] EXCEPT !.sock = sock]
            BY <3>2, <5>1
          <5> QED
            BY <3>1, <5>2 DEF Process
        <4> QED
          BY <3>1, <4>1
      <3> QED
        BY <1>7, <3>2 DEF PollVerdict
    <2>7. ProcessChain(proc', applied)
      BY <1>1, <2>6, SameTask
    <2> QED
      BY <1>2, <1>7, <2>4, <2>5, <2>7 DEF PollVerdict
  <1>8. CASE FinalSave(w, i)
    <2>1. PICK pc \in {"next", "sync"} : poller' = [poller EXCEPT ![w][i].pc = pc]
      BY <1>8 DEF FinalSave
    <2>2. PICK t : t = [old EXCEPT !.pc = pc]
      OBVIOUS
    <2>3. t.pc = pc
      BY <1>1, <2>2 DEF Thread
    <2>4. poller' = [poller EXCEPT ![w][i] = t]
      BY <2>1, <2>2
    <2>5. ThreadChain(t, i, applied)
      BY <1>3, <2>3
    <2> QED
      BY <1>1, <1>2, <1>8, <2>4, <2>5 DEF FinalSave
  <1>9. CASE NextPick(w, i)
    <2>1. ASSUME NEW j \in Alter, NextInChain(j),
                 poller' = [poller EXCEPT ![w][i] = [@ EXCEPT !.pc = "popen", !.next = j,
                                                            !.nobj = row[j]]]
          PROVE  ChainInv'
      <3>1. PICK t : t = [old EXCEPT !.pc = "popen", !.next = j, !.nobj = row[j]]
        OBVIOUS
      <3>2. t.pc = "popen" /\ t.next = j /\ t.nobj = row[j]
        BY <1>1, <3>1 DEF Thread
      <3>3. ThreadChain(t, i, applied)
        BY <2>1, <3>2, NextIsAfter DEF ThreadChain
      <3> QED
        BY <1>1, <1>2, <1>9, <2>1, <3>1, <3>3 DEF NextPick
    <2>2. CASE poller' = [poller EXCEPT ![w][i].pc = "sync"]
      BY <1>1, <1>2, <1>4, <1>5, <1>9, <2>2 DEF NextPick
    <2> QED
      BY <1>9, <2>1, <2>2 DEF NextPick
  <1>10. CASE NextLaunch(w, i)
    <2>1. PICK p \in Pid : Started(old.next, p, FALSE)
                           /\ poller' = [poller EXCEPT ![w][i] = [@ EXCEPT !.pc = "save", !.nobj.pid = p]]
      BY <1>10 DEF NextLaunch
    <2>2. old.next \in Alter /\ After(old.next, applied) /\ (old.next # 1 => old.nobj.dep)
      BY <1>1, <1>10 DEF NextLaunch, At, ThreadChain
    <2>3. ProcessChain(proc', applied)
      BY <1>1, <2>1, <2>2, StartedTask
    <2>4. PICK obj : obj = [old.nobj EXCEPT !.pid = p]
      OBVIOUS
    <2>5. PICK t : t = [old EXCEPT !.pc = "save", !.nobj = obj]
      OBVIOUS
    <2>6. obj.dep = old.nobj.dep /\ t.pc = "save" /\ t.next = old.next /\ t.nobj = obj
      BY <1>1, <2>4, <2>5, RowSaved DEF Thread
    <2>7. ThreadChain(t, i, applied)
      BY <2>2, <2>6 DEF ThreadChain
    <2>8. poller' = [poller EXCEPT ![w][i] = t]
      BY <2>1, <2>4, <2>5
    <2> QED
      BY <1>2, <1>10, <2>3, <2>7, <2>8 DEF NextLaunch
  <1>11. CASE NextFails(w, i)
    <2>1. old.next \in Alter /\ After(old.next, applied)
      BY <1>1, <1>11 DEF NextFails, At, ThreadChain
    <2>2. ProcessChain(proc', applied)
      BY <1>1, <1>11, <2>1, StartedTask DEF NextFails
    <2>3. poller' = [poller EXCEPT ![w][i] = sync]
      BY <1>4, <1>11 DEF NextFails
    <2> QED
      BY <1>2, <1>5, <1>11, <2>2, <2>3 DEF NextFails
  <1>12. CASE NextSave(w, i)
    <2>1. ASSUME NEW v \in Worker, NEW j \in Alter PROVE ThreadChain(poller'[v][j], j, applied)
      <3>1. PICK pl : pl = PollersWith(w, old.next)
        OBVIOUS
      <3>2. PICK new : new = [Off EXCEPT !.pc = "new"]
        OBVIOUS
      <3>3. pl \in [Worker -> [Alter -> Thread]] /\ pl[v][j] \in {poller[v][j], new}
        BY <1>1, <1>12, <3>1, <3>2, OffOK DEF PollersWith, ThreadOK
      <3>4. PICK t : t = [pl[w][i] EXCEPT !.pc = "sync"]
        OBVIOUS
      <3>5. poller' = [pl EXCEPT ![w][i] = t]
        BY <1>12, <3>1, <3>4 DEF NextSave
      <3>6. t.pc = "sync" /\ new.pc = "new"
        BY <3>2, <3>3, <3>4 DEF Thread, Off
      <3>7. poller'[v][j] \in {poller[v][j], new, t}
        BY <3>3, <3>5
      <3> QED
        BY <1>1, <3>6, <3>7 DEF ThreadChain
    <2> QED
      BY <1>1, <1>12, <2>1 DEF NextSave, ChainInv
  <1>13. CASE SyncRead(w, i)
    <2>1. PICK bad : bad = \E k \in DOMAIN native : native[k] # "success"
      OBVIOUS
    <2>2. PICK t : t = [Off EXCEPT !.pc = "write", !.bad = bad]
      OBVIOUS
    <2>3. t.pc = "write"
      BY <2>2 DEF Off
    <2>4. poller' = [poller EXCEPT ![w][i] = t] \/ poller' = [poller EXCEPT ![w][i] = Off]
      BY <1>13, <2>1, <2>2 DEF SyncRead
    <2>5. ThreadChain(t, i, applied)
      BY <1>3, <2>3
    <2> QED
      BY <1>1, <1>2, <1>5, <1>13, <2>4, <2>5 DEF SyncRead
  <1>14. CASE SyncWrite(w, i) \/ \E marked \in BOOLEAN : PollCrash(w, i, marked)
    BY <1>1, <1>2, <1>5, <1>14 DEF SyncWrite, PollCrash
  <1> QED
    BY <1>6, <1>7, <1>8, <1>9, <1>10, <1>11, <1>12, <1>13, <1>14 DEF PollerStep

LEMMA ChainStep == GhostInv /\ ChainInv /\ [Next /\ Linked]_vars => ChainInv'
  <1> SUFFICES ASSUME GhostInv, ChainInv, [Next /\ Linked]_vars PROVE ChainInv'
    OBVIOUS
  <1>1. CASE Next /\ Linked
    <2>1. Quiet' \/ LinkedRows(row')
      BY <1>1, LinkStays
    <2>2. ASSUME NEW p \in Pid, ProcessStep(p) PROVE ChainInv'
      <3>1. applied \subseteq applied' /\ UNCHANGED <<req, poller>> /\ ProcessChain(proc', applied')
        BY <2>2, ProcessStepChain
      <3> QED
        BY <2>1, <3>1, ChainMonotone DEF ChainInv
    <2>3. ASSUME NEW w \in Worker, Arrive(w) \/ RequestStep(w) PROVE ChainInv'
      BY <1>1, <2>1, <2>3, ViewStepChain
    <2>4. ASSUME NEW w \in Worker, NEW i \in Alter,
                 PollerStep(w, i) \/ \E marked \in BOOLEAN : PollCrash(w, i, marked)
          PROVE  ChainInv'
      <3>1. poller[w][i].pc # "off"
        BY <2>4
          DEF PollerStep, PollLoad, FinalSave, PollVerdict, NextPick, NextLaunch, NextFails, NextSave,
              SyncRead, SyncWrite, PollCrash, At
      <3>2. LinkedRows(row)
        BY <3>1 DEF ChainInv, Quiet, Off
      <3>3. LinkedRows(row')
        BY <2>4, <3>2, ThreadKeepsLinks
      <3> QED
        BY <2>4, <3>2, <3>3, ThreadStepChain
    <2>5. ASSUME NEW w \in Worker, Restart(w) PROVE ChainInv'
      <3>1. RequestChain(Idle, applied) /\ \A i \in Alter : ThreadChain(Off, i, applied)
        BY DEF RequestChain, ThreadChain, Idle, Off
      <3>2. req \in [Worker -> Request] /\ poller \in [Worker -> [Alter -> Thread]]
        BY DEF GhostInv, RequestsOK, ThreadsOK
      <3>3. \A v \in Worker : RequestChain(req'[v], applied)
        BY <2>5, <3>1, <3>2 DEF Restart, ChainInv
      <3>4. \A v \in Worker, i \in Alter : ThreadChain(poller'[v][i], i, applied)
        BY <2>5, <3>1, <3>2 DEF Restart, ChainInv
      <3> QED
        BY <2>1, <2>5, <3>3, <3>4 DEF Restart, ChainInv
    <2> QED
      BY <1>1, <2>2, <2>3, <2>4, <2>5 DEF Next
  <1>2. CASE UNCHANGED vars
    BY <1>2 DEF vars, ChainInv, Quiet
  <1> QED
    BY <1>1, <1>2

\* When nothing is started, and no administrator acts, before enabling has
\* written the chain, gh-ost never runs an ALTER before the one it depends on is
\* applied, except where admin_retry starts it: whatever is retried, cancelled,
\* rolled back, aborted or enabled again, by users or by an administrator, by
\* however many workers, restarted or not.
THEOREM GhostChainOrder == LinkedSpec => []ChainOrder
  <1>1. Init => GhostInv /\ ChainInv
    <2> SUFFICES ASSUME Init PROVE ChainInv
      BY GhostInitOK
    <2>1. \A w \in Worker : req[w] = Idle
      BY DEF Init
    <2>2. \A w \in Worker, i \in Alter : poller[w][i] = Off
      BY DEF Init
    <2>3. \A p \in Pid : proc[p].task = 0
      BY DEF Init, NoProcess
    <2>4. Quiet
      BY <2>1, <2>2 DEF Quiet, Idle, Starts, AdminViews
    <2> QED
      BY <2>1, <2>2, <2>3, <2>4
        DEF ChainInv, RequestChain, ThreadChain, ProcessChain, Idle, Off
  <1>2. GhostInv /\ ChainInv /\ [Next /\ Linked]_vars => (GhostInv /\ ChainInv)'
    BY GhostStep, ChainStep
  <1>3. GhostInv /\ ChainInv => ChainOrder
    <2> SUFFICES ASSUME GhostInv, ChainInv, NEW p \in Pid, proc[p].task > 1, ~proc[p].forced
                 PROVE  proc[p].task - 1 \in applied
      BY DEF ChainOrder
    <2> QED
      BY DEF ChainInv, ProcessChain, After
  <1> QED
    BY <1>1, <1>2, <1>3, PTL DEF LinkedSpec

-----------------------------------------------------------------------------
(* One start.  With a single worker, no retry and no fault, gh-ost enabled   *)
(* once and the first task started, the workflow goes through five phases,   *)
(* and in the last of them the threads hand the work on: one of them at a    *)
(* time is busy, and a task is launched once.                                *)

OneWorker == \E w \in Worker : Worker = {w}

NoRepair == (\A view \in {"retry"} \cup AdminViews : view \notin Views) /\ Faults = {}

\* Process x is the only one started for task i; none was; none is left.
Only(pr, i, x) == \A p \in Pid : pr[p].task = i => p = x
Unlaunched(pr, i) == \A p \in Pid : pr[p].task # i
Stopped(pr, i) == \A p \in Pid : pr[p].task = i => pr[p].st \in {"none", "dead"}

Prechecked == {"queued", "precheck_failed"}
Pending == [k \in 1..Natives |-> "pending"]
Good == [k \in 1..Natives |-> "success"]

Untouched(w) ==
    /\ \A p \in Pid : proc[p] = NoProcess
    /\ \A i \in Alter : poller[w][i] = Off
    /\ wf # "workflow_finish"

NotEnabled(w) ==
    /\ req[w] = Idle /\ native = <<>>
    /\ \A i \in Alter : row[i].status = "none"
    /\ Untouched(w)

Enabling(w) ==
    /\ req[w].pc \in {"enabling", "linking"} /\ native = <<>>
    /\ \A i \in Alter : req[w].pc = "linking" \/ i < req[w].task => row[i].status \in Prechecked
    /\ Untouched(w)

Ready(w) ==
    /\ req[w].pc \in {"idle", "popen", "killed"} /\ native = Pending
    /\ req[w].pc = "popen" => req[w].native = Pending
    /\ req[w].pc # "idle" => req[w].task = 1
    /\ \A i \in Alter : row[i].status \in Prechecked
    /\ row[1].status = "queued"
    /\ Untouched(w)

Launched(w) ==
    /\ req[w].pc = "save" /\ native = Pending
    /\ req[w].task = 1 /\ req[w].native = Pending
    /\ Only(proc, 1, req[w].obj.pid)
    /\ \A i \in Alter \ {1} : Unlaunched(proc, i)
    /\ \A i \in Alter : row[i].status \in Prechecked
    /\ \A i \in Alter : poller[w][i] = Off
    /\ wf # "workflow_finish"

Hand(t) == t.pc \in {"popen", "save"}
Busy(t) == t.pc \in {"new", "loop", "final", "next", "popen", "save"}

\* The task a thread is about to start has not been started; the workflow may
\* have been aborted since it was picked.
HandOK(w, t) ==
    /\ t.next # 1 /\ poller[w][t.next] = Off
    /\ \/ row[t.next].status = "queued"
       \/ row[t.next].status = "cancelled" /\ wf # "workflow_review_pass"
    /\ t.pc = "popen" => Unlaunched(proc, t.next)
    /\ t.pc = "save" => Only(proc, t.next, t.nobj.pid)

\* What is so while a thread is about to write the status of the workflow: the
\* rows it read cannot change any more to what has not ended.
Ending(w, t) ==
    /\ \A j \in Alter : row[j].status \in Terminal /\ ~Hand(poller[w][j])
    /\ t.bad \/ native = Good

ThreadEnds(w, t, i) ==
    /\ t.pc = "new" /\ row[i].status \in Active => Only(proc, i, row[i].pid)
    /\ t.pc = "loop" => Only(proc, i, t.obj.pid)
    /\ t.pc = "final" => t.obj.status \in {"success", "failed"}
                         /\ (t.obj.status = "failed" => Stopped(proc, i))
    /\ Hand(t) => HandOK(w, t)
    /\ t.pc = "write" => Ending(w, t)

Answering(w) ==
    /\ req[w].pc \in {"idle", "native", "killed", "dropped"}
    /\ req[w].pc = "native" => native = Pending /\ DOMAIN req[w].native = 1..Natives
    /\ req[w].pc \in {"killed", "dropped"} => req[w].task = 1

OneBusy(w) == \A i, j \in Alter : Busy(poller[w][i]) /\ Busy(poller[w][j]) => i = j

RowsBegun ==
    /\ \A i \in Alter : row[i].status # "none"
    /\ row[1].status # "queued"

Waiting(w) ==
    \A i \in Alter : row[i].status \in Prechecked =>
        /\ poller[w][i] = Off
        /\ \/ Unlaunched(proc, i)
           \/ \E j \in Alter : poller[w][j].pc = "save" /\ poller[w][j].next = i

FailedStopped == \A i \in Alter : row[i].status = "failed" => Stopped(proc, i)

Finished == wf = "workflow_finish" => applied = Alter /\ native = Good

Going(w) ==
    /\ Answering(w) /\ DOMAIN native = 1..Natives
    /\ RowsBegun /\ OneBusy(w) /\ Waiting(w) /\ FailedStopped /\ Finished
    /\ \A i \in Alter : ThreadEnds(w, poller[w][i], i)

EndsInv ==
    \A w \in Worker : NotEnabled(w) \/ Enabling(w) \/ Ready(w) \/ Launched(w) \/ Going(w)

\* Nothing happens to task i but that its process comes to an end.
Keeps(i) ==
    \A p \in Pid : proc'[p].task = i =>
        /\ proc[p].task = i
        /\ proc[p].st \in {"none", "dead"} => proc'[p].st \in {"none", "dead"}

LEMMA Kept ==
    ASSUME NEW i, Keeps(i)
    PROVE  /\ \A x : Only(proc, i, x) => Only(proc', i, x)
           /\ Unlaunched(proc, i) => Unlaunched(proc', i)
           /\ Stopped(proc, i) => Stopped(proc', i)
  BY DEF Keeps, Only, Unlaunched, Stopped

LEMMA StandsKept == proc' = proc => \A i : Keeps(i)
  BY DEF Keeps

LEMMA DeadState ==
    ASSUME NEW q \in Process
    PROVE  Dead(q).st = "dead" /\ [Dead(q) EXCEPT !.said = "fatal"].st = "dead"
  BY DEF Dead, Process

LEMMA ProcessStepKeeps ==
    ASSUME GhostInv, NEW p \in Pid, ProcessStep(p)
    PROVE  /\ \A i : Keeps(i)
           /\ UNCHANGED <<wf, row, native, req, poller>> /\ applied \subseteq applied'
           /\ proc[p].st # "none"
  <1>1. proc \in [Pid -> Process] /\ proc[p] \in Process
    BY DEF GhostInv, ProcessesOK
  <1>2. /\ UNCHANGED <<wf, row, native, req, poller>> /\ applied \subseteq applied'
        /\ proc[p].st \in {"starting", "copying", "swapped", "done"}
    BY DEF ProcessStep, Bind, Swap, SayDone, Exit, Fatal
  <1>3. ASSUME NEW q, q.task = proc[p].task, proc' = [proc EXCEPT ![p] = q]
        PROVE  \A i : Keeps(i)
    BY <1>1, <1>2, <1>3 DEF Keeps
  <1>4. CASE Bind(p)
    <2>1. PICK q : q = IF SocketTaken(proc[p].task) THEN [Dead(proc[p]) EXCEPT !.said = "fatal"]
                       ELSE [proc[p] EXCEPT !.st = "copying", !.sock = TRUE]
      OBVIOUS
    <2>2. [proc[p] EXCEPT !.st = "copying", !.sock = TRUE].task = proc[p].task
      BY <1>1 DEF Process
    <2>3. q.task = proc[p].task
      BY <1>1, <2>1, <2>2, DeadTask
    <2>4. proc' = [proc EXCEPT ![p] = q]
      BY <1>4, <2>1 DEF Bind
    <2> QED
      BY <1>2, <1>3, <2>3, <2>4
  <1>5. CASE Swap(p) \/ SayDone(p)
    <2>1. PICK q : q = [proc[p] EXCEPT !.st = "swapped"]
      OBVIOUS
    <2>2. PICK r : r = [proc[p] EXCEPT !.st = "done", !.said = "done"]
      OBVIOUS
    <2>3. q.task = proc[p].task /\ r.task = proc[p].task
      BY <1>1, <2>1, <2>2 DEF Process
    <2>4. proc' = [proc EXCEPT ![p] = q] \/ proc' = [proc EXCEPT ![p] = r]
      BY <1>5, <2>1, <2>2 DEF Swap, SayDone
    <2> QED
      BY <1>2, <1>3, <2>3, <2>4
  <1>6. CASE Exit(p) \/ Fatal(p)
    <2>1. PICK q : q.task = proc[p].task /\ proc' = [proc EXCEPT ![p] = q]
      BY <1>1, <1>6, DeadTask DEF Exit, Fatal
    <2> QED
      BY <1>2, <1>3, <2>1
  <1> QED
    BY <1>4, <1>5, <1>6 DEF ProcessStep

LEMMA KilledKeeps ==
    ASSUME GhostInv, NEW p
    PROVE  /\ \A x \in Pid : /\ Killed(p)[x] \in Process /\ Killed(p)[x].task = proc[x].task
                             /\ Killed(p)[x].st \in {proc[x].st, "dead"}
           /\ p \in Pid => Killed(p)[p].st \in {"none", "dead"}
           /\ p = 0 => Killed(p) = proc
  <1>1. proc \in [Pid -> Process] /\ 0 \notin Pid
    BY DEF GhostInv, ProcessesOK, Pid
  <1>2. \A x \in Pid : Killed(p)[x].task = proc[x].task /\ Killed(p)[x] \in Process
    BY <1>1, KilledTask
  <1>3. \A x \in Pid : Dead(proc[x]).st = "dead"
    BY <1>1, DeadState
  <1>4. \A x \in Pid : Killed(p)[x].st \in {proc[x].st, "dead"}
    BY <1>1, <1>3 DEF Killed
  <1>5. p \in Pid => Killed(p)[p].st \in {"none", "dead"}
    BY <1>1, <1>3 DEF Killed, is_alive
  <1>6. p = 0 => Killed(p) = proc
    BY DEF Killed, is_alive
  <1> QED
    BY <1>2, <1>4, <1>5, <1>6

\* A start changes nothing for the other tasks; one that fails leaves no process.
LEMMA StartKeeps ==
    ASSUME GhostInv, NEW j \in Alter,
           NEW forced, StartFails(j, forced) \/ \E p \in Pid : Started(j, p, forced)
    PROVE  /\ \A i \in Alter \ {j} : Keeps(i)
           /\ Unlaunched(proc, j) /\ StartFails(j, forced) => Stopped(proc', j)
           /\ \A p \in Pid : Unlaunched(proc, j) /\ Started(j, p, forced) => Only(proc', j, p)
  <1>1. proc \in [Pid -> Process]
    BY DEF GhostInv, ProcessesOK
  <1>2. proc' = proc => /\ \A i \in Alter \ {j} : Keeps(i)
                        /\ Unlaunched(proc, j) => Stopped(proc', j)
    BY StandsKept DEF Unlaunched, Stopped
  <1>3. ASSUME NEW p \in Pid, NEW q, proc' = [proc EXCEPT ![p] = q], q.task = j
        PROVE  /\ \A i \in Alter \ {j} : Keeps(i)
               /\ Unlaunched(proc, j) => Only(proc', j, p)
               /\ Unlaunched(proc, j) /\ q.st = "dead" => Stopped(proc', j)
    BY <1>1, <1>3 DEF Keeps, Unlaunched, Only, Stopped
  <1>4. PICK started : started = [NoProcess EXCEPT !.task = j, !.st = "starting",
                                                   !.forced = forced]
    OBVIOUS
  <1>5. PICK failed : failed = [NoProcess EXCEPT !.task = j, !.st = "dead", !.said = "fatal",
                                                 !.forced = forced]
    OBVIOUS
  <1>6. /\ started.task = j /\ started.st = "starting"
        /\ failed.task = j /\ failed.st = "dead"
    BY <1>4, <1>5 DEF NoProcess
  <1>7. ASSUME NEW p \in Pid, Started(j, p, forced)
        PROVE  /\ \A i \in Alter \ {j} : Keeps(i)
               /\ Unlaunched(proc, j) => Only(proc', j, p)
    BY <1>3, <1>4, <1>6, <1>7 DEF Started
  <1>8. ASSUME StartFails(j, forced)
        PROVE  /\ \A i \in Alter \ {j} : Keeps(i)
               /\ Unlaunched(proc, j) => Stopped(proc', j)
    <2>1. CASE proc' = proc
      BY <1>2, <2>1
    <2>2. CASE \E p \in Pid : proc' = [proc EXCEPT ![p] = failed]
      BY <1>3, <1>6, <2>2
    <2> QED
      BY <1>5, <1>8, <2>1, <2>2 DEF StartFails
  <1> QED
    BY <1>7, <1>8

\* A step of the processes or of a view, while the threads stand still: it may
\* end the first task, or every one when the workflow is aborted.
LEMMA Around ==
    ASSUME GhostInv, NEW w \in Worker, Going(w),
           UNCHANGED poller, applied \subseteq applied', applied' \subseteq Alter,
           \A i : Keeps(i),
           \A i \in Alter :
              \/ row'[i].status = row[i].status /\ row'[i].pid = row[i].pid
              \/ row'[i].status \in {"cancelled", "rolled_back"} /\ i = 1
              \/ row'[i].status = "cancelled" /\ wf' # "workflow_review_pass",
           wf' = wf \/ wf' = "workflow_abort",
           Answering(w)', DOMAIN native' = 1..Natives, native = Good => native' = Good
    PROVE  Going(w)'
  <1>1. \A i \in Alter : /\ Hand(poller[w][i]) => poller[w][i].next \in Alter
                         /\ ThreadEnds(w, poller[w][i], i)
    BY ThreadFacts DEF Hand, Going
  <1>2. RowsBegun' /\ OneBusy(w)'
    BY FirstAlter DEF Going, RowsBegun, OneBusy
  <1>3. Waiting(w)'
    <2> SUFFICES ASSUME NEW i \in Alter, row'[i].status \in Prechecked
                 PROVE  /\ poller[w][i] = Off
                        /\ \/ Unlaunched(proc', i)
                           \/ \E j \in Alter : poller[w][j].pc = "save" /\ poller[w][j].next = i
      BY DEF Waiting
    <2>1. row[i].status \in Prechecked
      BY DEF Prechecked
    <2> QED
      BY <2>1, Kept DEF Going, Waiting
  <1>4. FailedStopped'
    <2> SUFFICES ASSUME NEW i \in Alter, row'[i].status = "failed" PROVE Stopped(proc', i)
      BY DEF FailedStopped
    <2> QED
      BY Kept DEF Going, FailedStopped
  <1>5. Finished'
    BY DEF Going, Finished
  <1>6. ASSUME NEW i \in Alter PROVE ThreadEnds(w, poller[w][i], i)'
    <2> DEFINE t == poller[w][i]
    <2>1. t.pc = "new" /\ row'[i].status \in Active => Only(proc', i, row'[i].pid)
      BY <1>1, Kept DEF ThreadEnds, Active
    <2>2. t.pc = "loop" => Only(proc', i, t.obj.pid)
      BY <1>1, Kept DEF ThreadEnds
    <2>3. t.pc = "final" => t.obj.status \in {"success", "failed"}
                            /\ (t.obj.status = "failed" => Stopped(proc', i))
      BY <1>1, Kept DEF ThreadEnds
    <2>4. Hand(t) => HandOK(w, t)'
      BY <1>1, Kept DEF ThreadEnds, HandOK
    <2>5. t.pc = "write" => Ending(w, t)'
      <3> HAVE t.pc = "write"
      <3>1. \A j \in Alter : row'[j].status \in Terminal
        BY <1>1 DEF ThreadEnds, Ending, Terminal
      <3> QED
        BY <1>1, <3>1 DEF ThreadEnds, Ending
    <2> QED
      BY <2>1, <2>2, <2>3, <2>4, <2>5 DEF ThreadEnds
  <1> QED
    BY <1>2, <1>3, <1>4, <1>5, <1>6 DEF Going

\* Thread i takes a step that saves nothing and launches nothing.
LEMMA Moves ==
    ASSUME GhostInv, NEW w \in Worker, Going(w), NEW i \in Alter, NEW t,
           poller[w][i].pc \notin {"off", "save"}, poller' = [poller EXCEPT ![w][i] = t],
           UNCHANGED <<row, native, applied, req>>, \A k : Keeps(k),
           wf' = wf \/ wf' # "workflow_review_pass", Finished',
           Busy(t) => Busy(poller[w][i]),
           Hand(t) => \E k \in Alter : row[k].status \notin Terminal,
           ThreadEnds(w, t, i)'
    PROVE  Going(w)'
  <1> DEFINE old == poller[w][i]
  <1>1. /\ poller \in [Worker -> [Alter -> Thread]]
        /\ \A k \in Alter : /\ Hand(poller[w][k]) => poller[w][k].next \in Alter
                            /\ ThreadEnds(w, poller[w][k], k)
    BY ThreadFacts DEF Hand, Going, GhostInv, ThreadsOK
  <1>2. poller'[w][i] = t /\ \A k \in Alter \ {i} : poller'[w][k] = poller[w][k]
    BY <1>1
  <1>3. old # Off
    BY DEF Off
  <1>4. Answering(w)' /\ RowsBegun' /\ DOMAIN native' = 1..Natives
    BY DEF Going, Answering, RowsBegun
  <1>5. OneBusy(w)'
    BY <1>2 DEF Going, OneBusy
  <1>6. Waiting(w)'
    <2> SUFFICES ASSUME NEW k \in Alter, row[k].status \in Prechecked
                 PROVE  /\ poller'[w][k] = Off
                        /\ \/ Unlaunched(proc', k)
                           \/ \E j \in Alter : poller'[w][j].pc = "save" /\ poller'[w][j].next = k
      BY DEF Waiting
    <2>1. k # i
      BY <1>3 DEF Going, Waiting
    <2> QED
      BY <1>2, <2>1, Kept DEF Going, Waiting
  <1>7. FailedStopped'
    BY Kept DEF Going, FailedStopped
  <1>8. ASSUME NEW k \in Alter PROVE ThreadEnds(w, poller[w][k], k)' \/ k = i
    <2> SUFFICES ASSUME k # i PROVE ThreadEnds(w, poller[w][k], k)'
      OBVIOUS
    <2> DEFINE s == poller[w][k]
    <2>1. poller'[w][k] = s
      BY <1>2
    <2>2. s.pc = "new" /\ row[k].status \in Active => Only(proc', k, row[k].pid)
      BY <1>1, Kept DEF ThreadEnds
    <2>3. s.pc = "loop" => Only(proc', k, s.obj.pid)
      BY <1>1, Kept DEF ThreadEnds
    <2>4. s.pc = "final" => s.obj.status \in {"success", "failed"}
                            /\ (s.obj.status = "failed" => Stopped(proc', k))
      BY <1>1, Kept DEF ThreadEnds
    <2>5. Hand(s) => HandOK(w, s)'
      <3> SUFFICES ASSUME Hand(s) PROVE HandOK(w, s)'
        OBVIOUS
      <3>1. HandOK(w, s) /\ s.next \in Alter /\ s.next # i
        BY <1>1, <1>3 DEF ThreadEnds, HandOK
      <3>2. poller'[w][s.next] = Off
        BY <1>2, <3>1 DEF HandOK
      <3> QED
        BY <3>1, <3>2, Kept DEF HandOK
    <2>6. s.pc = "write" => Ending(w, s)'
      <3> SUFFICES ASSUME s.pc = "write" PROVE Ending(w, s)'
        OBVIOUS
      <3>1. Ending(w, s)
        BY <1>1 DEF ThreadEnds
      <3>2. ~Hand(t)
        BY <3>1 DEF Ending
      <3> QED
        BY <1>2, <3>1, <3>2 DEF Ending
    <2> QED
      BY <2>1, <2>2, <2>3, <2>4, <2>5, <2>6 DEF ThreadEnds
  <1>9. \A k \in Alter : ThreadEnds(w, poller[w][k], k)'
    BY <1>2, <1>8
  <1> QED
    BY <1>4, <1>5, <1>6, <1>7, <1>9 DEF Going

LEMMA GoingPolls ==
    ASSUME GhostInv, NEW w \in Worker, Going(w), NEW i \in Alter,
           \/ PollLoad(w, i) \/ SyncRead(w, i) \/ SyncWrite(w, i) \/ NextPick(w, i)
           \/ \E status \in {"success", "failed"} : PollVerdict(w, i, status)
    PROVE  Going(w)'
  <1> DEFINE old == poller[w][i]
  <1>1. /\ poller \in [Worker -> [Alter -> Thread]] /\ old \in Thread
        /\ old.obj \in Row /\ old.nobj \in Row /\ ThreadEnds(w, old, i)
        /\ row \in [Alter -> Row] /\ row[i] \in Row /\ RowsOK(row, applied) /\ Finished
        /\ proc \in [Pid -> Process]
        /\ applied \subseteq Alter
    BY GhostFacts, ThreadFacts DEF GhostInv, ThreadsOK, ProcessesOK, Going
  <1>2. ~Busy(Off) /\ ~Hand(Off) /\ Off.pc = "off"
    BY DEF Busy, Hand, Off
  <1>3. ThreadEnds(w, Off, i)'
    BY <1>2 DEF ThreadEnds, Hand
  <1>4. CASE PollLoad(w, i)
    <2>1. old.pc = "new" /\ UNCHANGED <<wf, native, proc, applied, req>>
      BY <1>4 DEF PollLoad, At
    <2>2. CASE row[i].status \in Active
      <3>1. row[i].status = "running"
        <4>1. old # Off
          BY <2>1 DEF Off
        <4> QED
          BY <2>2, <4>1 DEF Going, Waiting, Prechecked, Active
      <3>2. PICK t : t = [old EXCEPT !.pc = "loop", !.obj = row[i]]
        OBVIOUS
      <3>3. t.pc = "loop" /\ t.obj = row[i]
        BY <1>1, <3>2 DEF Thread
      <3>4. [row[i] EXCEPT !.status = "running"] = row[i]
        BY <1>1, <3>1, RowFields
      <3>5. UNCHANGED row /\ poller' = [poller EXCEPT ![w][i] = t]
        BY <1>1, <1>4, <2>2, <3>2, <3>4 DEF PollLoad, Save
      <3>6. Only(proc, i, row[i].pid)
        BY <1>1, <2>1, <2>2 DEF ThreadEnds
      <3>7. ThreadEnds(w, t, i)'
        BY <2>1, <3>3, <3>6 DEF ThreadEnds, Hand
      <3>8. Busy(old) /\ ~Hand(t)
        BY <2>1, <3>3 DEF Busy, Hand
      <3> QED
        BY <1>1, <2>1, <3>5, <3>7, <3>8, Moves, StandsKept DEF Finished
    <2>3. CASE row[i].status \notin Active
      <3>1. UNCHANGED row /\ poller' = [poller EXCEPT ![w][i] = Off]
        BY <1>4, <2>3 DEF PollLoad
      <3> QED
        BY <1>1, <1>2, <1>3, <2>1, <3>1, Moves, StandsKept DEF Finished
    <2> QED
      BY <2>2, <2>3
  <1>5. CASE SyncRead(w, i)
    <2>1. old.pc = "sync" /\ UNCHANGED <<wf, row, native, proc, applied, req>>
      BY <1>5 DEF SyncRead, At
    <2>2. CASE Settled
      <3>1. PICK bad \in BOOLEAN : bad = \E k \in DOMAIN native : native[k] # "success"
        OBVIOUS
      <3>2. PICK t : t = [Off EXCEPT !.pc = "write", !.bad = bad]
        OBVIOUS
      <3>3. t.pc = "write" /\ t.bad = bad
        BY <3>2 DEF Off
      <3>4. poller' = [poller EXCEPT ![w][i] = t]
        BY <1>5, <2>2, <3>1, <3>2 DEF SyncRead
      <3>5. \A j \in Alter : row[j].status \in Terminal /\ ~Hand(poller[w][j])
        <4> SUFFICES ASSUME NEW j \in Alter, Hand(poller[w][j]) PROVE FALSE
          BY <2>2 DEF Settled
        <4>1. HandOK(w, poller[w][j]) /\ poller[w][j].next \in Alter
          BY ThreadFacts DEF Going, ThreadEnds, Hand
        <4> QED
          BY <2>2, <4>1 DEF Settled, HandOK, Terminal
      <3>6. bad \/ native = Good
        <4>1. native \in Seq(NativeResult) /\ DOMAIN native = 1..Natives
          BY GhostFacts DEF Going
        <4>2. ~bad => \A k \in 1..Natives : native[k] = "success"
          BY <3>1, <4>1
        <4> QED
          BY <4>1, <4>2 DEF Good
      <3>7. \A j \in Alter : ~Hand(poller'[w][j])
        BY <1>1, <3>3, <3>4, <3>5 DEF Hand
      <3>8. Ending(w, t)'
        BY <2>1, <3>3, <3>5, <3>6, <3>7 DEF Ending
      <3>9. ThreadEnds(w, t, i)' /\ ~Busy(t) /\ ~Hand(t)
        BY <3>3, <3>8 DEF ThreadEnds, Hand, Busy
      <3> QED
        BY <1>1, <2>1, <3>4, <3>9, Moves, StandsKept DEF Finished
    <2>3. CASE ~Settled
      <3>1. poller' = [poller EXCEPT ![w][i] = Off]
        BY <1>5, <2>3 DEF SyncRead
      <3> QED
        BY <1>1, <1>2, <1>3, <2>1, <3>1, Moves, StandsKept DEF Finished
    <2> QED
      BY <2>2, <2>3
  <1>6. CASE SyncWrite(w, i)
    <2>1. old.pc = "write" /\ UNCHANGED <<row, native, proc, applied, req>>
          /\ poller' = [poller EXCEPT ![w][i] = Off]
      BY <1>6 DEF SyncWrite, At
    <2>2. Ending(w, old)
      BY <1>1, <2>1 DEF ThreadEnds
    <2>3. Finished'
      <3> SUFFICES ASSUME wf' = "workflow_finish" PROVE applied = Alter /\ native = Good
        BY <2>1 DEF Finished
      <3>1. ~old.bad /\ \A j \in Alter : row[j].status \notin Terminal \ {"success"}
        BY <1>6 DEF SyncWrite
      <3>2. \A j \in Alter : row[j].status = "success"
        BY <2>2, <3>1 DEF Ending
      <3>3. Alter \subseteq applied
        BY <1>1, <3>2 DEF RowsOK
      <3> QED
        BY <1>1, <2>2, <3>1, <3>3 DEF Ending
    <2>4. wf' # "workflow_review_pass"
      BY <1>6 DEF SyncWrite
    <2> QED
      BY <1>2, <1>3, <2>1, <2>3, <2>4, Moves, StandsKept
  <1>7. CASE NextPick(w, i)
    <2>1. old.pc = "next" /\ UNCHANGED <<wf, row, native, proc, applied, req>>
      BY <1>7 DEF NextPick, At
    <2>2. Busy(old) /\ ~Hand(old)
      BY <2>1 DEF Busy, Hand
    <2>3. ASSUME NEW j \in Alter, NextInChain(j),
                 poller' = [poller EXCEPT ![w][i] = [@ EXCEPT !.pc = "popen", !.next = j,
                                                            !.nobj = row[j]]]
          PROVE  Going(w)'
      <3>1. PICK t : t = [old EXCEPT !.pc = "popen", !.next = j, !.nobj = row[j]]
        OBVIOUS
      <3>2. t.pc = "popen" /\ t.next = j
        BY <1>1, <3>1 DEF Thread
      <3>3. row[j].status = "queued" /\ j # 1
        BY <2>3 DEF NextInChain, Going, RowsBegun
      <3>4. poller[w][j] = Off
        BY <3>3 DEF Going, Waiting, Prechecked
      <3>5. j # i
        BY <2>1, <3>4 DEF Off
      <3>6. poller' = [poller EXCEPT ![w][i] = t]
        BY <2>3, <3>1
      <3>7. Unlaunched(proc, j)
        <4>1. \A k \in Alter : poller[w][k].pc = "save" => k = i
          BY <2>2 DEF Going, OneBusy, Busy
        <4> QED
          BY <2>1, <3>3, <4>1 DEF Going, Waiting, Prechecked
      <3>8. poller'[w][j] = Off
        BY <1>1, <3>4, <3>5, <3>6
      <3>9. HandOK(w, t)'
        BY <2>1, <3>2, <3>3, <3>7, <3>8 DEF HandOK
      <3>10. ThreadEnds(w, t, i)'
        BY <3>2, <3>9 DEF ThreadEnds
      <3>11. row[j].status \notin Terminal
        BY <3>3 DEF Terminal
      <3> QED
        BY <1>1, <2>1, <2>2, <3>6, <3>10, <3>11, Moves, StandsKept DEF Finished
    <2>4. CASE poller' = [poller EXCEPT ![w][i].pc = "sync"]
      <3>1. PICK t : t = [old EXCEPT !.pc = "sync"]
        OBVIOUS
      <3>2. t.pc = "sync"
        BY <1>1, <3>1 DEF Thread
      <3>3. ThreadEnds(w, t, i)' /\ ~Hand(t) /\ ~Busy(t)
        BY <3>2 DEF ThreadEnds, Hand, Busy
      <3>4. poller' = [poller EXCEPT ![w][i] = t]
        BY <2>4, <3>1
      <3> QED
        BY <1>1, <2>1, <3>3, <3>4, Moves, StandsKept DEF Finished
    <2> QED
      BY <1>7, <2>3, <2>4 DEF NextPick
  <1>8. ASSUME NEW status \in {"success", "failed"}, PollVerdict(w, i, status) PROVE Going(w)'
    <2>1. old.pc = "loop" /\ UNCHANGED <<wf, row, native, applied, req>>
      BY <1>8 DEF PollVerdict, At
    <2>2. PICK obj : obj = [old.obj EXCEPT !.status = status]
      OBVIOUS
    <2>3. PICK t : t = [old EXCEPT !.pc = "final", !.obj = obj]
      OBVIOUS
    <2>4. obj.status = status /\ t.pc = "final" /\ t.obj = obj
      BY <1>1, <2>2, <2>3, RowFields DEF Thread
    <2>5. poller' = [poller EXCEPT ![w][i] = t]
      BY <1>8, <2>2, <2>3 DEF PollVerdict
    <2>6. old.obj.pid \in 0..MaxPid
      BY <1>1 DEF Row
    <2>7. PICK killed : killed = Killed(old.obj.pid)
      OBVIOUS
    <2>8. /\ \A x \in Pid : /\ killed[x] \in Process /\ killed[x].task = proc[x].task
                            /\ killed[x].st \in {proc[x].st, "dead"}
          /\ old.obj.pid \in Pid => killed[old.obj.pid].st \in {"none", "dead"}
          /\ old.obj.pid = 0 => killed = proc
      BY <2>7, KilledKeeps
    <2>9. \A x \in Pid : proc'[x].task = killed[x].task /\ proc'[x].st = killed[x].st
      <3>1. CASE old.obj.pid = 0
        BY <1>8, <2>8, <3>1 DEF PollVerdict
      <3>2. CASE old.obj.pid # 0
        <4>1. proc' = [p \in Pid |-> [killed[p] EXCEPT !.sock = @ /\ Table[proc[p].task] # Table[i]]]
          BY <1>8, <2>7, <3>2 DEF PollVerdict
        <4> SUFFICES ASSUME NEW x \in Pid
                     PROVE  proc'[x].task = killed[x].task /\ proc'[x].st = killed[x].st
          OBVIOUS
        <4>2. PICK sock : sock = (killed[x].sock /\ Table[proc[x].task] # Table[i])
          OBVIOUS
        <4>3. proc'[x] = [killed[x] EXCEPT !.sock = sock]
          BY <4>1, <4>2
        <4> QED
          BY <2>8, <4>3 DEF Process
      <3> QED
        BY <3>1, <3>2
    <2>10. \A k : Keeps(k)
      BY <2>8, <2>9 DEF Keeps
    <2>11. Stopped(proc', i)
      <3> SUFFICES ASSUME NEW p \in Pid, proc'[p].task = i PROVE proc'[p].st \in {"none", "dead"}
        BY DEF Stopped
      <3>1. proc[p].task = i
        BY <2>8, <2>9
      <3>2. p = old.obj.pid
        BY <1>1, <2>1, <3>1 DEF ThreadEnds, Only
      <3> QED
        BY <2>8, <2>9, <3>2
    <2>12. ThreadEnds(w, t, i)' /\ ~Hand(t) /\ Busy(old)
      BY <2>1, <2>4, <2>11 DEF ThreadEnds, Hand, Busy
    <2> QED
      BY <1>1, <2>1, <2>5, <2>10, <2>12, Moves DEF Finished
  <1> QED
    BY <1>4, <1>5, <1>6, <1>7, <1>8

\* The thread that has an end to save: nobody else is busy, and nobody is about
\* to start its task.
LEMMA GoingFinal ==
    ASSUME GhostInv, NEW w \in Worker, Going(w), NEW i \in Alter, FinalSave(w, i)
    PROVE  Going(w)'
  <1> DEFINE old == poller[w][i]
  <1>1. /\ poller \in [Worker -> [Alter -> Thread]] /\ old \in Thread /\ old.pc = "final"
        /\ ThreadEnds(w, old, i) /\ row \in [Alter -> Row]
        /\ \A k \in Alter : /\ Hand(poller[w][k]) => poller[w][k].next \in Alter
                            /\ ThreadEnds(w, poller[w][k], k)
    BY GhostFacts, ThreadFacts DEF GhostInv, ThreadsOK, Going, FinalSave, At, Hand
  <1>2. UNCHANGED <<wf, native, proc, applied, req>>
    BY DEF FinalSave
  <1>3. PICK pc \in {"next", "sync"} : poller' = [poller EXCEPT ![w][i].pc = pc]
    BY DEF FinalSave
  <1>4. PICK t : t = [old EXCEPT !.pc = pc]
    OBVIOUS
  <1>5. t.pc = pc
    BY <1>1, <1>4 DEF Thread
  <1>6. poller' = [poller EXCEPT ![w][i] = t]
    BY <1>3, <1>4
  <1>7. poller'[w][i] = t /\ \A k \in Alter \ {i} : poller'[w][k] = poller[w][k]
    BY <1>1, <1>6
  <1>8. /\ row'[i] = old.obj /\ \A k \in Alter \ {i} : row'[k] = row[k]
        /\ old.obj.status \in {"success", "failed"}
        /\ old.obj.status = "failed" => Stopped(proc, i)
    BY <1>1 DEF FinalSave, Save, ThreadEnds
  <1>9. ~Hand(t) /\ Busy(old) /\ old # Off
    BY <1>1, <1>5 DEF Hand, Busy, Off
  <1>10. Answering(w)' /\ DOMAIN native' = 1..Natives /\ Finished'
    BY <1>2 DEF Going, Answering, Finished
  <1>11. RowsBegun'
    BY <1>8, FirstAlter DEF Going, RowsBegun
  <1>12. OneBusy(w)'
    BY <1>7, <1>9 DEF Going, OneBusy
  <1>13. Waiting(w)'
    <2> SUFFICES ASSUME NEW k \in Alter, row'[k].status \in Prechecked
                 PROVE  /\ poller'[w][k] = Off
                        /\ \/ Unlaunched(proc', k)
                           \/ \E j \in Alter : poller'[w][j].pc = "save" /\ poller'[w][j].next = k
      BY DEF Waiting
    <2>1. k # i /\ row[k].status \in Prechecked
      BY <1>8 DEF Prechecked
    <2>2. \A j \in Alter : poller[w][j].pc = "save" => j = i
      BY <1>9 DEF Going, OneBusy, Busy
    <2> QED
      BY <1>1, <1>2, <1>7, <2>1, <2>2 DEF Going, Waiting
  <1>14. FailedStopped'
    BY <1>2, <1>8 DEF Going, FailedStopped
  <1>15. ASSUME NEW k \in Alter PROVE ThreadEnds(w, poller[w][k], k)'
    <2>1. CASE k = i
      BY <1>5, <1>7, <2>1 DEF ThreadEnds, Hand
    <2>2. CASE k # i
      <3>1. poller'[w][k] = poller[w][k] /\ row'[k] = row[k] /\ ~Busy(poller[w][k])
        BY <1>7, <1>8, <1>9, <2>2 DEF Going, OneBusy
      <3>2. poller[w][k].pc = "write" => Ending(w, poller[w][k])'
        <4> SUFFICES ASSUME poller[w][k].pc = "write" PROVE Ending(w, poller[w][k])'
          OBVIOUS
        <4>1. Ending(w, poller[w][k])
          BY <1>1 DEF ThreadEnds
        <4>2. \A j \in Alter : row'[j].status \in Terminal
          BY <1>8, <4>1 DEF Ending, Terminal
        <4>3. \A j \in Alter : ~Hand(poller'[w][j])
          BY <1>7, <1>9, <4>1 DEF Ending
        <4> QED
          BY <1>2, <3>1, <4>1, <4>2, <4>3 DEF Ending
      <3> QED
        BY <3>1, <3>2 DEF ThreadEnds, Busy, Hand
    <2> QED
      BY <2>1, <2>2
  <1> QED
    BY <1>10, <1>11, <1>12, <1>13, <1>14, <1>15 DEF Going

\* While a thread has a task in hand, it is the only busy one, and no thread is
\* about to write the status of the workflow.
LEMMA HandAlone ==
    ASSUME GhostInv, NEW w \in Worker, Going(w), NEW i \in Alter, Hand(poller[w][i])
    PROVE  /\ HandOK(w, poller[w][i]) /\ poller[w][i].next \in Alter \ {i}
           /\ poller[w][i] \in Thread /\ poller[w][i].nobj \in Row
           /\ \A k \in Alter \ {i} : poller[w][k].pc \in {"off", "sync"}
           /\ poller \in [Worker -> [Alter -> Thread]] /\ row \in [Alter -> Row]
  <1>1. /\ ThreadEnds(w, poller[w][i], i) /\ poller[w][i] \in Thread /\ poller[w][i].next \in Alter
        /\ poller[w][i].nobj \in Row /\ row \in [Alter -> Row]
        /\ poller \in [Worker -> [Alter -> Thread]]
    BY GhostFacts, ThreadFacts DEF Going, Hand, GhostInv, ThreadsOK
  <1>2. HandOK(w, poller[w][i])
    BY <1>1 DEF ThreadEnds
  <1>3. poller[w][i].next # i
    BY <1>2 DEF HandOK, Hand, Off
  <1>4. ASSUME NEW k \in Alter \ {i} PROVE poller[w][k].pc \in {"off", "sync"}
    <2>1. ~Busy(poller[w][k])
      BY DEF Going, OneBusy, Busy, Hand
    <2>2. poller[w][k].pc # "write"
      BY DEF Going, ThreadEnds, Ending
    <2>3. poller[w][k] \in Thread
      BY ThreadFacts
    <2> QED
      BY <2>1, <2>2, <2>3 DEF Busy, Thread
  <1> QED
    BY <1>1, <1>2, <1>3, <1>4

LEMMA GoingLaunch ==
    ASSUME GhostInv, NEW w \in Worker, Going(w), NEW i \in Alter, NextLaunch(w, i)
    PROVE  Going(w)'
  <1> DEFINE old == poller[w][i]
             j == poller[w][i].next
  <1>1. old.pc = "popen" /\ UNCHANGED <<wf, row, native, applied, req>>
    BY DEF NextLaunch, At
  <1>2. Hand(old) /\ Busy(old)
    BY <1>1 DEF Hand, Busy
  <1>3. /\ HandOK(w, old) /\ j \in Alter \ {i} /\ old \in Thread
        /\ \A k \in Alter \ {i} : poller[w][k].pc \in {"off", "sync"}
        /\ poller \in [Worker -> [Alter -> Thread]]
    BY <1>2, HandAlone
  <1>4. PICK p \in Pid : Started(j, p, FALSE)
                         /\ poller' = [poller EXCEPT ![w][i] = [@ EXCEPT !.pc = "save", !.nobj.pid = p]]
    BY DEF NextLaunch
  <1>5. Unlaunched(proc, j) /\ (\A k \in Alter \ {j} : Keeps(k)) /\ Only(proc', j, p)
    BY <1>1, <1>3, <1>4, StartKeeps DEF HandOK
  <1>6. PICK obj : obj = [old.nobj EXCEPT !.pid = p]
    OBVIOUS
  <1>7. PICK t : t = [old EXCEPT !.pc = "save", !.nobj = obj]
    OBVIOUS
  <1>8. t.pc = "save" /\ t.next = j /\ t.nobj = obj /\ obj.pid = p
    BY <1>3, <1>6, <1>7, ThreadFacts, RowFields DEF Thread
  <1>9. poller' = [poller EXCEPT ![w][i] = t]
    BY <1>4, <1>6, <1>7
  <1>10. poller'[w][i] = t /\ \A k \in Alter \ {i} : poller'[w][k] = poller[w][k]
    BY <1>3, <1>9
  <1>11. Answering(w)' /\ DOMAIN native' = 1..Natives /\ Finished' /\ RowsBegun'
    BY <1>1 DEF Going, Answering, Finished, RowsBegun
  <1>12. OneBusy(w)'
    BY <1>2, <1>10 DEF Going, OneBusy
  <1>13. Waiting(w)'
    <2> SUFFICES ASSUME NEW k \in Alter, row[k].status \in Prechecked
                 PROVE  /\ poller'[w][k] = Off
                        /\ \/ Unlaunched(proc', k)
                           \/ \E l \in Alter : poller'[w][l].pc = "save" /\ poller'[w][l].next = k
      BY <1>1 DEF Waiting
    <2>1. poller[w][k] = Off /\ k # i
      <3>1. poller[w][k] = Off
        BY DEF Going, Waiting
      <3> QED
        BY <1>1, <3>1 DEF Off
    <2>2. \A l \in Alter : poller[w][l].pc # "save"
      BY <1>1, <1>3
    <2>3. k # j => Unlaunched(proc', k)
      BY <1>5, <2>2, Kept DEF Going, Waiting
    <2> QED
      BY <1>8, <1>10, <2>1, <2>3
  <1>14. FailedStopped'
    <2> SUFFICES ASSUME NEW k \in Alter, row[k].status = "failed" PROVE Stopped(proc', k)
      BY <1>1 DEF FailedStopped
    <2>1. k # j
      BY <1>3 DEF HandOK
    <2> QED
      BY <1>5, <2>1, Kept DEF Going, FailedStopped
  <1>15. ASSUME NEW k \in Alter PROVE ThreadEnds(w, poller[w][k], k)'
    <2>1. CASE k = i
      <3>1. poller'[w][j] = Off
        BY <1>3, <1>10 DEF HandOK
      <3>2. HandOK(w, t)'
        BY <1>1, <1>3, <1>5, <1>8, <3>1 DEF HandOK
      <3> QED
        BY <1>8, <1>10, <2>1, <3>2 DEF ThreadEnds
    <2>2. CASE k # i
      BY <1>3, <1>10, <2>2 DEF ThreadEnds, Hand
    <2> QED
      BY <2>1, <2>2
  <1> QED
    BY <1>11, <1>12, <1>13, <1>14, <1>15 DEF Going

LEMMA GoingFails ==
    ASSUME GhostInv, NEW w \in Worker, Going(w), NEW i \in Alter, NextFails(w, i)
    PROVE  Going(w)'
  <1> DEFINE old == poller[w][i]
             j == poller[w][i].next
  <1>1. old.pc = "popen" /\ UNCHANGED <<wf, native, applied, req>> /\ StartFails(j, FALSE)
    BY DEF NextFails, At
  <1>2. Hand(old) /\ Busy(old)
    BY <1>1 DEF Hand, Busy
  <1>3. /\ HandOK(w, old) /\ j \in Alter \ {i} /\ old \in Thread /\ old.nobj \in Row
        /\ \A k \in Alter \ {i} : poller[w][k].pc \in {"off", "sync"}
        /\ poller \in [Worker -> [Alter -> Thread]] /\ row \in [Alter -> Row]
    BY <1>2, HandAlone
  <1>4. (\A k \in Alter \ {j} : Keeps(k)) /\ Stopped(proc', j)
    BY <1>1, <1>3, StartKeeps DEF HandOK
  <1>5. PICK t : t = [old EXCEPT !.pc = "sync"]
    OBVIOUS
  <1>6. t.pc = "sync"
    BY <1>3, <1>5 DEF Thread
  <1>7. poller' = [poller EXCEPT ![w][i] = t]
    BY <1>5 DEF NextFails
  <1>8. poller'[w][i] = t /\ \A k \in Alter \ {i} : poller'[w][k] = poller[w][k]
    BY <1>3, <1>7
  <1>9. PICK obj : obj = [old.nobj EXCEPT !.status = "failed"]
    OBVIOUS
  <1>10. obj.status = "failed"
    BY <1>3, <1>9, RowFields
  <1>11. row'[j] = obj /\ \A k \in Alter \ {j} : row'[k] = row[k]
    BY <1>3, <1>9 DEF NextFails, Save
  <1>12. Answering(w)' /\ DOMAIN native' = 1..Natives /\ Finished'
    BY <1>1 DEF Going, Answering, Finished
  <1>13. RowsBegun'
    BY <1>3, <1>10, <1>11, FirstAlter DEF Going, RowsBegun, HandOK
  <1>14. OneBusy(w)'
    BY <1>2, <1>8 DEF Going, OneBusy
  <1>15. Waiting(w)'
    <2> SUFFICES ASSUME NEW k \in Alter, row'[k].status \in Prechecked
                 PROVE  /\ poller'[w][k] = Off
                        /\ \/ Unlaunched(proc', k)
                           \/ \E l \in Alter : poller'[w][l].pc = "save" /\ poller'[w][l].next = k
      BY DEF Waiting
    <2>1. k # j /\ row[k].status \in Prechecked
      BY <1>10, <1>11 DEF Prechecked
    <2>2. poller[w][k] = Off /\ k # i
      <3>1. poller[w][k] = Off
        BY <2>1 DEF Going, Waiting
      <3> QED
        BY <1>1, <3>1 DEF Off
    <2>3. \A l \in Alter : poller[w][l].pc # "save"
      BY <1>1, <1>3
    <2>4. Unlaunched(proc', k)
      BY <1>4, <2>1, <2>3, Kept DEF Going, Waiting
    <2> QED
      BY <1>8, <2>2, <2>4
  <1>16. FailedStopped'
    BY <1>4, <1>11, Kept DEF Going, FailedStopped
  <1>17. ASSUME NEW k \in Alter PROVE ThreadEnds(w, poller[w][k], k)'
    BY <1>3, <1>6, <1>8 DEF ThreadEnds, Hand
  <1> QED
    BY <1>12, <1>13, <1>14, <1>15, <1>16, <1>17 DEF Going

LEMMA GoingSave ==
    ASSUME GhostInv, NEW w \in Worker, Going(w), NEW i \in Alter, NextSave(w, i)
    PROVE  Going(w)'
  <1> DEFINE old == poller[w][i]
             j == poller[w][i].next
  <1>1. old.pc = "save" /\ UNCHANGED <<wf, native, proc, applied, req>>
    BY DEF NextSave, At
  <1>2. Hand(old) /\ Busy(old)
    BY <1>1 DEF Hand, Busy
  <1>3. /\ HandOK(w, old) /\ j \in Alter \ {i} /\ old \in Thread /\ old.nobj \in Row
        /\ \A k \in Alter \ {i} : poller[w][k].pc \in {"off", "sync"}
        /\ poller \in [Worker -> [Alter -> Thread]] /\ row \in [Alter -> Row]
    BY <1>2, HandAlone
  <1>4. Only(proc, j, old.nobj.pid) /\ poller[w][j] = Off
    BY <1>1, <1>3 DEF HandOK
  <1>5. PICK new : new = [Off EXCEPT !.pc = "new"]
    OBVIOUS
  <1>6. PICK t : t = [old EXCEPT !.pc = "sync"]
    OBVIOUS
  <1>7. t.pc = "sync" /\ new.pc = "new"
    BY <1>3, <1>5, <1>6 DEF Thread, Off
  <1>8. PollersWith(w, j) = [poller EXCEPT ![w][j] = new]
    BY <1>4, <1>5 DEF PollersWith, Off
  <1>9. /\ poller'[w][i] = t /\ poller'[w][j] = new
        /\ \A k \in Alter \ {i, j} : poller'[w][k] = poller[w][k]
    <2>1. PICK pl : pl = [poller EXCEPT ![w][j] = new]
      OBVIOUS
    <2>2. pl[w][i] = old /\ pl[w][j] = new /\ \A k \in Alter \ {j} : pl[w][k] = poller[w][k]
      BY <1>3, <2>1
    <2>3. poller' = [pl EXCEPT ![w][i].pc = "sync"]
      BY <1>8, <2>1 DEF NextSave
    <2>4. poller' = [pl EXCEPT ![w][i] = t]
      BY <1>6, <2>2, <2>3
    <2>5. w \in DOMAIN pl /\ DOMAIN pl[w] = Alter
      BY <1>3, <2>1
    <2> QED
      BY <1>3, <2>2, <2>4, <2>5
  <1>10. PICK obj : obj = [old.nobj EXCEPT !.status = "running"]
    OBVIOUS
  <1>11. obj.status = "running" /\ obj.pid = old.nobj.pid
    BY <1>3, <1>10, RowFields
  <1>12. row'[j] = obj /\ \A k \in Alter \ {j} : row'[k] = row[k]
    BY <1>3, <1>10 DEF NextSave, Save
  <1>13. Answering(w)' /\ DOMAIN native' = 1..Natives /\ Finished'
    BY <1>1 DEF Going, Answering, Finished
  <1>14. RowsBegun'
    BY <1>3, <1>11, <1>12, FirstAlter DEF Going, RowsBegun, HandOK
  <1>15. \A k \in Alter \ {j} : ~Busy(poller'[w][k])
    BY <1>3, <1>7, <1>9 DEF Busy
  <1>16. OneBusy(w)'
    BY <1>15 DEF OneBusy
  <1>17. Waiting(w)'
    <2> SUFFICES ASSUME NEW k \in Alter, row'[k].status \in Prechecked
                 PROVE  poller'[w][k] = Off /\ Unlaunched(proc, k)
      BY <1>1 DEF Waiting
    <2>1. k # j /\ row[k].status \in Prechecked
      BY <1>11, <1>12 DEF Prechecked
    <2>2. poller[w][k] = Off /\ k # i
      <3>1. poller[w][k] = Off
        BY <2>1 DEF Going, Waiting
      <3> QED
        BY <1>1, <3>1 DEF Off
    <2>3. \A l \in Alter : poller[w][l].pc = "save" => l = i
      BY <1>3
    <2>4. Unlaunched(proc, k)
      BY <2>1, <2>3 DEF Going, Waiting
    <2> QED
      BY <1>9, <2>1, <2>2, <2>4
  <1>18. FailedStopped'
    BY <1>1, <1>11, <1>12 DEF Going, FailedStopped
  <1>19. ASSUME NEW k \in Alter PROVE ThreadEnds(w, poller[w][k], k)'
    <2>1. CASE k = j
      BY <1>1, <1>4, <1>7, <1>9, <1>11, <1>12, <2>1 DEF ThreadEnds, Hand
    <2>2. CASE k # j
      BY <1>3, <1>7, <1>9, <2>2 DEF ThreadEnds, Hand
    <2> QED
      BY <2>1, <2>2
  <1> QED
    BY <1>13, <1>14, <1>16, <1>17, <1>18, <1>19 DEF Going

\* Without the administrator the requests are about the first task.
LEMMA FirstOnly ==
    ASSUME NoRepair, NEW w \in Worker, NEW view, NEW i \in Alter
    PROVE  CancelKill(w, view, i) \/ RollbackDrop(w, view, i) => i = 1
  BY DEF NoRepair, CancelKill, RollbackDrop, Free, Concerns

LEMMA GoingArrives ==
    ASSUME GhostInv, NoRepair, NEW w \in Worker, Going(w), Arrive(w), EnableOnce, FirstStarted
    PROVE  Going(w)'
  <1>1. /\ row \in [Alter -> Row] /\ req \in [Worker -> Request] /\ applied \subseteq Alter
        /\ DOMAIN native = 1..Natives
    BY GhostFacts DEF GhostInv, RequestsOK, Going
  <1>3. CASE EnableCheck(w)
    <2>1. PICK q : q = [Idle EXCEPT !.pc = "enabling", !.view = "enable", !.task = 1]
      OBVIOUS
    <2>2. q.view = "enable" /\ Idle.view = "none"
      BY <2>1 DEF Idle
    <2>3. req[w] = Idle /\ req' = [req EXCEPT ![w] = q]
      BY <1>3, <2>1 DEF EnableCheck, Free
    <2>4. row[1] = NoRow
      BY <1>1, <2>2, <2>3, FirstAlter DEF EnableOnce
    <2> QED
      BY <2>4, FirstAlter DEF Going, RowsBegun, NoRow
  <1>4. ASSUME NEW view, NEW i \in Alter, RetryCheck(w, view, i), view \in {"retry", "adminRetry"}
        PROVE  Going(w)'
    BY <1>4 DEF RetryCheck, Free, NoRepair, AdminViews
  <1>5. ASSUME NEW view, NEW i \in Alter, CancelKill(w, view, i) PROVE Going(w)'
    <2> DEFINE q == [Idle EXCEPT !.pc = "killed", !.view = view, !.task = 1, !.obj = row[1]]
    <2>1. /\ UNCHANGED <<wf, row, native, applied, poller>>
          /\ req'[w].pc = "killed" /\ req'[w].task = 1
      <3>1. q.pc = "killed" /\ q.task = 1
        BY DEF Idle
      <3>2. UNCHANGED <<wf, row, native, applied, poller>> /\ req' = [req EXCEPT ![w] = q]
        BY <1>5, FirstOnly DEF CancelKill
      <3> QED
        BY <1>1, <3>1, <3>2
    <2>2. \A k : Keeps(k)
      BY <1>5, KilledKeeps DEF CancelKill, Keeps
    <2>3. Answering(w)'
      BY <2>1 DEF Answering
    <2> QED
      BY <1>1, <2>1, <2>2, <2>3, Around
  <1>6. ASSUME NEW view, NEW i \in Alter, RollbackDrop(w, view, i) PROVE Going(w)'
    <2> DEFINE q == [Idle EXCEPT !.pc = "dropped", !.view = view, !.task = 1, !.obj = row[1]]
    <2>1. /\ UNCHANGED <<wf, row, native, applied, poller, proc>>
          /\ req'[w].pc = "dropped" /\ req'[w].task = 1
      <3>1. q.pc = "dropped" /\ q.task = 1
        BY DEF Idle
      <3>2. /\ UNCHANGED <<wf, row, native, applied, poller, proc>>
            /\ req' = [req EXCEPT ![w] = q]
        BY <1>6, FirstOnly DEF RollbackDrop
      <3> QED
        BY <1>1, <3>1, <3>2
    <2>2. Answering(w)'
      BY <2>1 DEF Answering
    <2> QED
      BY <1>1, <2>1, <2>2, StandsKept, Around
  <1>7. CASE Abort(w)
    <2>1. UNCHANGED <<native, proc, applied, req, poller>> /\ wf' = "workflow_abort"
      BY <1>7 DEF Abort
    <2>2. ASSUME NEW i \in Alter
          PROVE  \/ row'[i].status = row[i].status /\ row'[i].pid = row[i].pid
                 \/ row'[i].status = "cancelled"
      <3>1. row'[i] = row[i] \/ row'[i] = [row[i] EXCEPT !.status = "cancelled"]
        BY <1>7 DEF Abort
      <3>2. PICK x : x = [row[i] EXCEPT !.status = "cancelled"]
        OBVIOUS
      <3>3. x.status = "cancelled"
        BY <1>1, <3>2, RowFields
      <3> QED
        BY <3>1, <3>2, <3>3
    <2>3. Answering(w)'
      BY <2>1 DEF Answering, Going
    <2> QED
      BY <1>1, <2>1, <2>2, <2>3, StandsKept, Around
  <1>8. ASSUME NEW i \in Alter, StartCheck(w, i) PROVE Going(w)'
    <2>1. req'[w].view = "start" /\ req'[w].task = i /\ row[i].status = "queued"
      BY <1>1, <1>8 DEF StartCheck, NextInChain
    <2>2. i = 1
      BY <2>1 DEF FirstStarted
    <2> QED
      BY <2>1, <2>2 DEF Going, RowsBegun
  <1> QED
    BY <1>3, <1>4, <1>5, <1>6, <1>7, <1>8 DEF Arrive

LEMMA GoingRequests ==
    ASSUME GhostInv, NEW w \in Worker, Going(w), RequestStep(w)
    PROVE  Going(w)'
  <1>1. /\ row \in [Alter -> Row] /\ req \in [Worker -> Request] /\ applied \subseteq Alter
        /\ DOMAIN native = 1..Natives /\ req[w] \in Request /\ req[w].obj \in Row
        /\ req[w].pc \in {"idle", "native", "killed", "dropped"}
        /\ req[w].pc = "native" => native = Pending /\ DOMAIN req[w].native = 1..Natives
        /\ req[w].pc \in {"killed", "dropped"} => req[w].task = 1
    BY GhostFacts DEF GhostInv, RequestsOK, Going, Answering
  <1>2. req' = [req EXCEPT ![w] = Idle] => Answering(w)'
    BY <1>1 DEF Answering, Idle
  <1>3. ASSUME NEW outcome \in {"success", "error", "exception"}, NativeStep(w, outcome)
        PROVE  Going(w)'
    <2> DEFINE list == req[w].native
    <2>1. PICK new : req' = [req EXCEPT ![w].native = new] /\ DOMAIN new = DOMAIN list
      <3>1. PICK k \in DOMAIN list :
              req' = [req EXCEPT ![w].native =
                       [l \in DOMAIN @ |->
                          CASE l = k -> IF outcome = "success" THEN "success" ELSE "failed"
                            [] l > k /\ @[l] = "pending" /\ outcome = "exception" -> "skipped"
                            [] OTHER -> @[l]]]
        BY <1>3 DEF NativeStep
      <3>2. PICK new : new = [l \in DOMAIN list |->
                          CASE l = k -> IF outcome = "success" THEN "success" ELSE "failed"
                            [] l > k /\ list[l] = "pending" /\ outcome = "exception" -> "skipped"
                            [] OTHER -> list[l]]
        OBVIOUS
      <3>3. DOMAIN new = DOMAIN list
        BY <3>2
      <3>4. req' = [req EXCEPT ![w].native = new]
        BY <3>1, <3>2
      <3> QED
        BY <3>3, <3>4
    <2>2. PICK q : q = [req[w] EXCEPT !.native = new]
      OBVIOUS
    <2>3. q.pc = "native" /\ DOMAIN q.native = 1..Natives
      BY <1>1, <1>3, <2>1, <2>2 DEF NativeStep, Request
    <2>4. UNCHANGED <<wf, row, native, proc, applied, poller>> /\ req' = [req EXCEPT ![w] = q]
      BY <1>3, <2>1, <2>2 DEF NativeStep
    <2>5. Answering(w)'
      BY <1>1, <1>3, <2>3, <2>4 DEF Answering, NativeStep
    <2> QED
      BY <1>1, <2>4, <2>5, StandsKept, Around
  <1>4. CASE NativeSave(w)
    <2>1. /\ UNCHANGED <<wf, row, proc, applied, poller>> /\ native' = req[w].native
          /\ req' = [req EXCEPT ![w] = Idle] /\ req[w].pc = "native"
      BY <1>4 DEF NativeSave, Answer
    <2>2. native = Good => native' = Good
      <3> SUFFICES ASSUME native = Good PROVE native' = Good
        OBVIOUS
      <3>1. 1 \notin 1..Natives
        <4> SUFFICES ASSUME 1 \in 1..Natives PROVE FALSE
          OBVIOUS
        <4>1. Pending[1] = "pending" /\ Good[1] = "success"
          BY DEF Pending, Good
        <4> QED
          BY <1>1, <2>1, <4>1
      <3>2. Natives = 0
        BY <3>1
      <3>3. native' \in Seq(NativeResult) /\ DOMAIN native' = {}
        BY <1>1, <2>1, <3>2, GhostFacts DEF Request
      <3> QED
        BY <3>2, <3>3 DEF Good
    <2> QED
      BY <1>1, <1>2, <2>1, <2>2, StandsKept, Around
  <1>5. CASE CancelSave(w) \/ RollbackSave(w)
    <2>1. PICK status \in {"cancelled", "rolled_back"} :
             row' = [row EXCEPT ![1] = [req[w].obj EXCEPT !.status = status]]
      BY <1>1, <1>5 DEF CancelSave, RollbackSave, Save
    <2>2. UNCHANGED <<wf, native, proc, applied, poller>> /\ req' = [req EXCEPT ![w] = Idle]
      BY <1>5 DEF CancelSave, RollbackSave, Answer
    <2>3. PICK x : x = [req[w].obj EXCEPT !.status = status]
      OBVIOUS
    <2>4. x.status = status
      BY <1>1, <2>3, RowFields
    <2>5. \A i \in Alter : \/ row'[i].status = row[i].status /\ row'[i].pid = row[i].pid
                           \/ row'[i].status \in {"cancelled", "rolled_back"} /\ i = 1
      BY <1>1, <2>1, <2>3, <2>4
    <2> QED
      BY <1>1, <1>2, <2>2, <2>5, StandsKept, Around
  <1> QED
    BY <1>1, <1>3, <1>4, <1>5
      DEF RequestStep, EnableWrite, EnableLink, RetryReset, Launch, LaunchFails, LaunchSave

LEMMA Nothing == \A i : Unlaunched(proc, i) => Stopped(proc, i)
  BY DEF Unlaunched, Stopped

\* Nothing runs yet.
LEMMA Untried ==
    ASSUME NEW w \in Worker, \A i \in Alter : poller[w][i] = Off
    PROVE  \A i \in Alter : ~PollerStep(w, i)
  <1>1. \A i \in Alter : poller[w][i].pc = "off"
    BY DEF Off
  <1> QED
    BY <1>1
      DEF PollerStep, PollLoad, FinalSave, PollVerdict, NextPick, NextLaunch, NextFails, NextSave,
          SyncRead, SyncWrite, At

LEMMA Unborn ==
    ASSUME \A p \in Pid : proc[p] = NoProcess
    PROVE  /\ \A p \in Pid : ~ProcessStep(p)
           /\ \A i \in Alter : Unlaunched(proc, i)
           /\ \A x \in 0..MaxPid : Killed(x) = proc
  <1>1. \A p \in Pid : proc[p].st = "none" /\ proc[p].task = 0
    <2>1. NoProcess.st = "none" /\ NoProcess.task = 0
      BY DEF NoProcess
    <2> QED
      BY <2>1
  <1>2. ASSUME NEW x \in 0..MaxPid PROVE ~is_alive(x)
    <2>1. x # 0 => x \in Pid
      BY DEF Pid
    <2> QED
      BY <1>1, <2>1 DEF is_alive
  <1>3. \A x \in 0..MaxPid : Killed(x) = proc
    BY <1>2 DEF Killed
  <1>4. \A p \in Pid : ~ProcessStep(p)
    BY <1>1 DEF ProcessStep, Bind, Swap, SayDone, Exit, Fatal
  <1>5. \A i \in Alter : Unlaunched(proc, i)
    BY <1>1 DEF Unlaunched, Alter
  <1> QED
    BY <1>3, <1>4, <1>5

LEMMA Enter ==
    ASSUME NEW w \in Worker, \A i \in Alter : poller'[w][i] = Off,
           \A i \in Alter : row'[i].status \in Prechecked => Unlaunched(proc', i),
           RowsBegun', FailedStopped', wf' # "workflow_finish", Answering(w)',
           native' = Pending
    PROVE  Going(w)'
  <1>1. \A i \in Alter : poller'[w][i].pc = "off"
    BY DEF Off
  <1>2. \A i \in Alter : ThreadEnds(w, poller[w][i], i)'
    BY <1>1 DEF ThreadEnds, Hand
  <1>3. DOMAIN native' = 1..Natives
    BY DEF Pending
  <1>4. OneBusy(w)'
    BY <1>1 DEF OneBusy, Busy
  <1>5. Waiting(w)'
    BY DEF Waiting
  <1>6. Finished'
    BY DEF Finished
  <1> QED
    BY <1>2, <1>3, <1>4, <1>5, <1>6 DEF Going

LEMMA NotEnabledStep ==
    ASSUME GhostInv, NoRepair, NEW w \in Worker, NotEnabled(w), Arrive(w) \/ RequestStep(w)
    PROVE  NotEnabled(w)' \/ Enabling(w)'
  <1>1. /\ req[w] = Idle /\ Idle.pc = "idle" /\ native = <<>> /\ req \in [Worker -> Request]
        /\ \A i \in Alter : row[i].status = "none"
    BY DEF NotEnabled, Idle, GhostInv, RequestsOK
  <1>2. CASE EnableCheck(w)
    <2>1. PICK q : q = [Idle EXCEPT !.pc = "enabling", !.view = "enable", !.task = 1]
      OBVIOUS
    <2>2. q.pc = "enabling" /\ q.task = 1
      BY <2>1 DEF Idle
    <2>3. req'[w] = q /\ UNCHANGED <<wf, row, native, proc, poller>>
      BY <1>1, <1>2, <2>1 DEF EnableCheck
    <2>4. \A i \in Alter : ~(i < 1)
      BY DEF Alter
    <2>5. Enabling(w)'
      BY <2>2, <2>3, <2>4 DEF NotEnabled, Enabling, Untouched
    <2> QED
      BY <2>5
  <1>3. CASE Abort(w)
    <2>1. UNCHANGED <<native, proc, req, poller>> /\ wf' # "workflow_finish"
      BY <1>3 DEF Abort
    <2>2. \A i \in Alter : row'[i].status = "none"
      BY <1>1, <1>3 DEF Abort
    <2>3. NotEnabled(w)'
      BY <2>1, <2>2 DEF NotEnabled, Untouched
    <2> QED
      BY <2>3
  <1>4. ASSUME NEW i \in Alter, NEW view,
               \/ StartCheck(w, i) \/ RetryCheck(w, view, i)
               \/ CancelKill(w, view, i) \/ RollbackDrop(w, view, i)
        PROVE  FALSE
    BY <1>1, <1>4 DEF RetryCheck, CancelKill, RollbackDrop, StartCheck, NextInChain
  <1>5. CASE RequestStep(w)
    BY <1>1, <1>5
      DEF RequestStep, EnableWrite, EnableLink, RetryReset, Launch, LaunchFails, LaunchSave,
          NativeStep, NativeSave, CancelSave, RollbackSave
  <1> QED
    BY <1>2, <1>3, <1>4, <1>5 DEF Arrive

LEMMA EnablingStep ==
    ASSUME GhostInv, NEW w \in Worker, Enabling(w), Arrive(w) \/ RequestStep(w)
    PROVE  Enabling(w)' \/ Ready(w)' \/ Going(w)'
  <1>1. /\ req \in [Worker -> Request] /\ req[w] \in Request /\ RequestOK(req[w])
        /\ req[w].pc \in {"enabling", "linking"} /\ req[w].task \in Alter
        /\ row \in [Alter -> Row] /\ native = <<>>
        /\ \A i \in Alter : row[i] \in Row
    BY GhostFacts DEF Enabling, RequestOK, GhostInv, RequestsOK
  <1>2. ~Arrive(w)
    BY <1>1, ArriveIdle
  <1>3. ASSUME NEW passed \in BOOLEAN, EnableWrite(w, passed) PROVE Enabling(w)'
    <2> DEFINE k == req[w].task
    <2>1. req[w].pc = "enabling" /\ UNCHANGED <<wf, native, proc, poller>>
      BY <1>3 DEF EnableWrite
    <2>2. PICK status \in Prechecked : status = IF passed THEN "queued" ELSE "precheck_failed"
      BY DEF Prechecked
    <2>3. PICK x : x = [row[k] EXCEPT !.status = status, !.pre = passed]
      OBVIOUS
    <2>4. x.status = status
      BY <1>1, <2>3, RowFields
    <2>5. row' = [row EXCEPT ![k] = x]
      BY <1>1, <1>3, <2>2, <2>3 DEF EnableWrite
    <2>6. \A i \in Alter : i < k \/ i = k => row'[i].status \in Prechecked
      BY <1>1, <2>1, <2>2, <2>4, <2>5 DEF Enabling
    <2>7. \/ k = Alters /\ req'[w].pc = "linking"
          \/ req'[w].pc = "enabling" /\ req'[w].task = k + 1
      <3>1. PICK q : q = [req[w] EXCEPT !.pc = "linking"]
        OBVIOUS
      <3>2. PICK r : r = [req[w] EXCEPT !.task = k + 1]
        OBVIOUS
      <3>3. q.pc = "linking" /\ r.pc = "enabling" /\ r.task = k + 1
        BY <1>1, <2>1, <3>1, <3>2 DEF Request
      <3>4. \/ k = Alters /\ req' = [req EXCEPT ![w] = q]
            \/ req' = [req EXCEPT ![w] = r]
        BY <1>3, <3>1, <3>2 DEF EnableWrite
      <3> QED
        BY <1>1, <3>3, <3>4
    <2>8. \A i \in Alter : req'[w].pc = "linking" \/ i < req'[w].task => row'[i].status \in Prechecked
      BY <1>1, <2>6, <2>7 DEF Alter
    <2> QED
      BY <2>1, <2>7, <2>8 DEF Enabling, Untouched
  <1>4. ASSUME EnableLink(w) PROVE Ready(w)' \/ Going(w)'
    <2>1. /\ UNCHANGED <<wf, proc, poller>> /\ req'[w].pc = "idle"
          /\ \A i \in Alter : row[i].status \in Prechecked
      BY <1>1, <1>4 DEF EnableLink, Answer, Idle, Enabling
    <2>2. native' = Pending
      BY <1>1, <1>4 DEF EnableLink, Pending
    <2>3. ASSUME NEW i \in Alter PROVE row'[i].status = row[i].status
      <3>1. row[i] \in Row /\ (row[i].dep \/ i > 1) \in BOOLEAN
        BY <1>1 DEF Row
      <3>2. row'[i] = [row[i] EXCEPT !.dep = row[i].dep \/ i > 1]
        BY <1>4 DEF EnableLink
      <3> QED
        BY <3>1, <3>2, RowLinked
    <2>4. Untouched(w)'
      BY <2>1 DEF Untouched, Enabling
    <2>5. CASE row[1].status = "queued"
      <3>1. Ready(w)'
        BY <2>1, <2>2, <2>3, <2>4, <2>5, FirstAlter DEF Ready
      <3> QED
        BY <3>1
    <2>6. CASE row[1].status # "queued"
      <3>1. \A i \in Alter : Unlaunched(proc', i)
        BY <2>1, Unborn DEF Enabling, Untouched
      <3>2. RowsBegun' /\ FailedStopped' /\ Answering(w)'
        BY <2>1, <2>3, <2>6, FirstAlter DEF RowsBegun, FailedStopped, Answering, Prechecked
      <3>3. Going(w)'
        BY <2>2, <2>4, <3>1, <3>2, Enter DEF Untouched
      <3> QED
        BY <3>3
    <2> QED
      BY <2>5, <2>6
  <1> QED
    BY <1>1, <1>2, <1>3, <1>4
      DEF RequestStep, RetryReset, Launch, LaunchFails, LaunchSave, NativeStep, NativeSave,
          CancelSave, RollbackSave

LEMMA ReadyStep ==
    ASSUME GhostInv, NoRepair, NEW w \in Worker, Ready(w), Arrive(w) \/ RequestStep(w),
           EnableOnce, FirstStarted
    PROVE  Ready(w)' \/ Launched(w)' \/ Going(w)'
  <1>1. /\ req \in [Worker -> Request] /\ req[w] \in Request /\ req[w].obj \in Row
        /\ req[w].pc \in {"idle", "popen", "killed"} /\ (req[w].pc # "idle" => req[w].task = 1)
        /\ row \in [Alter -> Row] /\ native = Pending
        /\ \A i \in Alter : row[i] \in Row /\ row[i].status \in Prechecked
        /\ row[1].status = "queued" /\ Untouched(w)
        /\ proc \in [Pid -> Process]
    BY GhostFacts DEF Ready, GhostInv, RequestsOK, ProcessesOK
  <1>2. /\ \A p \in Pid : proc[p] = NoProcess
        /\ \A i \in Alter : Unlaunched(proc, i) /\ poller[w][i] = Off
        /\ \A x \in 0..MaxPid : Killed(x) = proc
        /\ wf # "workflow_finish"
    BY <1>1, Unborn DEF Untouched
  <1>3. CASE EnableCheck(w)
    <2>1. PICK q : q = [Idle EXCEPT !.pc = "enabling", !.view = "enable", !.task = 1]
      OBVIOUS
    <2>2. q.view = "enable" /\ Idle.view = "none"
      BY <2>1 DEF Idle
    <2>3. req[w] = Idle /\ req' = [req EXCEPT ![w] = q]
      BY <1>3, <2>1 DEF EnableCheck, Free
    <2>4. row[1] = NoRow
      BY <1>1, <2>2, <2>3, FirstAlter DEF EnableOnce
    <2> QED
      BY <1>1, <2>4 DEF NoRow
  <1>4. ASSUME NEW view, NEW i \in Alter, CancelKill(w, view, i) PROVE Ready(w)'
    <2> DEFINE q == [Idle EXCEPT !.pc = "killed", !.view = view, !.task = 1, !.obj = row[1]]
    <2>1. q.pc = "killed" /\ q.task = 1
      BY DEF Idle
    <2>2. row[1].pid \in 0..MaxPid
      BY <1>1, FirstAlter DEF Row
    <2>3. UNCHANGED <<wf, row, native, proc, poller>> /\ req' = [req EXCEPT ![w] = q]
      BY <1>2, <1>4, <2>2, FirstOnly DEF CancelKill
    <2>4. req'[w].pc = "killed" /\ req'[w].task = 1
      BY <1>1, <2>1, <2>3
    <2>5. Ready(w)'
      BY <1>1, <2>3, <2>4 DEF Ready, Untouched
    <2> QED
      BY <2>5
  <1>5. CASE Abort(w)
    <2>1. UNCHANGED <<native, proc, req, poller>> /\ wf' = "workflow_abort" /\ req[w] = Idle
      BY <1>5 DEF Abort, Free
    <2>2. ASSUME NEW i \in Alter PROVE row'[i].status = "cancelled"
      <3>1. row'[i] = [row[i] EXCEPT !.status = "cancelled"]
        BY <1>1, <1>5 DEF Abort, Prechecked, Terminal
      <3>2. PICK x : x = [row[i] EXCEPT !.status = "cancelled"]
        OBVIOUS
      <3>3. x.status = "cancelled"
        BY <1>1, <3>2, RowFields
      <3> QED
        BY <3>1, <3>2, <3>3
    <2>3. RowsBegun' /\ FailedStopped' /\ Answering(w)'
      BY <2>1, <2>2, FirstAlter DEF RowsBegun, FailedStopped, Answering, Idle
    <2>4. Going(w)'
      BY <1>1, <1>2, <2>1, <2>2, <2>3, Enter
    <2> QED
      BY <2>4
  <1>6. ASSUME NEW view, NEW i \in Alter, RetryCheck(w, view, i) \/ RollbackDrop(w, view, i)
        PROVE  FALSE
    BY <1>1, <1>6 DEF RetryCheck, RollbackDrop, Prechecked
  <1>7. ASSUME NEW i \in Alter, StartCheck(w, i) PROVE Ready(w)'
    <2>1. PICK q : q = [pc |-> "popen", view |-> "start", task |-> i, obj |-> row[i], native |-> native]
      OBVIOUS
    <2>2. req'[w] = q /\ UNCHANGED <<wf, row, native, proc, poller>>
      BY <1>1, <1>7, <2>1 DEF StartCheck
    <2>3. i = 1
      BY <2>1, <2>2 DEF FirstStarted
    <2> QED
      BY <1>1, <2>1, <2>2, <2>3 DEF Ready, Untouched
  <1>8. CASE CancelSave(w)
    <2>1. row' = [row EXCEPT ![1] = [req[w].obj EXCEPT !.status = "cancelled"]]
          /\ UNCHANGED <<wf, native, proc, poller>> /\ req' = [req EXCEPT ![w] = Idle]
      BY <1>1, <1>8 DEF CancelSave, Save, Answer
    <2>2. PICK x : x = [req[w].obj EXCEPT !.status = "cancelled"]
      OBVIOUS
    <2>3. x.status = "cancelled"
      BY <1>1, <2>2, RowFields
    <2>4. row'[1] = x /\ \A i \in Alter \ {1} : row'[i] = row[i]
      BY <1>1, <2>1, <2>2, FirstAlter
    <2>5. \A i \in Alter : row'[i].status \in Prechecked \cup {"cancelled"}
      BY <1>1, <2>3, <2>4
    <2>6. req'[w] = Idle
      BY <1>1, <2>1
    <2>7. RowsBegun' /\ FailedStopped' /\ Answering(w)'
      BY <2>3, <2>4, <2>5, <2>6 DEF RowsBegun, FailedStopped, Answering, Idle, Prechecked
    <2>8. Going(w)'
      BY <1>1, <1>2, <2>1, <2>7, Enter
    <2> QED
      BY <2>8
  <1>9. CASE LaunchFails(w)
    <2>1. req[w].pc = "popen" /\ req[w].task = 1 /\ StartFails(1, Forced(w))
      BY <1>9 DEF LaunchFails, Ready
    <2>2. row' = [row EXCEPT ![1] = [req[w].obj EXCEPT !.status = "failed"]]
          /\ UNCHANGED <<wf, native, poller>> /\ req' = [req EXCEPT ![w] = Idle]
      BY <1>9, <2>1 DEF LaunchFails, Save, Answer
    <2>3. PICK x : x = [req[w].obj EXCEPT !.status = "failed"]
      OBVIOUS
    <2>4. x.status = "failed"
      BY <1>1, <2>3, RowFields
    <2>5. row'[1] = x /\ \A i \in Alter \ {1} : row'[i] = row[i]
      BY <1>1, <2>2, <2>3, FirstAlter
    <2>6. \A i \in Alter : \/ row'[i].status \in Prechecked /\ i # 1
                           \/ row'[i].status = "failed" /\ i = 1
      BY <1>1, <2>4, <2>5
    <2>7. Stopped(proc', 1) /\ \A i \in Alter \ {1} : Keeps(i)
      BY <1>2, <2>1, StartKeeps, FirstAlter
    <2>8. \A i \in Alter \ {1} : Unlaunched(proc', i)
      BY <1>2, <2>7, Kept
    <2>9. req'[w] = Idle
      BY <1>1, <2>2
    <2>10. Answering(w)'
      BY <2>9 DEF Answering, Idle
    <2>11. RowsBegun' /\ FailedStopped'
      BY <2>4, <2>5, <2>6, <2>7 DEF RowsBegun, FailedStopped, Prechecked
    <2>12. \A i \in Alter : row'[i].status \in Prechecked => Unlaunched(proc', i)
      BY <2>6, <2>8 DEF Prechecked
    <2>13. Going(w)'
      BY <1>1, <1>2, <2>2, <2>10, <2>11, <2>12, Enter
    <2> QED
      BY <2>13
  <1>10. CASE Launch(w)
    <2>1. PICK p \in Pid : Started(req[w].task, p, Forced(w))
                           /\ req' = [req EXCEPT ![w].pc = "save", ![w].obj.pid = p]
      BY <1>10 DEF Launch
    <2>2. req[w].pc = "popen" /\ req[w].task = 1 /\ req[w].native = Pending
          /\ UNCHANGED <<wf, row, native, poller>>
      BY <1>10 DEF Launch, Ready
    <2>3. Only(proc', 1, p) /\ \A i \in Alter \ {1} : Keeps(i)
      BY <1>2, <2>1, <2>2, StartKeeps, FirstAlter
    <2>4. \A i \in Alter \ {1} : Unlaunched(proc', i)
      BY <1>2, <2>3, Kept
    <2>5. PICK obj : obj = [req[w].obj EXCEPT !.pid = p]
      OBVIOUS
    <2>6. obj.pid = p
      BY <1>1, <2>5, RowFields
    <2>7. PICK q : q = [req[w] EXCEPT !.pc = "save", !.obj = obj]
      OBVIOUS
    <2>8. q.pc = "save" /\ q.obj = obj /\ q.task = 1 /\ q.native = Pending
      BY <1>1, <2>2, <2>7 DEF Request
    <2>9. req' = [req EXCEPT ![w] = q]
      BY <2>1, <2>5, <2>7
    <2>10. req'[w] = q
      BY <1>1, <2>9
    <2>11. Launched(w)'
      BY <1>1, <1>2, <2>2, <2>3, <2>4, <2>6, <2>8, <2>10 DEF Launched
    <2> QED
      BY <2>11
  <1> QED
    BY <1>1, <1>3, <1>4, <1>5, <1>6, <1>7, <1>8, <1>9, <1>10
      DEF Arrive, RequestStep, EnableWrite, EnableLink, RetryReset, LaunchSave, NativeStep,
          NativeSave, RollbackSave

LEMMA LaunchedStep ==
    ASSUME GhostInv, NEW w \in Worker, Launched(w), Arrive(w) \/ RequestStep(w)
    PROVE  Going(w)'
  <1>1. /\ req \in [Worker -> Request] /\ req[w] \in Request /\ req[w].obj \in Row
        /\ req[w].pc = "save" /\ req[w].task = 1 /\ req[w].native = Pending /\ native = Pending
        /\ row \in [Alter -> Row] /\ poller \in [Worker -> [Alter -> Thread]]
        /\ \A i \in Alter : row[i].status \in Prechecked /\ poller[w][i] = Off
        /\ Only(proc, 1, req[w].obj.pid) /\ wf # "workflow_finish"
        /\ \A i \in Alter \ {1} : Unlaunched(proc, i)
    BY GhostFacts DEF Launched, GhostInv, RequestsOK, ThreadsOK
  <1>2. ~Arrive(w)
    BY <1>1, ArriveIdle
  <1>3. LaunchSave(w)
    BY <1>1, <1>2
      DEF RequestStep, EnableWrite, EnableLink, RetryReset, Launch, LaunchFails, NativeStep,
          NativeSave, CancelSave, RollbackSave
  <1>4. PICK x : x = [req[w].obj EXCEPT !.status = "running"]
    OBVIOUS
  <1>5. x.status = "running" /\ x.pid = req[w].obj.pid
    BY <1>1, <1>4, RowFields
  <1>6. row'[1] = x /\ \A i \in Alter \ {1} : row'[i] = row[i]
    BY <1>1, <1>3, <1>4, FirstAlter DEF LaunchSave, Save
  <1>7. PICK t : t = [Off EXCEPT !.pc = "new"]
    OBVIOUS
  <1>8. t.pc = "new" /\ Off.pc = "off"
    BY <1>7 DEF Off
  <1>9. poller'[w][1] = t /\ \A i \in Alter \ {1} : poller'[w][i] = Off
    BY <1>1, <1>3, <1>7, <1>8, FirstAlter DEF LaunchSave, PollersWith
  <1>10. UNCHANGED <<wf, native, proc, applied>>
    BY <1>3 DEF LaunchSave
  <1>11. Answering(w)' /\ DOMAIN native' = 1..Natives
    <2>1. PICK q : q = [req[w] EXCEPT !.pc = "native"]
      OBVIOUS
    <2>2. q.pc = "native" /\ q.native = Pending
      BY <1>1, <2>1 DEF Request
    <2>3. req' = [req EXCEPT ![w] = q] \/ req' = [req EXCEPT ![w] = Idle]
      BY <1>3, <2>1 DEF LaunchSave, Answer
    <2>4. req'[w] = q \/ req'[w] = Idle
      BY <1>1, <2>3
    <2>5. DOMAIN Pending = 1..Natives
      BY DEF Pending
    <2> QED
      BY <1>1, <1>10, <2>2, <2>4, <2>5 DEF Answering, Idle
  <1>12. RowsBegun' /\ FailedStopped' /\ Finished'
    BY <1>1, <1>5, <1>6, <1>10 DEF RowsBegun, FailedStopped, Finished, Prechecked
  <1>13. OneBusy(w)'
    <2>1. \A i \in Alter : Busy(poller'[w][i]) => i = 1
      BY <1>8, <1>9 DEF Busy
    <2> QED
      BY <2>1 DEF OneBusy
  <1>14. Waiting(w)'
    BY <1>1, <1>5, <1>6, <1>9, <1>10 DEF Waiting, Prechecked
  <1>15. ASSUME NEW i \in Alter PROVE ThreadEnds(w, poller[w][i], i)'
    BY <1>1, <1>5, <1>6, <1>8, <1>9, <1>10 DEF ThreadEnds, Hand
  <1> QED
    BY <1>11, <1>12, <1>13, <1>14, <1>15 DEF Going

LEMMA EndsStep ==
    ASSUME GhostInv, OneWorker, NoRepair, EndsInv, Next, EnableOnce, FirstStarted,
           NEW w \in Worker
    PROVE  NotEnabled(w)' \/ Enabling(w)' \/ Ready(w)' \/ Launched(w)' \/ Going(w)'
  <1>1. NotEnabled(w) \/ Enabling(w) \/ Ready(w) \/ Launched(w) \/ Going(w)
    BY DEF EndsInv
  <1>2. \/ \E p \in Pid : ProcessStep(p)
        \/ Arrive(w) \/ RequestStep(w)
        \/ \E i \in Alter : PollerStep(w, i)
    BY DEF Next, OneWorker, NoRepair, Restart, PollCrash
  <1>3. ASSUME NEW p \in Pid, ProcessStep(p) PROVE Launched(w)' \/ Going(w)'
    <2>1. /\ \A i : Keeps(i)
          /\ UNCHANGED <<wf, row, native, req, poller>> /\ applied \subseteq applied'
          /\ proc[p].st # "none"
      BY <1>3, ProcessStepKeeps
    <2>2. applied' \subseteq Alter
      BY <1>3, ProcessStepOK DEF GhostInv
    <2>3. ~(NotEnabled(w) \/ Enabling(w) \/ Ready(w))
      <3>1. NoProcess.st = "none"
        BY DEF NoProcess
      <3>2. proc[p] # NoProcess
        BY <2>1, <3>1
      <3> QED
        BY <3>2 DEF NotEnabled, Enabling, Ready, Untouched
    <2>4. CASE Launched(w)
      <3>1. Launched(w)'
        BY <2>1, <2>4, Kept DEF Launched
      <3> QED
        BY <3>1
    <2>5. CASE Going(w)
      <3>1. Answering(w)' /\ DOMAIN native' = 1..Natives
        BY <2>1, <2>5 DEF Going, Answering
      <3>2. Going(w)'
        BY <2>1, <2>2, <2>5, <3>1, Around
      <3> QED
        BY <3>2
    <2> QED
      BY <1>1, <2>3, <2>4, <2>5
  <1>4. ASSUME NEW i \in Alter, PollerStep(w, i) PROVE Going(w)'
    <2>1. Going(w)
      BY <1>1, <1>4, Untried DEF NotEnabled, Enabling, Ready, Launched, Untouched
    <2> QED
      BY <1>4, <2>1, GoingPolls, GoingFinal, GoingLaunch, GoingFails, GoingSave DEF PollerStep
  <1>5. CASE Arrive(w) \/ RequestStep(w)
    <2>1. CASE NotEnabled(w)
      BY <1>5, <2>1, NotEnabledStep
    <2>2. CASE Enabling(w)
      BY <1>5, <2>2, EnablingStep
    <2>3. CASE Ready(w)
      BY <1>5, <2>3, ReadyStep
    <2>4. CASE Launched(w)
      BY <1>5, <2>4, LaunchedStep
    <2>5. CASE Going(w)
      BY <1>5, <2>5, GoingArrives, GoingRequests
    <2> QED
      BY <1>1, <2>1, <2>2, <2>3, <2>4, <2>5
  <1> QED
    BY <1>2, <1>3, <1>4, <1>5

\* With one worker and one start, and whatever is cancelled, rolled back or
\* aborted meanwhile, the workflow is finished only when every ALTER, by gh-ost
\* and direct, was done.
OneStart == OneWorker /\ NoRepair /\ OnceSpec

LEMMA EndsInvariant == OneStart => [](OneWorker /\ GhostInv /\ EndsInv)
  <1> DEFINE I == OneWorker /\ NoRepair /\ GhostInv /\ EndsInv
  <1>1. OneWorker /\ NoRepair /\ Init => I
    <2> SUFFICES ASSUME Init, NEW w \in Worker PROVE NotEnabled(w)
      BY GhostInitOK DEF EndsInv
    <2>1. \A i \in Alter : row[i].status = "none"
      BY DEF Init, NoRow
    <2> QED
      BY <2>1 DEF Init, NotEnabled, Untouched
  <1>2. I /\ [Next /\ EnableOnce /\ FirstStarted]_vars => I'
    <2> SUFFICES ASSUME I, [Next /\ EnableOnce /\ FirstStarted]_vars PROVE I'
      OBVIOUS
    <2>1. OneWorker' /\ NoRepair'
      BY DEF OneWorker, NoRepair
    <2>2. GhostInv'
      BY GhostStep
    <2>3. CASE Next /\ EnableOnce /\ FirstStarted
      <3>1. EndsInv'
        BY <2>3, EndsStep DEF EndsInv
      <3> QED
        BY <2>1, <2>2, <3>1
    <2>4. CASE UNCHANGED vars
      <3>1. EndsInv'
        BY <2>4
          DEF vars, EndsInv, NotEnabled, Enabling, Ready, Launched, Going, Untouched, Answering,
              RowsBegun, OneBusy, Waiting, FailedStopped, Finished, ThreadEnds, HandOK, Ending
      <3> QED
        BY <2>1, <2>2, <3>1
    <2> QED
      BY <2>3, <2>4
  <1>3. I => OneWorker /\ GhostInv /\ EndsInv
    OBVIOUS
  <1> QED
    BY <1>1, <1>2, <1>3, PTL DEF OneStart, OnceSpec

\* A workflow that is finished has every ALTER applied and every small table
\* done, whatever is cancelled, rolled back or aborted while the threads run.
THEOREM GhostNoFalseFinish == OneStart => []NoFalseFinish
  <1>1. OneWorker /\ GhostInv /\ EndsInv => NoFalseFinish
    <2> SUFFICES ASSUME OneWorker, EndsInv, wf = "workflow_finish"
                 PROVE  applied = Alter /\ native = Good
      BY DEF NoFalseFinish, Good
    <2>1. PICK w \in Worker : NotEnabled(w) \/ Enabling(w) \/ Ready(w) \/ Launched(w) \/ Going(w)
      BY DEF OneWorker, EndsInv
    <2>2. Going(w)
      BY <2>1 DEF NotEnabled, Enabling, Ready, Launched, Untouched
    <2> QED
      BY <2>2 DEF Going, Finished
  <1> QED
    BY <1>1, EndsInvariant, PTL

\* A failed task leaves no gh-ost process running, in the same behaviours.
THEOREM GhostFailedIsStopped == OneStart => []FailedIsStopped
  <1>1. OneWorker /\ GhostInv /\ EndsInv => FailedIsStopped
    <2> SUFFICES ASSUME OneWorker, EndsInv, NEW i \in Alter, NEW p \in Pid,
                        row[i].status = "failed", proc[p].task = i
                 PROVE  ~is_alive(p)
      BY DEF FailedIsStopped
    <2>1. PICK w \in Worker : NotEnabled(w) \/ Enabling(w) \/ Ready(w) \/ Launched(w) \/ Going(w)
      BY DEF OneWorker, EndsInv
    <2>2. CASE Going(w)
      BY <2>2 DEF Going, FailedStopped, Stopped, is_alive
    <2>3. CASE NotEnabled(w) \/ Enabling(w)
      <3>1. proc[p] = NoProcess
        BY <2>3 DEF NotEnabled, Enabling, Untouched
      <3>2. NoProcess.st = "none"
        BY DEF NoProcess
      <3> QED
        BY <3>1, <3>2 DEF is_alive
    <2>4. CASE Ready(w) \/ Launched(w)
      BY <2>4 DEF Ready, Launched, Prechecked
    <2> QED
      BY <2>1, <2>2, <2>3, <2>4
  <1> QED
    BY <1>1, EndsInvariant, PTL
=============================================================================
