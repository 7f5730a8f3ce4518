----------------------------- MODULE GhostTask -----------------------------
(***************************************************************************)
(* An approved SQL workflow whose ALTER statements are run by gh-ost       *)
(* (sql/extensions/ddl_gh_ost): the rows of ext_ddl_ghost_task, one per    *)
(* big table, chained by depends_on; the small tables altered directly     *)
(* (native_alter_results); the views enable, start, retry, cancel and      *)
(* rollback, and the administrator's actions of the same names, which work *)
(* on any task; the thread that polls a gh-ost process; and the cancel     *)
(* view of the workflow, which marks what is left of its tasks.            *)
(*                                                                         *)
(* The web server runs several worker processes.  A worker handles one     *)
(* request at a time and has poller threads of its own, at most one per    *)
(* task: the dictionary _active_pollers is not shared between workers.     *)
(* Views and pollers load a row, work with the object for a while, and     *)
(* save the whole row: each such object is a variable here, and loading    *)
(* and saving are separate actions wherever the code does something slow   *)
(* between them.                                                           *)
(*                                                                         *)
(* gh-ost is external: a process binds the socket of its table (or dies    *)
(* because another one holds it), copies, swaps the tables, writes Done.   *)
(* Every start truncates the log of the task.                              *)
(***************************************************************************)
EXTENDS Naturals, Sequences, FiniteSetsExt

CONSTANTS
    Alters,      \* how many ALTERs of the workflow go through gh-ost
    Table,       \* Table[i]: the table that ALTER i is about
    Natives,     \* how many ALTERs of small tables run directly
    Worker,      \* worker processes of the web server
    MaxPid,      \* how many gh-ost processes are started, at most
    Views,       \* the requests that users send
    Faults       \* the faults that occur

Alter == 1..Alters
Pid == 1..MaxPid

\* The actions of the Django admin.  One that is given several tasks loads them
\* all and works through them: so do several workers with a task each.
AdminViews == {"adminRetry", "adminCancel", "adminRollback"}

ASSUME GhostAssumption ==
    /\ Alters \in Nat \ {0}
    /\ DOMAIN Table = Alter
    /\ Natives \in Nat
    /\ MaxPid \in Nat
    /\ Views \subseteq {"enable", "start", "retry", "cancel", "rollback", "abort"}
                      \cup AdminViews
    /\ Faults \subseteq {"restart", "pollerError"}

VARIABLES
    wf,          \* SqlWorkflow.status
    row,         \* row[i]: the row of ext_ddl_ghost_task for ALTER i
    native,      \* SqlWorkflow.native_alter_results
    proc,        \* proc[p]: gh-ost process p; numbers are given in order
    applied,     \* the ALTERs whose tables gh-ost has swapped
    req,         \* req[w]: the request worker w is handling
    poller       \* poller[w][i]: the thread of worker w that polls task i

vars == <<wf, row, native, proc, applied, req, poller>>

Active == {"queued", "running"}     \* nothing ever writes cut_over
Terminal == {"success", "failed", "cancelled", "rolled_back"}

\* pid 0: no process; "none": no row.
Row == [status : {"none", "precheck_failed"} \cup Active \cup Terminal,
        pid    : 0..MaxPid,
        pre    : BOOLEAN,         \* precheck_passed
        dep    : BOOLEAN]         \* depends_on the task before it

NoRow == [status |-> "none", pid |-> 0, pre |-> FALSE, dep |-> FALSE]

NativeResult == {"pending", "success", "failed", "skipped"}

\* What a start, by a view or by a poller, has in hand.
Idle == [pc |-> "idle", view |-> "none", task |-> 0, obj |-> NoRow, native |-> <<>>]

Request == [pc     : {"idle", "enabling", "linking", "reset", "popen", "save", "native",
                      "killed", "dropped"},
            view   : {"none"} \cup Views,
            task   : 0..Alters,
            obj    : Row,
            native : Seq(NativeResult)]

Off == [pc |-> "off", obj |-> NoRow, next |-> 0, nobj |-> NoRow, bad |-> FALSE]

Thread == [pc   : {"off", "new", "loop", "final", "next", "popen", "save", "sync",
                   "write"},
           obj  : Row,             \* its copy of the row it polls
           next : 0..Alters,       \* the task it starts after that one
           nobj : Row,
           bad  : BOOLEAN]         \* one of the small tables failed

Process == [task : 0..Alters,
            st   : {"none", "starting", "copying", "swapped", "done", "dead"},
            sock : BOOLEAN,        \* the file of its socket is there
            said : {"", "done", "fatal"},    \* how its log ends
            forced : BOOLEAN]      \* history: admin_retry started it

NoProcess == [task |-> 0, st |-> "none", sock |-> FALSE, said |-> "", forced |-> FALSE]

GhostTypeOK ==
    /\ wf \in {"workflow_review_pass", "workflow_finish", "workflow_exception",
               "workflow_abort"}
    /\ row \in [Alter -> Row]
    /\ native \in Seq(NativeResult)
    /\ proc \in [Pid -> Process]
    /\ applied \subseteq Alter
    /\ req \in [Worker -> Request]
    /\ poller \in [Worker -> [Alter -> Thread]]

Init ==
    /\ wf = "workflow_review_pass"
    /\ row = [i \in Alter |-> NoRow]
    /\ native = <<>>
    /\ proc = [p \in Pid |-> NoProcess]
    /\ applied = {}
    /\ req = [w \in Worker |-> Idle]
    /\ poller = [w \in Worker |-> [i \in Alter |-> Off]]

-----------------------------------------------------------------------------
(* Processes, sockets and logs *)

is_alive(p) == p # 0 /\ proc[p].st \notin {"none", "dead"}

\* The socket of ALTER i's table answers.
SocketTaken(i) ==
    \E p \in Pid : proc[p].sock /\ Table[proc[p].task] = Table[i]

\* The log of task i is that of the process started last; it is empty until
\* that process has connected.
Newest(i) ==
    LET started == {p \in Pid : proc[p].task = i}
    IN  IF started = {} THEN NoProcess ELSE proc[Max(started)]

Dead(q) == [q EXCEPT !.st = "dead", !.sock = FALSE]

Killed(p) == IF is_alive(p) THEN [proc EXCEPT ![p] = Dead(@)] ELSE proc

\* start_ghost_process takes the next number.
Fresh(p) == proc[p].st = "none" /\ \A q \in Pid : q < p => proc[q].st # "none"

\* start_ghost_process returns a pid ...
Started(i, p, forced) ==
    /\ ~SocketTaken(i)
    /\ Fresh(p)
    /\ proc' = [proc EXCEPT ![p] = [NoProcess EXCEPT !.task = i, !.st = "starting",
                                                     !.forced = forced]]

\* ... or raises: the socket is taken, or the process exits at once.
StartFails(i, forced) ==
    \/ SocketTaken(i) /\ UNCHANGED proc
    \/ \E p \in Pid :
        /\ ~SocketTaken(i)
        /\ Fresh(p)
        /\ proc' = [proc EXCEPT ![p] = [NoProcess EXCEPT !.task = i, !.st = "dead",
                                                         !.said = "fatal", !.forced = forced]]

Bind(p) ==
    /\ proc[p].st = "starting"
    /\ proc' = [proc EXCEPT ![p] =
                  IF SocketTaken(@.task)
                  THEN [Dead(@) EXCEPT !.said = "fatal"]
                  ELSE [@ EXCEPT !.st = "copying", !.sock = TRUE]]
    /\ UNCHANGED <<wf, row, native, applied, req, poller>>

Swap(p) ==
    /\ proc[p].st = "copying"
    /\ proc' = [proc EXCEPT ![p].st = "swapped"]
    /\ applied' = applied \cup {proc[p].task}
    /\ UNCHANGED <<wf, row, native, req, poller>>

SayDone(p) ==
    /\ proc[p].st = "swapped"
    /\ proc' = [proc EXCEPT ![p].st = "done", ![p].said = "done"]
    /\ UNCHANGED <<wf, row, native, applied, req, poller>>

Exit(p) ==
    /\ proc[p].st = "done"
    /\ proc' = [proc EXCEPT ![p] = Dead(@)]
    /\ UNCHANGED <<wf, row, native, applied, req, poller>>

Fatal(p) ==
    /\ proc[p].st = "copying"
    /\ proc' = [proc EXCEPT ![p] = [Dead(@) EXCEPT !.said = "fatal"]]
    /\ UNCHANGED <<wf, row, native, applied, req, poller>>

-----------------------------------------------------------------------------
(* The chain of tasks *)

\* Mutant: the first queued task, whatever became of the one before it.
NextInChain_noDependency(i) ==
    /\ row[i].status = "queued"
    /\ \A j \in Alter : j < i => row[j].status # "queued"

\* The first queued task in the order of the statements, when the one it
\* depends on has succeeded.
NextInChain(i) ==
    /\ row[i].status = "queued"
    /\ \A j \in Alter : j < i => row[j].status # "queued"
    /\ row[i].dep => row[i - 1].status = "success"

\* start_poller: a worker has one thread per task.
PollersWith(w, i) ==
    IF poller[w][i].pc = "off"
    THEN [poller EXCEPT ![w][i] = [Off EXCEPT !.pc = "new"]]
    ELSE poller

Save(i, obj) == row' = [row EXCEPT ![i] = obj]

-----------------------------------------------------------------------------
(* The views *)

Free(w, view) == view \in Views /\ req[w] = Idle

\* The views retry, cancel and rollback look at the first task of the workflow
\* only; an administrator chooses the task.
Concerns(view, i) == i = 1 \/ view \in AdminViews

\* What admin_retry starts is marked.
Forced(w) == req[w].view = "adminRetry"

Answer(w) == req' = [req EXCEPT ![w] = Idle]

\* enable, also called by the detail page: no task may be active, ...
EnableCheck(w) ==
    /\ Free(w, "enable")
    /\ \A i \in Alter : row[i].status \notin Active
    /\ req' = [req EXCEPT ![w] = [Idle EXCEPT !.pc = "enabling", !.view = "enable",
                                              !.task = 1]]
    /\ UNCHANGED <<wf, row, native, proc, applied, poller>>

\* ... then the big ALTERs are prechecked one after the other, the row of each
\* created or updated, ...
EnableWrite(w, passed) ==
    /\ req[w].pc = "enabling"
    /\ row' = [row EXCEPT ![req[w].task].status = IF passed THEN "queued"
                                                  ELSE "precheck_failed",
                          ![req[w].task].pre = passed]
    /\ \/ req[w].task = Alters /\ req' = [req EXCEPT ![w].pc = "linking"]
       \/ req[w].task # Alters /\ req' = [req EXCEPT ![w].task = @ + 1]
    /\ UNCHANGED <<wf, native, proc, applied, poller>>

\* ... the chain is written, and the small tables are listed as pending.
EnableLink(w) ==
    /\ req[w].pc = "linking"
    /\ row' = [i \in Alter |-> [row[i] EXCEPT !.dep = @ \/ i > 1]]
    /\ native' = IF Natives = 0 THEN native
                 ELSE [k \in 1..Natives |-> "pending"]
    /\ Answer(w)
    /\ UNCHANGED <<wf, proc, applied, poller>>

StartCheck(w, i) ==
    /\ Free(w, "start")
    /\ NextInChain(i)
    /\ row[i].pre
    /\ req' = [req EXCEPT ![w] = [pc |-> "popen", view |-> "start", task |-> i,
                                  obj |-> row[i], native |-> native]]
    /\ UNCHANGED <<wf, row, native, proc, applied, poller>>

\* Neither retry nor admin_retry asks whether the task depends on another.
RetryCheck(w, view, i) ==
    /\ Free(w, view)
    /\ Concerns(view, i)
    /\ row[i].status \in {"failed", "cancelled"}
    /\ row[i].pre
    /\ req' = [req EXCEPT ![w] =
                 [pc |-> "reset", view |-> view, task |-> i,
                  obj |-> [row[i] EXCEPT !.status = "queued", !.pid = 0],
                  native |-> <<>>]]
    /\ UNCHANGED <<wf, row, native, proc, applied, poller>>

RetryReset(w) ==
    /\ req[w].pc = "reset"
    /\ Save(req[w].task, req[w].obj)
    /\ req' = [req EXCEPT ![w].pc = "popen"]
    /\ UNCHANGED <<wf, native, proc, applied, poller>>

Launch(w) ==
    /\ req[w].pc = "popen"
    /\ \E p \in Pid :
        /\ Started(req[w].task, p, Forced(w))
        /\ req' = [req EXCEPT ![w].pc = "save", ![w].obj.pid = p]
    /\ UNCHANGED <<wf, row, native, applied, poller>>

\* Mutant: the status is not one of the choices.
LaunchFails_error(w) ==
    /\ req[w].pc = "popen"
    /\ StartFails(req[w].task, Forced(w))
    /\ Save(req[w].task, [req[w].obj EXCEPT !.status = "error"])
    /\ Answer(w)
    /\ UNCHANGED <<wf, native, applied, poller>>

LaunchFails(w) ==
    /\ req[w].pc = "popen"
    /\ StartFails(req[w].task, Forced(w))
    /\ Save(req[w].task, [req[w].obj EXCEPT !.status = "failed"])
    /\ Answer(w)
    /\ UNCHANGED <<wf, native, applied, poller>>

\* The row is saved as running and a poller started; start goes on with the
\* small tables.
LaunchSave(w) ==
    /\ req[w].pc = "save"
    /\ Save(req[w].task, [req[w].obj EXCEPT !.status = "running"])
    /\ poller' = PollersWith(w, req[w].task)
    /\ IF req[w].view = "start"
       THEN req' = [req EXCEPT ![w].pc = "native"]
       ELSE Answer(w)
    /\ UNCHANGED <<wf, native, proc, applied>>

\* The first ALTER still pending in the list the request read.  An error in
\* the engine's answer fails this one; an exception also skips the rest.
NativeStep(w, outcome) ==
    /\ req[w].pc = "native"
    /\ \E k \in DOMAIN req[w].native :
        /\ req[w].native[k] = "pending"
        /\ \A l \in 1..(k - 1) : req[w].native[l] # "pending"
        /\ req' = [req EXCEPT ![w].native =
                     [l \in DOMAIN @ |->
                        CASE l = k -> IF outcome = "success" THEN "success" ELSE "failed"
                          [] l > k /\ @[l] = "pending" /\ outcome = "exception" -> "skipped"
                          [] OTHER -> @[l]]]
    /\ UNCHANGED <<wf, row, native, proc, applied, poller>>

\* The results reach the workflow only when the last one is known.
NativeSave(w) ==
    /\ req[w].pc = "native"
    /\ \A k \in DOMAIN req[w].native : req[w].native[k] # "pending"
    /\ native' = req[w].native
    /\ Answer(w)
    /\ UNCHANGED <<wf, row, proc, applied, poller>>

CancelKill(w, view, i) ==
    /\ Free(w, view)
    /\ Concerns(view, i)
    /\ row[i].status \notin Terminal \cup {"none"}
    /\ proc' = Killed(row[i].pid)
    /\ req' = [req EXCEPT ![w] = [Idle EXCEPT !.pc = "killed", !.view = view,
                                              !.task = i, !.obj = row[i]]]
    /\ UNCHANGED <<wf, row, native, applied, poller>>

CancelSave(w) ==
    /\ req[w].pc = "killed"
    /\ Save(req[w].task, [req[w].obj EXCEPT !.status = "cancelled"])
    /\ Answer(w)
    /\ UNCHANGED <<wf, native, proc, applied, poller>>

\* Drops the tables gh-ost has left, then marks the task.
RollbackDrop(w, view, i) ==
    /\ Free(w, view)
    /\ Concerns(view, i)
    /\ row[i].status \in {"success", "failed", "cancelled"}
    /\ req' = [req EXCEPT ![w] = [Idle EXCEPT !.pc = "dropped", !.view = view,
                                              !.task = i, !.obj = row[i]]]
    /\ UNCHANGED <<wf, row, native, proc, applied, poller>>

RollbackSave(w) ==
    /\ req[w].pc = "dropped"
    /\ Save(req[w].task, [req[w].obj EXCEPT !.status = "rolled_back"])
    /\ Answer(w)
    /\ UNCHANGED <<wf, native, proc, applied, poller>>

\* The cancel view of the workflow (AuditFlow) and, in its transaction,
\* cleanup_pending_ghost_tasks: the rows are marked, no process is stopped.
Abort(w) ==
    /\ Free(w, "abort")
    /\ wf = "workflow_review_pass"
    /\ wf' = "workflow_abort"
    /\ row' = [i \in Alter |->
                 IF row[i].status \in Terminal \cup {"none"} THEN row[i]
                 ELSE [row[i] EXCEPT !.status = "cancelled"]]
    /\ UNCHANGED <<native, proc, applied, req, poller>>

-----------------------------------------------------------------------------
(* The poller threads *)

At(w, i, pc) == poller[w][i].pc = pc

\* poll_loop loads the row; one still queued becomes running.
PollLoad(w, i) ==
    /\ At(w, i, "new")
    /\ IF row[i].status \in Active
       THEN LET obj == [row[i] EXCEPT !.status = "running"]
            IN  /\ Save(i, obj)
                /\ poller' = [poller EXCEPT ![w][i] = [@ EXCEPT !.pc = "loop", !.obj = obj]]
       ELSE /\ poller' = [poller EXCEPT ![w][i] = Off]
            /\ UNCHANGED row
    /\ UNCHANGED <<wf, native, proc, applied, req>>

\* Mutant: a process that ended without a fatal line has done its work.
Verdict_goneIsDone(i, obj, status) ==
    \/ status = "success" /\ Newest(i).said # "fatal" /\ ~is_alive(obj.pid)
    \/ status = "success" /\ Newest(i).said = "done"
    \/ status = "failed" /\ Newest(i).said = "fatal"

\* What the process that obj names, and the newest log, say of the task.  A
\* process that lives and has written nothing for a minute has failed.
Verdict(i, obj, status) ==
    LET said == Newest(i).said
    IN  \/ status = "success" /\ said = "done"
        \/ status = "failed" /\ said = "fatal"
        \/ status = "failed" /\ said = "" /\ ~is_alive(obj.pid)
        \/ status = "failed" /\ is_alive(obj.pid) /\ Newest(i).st = "starting"

\* Mutant: a process that does not answer is left alone.
PollVerdict_noKill(w, i, status) ==
    /\ At(w, i, "loop")
    /\ Verdict(i, poller[w][i].obj, status)
    /\ poller' = [poller EXCEPT ![w][i] = [@ EXCEPT !.pc = "final", !.obj.status = status]]
    /\ UNCHANGED <<wf, row, native, proc, applied, req>>

\* _finalize_task stops the process it knows and removes the file of the
\* table's socket, whoever listens on it, ...
PollVerdict(w, i, status) ==
    LET obj == poller[w][i].obj
    IN  /\ At(w, i, "loop")
        /\ Verdict(i, obj, status)
        /\ proc' = IF obj.pid = 0 THEN proc
                   ELSE [p \in Pid |-> [Killed(obj.pid)[p] EXCEPT !.sock =
                                          @ /\ Table[proc[p].task] # Table[i]]]
        /\ poller' = [poller EXCEPT ![w][i] = [@ EXCEPT !.pc = "final", !.obj.status = status]]
        /\ UNCHANGED <<wf, row, native, applied, req>>

\* ... saves the row as the thread knows it, ...
FinalSave(w, i) ==
    /\ At(w, i, "final")
    /\ Save(i, poller[w][i].obj)
    /\ poller' = [poller EXCEPT ![w][i].pc =
                    IF poller[w][i].obj.status = "success" THEN "next" ELSE "sync"]
    /\ UNCHANGED <<wf, native, proc, applied, req>>

\* ... and starts the next task of the chain: _start_next_ghost_task.
NextPick(w, i) ==
    /\ At(w, i, "next")
    /\ \/ \E j \in Alter :
            /\ NextInChain(j)
            /\ poller' = [poller EXCEPT ![w][i] = [@ EXCEPT !.pc = "popen", !.next = j,
                                                           !.nobj = row[j]]]
       \/ /\ \A j \in Alter : ~NextInChain(j)
          /\ poller' = [poller EXCEPT ![w][i].pc = "sync"]
    /\ UNCHANGED <<wf, row, native, proc, applied, req>>

NextLaunch(w, i) ==
    /\ At(w, i, "popen")
    /\ \E p \in Pid :
        /\ Started(poller[w][i].next, p, FALSE)
        /\ poller' = [poller EXCEPT ![w][i] = [@ EXCEPT !.pc = "save", !.nobj.pid = p]]
    /\ UNCHANGED <<wf, row, native, applied, req>>

NextFails(w, i) ==
    /\ At(w, i, "popen")
    /\ StartFails(poller[w][i].next, FALSE)
    /\ Save(poller[w][i].next, [poller[w][i].nobj EXCEPT !.status = "failed"])
    /\ poller' = [poller EXCEPT ![w][i].pc = "sync"]
    /\ UNCHANGED <<wf, native, applied, req>>

\* Mutant: the task started by a thread has no thread.
NextSave_noPoller(w, i) ==
    /\ At(w, i, "save")
    /\ Save(poller[w][i].next, [poller[w][i].nobj EXCEPT !.status = "running"])
    /\ poller' = [poller EXCEPT ![w][i].pc = "sync"]
    /\ UNCHANGED <<wf, native, proc, applied, req>>

NextSave(w, i) ==
    /\ At(w, i, "save")
    /\ Save(poller[w][i].next, [poller[w][i].nobj EXCEPT !.status = "running"])
    /\ poller' = [PollersWith(w, poller[w][i].next) EXCEPT ![w][i].pc = "sync"]
    /\ UNCHANGED <<wf, native, proc, applied, req>>

\* _sync_workflow_status: every task must have ended and every small table be
\* done, and the workflow still be waiting; else the thread ends, ...
Settled ==
    /\ \A i \in Alter : row[i].status \in Terminal
    /\ \A k \in DOMAIN native : native[k] # "pending"
    /\ wf = "workflow_review_pass"

SyncRead(w, i) ==
    /\ At(w, i, "sync")
    /\ poller' = [poller EXCEPT ![w][i] =
                    IF Settled
                    THEN [Off EXCEPT !.pc = "write",
                                     !.bad = \E k \in DOMAIN native : native[k] # "success"]
                    ELSE Off]
    /\ UNCHANGED <<wf, row, native, proc, applied, req>>

\* Mutant: the small tables do not count.
SyncWrite_noNatives(w, i) ==
    /\ At(w, i, "write")
    /\ wf' = IF \E j \in Alter : row[j].status \in Terminal \ {"success"}
             THEN "workflow_exception" ELSE "workflow_finish"
    /\ poller' = [poller EXCEPT ![w][i] = Off]
    /\ UNCHANGED <<row, native, proc, applied, req>>

\* ... then the tasks are read again for the outcome.
SyncWrite(w, i) ==
    /\ At(w, i, "write")
    /\ wf' = IF \/ poller[w][i].bad
                \/ \E j \in Alter : row[j].status \in Terminal \ {"success"}
             THEN "workflow_exception" ELSE "workflow_finish"
    /\ poller' = [poller EXCEPT ![w][i] = Off]
    /\ UNCHANGED <<row, native, proc, applied, req>>

\* An exception in the loop, the database gone for instance: the row is read
\* again and marked, unless that fails too.  The workflow is not looked at.
PollCrash(w, i, marked) ==
    /\ "pollerError" \in Faults
    /\ At(w, i, "loop") \/ At(w, i, "final")
    /\ row' = IF marked /\ row[i].status \notin Terminal
              THEN [row EXCEPT ![i].status = "failed"] ELSE row
    /\ poller' = [poller EXCEPT ![w][i] = Off]
    /\ UNCHANGED <<wf, native, proc, applied, req>>

\* A worker is replaced: its request and its threads are gone, nothing starts
\* them again, and the gh-ost processes live in sessions of their own.
Restart(w) ==
    /\ "restart" \in Faults
    /\ req[w] # Idle \/ \E i \in Alter : poller[w][i] # Off
    /\ req' = [req EXCEPT ![w] = Idle]
    /\ poller' = [poller EXCEPT ![w] = [i \in Alter |-> Off]]
    /\ UNCHANGED <<wf, row, native, proc, applied>>

-----------------------------------------------------------------------------

ProcessStep(p) == Bind(p) \/ Swap(p) \/ SayDone(p) \/ Exit(p) \/ Fatal(p)

Arrive(w) ==
    \/ EnableCheck(w) \/ Abort(w)
    \/ \E i \in Alter :
        \/ StartCheck(w, i)
        \/ \E view \in {"retry", "adminRetry"} : RetryCheck(w, view, i)
        \/ \E view \in {"cancel", "adminCancel"} : CancelKill(w, view, i)
        \/ \E view \in {"rollback", "adminRollback"} : RollbackDrop(w, view, i)

RequestStep(w) ==
    \/ \E passed \in BOOLEAN : EnableWrite(w, passed)
    \/ EnableLink(w)
    \/ RetryReset(w) \/ Launch(w) \/ LaunchFails(w) \/ LaunchSave(w)
    \/ \E outcome \in {"success", "error", "exception"} : NativeStep(w, outcome)
    \/ NativeSave(w) \/ CancelSave(w) \/ RollbackSave(w)

PollerStep(w, i) ==
    \/ PollLoad(w, i) \/ FinalSave(w, i)
    \/ \E status \in {"success", "failed"} : PollVerdict(w, i, status)
    \/ NextPick(w, i) \/ NextLaunch(w, i) \/ NextFails(w, i) \/ NextSave(w, i)
    \/ SyncRead(w, i) \/ SyncWrite(w, i)

Next ==
    \/ \E p \in Pid : ProcessStep(p)
    \/ \E w \in Worker :
        \/ Arrive(w) \/ RequestStep(w) \/ Restart(w)
        \/ \E i \in Alter : \/ PollerStep(w, i)
                            \/ \E marked \in BOOLEAN : PollCrash(w, i, marked)

Spec == Init /\ [][Next]_vars

\* Requests run to their end, threads are scheduled, a gh-ost process ends;
\* users owe nothing.
Fairness ==
    /\ \A p \in Pid : WF_vars(ProcessStep(p))
    /\ \A w \in Worker : WF_vars(RequestStep(w))
    /\ \A w \in Worker, i \in Alter : WF_vars(PollerStep(w, i))

FairSpec == Spec /\ Fairness

\* What users are taken to do in some of the runs and theorems: they enable
\* gh-ost once, ...
EnableOnce ==
    \A w \in Worker : req'[w].view = "enable" /\ req[w].view # "enable"
                      => \A i \in Alter : row[i] = NoRow

\* ... start and retry nothing, and leave the administrator's actions, before
\* enabling has written the chain, ...
Linked ==
    \A w \in Worker : req[w] = Idle /\ req'[w].view \in {"start", "retry"} \cup AdminViews
                      => \A i \in Alter \ {1} : row[i].dep

\* ... and start the first task: the chain goes on by itself.
FirstStarted == \A w \in Worker : req'[w].view = "start" => req'[w].task = 1

LinkedSpec == Init /\ [][Next /\ Linked]_vars

OnceSpec == Init /\ [][Next /\ EnableOnce /\ FirstStarted]_vars

-----------------------------------------------------------------------------
(* Properties *)

\* A task is reported successful only when its table has been altered, although
\* the verdict is read from a log file that every new start truncates and that
\* need not belong to the process the thread is watching.
SuccessIsApplied ==
    \A i \in Alter : row[i].status = "success" => i \in applied

\* However starts, retries, cancellations, the threads of several workers and
\* restarts interleave, gh-ost is not started for an ALTER before the one it
\* depends on has been applied, except by admin_retry, which restarts any task
\* without asking (forced); and what was forced never makes the views or the
\* threads start something else out of turn.
ChainOrder ==
    \A p \in Pid : proc[p].task > 1 /\ ~proc[p].forced => proc[p].task - 1 \in applied

\* Two gh-ost processes never copy the same table at the same time, the double
\* run that start_ghost_process refuses when the socket of the table answers.
Copying(p) == proc[p].st \in {"copying", "swapped"}

NoDoubleRun ==
    \A p, q \in Pid :
        Copying(p) /\ Copying(q) /\ Table[proc[p].task] = Table[proc[q].task] => p = q

\* The workflow is finished only when every ALTER of it, by gh-ost and direct,
\* was done: the last thread to end decides that from the rows of the others.
NoFalseFinish ==
    wf = "workflow_finish" =>
        /\ applied = Alter
        /\ native = [k \in 1..Natives |-> "success"]

\* The process of a failed task is not left running.
FailedIsStopped ==
    \A i \in Alter, p \in Pid :
        row[i].status = "failed" /\ proc[p].task = i => ~is_alive(p)

\* A running task ends: its thread is there, and reaches a verdict, whatever
\* gh-ost did and whatever users did meanwhile.
EveryRunEnds ==
    \A i \in Alter : row[i].status = "running" ~> row[i].status \in Terminal

\* "cancelled" means that the user gave the change up: no thread turns it into
\* another outcome.
CancelStands ==
    [][\A i \in Alter : row[i].status = "cancelled"
          => row'[i].status \notin {"failed", "success"}]_vars
=============================================================================
