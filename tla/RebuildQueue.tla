---------------------------- MODULE RebuildQueue ----------------------------
(***************************************************************************)
(* Rebuilds of one table by gh-ost (sql/extensions/ddl_gh_ost): users      *)
(* submit rebuild tasks at any time, one is to run, the others wait in     *)
(* the queue.  The queue is nothing but the rows with status queued; it is *)
(* advanced by whoever has just submitted a task and by the thread whose   *)
(* task has just ended, and by nobody else.                                *)
(*                                                                         *)
(* Every worker process of the web server has one request and a poller     *)
(* thread per task it started; both run try_advance_queue.  There is no    *)
(* lock: an advance looks up the first waiting row, looks for a running    *)
(* one, starts a process, and saves the row it loaded.                     *)
(*                                                                         *)
(* gh-ost is external: a process binds the socket of its table or dies,    *)
(* copies, and writes Done to the log of its task.  It outlives the worker *)
(* that started it.                                                        *)
(***************************************************************************)
EXTENDS Naturals, FiniteSetsExt

CONSTANTS
    Tasks,     \* how many rebuilds are submitted
    Worker,    \* worker processes of the web server
    MaxPid,    \* how many gh-ost processes are started, at most
    MaxTrouble \* how often a user cancels or something goes wrong, at most

Task == 1..Tasks
Pid == 1..MaxPid

ASSUME QueueAssumption ==
    /\ Tasks \in Nat \ {0}
    /\ MaxPid \in Nat
    /\ MaxTrouble \in Nat

VARIABLES
    row,      \* row[t]: the row of ext_ddl_ghost_task for task t
    proc,     \* proc[p]: gh-ost process p
    sock,     \* the process whose socket has the path of the table, 0: no file
    act,      \* act[w][0]: the request of worker w; act[w][t]: its poller of t
    trouble,  \* how often that was so far
    calm,     \* history: no two handlers overlapped, none was cut off while
              \* the process it started had not bound its socket, and no
              \* poller removed the socket of another task's process
    stalled   \* history: somebody ended without advancing the queue, and no
              \* task was submitted since then to an idle table

queueVars == <<row, proc, sock, act, trouble, calm, stalled>>

Row == [status : {"none", "queued", "running", "success", "failed", "cancelled"},
        pid    : 0..MaxPid]

Process == [task : 0..Tasks,
            st   : {"none", "starting", "copying", "done", "dead"},
            said : {"", "done", "fatal"}]     \* how its log ends

Off == [pc |-> "off", task |-> 0, pid |-> 0, end |-> ""]

Actor == [pc   : {"off", "new", "loop", "final", "look", "check", "spawn",
                  "save", "saved", "cancel"},
          task : 0..Tasks,      \* the row it has in hand, with its pid
          pid  : 0..MaxPid,
          end  : {"", "success", "failed"}]

QueueTypeOK ==
    /\ row \in [Task -> Row]
    /\ proc \in [Pid -> Process]
    /\ sock \in 0..MaxPid
    /\ act \in [Worker -> [0..Tasks -> Actor]]
    /\ trouble \in 0..MaxTrouble
    /\ calm \in BOOLEAN
    /\ stalled \in BOOLEAN

QueueInit ==
    /\ row = [t \in Task |-> [status |-> "none", pid |-> 0]]
    /\ proc = [p \in Pid |-> [task |-> 0, st |-> "none", said |-> ""]]
    /\ sock = 0
    /\ act = [w \in Worker |-> [i \in 0..Tasks |-> Off]]
    /\ trouble = 0
    /\ calm = TRUE
    /\ stalled = FALSE

is_alive(p) == p # 0 /\ proc[p].st \in {"starting", "copying", "done"}

Killed(p) == IF is_alive(p) THEN [proc EXCEPT ![p].st = "dead"] ELSE proc

\* The log of task t is the one that the latest start created.
LogEnd(t) ==
    LET started == {p \in Pid : proc[p].task = t}
    IN  IF started = {} THEN "" ELSE proc[Max(started)].said

Busy(w, i) == act[w][i].pc \notin {"off", "new", "loop"}

\* A handler begins while no other one is under way.
Alone == \A w \in Worker, i \in 0..Tasks : ~Busy(w, i)

\* One of the things that users or the world need not do.
Trouble == trouble < MaxTrouble /\ trouble' = trouble + 1

\* Worker w's thread i ends.
Ends(w, i) == [act EXCEPT ![w][i] = Off]

-----------------------------------------------------------------------------
(* Submitting and cancelling *)

\* rebuild_start: the new row is queued, and then the queue advanced.
Submit(w) ==
    \E t \in Task :
        /\ act[w][0].pc = "off"
        /\ row[t].status = "none"
        /\ \A u \in 1..t - 1 : row[u].status # "none"
        /\ row' = [row EXCEPT ![t].status = "queued"]
        /\ act' = [act EXCEPT ![w][0].pc = "look"]
        /\ calm' = (calm /\ Alone)
        /\ stalled' = (stalled /\ \E p \in Pid : is_alive(p))
        /\ UNCHANGED <<proc, sock, trouble>>

\* admin_cancel: load the row, stop its process, save the row.  The queue is
\* left to the poller, which will find the process dead.
CancelStop(w, t) ==
    /\ Trouble
    /\ act[w][0].pc = "off"
    /\ row[t].status \in {"queued", "running"}
    /\ proc' = Killed(row[t].pid)
    /\ act' = [act EXCEPT ![w][0] = [pc |-> "cancel", task |-> t, pid |-> row[t].pid, end |-> ""]]
    /\ calm' = (calm /\ Alone)
    /\ UNCHANGED <<row, sock, stalled>>

\* Mutant: a status the model does not have.
CancelSave_typo(w) ==
    /\ act[w][0].pc = "cancel"
    /\ row' = [row EXCEPT ![act[w][0].task] = [status |-> "canceled", pid |-> act[w][0].pid]]
    /\ act' = Ends(w, 0)
    /\ UNCHANGED <<proc, sock, trouble, calm, stalled>>

CancelSave(w) ==
    /\ act[w][0].pc = "cancel"
    /\ row' = [row EXCEPT ![act[w][0].task] = [status |-> "cancelled", pid |-> act[w][0].pid]]
    /\ act' = Ends(w, 0)
    /\ UNCHANGED <<proc, sock, trouble, calm, stalled>>

-----------------------------------------------------------------------------
(* try_advance_queue, by thread i of worker w *)

Waiting == {t \in Task : row[t].status = "queued"}

\* Mutant: the latest one is taken.
find_waiting_for_latest == Max(Waiting)

\* The first of the queue by time of creation.
find_waiting_for == Min(Waiting)

Pick(w, i) ==
    /\ act[w][i].pc = "look"
    /\ act' = IF Waiting = {} THEN Ends(w, i)
              ELSE [act EXCEPT ![w][i] = [pc |-> "check", task |-> find_waiting_for,
                                          pid |-> 0, end |-> ""]]
    /\ UNCHANGED <<row, proc, sock, trouble, calm, stalled>>

\* Mutant: the running task is not looked for, only the queue.
AliveRunning_none == FALSE

\* Mutant: a running row counts, whether or not its process is alive.
AliveRunning_anyRow == \E t \in Task : row[t].status = "running"

\* A row is running whose process is alive; nothing ever writes cut_over, the
\* other status the code looks for.
AliveRunning == \E t \in Task : row[t].status = "running" /\ is_alive(row[t].pid)

\* Then the waiting row stays in the queue.
Check(w, i) ==
    /\ act[w][i].pc = "check"
    /\ act' = IF AliveRunning THEN Ends(w, i) ELSE [act EXCEPT ![w][i].pc = "spawn"]
    /\ UNCHANGED <<row, proc, sock, trouble, calm, stalled>>

\* _cleanup_stale_socket: a socket that answers forbids the start, one that
\* does not is removed.
Served == is_alive(sock)

\* start_ghost_process: a new log, a new process.
Spawn(w, i) ==
    /\ act[w][i].pc = "spawn"
    /\ ~Served
    /\ \E p \in Pid :
        /\ proc[p].st = "none"
        /\ \A q \in 1..p - 1 : proc[q].st # "none"
        /\ proc' = [proc EXCEPT ![p] = [task |-> act[w][i].task, st |-> "starting", said |-> ""]]
        /\ act' = [act EXCEPT ![w][i] = [@ EXCEPT !.pc = "save", !.pid = p]]
    /\ sock' = 0
    /\ UNCHANGED <<row, trouble, calm, stalled>>

\* The start is refused or fails: the task has failed, and the advance ends
\* without looking at the rest of the queue.
SpawnFails(w, i) ==
    /\ act[w][i].pc = "spawn"
    /\ (Served /\ UNCHANGED trouble) \/ Trouble
    /\ row' = [row EXCEPT ![act[w][i].task] = [status |-> "failed", pid |-> 0]]
    /\ act' = Ends(w, i)
    /\ stalled' = TRUE
    /\ UNCHANGED <<proc, sock, calm>>

Running(w, i) == [row EXCEPT ![act[w][i].task] = [status |-> "running", pid |-> act[w][i].pid]]

\* start_rebuild_process saves the row...
Save(w, i) ==
    /\ act[w][i].pc = "save"
    /\ row' = Running(w, i)
    /\ act' = [act EXCEPT ![w][i].pc = "saved"]
    /\ UNCHANGED <<proc, sock, trouble, calm, stalled>>

\* ...and try_advance_queue saves it again and starts the thread that polls,
\* unless this worker has one for the task.
StartPoller(w, i) ==
    LET t == act[w][i].task
    IN  /\ act[w][i].pc = "saved"
        /\ row' = Running(w, i)
        /\ act' = [Ends(w, i) EXCEPT ![w][t].pc = IF @ = "off" THEN "new" ELSE @]
        /\ UNCHANGED <<proc, sock, trouble, calm, stalled>>

-----------------------------------------------------------------------------
(* The poller of task t in worker w: poll_loop *)

\* A thread that finds its task ended already goes, and leaves the queue.
PollLoad(w, t) ==
    /\ act[w][t].pc = "new"
    /\ \/ /\ row[t].status \in {"queued", "running"}
          /\ row' = [row EXCEPT ![t].status = "running"]
          /\ act' = [act EXCEPT ![w][t] = [pc |-> "loop", task |-> t, pid |-> row[t].pid, end |-> ""]]
          /\ UNCHANGED stalled
       \/ /\ row[t].status \notin {"queued", "running"}
          /\ act' = Ends(w, t)
          /\ stalled' = TRUE
          /\ UNCHANGED row
    /\ UNCHANGED <<proc, sock, trouble, calm>>

\* The log says how it ended; without a word, a process that is dead, or that
\* has not written for a minute, has failed.  _finalize_task stops it.
PollEnd(w, t) ==
    LET p == act[w][t].pid
    IN  /\ act[w][t].pc = "loop"
        /\ \/ (LogEnd(t) # "" \/ ~is_alive(p)) /\ UNCHANGED trouble
           \/ LogEnd(t) = "" /\ is_alive(p) /\ Trouble
        /\ act' = [act EXCEPT ![w][t] = [@ EXCEPT !.pc = "final",
                        !.end = IF LogEnd(t) = "done" THEN "success" ELSE "failed"]]
        /\ proc' = Killed(p)
        /\ calm' = (calm /\ Alone)
        /\ UNCHANGED <<row, sock, stalled>>

\* Then it removes the socket of the table, whoever has it, and saves the row
\* it loaded when the thread began; the queue comes next.
PollSave(w, t) ==
    /\ act[w][t].pc = "final"
    /\ sock' = 0
    /\ row' = [row EXCEPT ![t] = [status |-> act[w][t].end, pid |-> act[w][t].pid]]
    /\ act' = [act EXCEPT ![w][t].pc = "look"]
    /\ calm' = (calm /\ ~Served)
    /\ UNCHANGED <<proc, stalled, trouble>>

\* An error in the loop: the task has failed, its process goes on, and the
\* thread leaves without advancing the queue.
PollCrash(w, t) ==
    /\ Trouble
    /\ act[w][t].pc = "loop"
    /\ row' = IF row[t].status \in {"queued", "running"}
              THEN [row EXCEPT ![t].status = "failed"] ELSE row
    /\ act' = Ends(w, t)
    /\ stalled' = TRUE
    /\ calm' = (calm /\ \A p \in Pid : proc[p].st # "starting")
    /\ UNCHANGED <<proc, sock>>

-----------------------------------------------------------------------------
(* gh-ost and the machine: external *)

Bind(p) ==
    /\ proc[p].st = "starting"
    /\ IF sock = 0
       THEN proc' = [proc EXCEPT ![p].st = "copying"] /\ sock' = p
       ELSE proc' = [proc EXCEPT ![p].st = "dead", ![p].said = "fatal"] /\ UNCHANGED sock
    /\ UNCHANGED <<row, act, trouble, calm, stalled>>

Finish(p) ==
    /\ proc[p].st = "copying"
    /\ proc' = [proc EXCEPT ![p].st = "done", ![p].said = "done"]
    /\ UNCHANGED <<row, sock, act, trouble, calm, stalled>>

Exit(p) ==
    /\ proc[p].st = "done"
    /\ proc' = [proc EXCEPT ![p].st = "dead"]
    /\ sock' = IF sock = p THEN 0 ELSE sock
    /\ UNCHANGED <<row, act, trouble, calm, stalled>>

Die(p) ==
    /\ Trouble
    /\ is_alive(p)
    /\ \E said \in {proc[p].said, "fatal"} :
          proc' = [proc EXCEPT ![p].st = "dead", ![p].said = said]
    /\ UNCHANGED <<row, sock, act, calm, stalled>>

\* The web server restarts: no request, no thread, the processes remain.
Restart ==
    /\ Trouble
    /\ act' = [w \in Worker |-> [i \in 0..Tasks |-> Off]]
    /\ act' # act
    /\ stalled' = TRUE
    /\ calm' = (calm /\ Alone)
    /\ UNCHANGED <<row, proc, sock>>

-----------------------------------------------------------------------------

Advance(w, i) ==
    \/ Pick(w, i)
    \/ Check(w, i)
    \/ Spawn(w, i)
    \/ SpawnFails(w, i)
    \/ Save(w, i)
    \/ StartPoller(w, i)

Poll(w, t) == PollLoad(w, t) \/ PollEnd(w, t) \/ PollSave(w, t)

GhOst(p) == Bind(p) \/ Finish(p) \/ Exit(p)

QueueNext ==
    \/ \E w \in Worker :
        \/ Submit(w)
        \/ CancelSave(w)
        \/ \E t \in Task : CancelStop(w, t) \/ Poll(w, t) \/ PollCrash(w, t)
        \/ \E i \in 0..Tasks : Advance(w, i)
    \/ \E p \in Pid : GhOst(p) \/ Die(p)
    \/ Restart

QueueSpec == QueueInit /\ [][QueueNext]_queueVars

\* A request or a poller that has begun goes on, and so does gh-ost; users
\* owe nothing.
QueueFairSpec ==
    /\ QueueSpec
    /\ \A w \in Worker :
        /\ WF_queueVars(CancelSave(w) \/ Advance(w, 0))
        /\ \A t \in Task : WF_queueVars(Poll(w, t) \/ Advance(w, t))
    /\ \A p \in Pid : WF_queueVars(GhOst(p))

-----------------------------------------------------------------------------
(* Properties *)

\* As long as handlers take turns, never two rebuilds of the table at a time:
\* not when the poller of the running one failed and the row says failed (the
\* socket is what tells), nor when the web server restarted.
OneRebuild ==
    calm => \A p, q \in Pid : is_alive(p) /\ is_alive(q) => p = q

\* The tasks are started in the order of their submission, each of them while
\* it waits, as long as handlers take turns.
InTurn ==
    [][\A p \in Pid :
         proc[p].st = "none" /\ proc'[p].st # "none" /\ calm =>
            /\ row[proc'[p].task].status = "queued"
            /\ \A u \in 1..proc'[p].task - 1 : row[u].status # "queued"]_queueVars

\* No wake-up is lost: a waiting task leaves the queue, however submissions
\* and ends of tasks overlap, unless a thread ended without advancing the
\* queue and nobody submitted a task since.  That a row is running whose
\* process is dead does not hold up the queue ("修复：is_alive(pid) 为 False
\* 的 stale running 跳过").
QueueMoves ==
    \A t \in Task :
        row[t].status = "queued" ~>
            row[t].status # "queued" \/ stalled \/ proc[MaxPid].st # "none"
=============================================================================
