-------------------------- MODULE RebuildQueueProofs --------------------------
(***************************************************************************)
(* Rebuilds of one table, proved for any number of tasks, web workers,     *)
(* processes and troubles: as long as handlers take turns there is one     *)
(* rebuild at a time, and the queue is worked off in order.                *)
(*                                                                         *)
(* Two things forbid a second start: a socket that answers, and before it  *)
(* is bound, a running row whose process is alive.  The invariant says     *)
(* that a live process always has one of the two, or a handler in hand     *)
(* that is about to write the row (Guarded, Bound); and, of each handler   *)
(* and thread, what makes the row that it will write harmless (ActorOK).   *)
(* A thread may remove a socket and a handler overwrite a row only when    *)
(* the process that these belong to is not alive.                          *)
(***************************************************************************)
EXTENDS RebuildQueue, Extrema

USE QueueAssumption

Slot == 0..Tasks

\* What a request or a thread has in hand, whatever the others do.
Shape(a, i) ==
    /\ a \in Actor
    /\ i = 0 => a.pc \notin {"new", "loop", "final"}
    /\ i # 0 => a.pc # "cancel"
    /\ a.pc \in {"check", "spawn", "save", "saved", "cancel"} => a.task \in Task
    /\ a.pc \in {"save", "saved"} => a.pid \in Pid
    /\ a.pc = "final" => a.end \in {"success", "failed"}

TypeInv ==
    /\ row \in [Task -> Row]
    /\ proc \in [Pid -> Process]
    /\ sock \in 0..MaxPid
    /\ act \in [Worker -> [Slot -> Actor]]
    /\ \A w \in Worker, i \in Slot : Shape(act[w][i], i)
    /\ trouble \in 0..MaxTrouble
    /\ calm \in BOOLEAN
    /\ stalled \in BOOLEAN

\* Handlers take turns.
Turns ==
    \A w, v \in Worker, i, j \in Slot : Busy(w, i) /\ Busy(v, j) => w = v /\ i = j

\* A process without a socket yet has its row, or a handler about to write it.
Guarded ==
    \A p \in Pid : proc[p].st = "starting" =>
        \/ \E t \in Task : row[t].status = "running" /\ row[t].pid = p
        \/ \E w \in Worker, i \in Slot : act[w][i].pc = "save" /\ act[w][i].pid = p

\* Any other process that lives holds the socket.
Bound == \A p \in Pid : proc[p].st \in {"copying", "done"} => sock = p

OneAlive == \A p, q \in Pid : is_alive(p) /\ is_alive(q) => p = q

\* What request or thread i of worker w knows of the row it will write.
ActorOK(w, i) ==
    /\ act[w][i].pc \in {"check", "spawn", "save"} => row[act[w][i].task].status = "queued"
    /\ act[w][i].pc \in {"check", "spawn"} =>
         \A u \in 1..act[w][i].task - 1 : row[u].status # "queued"
    /\ act[w][i].pc = "spawn" => \A p \in Pid : proc[p].st # "starting"
    /\ act[w][i].pc = "saved" =>
         /\ row[act[w][i].task].status = "running"
         /\ row[act[w][i].task].pid = act[w][i].pid
         /\ \A v \in Worker : act[v][act[w][i].task].pc \notin {"new", "loop"}
    /\ act[w][i].pc = "cancel" => act[w][i].pid = row[act[w][i].task].pid
    /\ act[w][i].pc \in {"new", "loop"} => row[i].status \notin {"none", "queued"}
    /\ act[w][i].pc \in {"loop", "final"} => act[w][i].pid = row[i].pid
    /\ act[w][i].pc \in {"final", "cancel"} => ~is_alive(act[w][i].pid)

Actors == \A w \in Worker, i \in Slot : ActorOK(w, i)

CalmInv == Turns /\ Guarded /\ Bound /\ OneAlive /\ Actors

QueueInv == TypeInv /\ (calm => CalmInv)

-----------------------------------------------------------------------------
(* Facts about one actor, row or process *)

LEMMA Numbers ==
    /\ Task \subseteq Slot /\ 0 \notin Task /\ 0 \in Slot
    /\ Pid \subseteq 0..MaxPid /\ 0 \notin Pid /\ 0 \in 0..MaxPid
  BY DEF Task, Pid, Slot

LEMMA OffShape == Off \in Actor /\ Off.pc = "off" /\ \A i \in Slot : Shape(Off, i)
  <1>1. Off \in Actor
    BY DEF Off, Actor
  <1> QED
    BY <1>1 DEF Shape, Off

\* One actor changes.
LEMMA ActorUpdate ==
    ASSUME NEW f \in [Worker -> [Slot -> Actor]],
           \A v \in Worker, j \in Slot : Shape(f[v][j], j),
           NEW w \in Worker, NEW i \in Slot, NEW a, Shape(a, i),
           NEW g, g = [f EXCEPT ![w][i] = a]
    PROVE  /\ g \in [Worker -> [Slot -> Actor]]
           /\ g[w][i] = a
           /\ \A v \in Worker, j \in Slot : v # w \/ j # i => g[v][j] = f[v][j]
           /\ \A v \in Worker, j \in Slot : Shape(g[v][j], j)
  <1>1. a \in Actor
    BY DEF Shape
  <1>2. g \in [Worker -> [Slot -> Actor]]
    BY <1>1
  <1>3. \A v \in Worker, j \in Slot : g[v][j] = IF v = w /\ j = i THEN a ELSE f[v][j]
    BY <1>1
  <1> QED
    BY <1>2, <1>3

LEMMA ActorChange ==
    ASSUME TypeInv, NEW w \in Worker, NEW i \in Slot, NEW a, Shape(a, i),
           act' = [act EXCEPT ![w][i] = a]
    PROVE  /\ act' \in [Worker -> [Slot -> Actor]]
           /\ act'[w][i] = a
           /\ \A v \in Worker, j \in Slot : v # w \/ j # i => act'[v][j] = act[v][j]
           /\ \A v \in Worker, j \in Slot : Shape(act'[v][j], j)
  <1>1. act \in [Worker -> [Slot -> Actor]] /\ \A v \in Worker, j \in Slot : Shape(act[v][j], j)
    BY DEF TypeInv
  <1>2. a \in Actor
    BY DEF Shape
  <1>3. act' \in [Worker -> [Slot -> Actor]]
    BY <1>1, <1>2
  <1>4. \A v \in Worker, j \in Slot : act'[v][j] = IF v = w /\ j = i THEN a ELSE act[v][j]
    BY <1>1, <1>2
  <1> QED
    BY <1>1, <1>3, <1>4

LEMMA TroubleBound ==
    ASSUME TypeInv, Trouble
    PROVE  trouble' \in 0..MaxTrouble
  BY DEF TypeInv, Trouble

LEMMA KilledFacts ==
    ASSUME TypeInv, NEW p \in 0..MaxPid
    PROVE  /\ Killed(p) \in [Pid -> Process]
           /\ \A q \in Pid : \/ Killed(p)[q] = proc[q]
                             \/ q = p /\ Killed(p)[q].st = "dead" /\ is_alive(q)
           /\ p # 0 => Killed(p)[p].st \in {"none", "dead"}
  <1>1. proc \in [Pid -> Process]
    BY DEF TypeInv
  <1>2. CASE is_alive(p)
    <2>1. p \in Pid
      BY <1>2 DEF is_alive, Pid
    <2>2. PICK q : q = [proc[p] EXCEPT !.st = "dead"]
      OBVIOUS
    <2>3. q \in Process /\ q.st = "dead"
      BY <1>1, <2>1, <2>2 DEF Process
    <2>4. Killed(p) = [proc EXCEPT ![p] = q]
      BY <1>2, <2>2 DEF Killed
    <2> QED
      BY <1>1, <1>2, <2>1, <2>3, <2>4
  <1>3. CASE ~is_alive(p)
    <2>1. Killed(p) = proc
      BY <1>3 DEF Killed
    <2>2. ASSUME p # 0 PROVE proc[p].st \in {"none", "dead"}
      <3>1. p \in Pid
        BY <2>2 DEF Pid
      <3>2. proc[p] \in Process
        BY <1>1, <3>1
      <3> QED
        BY <1>3, <2>2, <3>2 DEF is_alive, Process
    <2> QED
      BY <1>1, <2>1, <2>2
  <1> QED
    BY <1>2, <1>3

\* One row changes.
LEMMA RowChange ==
    ASSUME TypeInv, NEW t \in Task, NEW r \in Row, row' = [row EXCEPT ![t] = r]
    PROVE  /\ row' \in [Task -> Row]
           /\ row'[t] = r
           /\ \A u \in Task : u # t => row'[u] = row[u]
  BY DEF TypeInv

\* One process changes.
LEMMA ProcChange ==
    ASSUME TypeInv, NEW p \in Pid, NEW q \in Process, proc' = [proc EXCEPT ![p] = q]
    PROVE  /\ proc' \in [Pid -> Process]
           /\ proc'[p] = q
           /\ \A k \in Pid : k # p => proc'[k] = proc[k]
  BY DEF TypeInv

\* The actor that acts is the only one at work.
LEMMA OthersIdle ==
    ASSUME Turns, NEW w \in Worker, NEW i \in Slot, Busy(w, i) \/ Alone
    PROVE  \A v \in Worker, j \in Slot : v # w \/ j # i => ~Busy(v, j)
  BY DEF Turns, Alone, Slot

LEMMA TurnsStep ==
    ASSUME Turns, NEW w \in Worker, NEW i \in Slot, Busy(w, i) \/ Alone,
           \A v \in Worker, j \in Slot : v # w \/ j # i => act'[v][j] = act[v][j]
    PROVE  Turns'
  <1>1. \A v \in Worker, j \in Slot : v # w \/ j # i => ~Busy(v, j)'
    BY OthersIdle DEF Busy
  <1> QED
    BY <1>1 DEF Turns

\* What the others know of their rows is not touched, as long as the row that
\* changes was not started, or keeps its process and does not wait.
LEMMA OthersOK ==
    ASSUME TypeInv, Turns, Actors, NEW w \in Worker, NEW i \in Slot, Busy(w, i) \/ Alone,
           \A v \in Worker, j \in Slot : v # w \/ j # i => act'[v][j] = act[v][j],
           \A t \in Task : \/ row'[t] = row[t]
                           \/ row[t].status \in {"none", "queued"}
                           \/ /\ row'[t].status \notin {"none", "queued"}
                              /\ row'[t].pid = row[t].pid
    PROVE  \A v \in Worker, j \in Slot : v # w \/ j # i => ActorOK(v, j)'
  <1> SUFFICES ASSUME NEW v \in Worker, NEW j \in Slot, v # w \/ j # i
               PROVE  ActorOK(v, j)'
    OBVIOUS
  <1>1. act'[v][j] = act[v][j] /\ act[v][j].pc \in {"off", "new", "loop"}
    BY OthersIdle DEF Busy
  <1>2. act[v][j].pc \in {"new", "loop"} => j \in Task
    BY DEF TypeInv, Shape, Slot, Task
  <1>3. ActorOK(v, j)
    BY DEF Actors
  <1>4. act[v][j].pc \in {"new", "loop"} =>
          row'[j].status \notin {"none", "queued"} /\ row'[j].pid = row[j].pid
    BY <1>2, <1>3 DEF ActorOK
  <1> QED
    BY <1>1, <1>3, <1>4 DEF ActorOK

-----------------------------------------------------------------------------
(* Each operation preserves the invariant *)

LEMMA SubmitStep ==
    ASSUME QueueInv, NEW w \in Worker, Submit(w)
    PROVE  QueueInv'
  <1>1. TypeInv
    BY DEF QueueInv
  <1>2. PICK t \in Task :
          /\ act[w][0].pc = "off"
          /\ row[t].status = "none"
          /\ row' = [row EXCEPT ![t].status = "queued"]
          /\ act' = [act EXCEPT ![w][0].pc = "look"]
          /\ calm' = (calm /\ Alone)
          /\ stalled' = (stalled /\ \E p \in Pid : is_alive(p))
          /\ UNCHANGED <<proc, sock, trouble>>
    BY DEF Submit
  <1>3. PICK a : a = [act[w][0] EXCEPT !.pc = "look"]
    OBVIOUS
  <1>4. act[w][0] \in Actor
    BY <1>1, Numbers DEF TypeInv
  <1>5. Shape(a, 0) /\ a.pc = "look"
    BY <1>3, <1>4 DEF Shape, Actor
  <1>6. act' = [act EXCEPT ![w][0] = a]
    BY <1>2, <1>3
  <1>7. PICK r : r = [row[t] EXCEPT !.status = "queued"]
    OBVIOUS
  <1>8. r \in Row /\ r.status = "queued" /\ row' = [row EXCEPT ![t] = r]
    BY <1>1, <1>2, <1>7 DEF TypeInv, Row
  <1>9. /\ row' \in [Task -> Row]
        /\ row'[t] = r
        /\ \A u \in Task : u # t => row'[u] = row[u]
    BY <1>1, <1>8, RowChange
  <1>10. /\ act' \in [Worker -> [Slot -> Actor]]
         /\ act'[w][0] = a
         /\ \A v \in Worker, j \in Slot : v # w \/ j # 0 => act'[v][j] = act[v][j]
         /\ \A v \in Worker, j \in Slot : Shape(act'[v][j], j)
    BY <1>1, <1>5, <1>6, ActorChange, Numbers
  <1>11. calm' \in BOOLEAN /\ (calm' => calm /\ Alone) /\ stalled' \in BOOLEAN
    BY <1>1, <1>2 DEF TypeInv
  <1>12. TypeInv'
    BY <1>1, <1>2, <1>9, <1>10, <1>11 DEF TypeInv
  <1>13. ASSUME calm' PROVE CalmInv'
    <2>1. CalmInv /\ Alone
      BY <1>11, <1>13 DEF QueueInv
    <2>2. Turns'
      BY <2>1, <1>10, TurnsStep, Numbers DEF CalmInv
    <2>3. Guarded'
      <3> SUFFICES ASSUME NEW p \in Pid, proc[p].st = "starting"
                   PROVE  \E u \in Task : row'[u].status = "running" /\ row'[u].pid = p
        BY <1>2 DEF Guarded
      <3>1. \A v \in Worker, j \in Slot : act[v][j].pc # "save"
        BY <2>1 DEF Alone, Busy, Slot
      <3> QED
        BY <1>2, <1>9, <2>1, <3>1 DEF CalmInv, Guarded
    <2>4. Bound' /\ OneAlive'
      BY <1>2, <2>1 DEF CalmInv, Bound, OneAlive, is_alive
    <2>5. \A v \in Worker, j \in Slot : v # w \/ j # 0 => ActorOK(v, j)'
      BY <1>1, <1>2, <1>9, <1>10, <2>1, OthersOK, Numbers DEF CalmInv
    <2>6. ActorOK(w, 0)'
      BY <1>5, <1>10 DEF ActorOK
    <2> QED
      BY <2>2, <2>3, <2>4, <2>5, <2>6 DEF CalmInv, Actors
  <1> QED
    BY <1>12, <1>13 DEF QueueInv

LEMMA CancelStopStep ==
    ASSUME QueueInv, NEW w \in Worker, NEW t \in Task, CancelStop(w, t)
    PROVE  QueueInv'
  <1> USE Numbers
  <1>1. TypeInv
    BY DEF QueueInv
  <1>2. /\ row[t] \in Row
        /\ act[w][0].pc = "off"
        /\ trouble' \in 0..MaxTrouble
        /\ calm' \in BOOLEAN /\ (calm' => calm /\ Alone)
        /\ UNCHANGED <<row, sock, stalled>>
    <2>1. row[t] \in Row
      BY <1>1 DEF TypeInv
    <2>2. trouble' \in 0..MaxTrouble
      BY <1>1, TroubleBound DEF CancelStop
    <2>3. calm' = (calm /\ Alone)
      BY DEF CancelStop
    <2>4. calm' \in BOOLEAN /\ (calm' => calm /\ Alone)
      BY <2>3
    <2> QED
      BY <2>1, <2>2, <2>4 DEF CancelStop
  <1>3. PICK p \in 0..MaxPid : p = row[t].pid
    BY <1>2 DEF Row
  <1>4. /\ proc' \in [Pid -> Process]
        /\ \A q \in Pid : \/ proc'[q] = proc[q]
                          \/ q = p /\ proc'[q].st = "dead" /\ is_alive(q)
        /\ p # 0 => proc'[p].st \in {"none", "dead"}
    <2>1. proc' = Killed(p)
      BY <1>3 DEF CancelStop
    <2> QED
      BY <1>1, <2>1, KilledFacts
  <1>5. PICK a : a = [pc |-> "cancel", task |-> t, pid |-> p, end |-> ""]
    OBVIOUS
  <1>6. Shape(a, 0)
    BY <1>5 DEF Shape, Actor, Slot
  <1>7. act' = [act EXCEPT ![w][0] = a]
    BY <1>3, <1>5 DEF CancelStop
  <1>8. /\ act' \in [Worker -> [Slot -> Actor]]
        /\ act'[w][0] = a
        /\ \A v \in Worker, j \in Slot : v # w \/ j # 0 => act'[v][j] = act[v][j]
        /\ \A v \in Worker, j \in Slot : Shape(act'[v][j], j)
    BY <1>1, <1>6, <1>7, ActorChange
  <1>9. TypeInv'
    BY <1>1, <1>2, <1>4, <1>8 DEF TypeInv
  <1>10. ASSUME calm' PROVE CalmInv'
    <2>1. CalmInv /\ Alone
      BY <1>2, <1>10 DEF QueueInv
    <2>2. Turns'
      BY <2>1, <1>8, TurnsStep DEF CalmInv
    <2>3. Guarded'
      <3> SUFFICES ASSUME NEW q \in Pid, proc'[q].st = "starting"
                   PROVE  \E u \in Task : row[u].status = "running" /\ row[u].pid = q
        BY <1>2 DEF Guarded
      <3>1. \A v \in Worker, j \in Slot : act[v][j].pc # "save"
        BY <2>1 DEF Alone, Busy, Slot
      <3>2. proc[q].st = "starting"
        BY <1>4
      <3> QED
        BY <2>1, <3>1, <3>2 DEF CalmInv, Guarded
    <2>4. Bound' /\ OneAlive'
      BY <1>2, <1>4, <2>1 DEF CalmInv, Bound, OneAlive, is_alive
    <2>5. \A v \in Worker, j \in Slot : v # w \/ j # 0 => ActorOK(v, j)'
      BY <1>1, <1>2, <1>8, <2>1, OthersOK DEF CalmInv
    <2>6. ActorOK(w, 0)'
      <3>1. a.pc = "cancel" /\ a.task = t /\ a.pid = p
        BY <1>5
      <3>2. ~is_alive(p)'
        BY <1>4 DEF is_alive
      <3> QED
        BY <1>2, <1>3, <1>8, <3>1, <3>2 DEF ActorOK
    <2> QED
      BY <2>2, <2>3, <2>4, <2>5, <2>6 DEF CalmInv, Actors
  <1> QED
    BY <1>9, <1>10 DEF QueueInv

LEMMA CancelSaveStep ==
    ASSUME QueueInv, NEW w \in Worker, CancelSave(w)
    PROVE  QueueInv'
  <1> USE Numbers
  <1>1. TypeInv
    BY DEF QueueInv
  <1>2. /\ act[w][0].pc = "cancel"
        /\ UNCHANGED <<proc, sock, trouble, calm, stalled>>
    BY DEF CancelSave
  <1>3. PICK t \in Task, p \in 0..MaxPid : t = act[w][0].task /\ p = act[w][0].pid
    BY <1>1, <1>2 DEF TypeInv, Shape, Actor
  <1>4. PICK r \in Row : r = [status |-> "cancelled", pid |-> p]
    BY DEF Row
  <1>5. /\ row' \in [Task -> Row]
        /\ row'[t] = r
        /\ \A u \in Task : u # t => row'[u] = row[u]
    <2>1. row' = [row EXCEPT ![t] = r]
      BY <1>3, <1>4 DEF CancelSave
    <2> QED
      BY <1>1, <2>1, RowChange
  <1>6. /\ act' \in [Worker -> [Slot -> Actor]]
        /\ act'[w][0] = Off
        /\ \A v \in Worker, j \in Slot : v # w \/ j # 0 => act'[v][j] = act[v][j]
        /\ \A v \in Worker, j \in Slot : Shape(act'[v][j], j)
    <2>1. act' = [act EXCEPT ![w][0] = Off]
      BY DEF CancelSave, Ends
    <2> QED
      BY <1>1, <2>1, OffShape, ActorChange
  <1>7. TypeInv'
    BY <1>1, <1>2, <1>5, <1>6 DEF TypeInv
  <1>8. ASSUME calm' PROVE CalmInv'
    <2>1. CalmInv /\ Busy(w, 0)
      BY <1>2, <1>8 DEF QueueInv, Busy
    <2>2. Turns'
      BY <2>1, <1>6, TurnsStep DEF CalmInv
    <2>3. p = row[t].pid /\ ~is_alive(p)
      BY <1>2, <1>3, <2>1 DEF CalmInv, Actors, ActorOK
    <2>4. Guarded'
      <3> SUFFICES ASSUME NEW q \in Pid, proc[q].st = "starting"
                   PROVE  \E u \in Task : row'[u].status = "running" /\ row'[u].pid = q
        BY <1>2 DEF Guarded
      <3>1. \A v \in Worker, j \in Slot : act[v][j].pc # "save"
        BY <2>1, <1>2, OthersIdle DEF Busy, CalmInv
      <3>2. q # p
        BY <2>3 DEF is_alive
      <3>3. PICK u \in Task : row[u].status = "running" /\ row[u].pid = q
        BY <2>1, <3>1 DEF CalmInv, Guarded
      <3> QED
        BY <1>5, <2>3, <3>2, <3>3
    <2>5. Bound' /\ OneAlive'
      BY <1>2, <2>1 DEF CalmInv, Bound, OneAlive, is_alive
    <2>6. \A v \in Worker, j \in Slot : v # w \/ j # 0 => ActorOK(v, j)'
      BY <1>1, <1>4, <1>5, <1>6, <2>1, <2>3, OthersOK DEF CalmInv
    <2>7. ActorOK(w, 0)'
      BY <1>6, OffShape DEF ActorOK
    <2> QED
      BY <2>2, <2>4, <2>5, <2>6, <2>7 DEF CalmInv, Actors
  <1> QED
    BY <1>7, <1>8 DEF QueueInv

\* A handler that only looks: the rows, processes and socket stay.
LEMMA LookStep ==
    ASSUME QueueInv, NEW w \in Worker, NEW i \in Slot, NEW a, Shape(a, i),
           act' = [act EXCEPT ![w][i] = a],
           act[w][i].pc \in {"look", "check"}, a.pc \in {"off", "check", "spawn"},
           calm => ActorOK(w, i)',
           UNCHANGED <<row, proc, sock, trouble, calm, stalled>>
    PROVE  QueueInv'
  <1>1. TypeInv
    BY DEF QueueInv
  <1>2. /\ act' \in [Worker -> [Slot -> Actor]]
        /\ act'[w][i] = a
        /\ \A v \in Worker, j \in Slot : v # w \/ j # i => act'[v][j] = act[v][j]
        /\ \A v \in Worker, j \in Slot : Shape(act'[v][j], j)
    BY <1>1, ActorChange
  <1>3. TypeInv'
    BY <1>1, <1>2 DEF TypeInv
  <1>4. ASSUME calm PROVE CalmInv'
    <2>1. CalmInv /\ Busy(w, i)
      BY <1>4 DEF QueueInv, Busy
    <2>2. Turns'
      BY <2>1, <1>2, TurnsStep DEF CalmInv
    <2>3. Guarded'
      <3> SUFFICES ASSUME NEW q \in Pid, proc[q].st = "starting"
                   PROVE  \E u \in Task : row[u].status = "running" /\ row[u].pid = q
        BY DEF Guarded
      <3>1. \A v \in Worker, j \in Slot : act[v][j].pc # "save"
        BY <2>1, OthersIdle DEF Busy, CalmInv
      <3> QED
        BY <2>1, <3>1 DEF CalmInv, Guarded
    <2>4. Bound' /\ OneAlive'
      BY <2>1 DEF CalmInv, Bound, OneAlive, is_alive
    <2>5. \A v \in Worker, j \in Slot : v # w \/ j # i => ActorOK(v, j)'
      BY <1>1, <1>2, <2>1, OthersOK DEF CalmInv
    <2> QED
      BY <1>4, <2>2, <2>3, <2>4, <2>5 DEF CalmInv, Actors
  <1> QED
    BY <1>3, <1>4 DEF QueueInv

LEMMA PickStep ==
    ASSUME QueueInv, NEW w \in Worker, NEW i \in Slot, Pick(w, i)
    PROVE  QueueInv'
  <1> USE Numbers
  <1>1. TypeInv
    BY DEF QueueInv
  <1>2. act[w][i].pc = "look" /\ UNCHANGED <<row, proc, sock, trouble, calm, stalled>>
    BY DEF Pick
  <1>3. CASE Waiting = {}
    <2>1. act' = [act EXCEPT ![w][i] = Off]
      BY <1>3 DEF Pick, Ends
    <2>2. act'[w][i] = Off
      BY <1>1, <2>1, OffShape, ActorChange
    <2>3. ActorOK(w, i)'
      BY <2>2, OffShape DEF ActorOK
    <2> QED
      BY <1>2, <2>1, <2>3, OffShape, LookStep
  <1>4. CASE Waiting # {}
    <2>1. PICK t \in Task :
            /\ t = find_waiting_for
            /\ row[t].status = "queued"
            /\ \A u \in 1..t - 1 : row[u].status # "queued"
      <3>1. Waiting \subseteq Nat /\ Waiting \subseteq Task
        BY DEF Waiting, Task
      <3>2. Min(Waiting) \in Waiting /\ \A u \in Waiting : Min(Waiting) <= u
        BY <1>4, <3>1, MinExists
      <3>3. PICK t \in Task : t = Min(Waiting)
        BY <3>1, <3>2
      <3>4. \A u \in 1..t - 1 : u \in Task /\ ~(t <= u)
        BY DEF Task
      <3>5. \A u \in 1..t - 1 : row[u].status # "queued"
        BY <3>2, <3>3, <3>4 DEF Waiting
      <3> QED
        BY <3>2, <3>3, <3>5 DEF Waiting, find_waiting_for
    <2>2. PICK a : a = [pc |-> "check", task |-> t, pid |-> 0, end |-> ""]
      OBVIOUS
    <2>3. Shape(a, i)
      BY <2>2 DEF Shape, Actor, Slot
    <2>4. act' = [act EXCEPT ![w][i] = a]
      BY <1>4, <2>1, <2>2 DEF Pick
    <2>5. act'[w][i] = a
      BY <1>1, <2>3, <2>4, ActorChange
    <2>6. a.pc = "check" /\ a.task = t
      BY <2>2
    <2>7. ActorOK(w, i)'
      BY <1>2, <2>1, <2>5, <2>6 DEF ActorOK
    <2> QED
      BY <1>2, <2>3, <2>4, <2>6, <2>7, LookStep
  <1> QED
    BY <1>3, <1>4

LEMMA CheckStep ==
    ASSUME QueueInv, NEW w \in Worker, NEW i \in Slot, Check(w, i)
    PROVE  QueueInv'
  <1>1. TypeInv
    BY DEF QueueInv
  <1>2. act[w][i].pc = "check" /\ UNCHANGED <<row, proc, sock, trouble, calm, stalled>>
    BY DEF Check
  <1>3. CASE AliveRunning
    <2>1. act' = [act EXCEPT ![w][i] = Off]
      BY <1>3 DEF Check, Ends
    <2>2. act'[w][i] = Off
      BY <1>1, <2>1, OffShape, ActorChange
    <2>3. ActorOK(w, i)'
      BY <2>2, OffShape DEF ActorOK
    <2> QED
      BY <1>2, <2>1, <2>3, OffShape, LookStep
  <1>4. CASE ~AliveRunning
    <2>1. PICK a : a = [act[w][i] EXCEPT !.pc = "spawn"]
      OBVIOUS
    <2>2. act[w][i] \in Actor /\ Shape(act[w][i], i)
      BY <1>1 DEF TypeInv
    <2>3. Shape(a, i) /\ a.pc = "spawn" /\ a.task = act[w][i].task
      BY <1>2, <2>1, <2>2 DEF Shape, Actor
    <2>4. act' = [act EXCEPT ![w][i] = a]
      BY <1>4, <2>1 DEF Check
    <2>5. act'[w][i] = a
      BY <1>1, <2>3, <2>4, ActorChange
    <2>6. ASSUME calm PROVE ActorOK(w, i)'
      <3>1. CalmInv /\ Busy(w, i)
        BY <1>2, <2>6 DEF QueueInv, Busy
      <3>2. \A v \in Worker, j \in Slot : act[v][j].pc # "save"
        BY <1>2, <3>1, OthersIdle DEF Busy, CalmInv
      <3>3. \A p \in Pid : proc[p].st # "starting"
        <4> SUFFICES ASSUME NEW p \in Pid, proc[p].st = "starting" PROVE AliveRunning
          BY <1>4
        <4>1. PICK t \in Task : row[t].status = "running" /\ row[t].pid = p
          BY <3>1, <3>2 DEF CalmInv, Guarded
        <4>2. is_alive(p)
          BY Numbers DEF is_alive
        <4> QED
          BY <4>1, <4>2 DEF AliveRunning
      <3>4. ActorOK(w, i)
        BY <3>1 DEF CalmInv, Actors
      <3> QED
        BY <1>2, <2>3, <2>5, <3>3, <3>4 DEF ActorOK
    <2> QED
      BY <1>2, <2>3, <2>4, <2>6, LookStep
  <1> QED
    BY <1>3, <1>4

LEMMA SpawnStep ==
    ASSUME QueueInv, NEW w \in Worker, NEW i \in Slot, Spawn(w, i)
    PROVE  QueueInv'
  <1> USE Numbers
  <1>1. TypeInv
    BY DEF QueueInv
  <1>2. PICK p \in Pid :
          /\ proc[p].st = "none"
          /\ proc' = [proc EXCEPT ![p] = [task |-> act[w][i].task, st |-> "starting", said |-> ""]]
          /\ act' = [act EXCEPT ![w][i] = [@ EXCEPT !.pc = "save", !.pid = p]]
    BY DEF Spawn
  <1>3. /\ act[w][i].pc = "spawn"
        /\ ~Served
        /\ sock' = 0
        /\ UNCHANGED <<row, trouble, calm, stalled>>
    BY DEF Spawn
  <1>4. act[w][i] \in Actor /\ Shape(act[w][i], i)
    BY <1>1 DEF TypeInv
  <1>5. PICK t \in Task : t = act[w][i].task
    BY <1>3, <1>4 DEF Shape
  <1>6. PICK a : a = [act[w][i] EXCEPT !.pc = "save", !.pid = p]
    OBVIOUS
  <1>7. a = [pc |-> "save", task |-> t, pid |-> p, end |-> act[w][i].end]
    BY <1>4, <1>5, <1>6 DEF Actor
  <1>8. Shape(a, i) /\ a.pc = "save" /\ a.task = t /\ a.pid = p
    BY <1>4, <1>7 DEF Shape, Actor, Slot
  <1>9. /\ act' \in [Worker -> [Slot -> Actor]]
        /\ act'[w][i] = a
        /\ \A v \in Worker, j \in Slot : v # w \/ j # i => act'[v][j] = act[v][j]
        /\ \A v \in Worker, j \in Slot : Shape(act'[v][j], j)
    <2>1. act' = [act EXCEPT ![w][i] = a]
      BY <1>2, <1>6, Zenon
    <2> QED
      BY <1>1, <1>8, <2>1, ActorChange
  <1>10. PICK q : q = [task |-> t, st |-> "starting", said |-> ""]
    OBVIOUS
  <1>11. /\ proc' \in [Pid -> Process]
         /\ proc'[p] = q
         /\ \A k \in Pid : k # p => proc'[k] = proc[k]
    <2>1. q \in Process
      BY <1>10 DEF Process, Slot
    <2> QED
      BY <1>1, <1>2, <1>5, <1>10, <2>1, ProcChange
  <1>12. TypeInv'
    BY <1>1, <1>3, <1>9, <1>11 DEF TypeInv
  <1>13. ASSUME calm PROVE CalmInv'
    <2>1. CalmInv /\ Busy(w, i)
      BY <1>3, <1>13 DEF QueueInv, Busy
    <2>2. Turns'
      BY <2>1, <1>9, TurnsStep DEF CalmInv
    <2>3. ActorOK(w, i)
      BY <2>1 DEF CalmInv, Actors
    <2>4. \A k \in Pid : proc[k].st \notin {"starting", "copying", "done"}
      <3> SUFFICES ASSUME NEW k \in Pid, proc[k].st \in {"copying", "done"} PROVE FALSE
        BY <1>3, <2>3 DEF ActorOK
      <3>1. sock = k
        BY <2>1 DEF CalmInv, Bound
      <3> QED
        BY <1>3, <3>1 DEF Served, is_alive
    <2>5. \A k \in Pid : k # p => proc'[k].st \notin {"starting", "copying", "done"}
      BY <1>11, <2>4
    <2>6. Guarded'
      BY <1>8, <1>9, <2>5 DEF Guarded
    <2>7. Bound' /\ OneAlive'
      <3>1. q.st = "starting"
        BY <1>10
      <3>2. \A k \in Pid : proc'[k].st \in {"copying", "done"} => FALSE
        BY <1>11, <2>5, <3>1
      <3>3. \A k \in Pid : is_alive(k)' => k = p
        BY <2>5 DEF is_alive
      <3> QED
        BY <3>2, <3>3 DEF Bound, OneAlive
    <2>8. \A v \in Worker, j \in Slot : v # w \/ j # i => ActorOK(v, j)'
      BY <1>1, <1>3, <1>9, <2>1, OthersOK DEF CalmInv
    <2>9. ActorOK(w, i)'
      BY <1>3, <1>5, <1>8, <1>9, <2>3 DEF ActorOK
    <2> QED
      BY <2>2, <2>6, <2>7, <2>8, <2>9 DEF CalmInv, Actors
  <1> QED
    BY <1>3, <1>12, <1>13 DEF QueueInv

LEMMA SpawnFailsStep ==
    ASSUME QueueInv, NEW w \in Worker, NEW i \in Slot, SpawnFails(w, i)
    PROVE  QueueInv'
  <1> USE Numbers
  <1>1. TypeInv
    BY DEF QueueInv
  <1>2. act[w][i].pc = "spawn" /\ stalled' = TRUE /\ UNCHANGED <<proc, sock, calm>>
    BY DEF SpawnFails
  <1>3. trouble' \in 0..MaxTrouble
    BY <1>1, TroubleBound DEF SpawnFails, TypeInv
  <1>4. PICK t \in Task : t = act[w][i].task
    BY <1>1, <1>2 DEF TypeInv, Shape
  <1>5. PICK r \in Row : r = [status |-> "failed", pid |-> 0]
    BY DEF Row
  <1>6. /\ row' \in [Task -> Row]
        /\ row'[t] = r
        /\ \A u \in Task : u # t => row'[u] = row[u]
    <2>1. row' = [row EXCEPT ![t] = r]
      BY <1>4, <1>5 DEF SpawnFails
    <2> QED
      BY <1>1, <2>1, RowChange
  <1>7. /\ act' \in [Worker -> [Slot -> Actor]]
        /\ act'[w][i] = Off
        /\ \A v \in Worker, j \in Slot : v # w \/ j # i => act'[v][j] = act[v][j]
        /\ \A v \in Worker, j \in Slot : Shape(act'[v][j], j)
    <2>1. act' = [act EXCEPT ![w][i] = Off]
      BY DEF SpawnFails, Ends
    <2> QED
      BY <1>1, <2>1, OffShape, ActorChange
  <1>8. TypeInv'
    BY <1>1, <1>2, <1>3, <1>6, <1>7 DEF TypeInv
  <1>9. ASSUME calm PROVE CalmInv'
    <2>1. CalmInv /\ Busy(w, i)
      BY <1>2, <1>9 DEF QueueInv, Busy
    <2>2. Turns'
      BY <2>1, <1>7, TurnsStep DEF CalmInv
    <2>3. row[t].status = "queued"
      BY <1>2, <1>4, <2>1 DEF CalmInv, Actors, ActorOK
    <2>4. Guarded'
      <3> SUFFICES ASSUME NEW q \in Pid, proc[q].st = "starting"
                   PROVE  \E u \in Task : row'[u].status = "running" /\ row'[u].pid = q
        BY <1>2 DEF Guarded
      <3>1. \A v \in Worker, j \in Slot : act[v][j].pc # "save"
        BY <2>1, <1>2, OthersIdle DEF Busy, CalmInv
      <3>2. PICK u \in Task : row[u].status = "running" /\ row[u].pid = q
        BY <2>1, <3>1 DEF CalmInv, Guarded
      <3> QED
        BY <1>6, <2>3, <3>2
    <2>5. Bound' /\ OneAlive'
      BY <1>2, <2>1 DEF CalmInv, Bound, OneAlive, is_alive
    <2>6. \A v \in Worker, j \in Slot : v # w \/ j # i => ActorOK(v, j)'
      BY <1>1, <1>6, <1>7, <2>1, <2>3, OthersOK DEF CalmInv
    <2>7. ActorOK(w, i)'
      BY <1>7, OffShape DEF ActorOK
    <2> QED
      BY <2>2, <2>4, <2>5, <2>6, <2>7 DEF CalmInv, Actors
  <1> QED
    BY <1>2, <1>8, <1>9 DEF QueueInv

LEMMA SaveStep ==
    ASSUME QueueInv, NEW w \in Worker, NEW i \in Slot, Save(w, i)
    PROVE  QueueInv'
  <1> USE Numbers
  <1>1. TypeInv
    BY DEF QueueInv
  <1>2. act[w][i].pc = "save" /\ UNCHANGED <<proc, sock, trouble, calm, stalled>>
    BY DEF Save
  <1>3. act[w][i] \in Actor /\ Shape(act[w][i], i)
    BY <1>1 DEF TypeInv
  <1>4. PICK t \in Task, p \in Pid : t = act[w][i].task /\ p = act[w][i].pid
    BY <1>2, <1>3 DEF Shape
  <1>5. PICK r \in Row : r = [status |-> "running", pid |-> p]
    BY DEF Row
  <1>6. /\ row' \in [Task -> Row]
        /\ row'[t] = r
        /\ \A u \in Task : u # t => row'[u] = row[u]
    <2>1. row' = [row EXCEPT ![t] = r]
      BY <1>4, <1>5 DEF Save, Running
    <2> QED
      BY <1>1, <2>1, RowChange
  <1>7. PICK a : a = [act[w][i] EXCEPT !.pc = "saved"]
    OBVIOUS
  <1>8. Shape(a, i) /\ a.pc = "saved" /\ a.task = t /\ a.pid = p
    BY <1>2, <1>3, <1>4, <1>7 DEF Shape, Actor
  <1>9. /\ act' \in [Worker -> [Slot -> Actor]]
        /\ act'[w][i] = a
        /\ \A v \in Worker, j \in Slot : v # w \/ j # i => act'[v][j] = act[v][j]
        /\ \A v \in Worker, j \in Slot : Shape(act'[v][j], j)
    <2>1. act' = [act EXCEPT ![w][i] = a]
      BY <1>7 DEF Save
    <2> QED
      BY <1>1, <1>8, <2>1, ActorChange
  <1>10. TypeInv'
    BY <1>1, <1>2, <1>6, <1>9 DEF TypeInv
  <1>11. ASSUME calm PROVE CalmInv'
    <2>1. CalmInv /\ Busy(w, i)
      BY <1>2, <1>11 DEF QueueInv, Busy
    <2>2. Turns'
      BY <2>1, <1>9, TurnsStep DEF CalmInv
    <2>3. row[t].status = "queued"
      BY <1>2, <1>4, <2>1 DEF CalmInv, Actors, ActorOK
    <2>4. Guarded'
      <3> SUFFICES ASSUME NEW q \in Pid, proc[q].st = "starting"
                   PROVE  \E u \in Task : row'[u].status = "running" /\ row'[u].pid = q
        BY <1>2 DEF Guarded
      <3>1. CASE q = p
        BY <1>5, <1>6, <3>1
      <3>2. CASE q # p
        <4>1. \A v \in Worker, j \in Slot : act[v][j].pc = "save" => act[v][j].pid = p
          BY <2>1, <1>4, OthersIdle DEF Busy, CalmInv
        <4>2. PICK u \in Task : row[u].status = "running" /\ row[u].pid = q
          BY <2>1, <3>2, <4>1 DEF CalmInv, Guarded
        <4> QED
          BY <1>6, <2>3, <4>2
      <3> QED
        BY <3>1, <3>2
    <2>5. Bound' /\ OneAlive'
      BY <1>2, <2>1 DEF CalmInv, Bound, OneAlive, is_alive
    <2>6. \A v \in Worker, j \in Slot : v # w \/ j # i => ActorOK(v, j)'
      BY <1>1, <1>6, <1>9, <2>1, <2>3, OthersOK DEF CalmInv
    <2>7. \A v \in Worker : act'[v][t].pc \notin {"new", "loop"}
      <3>1. \A v \in Worker : act[v][t].pc \notin {"new", "loop"}
        BY <2>1, <2>3 DEF CalmInv, Actors, ActorOK
      <3> QED
        BY <1>8, <1>9, <3>1
    <2>8. ActorOK(w, i)'
      BY <1>5, <1>6, <1>8, <1>9, <2>7 DEF ActorOK
    <2> QED
      BY <2>2, <2>4, <2>5, <2>6, <2>8 DEF CalmInv, Actors
  <1> QED
    BY <1>2, <1>10, <1>11 DEF QueueInv

LEMMA StartPollerStep ==
    ASSUME QueueInv, NEW w \in Worker, NEW i \in Slot, StartPoller(w, i)
    PROVE  QueueInv'
  <1> USE Numbers
  <1>1. TypeInv
    BY DEF QueueInv
  <1>2. act[w][i].pc = "saved" /\ UNCHANGED <<proc, sock, trouble, calm, stalled>>
    BY DEF StartPoller
  <1>3. PICK t \in Task, p \in Pid : t = act[w][i].task /\ p = act[w][i].pid
    BY <1>1, <1>2 DEF TypeInv, Shape
  <1>4. PICK r \in Row : r = [status |-> "running", pid |-> p]
    BY DEF Row
  <1>5. /\ row' \in [Task -> Row]
        /\ row'[t] = r
        /\ \A u \in Task : u # t => row'[u] = row[u]
    <2>1. row' = [row EXCEPT ![t] = r]
      BY <1>3, <1>4 DEF StartPoller, Running
    <2> QED
      BY <1>1, <2>1, RowChange
  <1>6. PICK f : f = [act EXCEPT ![w][i] = Off]
    OBVIOUS
  <1>7. /\ f \in [Worker -> [Slot -> Actor]]
        /\ f[w][i] = Off
        /\ \A v \in Worker, j \in Slot : v # w \/ j # i => f[v][j] = act[v][j]
        /\ \A v \in Worker, j \in Slot : Shape(f[v][j], j)
    BY <1>1, <1>6, OffShape, ActorUpdate DEF TypeInv
  <1>8. PICK pc : pc = IF f[w][t].pc = "off" THEN "new" ELSE f[w][t].pc
    OBVIOUS
  <1>9. PICK a : a = [f[w][t] EXCEPT !.pc = pc]
    OBVIOUS
  <1>10. f[w][t] \in Actor /\ Shape(f[w][t], t)
    BY <1>7
  <1>11. Shape(a, t) /\ a.pc = pc
    <2>1. a = [pc |-> pc, task |-> f[w][t].task, pid |-> f[w][t].pid, end |-> f[w][t].end]
      BY <1>9, <1>10 DEF Actor
    <2> QED
      BY <1>8, <1>10, <2>1 DEF Shape, Actor
  <1>12. /\ act' \in [Worker -> [Slot -> Actor]]
         /\ act'[w][t] = a
         /\ \A v \in Worker, j \in Slot : v # w \/ j # t => act'[v][j] = f[v][j]
         /\ \A v \in Worker, j \in Slot : Shape(act'[v][j], j)
    <2>1. act' = [f EXCEPT ![w][t].pc = IF @ = "off" THEN "new" ELSE @]
      BY <1>3, <1>6, Zenon DEF StartPoller, Ends
    <2>2. act' = [f EXCEPT ![w][t] = a]
      BY <1>8, <1>9, <2>1, Zenon
    <2> QED
      BY <1>7, <1>11, <2>2, ActorUpdate
  <1>13. TypeInv'
    BY <1>1, <1>2, <1>5, <1>12 DEF TypeInv
  <1>14. ASSUME calm PROVE CalmInv'
    <2>1. CalmInv /\ Busy(w, i)
      BY <1>2, <1>14 DEF QueueInv, Busy
    <2>2. ActorOK(w, i)
      BY <2>1 DEF CalmInv, Actors
    <2>3. row[t] = r
      <3>1. row[t].status = "running" /\ row[t].pid = p /\ row[t] \in Row
        BY <1>1, <1>2, <1>3, <2>2 DEF ActorOK, TypeInv
      <3> QED
        BY <1>4, <3>1 DEF Row
    <2>4. \A u \in Task : row'[u] = row[u]
      BY <1>5, <2>3
    <2>5. \A v \in Worker, j \in Slot : v # w \/ j # i => act[v][j].pc \in {"off", "new", "loop"}
      BY <2>1, OthersIdle DEF Busy, CalmInv
    <2>6. \A v \in Worker : act[v][t].pc \notin {"new", "loop"}
      BY <1>2, <1>3, <2>2 DEF ActorOK
    <2>7. a.pc = "new"
      <3>1. f[w][t].pc = "off"
        BY <1>7, <2>5, <2>6, OffShape
      <3> QED
        BY <1>8, <1>11, <3>1
    <2>8. \A v \in Worker, j \in Slot :
            \/ act'[v][j].pc = "off"
            \/ act'[v][j].pc = "new" /\ j = t
            \/ act'[v][j] = act[v][j] /\ act[v][j].pc \in {"new", "loop"} /\ j \in Task
      <3> SUFFICES ASSUME NEW v \in Worker, NEW j \in Slot
                   PROVE  \/ act'[v][j].pc = "off"
                          \/ act'[v][j].pc = "new" /\ j = t
                          \/ act'[v][j] = act[v][j] /\ act[v][j].pc \in {"new", "loop"} /\ j \in Task
        OBVIOUS
      <3>1. CASE v = w /\ j = t
        BY <1>12, <2>7, <3>1
      <3>2. CASE v = w /\ j = i /\ j # t
        BY <1>7, <1>12, <3>2, OffShape
      <3>3. CASE v # w \/ (j # t /\ j # i)
        <4>1. act'[v][j] = act[v][j]
          BY <1>7, <1>12, <3>3
        <4>2. act[v][j].pc \in {"off", "new", "loop"}
          BY <2>5, <3>3
        <4>3. act[v][j].pc \in {"new", "loop"} => j \in Task
          BY <1>1 DEF TypeInv, Shape, Slot, Task
        <4> QED
          BY <4>1, <4>2, <4>3
      <3> QED
        BY <3>1, <3>2, <3>3
    <2>9. Turns'
      BY <2>8 DEF Turns, Busy
    <2>10. Guarded'
      <3> SUFFICES ASSUME NEW q \in Pid, proc[q].st = "starting"
                   PROVE  \E u \in Task : row'[u].status = "running" /\ row'[u].pid = q
        BY <1>2 DEF Guarded
      <3>1. \A v \in Worker, j \in Slot : act[v][j].pc # "save"
        BY <1>2, <2>5
      <3> QED
        BY <2>1, <2>4, <3>1 DEF CalmInv, Guarded
    <2>11. Bound' /\ OneAlive'
      BY <1>2, <2>1 DEF CalmInv, Bound, OneAlive, is_alive
    <2>12. ASSUME NEW v \in Worker, NEW j \in Slot PROVE ActorOK(v, j)'
      <3>1. CASE act'[v][j].pc = "off"
        BY <3>1 DEF ActorOK
      <3>2. CASE act'[v][j].pc = "new" /\ j = t
        BY <1>4, <1>5, <3>2 DEF ActorOK
      <3>3. CASE act'[v][j] = act[v][j] /\ act[v][j].pc \in {"new", "loop"} /\ j \in Task
        <4>1. ActorOK(v, j)
          BY <2>1 DEF CalmInv, Actors
        <4> QED
          BY <2>4, <3>3, <4>1 DEF ActorOK
      <3> QED
        BY <2>8, <3>1, <3>2, <3>3
    <2> QED
      BY <2>9, <2>10, <2>11, <2>12 DEF CalmInv, Actors
  <1> QED
    BY <1>2, <1>13, <1>14 DEF QueueInv

\* A thread that polls loads its row or leaves.
LEMMA IdleStep ==
    ASSUME TypeInv, CalmInv, NEW w \in Worker, NEW t \in Task, NEW a,
           act[w][t].pc \in {"new", "loop"}, a.pc \in {"off", "loop"},
           act' \in [Worker -> [Slot -> Actor]],
           act'[w][t] = a,
           \A v \in Worker, j \in Slot : v # w \/ j # t => act'[v][j] = act[v][j],
           \A u \in Task : u # t => row'[u] = row[u],
           \/ row'[t] = row[t]
           \/ /\ row[t].status # "queued"
              /\ row'[t].status \notin {"none", "queued"}
              /\ row'[t].pid = row[t].pid
              /\ \A p \in Pid : proc[p].st # "starting",
           ActorOK(w, t)',
           UNCHANGED <<proc, sock>>
    PROVE  CalmInv'
  <1> USE Numbers
  <1>1. Turns'
    BY DEF CalmInv, Turns, Busy
  <1>2. Guarded'
    <2> SUFFICES ASSUME NEW q \in Pid, proc[q].st = "starting"
                 PROVE  \/ \E u \in Task : row'[u].status = "running" /\ row'[u].pid = q
                        \/ \E v \in Worker, j \in Slot : act'[v][j].pc = "save" /\ act'[v][j].pid = q
      BY DEF Guarded
    <2>1. \A u \in Task : row'[u] = row[u]
      OBVIOUS
    <2>2. CASE \E u \in Task : row[u].status = "running" /\ row[u].pid = q
      BY <2>1, <2>2
    <2>3. CASE \E v \in Worker, j \in Slot : act[v][j].pc = "save" /\ act[v][j].pid = q
      <3>1. PICK v \in Worker, j \in Slot : act[v][j].pc = "save" /\ act[v][j].pid = q
        BY <2>3
      <3>2. act'[v][j] = act[v][j]
        BY <3>1
      <3> QED
        BY <3>1, <3>2
    <2> QED
      BY <2>2, <2>3 DEF CalmInv, Guarded
  <1>3. Bound' /\ OneAlive'
    BY DEF CalmInv, Bound, OneAlive, is_alive
  <1>4. ASSUME NEW v \in Worker, NEW j \in Slot, v # w \/ j # t
        PROVE  ActorOK(v, j)'
    <2>1. act'[v][j] = act[v][j] /\ Shape(act[v][j], j)
      BY <1>4 DEF TypeInv
    <2>2. ActorOK(v, j)
      BY DEF CalmInv, Actors
    <2>3. act[v][j].pc \in {"new", "loop", "final"} => j \in Task
      BY <2>1 DEF Shape, Slot, Task
    <2>4. \A u \in Task :
            /\ row'[u].pid = row[u].pid
            /\ row[u].status = "queued" => row'[u].status = "queued"
            /\ row[u].status # "queued" => row'[u].status # "queued"
            /\ row[u].status # "none" => row'[u].status # "none"
      OBVIOUS
    <2>5. act[v][j].pc \in {"check", "spawn", "save", "saved", "cancel"} => act[v][j].task \in Task
      BY <2>1 DEF Shape
    <2>6. CASE act[v][j].pc \in {"check", "spawn", "save"}
      <3>1. \A u \in 1..act[v][j].task - 1 : u \in Task
        BY <2>5, <2>6 DEF Task
      <3> QED
        BY <2>1, <2>2, <2>4, <2>5, <2>6, <3>1 DEF ActorOK
    <2>7. CASE act[v][j].pc = "saved"
      <3>1. PICK u \in Task : u = act[v][j].task
        BY <2>5, <2>7
      <3>2. \A x \in Worker : act[x][u].pc \notin {"new", "loop"}
        BY <2>2, <2>7, <3>1 DEF ActorOK
      <3>3. u # t
        BY <3>2
      <3>4. \A x \in Worker : act'[x][u].pc \notin {"new", "loop"}
        BY <3>2, <3>3
      <3>5. row'[u] = row[u]
        BY <3>3
      <3> QED
        BY <2>1, <2>2, <2>7, <3>1, <3>4, <3>5 DEF ActorOK
    <2>8. CASE act[v][j].pc = "cancel"
      BY <2>1, <2>2, <2>4, <2>5, <2>8 DEF ActorOK, is_alive
    <2>9. CASE act[v][j].pc \in {"new", "loop", "final"}
      BY <2>1, <2>2, <2>3, <2>4, <2>9 DEF ActorOK, is_alive
    <2>10. CASE act[v][j].pc \in {"off", "look"}
      BY <2>1, <2>10 DEF ActorOK
    <2> QED
      BY <2>1, <2>6, <2>7, <2>8, <2>9, <2>10 DEF Shape, Actor
  <1> QED
    BY <1>1, <1>2, <1>3, <1>4 DEF CalmInv, Actors

LEMMA PollLoadStep ==
    ASSUME QueueInv, NEW w \in Worker, NEW t \in Task, PollLoad(w, t)
    PROVE  QueueInv'
  <1> USE Numbers
  <1>1. TypeInv
    BY DEF QueueInv
  <1>2. act[w][t].pc = "new" /\ UNCHANGED <<proc, sock, trouble, calm>>
    BY DEF PollLoad
  <1>3. ASSUME calm PROVE CalmInv /\ row[t].status \notin {"none", "queued"}
    BY <1>2, <1>3 DEF QueueInv, CalmInv, Actors, ActorOK
  <1>4. CASE /\ row[t].status \in {"queued", "running"}
             /\ row' = [row EXCEPT ![t].status = "running"]
             /\ act' = [act EXCEPT ![w][t] = [pc |-> "loop", task |-> t, pid |-> row[t].pid, end |-> ""]]
             /\ UNCHANGED stalled
    <2>1. row[t] \in Row
      BY <1>1 DEF TypeInv
    <2>2. PICK p \in 0..MaxPid : p = row[t].pid
      BY <2>1 DEF Row
    <2>3. PICK a : a = [pc |-> "loop", task |-> t, pid |-> p, end |-> ""]
      OBVIOUS
    <2>4. Shape(a, t) /\ a.pc = "loop" /\ a.pid = p
      BY <2>3 DEF Shape, Actor, Slot
    <2>5. /\ act' \in [Worker -> [Slot -> Actor]]
          /\ act'[w][t] = a
          /\ \A v \in Worker, j \in Slot : v # w \/ j # t => act'[v][j] = act[v][j]
          /\ \A v \in Worker, j \in Slot : Shape(act'[v][j], j)
      <3>1. act' = [act EXCEPT ![w][t] = a]
        BY <1>4, <2>2, <2>3
      <3> QED
        BY <1>1, <2>4, <3>1, ActorChange
    <2>6. PICK r : r = [row[t] EXCEPT !.status = "running"]
      OBVIOUS
    <2>7. r \in Row /\ r.status = "running" /\ r.pid = p /\ (row[t].status = "running" => r = row[t])
      BY <2>1, <2>2, <2>6 DEF Row
    <2>8. /\ row' \in [Task -> Row]
          /\ row'[t] = r
          /\ \A u \in Task : u # t => row'[u] = row[u]
      <3>1. row' = [row EXCEPT ![t] = r]
        BY <1>4, <2>6
      <3> QED
        BY <1>1, <2>7, <3>1, RowChange
    <2>9. TypeInv'
      BY <1>1, <1>2, <1>4, <2>5, <2>8 DEF TypeInv
    <2>10. ASSUME calm PROVE CalmInv'
      <3>1. CalmInv /\ row'[t] = row[t]
        BY <1>3, <1>4, <2>7, <2>8, <2>10
      <3>2. ActorOK(w, t)'
        BY <2>4, <2>5, <2>7, <2>8 DEF ActorOK
      <3> QED
        BY <1>1, <1>2, <2>4, <2>5, <2>8, <3>1, <3>2, IdleStep
    <2> QED
      BY <1>2, <2>9, <2>10 DEF QueueInv
  <1>5. CASE act' = Ends(w, t) /\ stalled' = TRUE /\ UNCHANGED row
    <2>1. /\ act' \in [Worker -> [Slot -> Actor]]
          /\ act'[w][t] = Off
          /\ \A v \in Worker, j \in Slot : v # w \/ j # t => act'[v][j] = act[v][j]
          /\ \A v \in Worker, j \in Slot : Shape(act'[v][j], j)
      <3>1. act' = [act EXCEPT ![w][t] = Off]
        BY <1>5 DEF Ends
      <3> QED
        BY <1>1, <3>1, OffShape, ActorChange
    <2>2. TypeInv'
      BY <1>1, <1>2, <1>5, <2>1 DEF TypeInv
    <2>3. ASSUME calm PROVE CalmInv'
      <3>1. ActorOK(w, t)'
        BY <2>1, OffShape DEF ActorOK
      <3> QED
        BY <1>1, <1>2, <1>3, <1>5, <2>1, <2>3, <3>1, OffShape, IdleStep
    <2> QED
      BY <1>2, <2>2, <2>3 DEF QueueInv
  <1> QED
    BY <1>4, <1>5 DEF PollLoad

LEMMA PollEndStep ==
    ASSUME QueueInv, NEW w \in Worker, NEW t \in Task, PollEnd(w, t)
    PROVE  QueueInv'
  <1> USE Numbers
  <1>1. TypeInv
    BY DEF QueueInv
  <1>2. act[w][t].pc = "loop" /\ UNCHANGED <<row, sock, stalled>>
    BY DEF PollEnd
  <1>3. act[w][t] \in Actor /\ Shape(act[w][t], t)
    BY <1>1 DEF TypeInv
  <1>4. PICK p \in 0..MaxPid : p = act[w][t].pid
    BY <1>3 DEF Actor
  <1>5. trouble' \in 0..MaxTrouble
    BY <1>1, TroubleBound DEF PollEnd, TypeInv
  <1>6. calm' \in BOOLEAN /\ (calm' => calm /\ Alone)
    <2>1. calm' = (calm /\ Alone)
      BY DEF PollEnd
    <2> QED
      BY <2>1
  <1>7. /\ proc' \in [Pid -> Process]
        /\ \A q \in Pid : \/ proc'[q] = proc[q]
                          \/ q = p /\ proc'[q].st = "dead" /\ is_alive(q)
        /\ p # 0 => proc'[p].st \in {"none", "dead"}
    <2>1. proc' = Killed(p)
      BY <1>4 DEF PollEnd
    <2> QED
      BY <1>1, <2>1, KilledFacts
  <1>8. PICK e : e = IF LogEnd(t) = "done" THEN "success" ELSE "failed"
    OBVIOUS
  <1>9. e \in {"success", "failed"}
    BY <1>8
  <1>10. PICK a : a = [act[w][t] EXCEPT !.pc = "final", !.end = e]
    OBVIOUS
  <1>11. a = [pc |-> "final", task |-> act[w][t].task, pid |-> p, end |-> e]
    BY <1>3, <1>4, <1>10 DEF Actor
  <1>12. Shape(a, t) /\ a.pc = "final" /\ a.pid = p
    BY <1>3, <1>9, <1>11 DEF Shape, Actor
  <1>13. /\ act' \in [Worker -> [Slot -> Actor]]
         /\ act'[w][t] = a
         /\ \A v \in Worker, j \in Slot : v # w \/ j # t => act'[v][j] = act[v][j]
         /\ \A v \in Worker, j \in Slot : Shape(act'[v][j], j)
    <2>1. act' = [act EXCEPT ![w][t] = a]
      BY <1>8, <1>10, Zenon DEF PollEnd
    <2> QED
      BY <1>1, <1>12, <2>1, ActorChange
  <1>14. TypeInv'
    BY <1>1, <1>2, <1>5, <1>6, <1>7, <1>13 DEF TypeInv
  <1>15. ASSUME calm' PROVE CalmInv'
    <2>1. CalmInv /\ Alone
      BY <1>6, <1>15 DEF QueueInv
    <2>2. Turns'
      BY <2>1, <1>13, TurnsStep DEF CalmInv
    <2>3. Guarded'
      <3> SUFFICES ASSUME NEW q \in Pid, proc'[q].st = "starting"
                   PROVE  \E u \in Task : row[u].status = "running" /\ row[u].pid = q
        BY <1>2 DEF Guarded
      <3>1. \A v \in Worker, j \in Slot : act[v][j].pc # "save"
        BY <2>1 DEF Alone, Busy, Slot
      <3>2. proc[q].st = "starting"
        BY <1>7
      <3> QED
        BY <2>1, <3>1, <3>2 DEF CalmInv, Guarded
    <2>4. Bound' /\ OneAlive'
      BY <1>2, <1>7, <2>1 DEF CalmInv, Bound, OneAlive, is_alive
    <2>5. \A v \in Worker, j \in Slot : v # w \/ j # t => ActorOK(v, j)'
      BY <1>1, <1>2, <1>13, <2>1, OthersOK DEF CalmInv
    <2>6. ActorOK(w, t)'
      <3>1. p = row[t].pid
        BY <1>2, <1>4, <2>1 DEF CalmInv, Actors, ActorOK
      <3>2. ~is_alive(p)'
        BY <1>7 DEF is_alive
      <3> QED
        BY <1>2, <1>12, <1>13, <3>1, <3>2 DEF ActorOK
    <2> QED
      BY <2>2, <2>3, <2>4, <2>5, <2>6 DEF CalmInv, Actors
  <1> QED
    BY <1>14, <1>15 DEF QueueInv

LEMMA PollSaveStep ==
    ASSUME QueueInv, NEW w \in Worker, NEW t \in Task, PollSave(w, t)
    PROVE  QueueInv'
  <1> USE Numbers
  <1>1. TypeInv
    BY DEF QueueInv
  <1>2. act[w][t].pc = "final" /\ sock' = 0 /\ UNCHANGED <<proc, stalled, trouble>>
    BY DEF PollSave
  <1>3. act[w][t] \in Actor /\ Shape(act[w][t], t)
    BY <1>1 DEF TypeInv
  <1>4. PICK p \in 0..MaxPid, e \in {"success", "failed"} : p = act[w][t].pid /\ e = act[w][t].end
    BY <1>2, <1>3 DEF Shape, Actor
  <1>5. calm' \in BOOLEAN /\ (calm' => calm /\ ~Served)
    <2>1. calm' = (calm /\ ~Served)
      BY DEF PollSave
    <2> QED
      BY <2>1
  <1>6. PICK r : r = [status |-> e, pid |-> p]
    OBVIOUS
  <1>7. r \in Row /\ r.status \in {"success", "failed"} /\ r.pid = p
    BY <1>6 DEF Row
  <1>8. /\ row' \in [Task -> Row]
        /\ row'[t] = r
        /\ \A u \in Task : u # t => row'[u] = row[u]
    <2>1. row' = [row EXCEPT ![t] = r]
      BY <1>4, <1>6 DEF PollSave
    <2> QED
      BY <1>1, <1>7, <2>1, RowChange
  <1>9. PICK a : a = [act[w][t] EXCEPT !.pc = "look"]
    OBVIOUS
  <1>10. Shape(a, t) /\ a.pc = "look"
    BY <1>3, <1>9 DEF Shape, Actor
  <1>11. /\ act' \in [Worker -> [Slot -> Actor]]
         /\ act'[w][t] = a
         /\ \A v \in Worker, j \in Slot : v # w \/ j # t => act'[v][j] = act[v][j]
         /\ \A v \in Worker, j \in Slot : Shape(act'[v][j], j)
    <2>1. act' = [act EXCEPT ![w][t] = a]
      BY <1>9 DEF PollSave
    <2> QED
      BY <1>1, <1>10, <2>1, ActorChange
  <1>12. TypeInv'
    BY <1>1, <1>2, <1>5, <1>8, <1>11 DEF TypeInv
  <1>13. ASSUME calm' PROVE CalmInv'
    <2>1. CalmInv /\ Busy(w, t) /\ ~Served
      BY <1>2, <1>5, <1>13 DEF QueueInv, Busy
    <2>2. Turns'
      BY <2>1, <1>11, TurnsStep DEF CalmInv
    <2>3. p = row[t].pid /\ ~is_alive(p)
      BY <1>2, <1>4, <2>1 DEF CalmInv, Actors, ActorOK
    <2>4. Guarded'
      <3> SUFFICES ASSUME NEW q \in Pid, proc[q].st = "starting"
                   PROVE  \E u \in Task : row'[u].status = "running" /\ row'[u].pid = q
        BY <1>2 DEF Guarded
      <3>1. \A v \in Worker, j \in Slot : act[v][j].pc # "save"
        BY <2>1, <1>2, OthersIdle DEF Busy, CalmInv
      <3>2. q # p
        BY <2>3 DEF is_alive
      <3>3. PICK u \in Task : row[u].status = "running" /\ row[u].pid = q
        BY <2>1, <3>1 DEF CalmInv, Guarded
      <3> QED
        BY <1>8, <2>3, <3>2, <3>3
    <2>5. Bound'
      <3> SUFFICES ASSUME NEW q \in Pid, proc[q].st \in {"copying", "done"} PROVE FALSE
        BY <1>2 DEF Bound
      <3>1. sock = q
        BY <2>1 DEF CalmInv, Bound
      <3> QED
        BY <2>1, <3>1 DEF Served, is_alive
    <2>6. OneAlive'
      BY <1>2, <2>1 DEF CalmInv, OneAlive, is_alive
    <2>7. \A v \in Worker, j \in Slot : v # w \/ j # t => ActorOK(v, j)'
      BY <1>1, <1>7, <1>8, <1>11, <2>1, <2>3, OthersOK DEF CalmInv
    <2>8. ActorOK(w, t)'
      BY <1>10, <1>11 DEF ActorOK
    <2> QED
      BY <2>2, <2>4, <2>5, <2>6, <2>7, <2>8 DEF CalmInv, Actors
  <1> QED
    BY <1>12, <1>13 DEF QueueInv

LEMMA PollCrashStep ==
    ASSUME QueueInv, NEW w \in Worker, NEW t \in Task, PollCrash(w, t)
    PROVE  QueueInv'
  <1> USE Numbers
  <1>1. TypeInv
    BY DEF QueueInv
  <1>2. /\ act[w][t].pc = "loop"
        /\ stalled' = TRUE
        /\ trouble' \in 0..MaxTrouble
        /\ UNCHANGED <<proc, sock>>
    BY <1>1, TroubleBound DEF PollCrash
  <1>3. calm' \in BOOLEAN /\ (calm' => calm /\ \A p \in Pid : proc[p].st # "starting")
    <2>1. calm' = (calm /\ \A p \in Pid : proc[p].st # "starting")
      BY DEF PollCrash
    <2> QED
      BY <2>1
  <1>4. row[t] \in Row
    BY <1>1 DEF TypeInv
  <1>5. PICK r : r = [row[t] EXCEPT !.status = "failed"]
    OBVIOUS
  <1>6. r \in Row /\ r.status = "failed" /\ r.pid = row[t].pid
    BY <1>4, <1>5 DEF Row
  <1>7. /\ row' \in [Task -> Row]
        /\ row'[t] = row[t] \/ row'[t] = r
        /\ \A u \in Task : u # t => row'[u] = row[u]
    <2>1. row' = row \/ row' = [row EXCEPT ![t] = r]
      BY <1>5 DEF PollCrash
    <2> QED
      BY <1>1, <1>6, <2>1, RowChange DEF TypeInv
  <1>8. /\ act' \in [Worker -> [Slot -> Actor]]
        /\ act'[w][t] = Off
        /\ \A v \in Worker, j \in Slot : v # w \/ j # t => act'[v][j] = act[v][j]
        /\ \A v \in Worker, j \in Slot : Shape(act'[v][j], j)
    <2>1. act' = [act EXCEPT ![w][t] = Off]
      BY DEF PollCrash, Ends
    <2> QED
      BY <1>1, <2>1, OffShape, ActorChange
  <1>9. TypeInv'
    BY <1>1, <1>2, <1>3, <1>7, <1>8 DEF TypeInv
  <1>10. ASSUME calm' PROVE CalmInv'
    <2>1. CalmInv /\ row[t].status # "queued"
      BY <1>2, <1>3, <1>10 DEF QueueInv, CalmInv, Actors, ActorOK
    <2>2. ActorOK(w, t)'
      BY <1>8, OffShape DEF ActorOK
    <2> QED
      BY <1>1, <1>2, <1>3, <1>6, <1>7, <1>8, <1>10, <2>1, <2>2, OffShape, IdleStep
  <1> QED
    BY <1>9, <1>10 DEF QueueInv

\* gh-ost and the machine: processes only end, or bind the free socket.
LEMMA WorldStep ==
    ASSUME QueueInv,
           \E p \in Pid : GhOst(p) \/ Die(p)
    PROVE  QueueInv'
  <1> USE Numbers
  <1>1. TypeInv
    BY DEF QueueInv
  <1>2. PICK p \in Pid : GhOst(p) \/ Die(p)
    OBVIOUS
  <1>3. proc[p] \in Process
    BY <1>1 DEF TypeInv
  <1>4. UNCHANGED <<row, act, calm, stalled>> /\ trouble' \in 0..MaxTrouble
    BY <1>1, <1>2, TroubleBound DEF GhOst, Bind, Finish, Exit, Die, TypeInv
  <1>5. PICK q :
          /\ q \in Process
          /\ proc' = [proc EXCEPT ![p] = q]
          /\ \/ proc[p].st = "starting" /\ q.st = "copying" /\ sock = 0 /\ sock' = p
             \/ proc[p].st = "starting" /\ q.st = "dead" /\ sock' = sock
             \/ proc[p].st = "copying" /\ q.st = "done" /\ sock' = sock
             \/ q.st = "dead" /\ (sock' = sock \/ (sock = p /\ sock' = 0))
    <2>1. CASE Bind(p)
      <3>1. CASE sock = 0
        <4>1. PICK q : q = [proc[p] EXCEPT !.st = "copying"]
          OBVIOUS
        <4>2. q \in Process /\ q.st = "copying"
          BY <1>3, <4>1 DEF Process
        <4>3. proc' = [proc EXCEPT ![p] = q] /\ proc[p].st = "starting" /\ sock' = p
          BY <2>1, <3>1, <4>1 DEF Bind
        <4> QED
          BY <3>1, <4>2, <4>3
      <3>2. CASE sock # 0
        <4>1. PICK q : q = [proc[p] EXCEPT !.st = "dead", !.said = "fatal"]
          OBVIOUS
        <4>2. q = [task |-> proc[p].task, st |-> "dead", said |-> "fatal"]
          BY <1>3, <4>1 DEF Process
        <4>3. q \in Process /\ q.st = "dead"
          BY <1>3, <4>2 DEF Process
        <4>4. proc' = [proc EXCEPT ![p] = q] /\ proc[p].st = "starting" /\ sock' = sock
          BY <2>1, <3>2, <4>1, Zenon DEF Bind
        <4> QED
          BY <4>3, <4>4
      <3> QED
        BY <3>1, <3>2
    <2>2. CASE Finish(p)
      <3>1. PICK q : q = [proc[p] EXCEPT !.st = "done", !.said = "done"]
        OBVIOUS
      <3>2. q = [task |-> proc[p].task, st |-> "done", said |-> "done"]
        BY <1>3, <3>1 DEF Process
      <3>3. q \in Process /\ q.st = "done"
        BY <1>3, <3>2 DEF Process
      <3>4. proc' = [proc EXCEPT ![p] = q] /\ proc[p].st = "copying" /\ sock' = sock
        BY <2>2, <3>1, Zenon DEF Finish
      <3> QED
        BY <3>3, <3>4
    <2>3. CASE Exit(p)
      <3>1. PICK q : q = [proc[p] EXCEPT !.st = "dead"]
        OBVIOUS
      <3>2. q \in Process /\ q.st = "dead"
        BY <1>3, <3>1 DEF Process
      <3>3. proc' = [proc EXCEPT ![p] = q]
        BY <2>3, <3>1, Zenon DEF Exit
      <3>4. sock' = sock \/ (sock = p /\ sock' = 0)
        BY <2>3 DEF Exit
      <3> QED
        BY <3>2, <3>3, <3>4, Zenon
    <2>4. CASE Die(p)
      <3>1. PICK said \in {proc[p].said, "fatal"} :
              proc' = [proc EXCEPT ![p].st = "dead", ![p].said = said]
        BY <2>4 DEF Die
      <3>2. PICK q : q = [proc[p] EXCEPT !.st = "dead", !.said = said]
        OBVIOUS
      <3>3. q = [task |-> proc[p].task, st |-> "dead", said |-> said]
        BY <1>3, <3>2 DEF Process
      <3>4. q \in Process /\ q.st = "dead"
        BY <1>3, <3>1, <3>3 DEF Process
      <3>5. proc' = [proc EXCEPT ![p] = q]
        BY <3>1, <3>2, Zenon
      <3>6. sock' = sock
        BY <2>4 DEF Die
      <3> QED
        BY <3>4, <3>5, <3>6, Zenon
    <2> QED
      BY <1>2, <2>1, <2>2, <2>3, <2>4 DEF GhOst
  <1>6. /\ proc' \in [Pid -> Process]
        /\ proc'[p] = q
        /\ \A k \in Pid : k # p => proc'[k] = proc[k]
    BY <1>1, <1>5, ProcChange
  <1>7. sock' \in 0..MaxPid
    BY <1>1, <1>5 DEF TypeInv
  <1>8. TypeInv'
    BY <1>1, <1>4, <1>6, <1>7 DEF TypeInv
  <1>9. ASSUME calm PROVE CalmInv'
    <2>1. CalmInv
      BY <1>9 DEF QueueInv
    <2>2. \A k \in Pid : is_alive(k)' => is_alive(k)
      <3>1. CASE q.st = "dead"
        BY <1>6, <3>1 DEF is_alive
      <3>2. CASE proc[p].st \in {"starting", "copying"}
        BY <1>6, <3>2 DEF is_alive
      <3> QED
        BY <1>5, <3>1, <3>2
    <2>3. \A k \in Pid : proc'[k].st = "starting" => proc[k].st = "starting"
      BY <1>5, <1>6
    <2>4. Turns'
      BY <1>4, <2>1 DEF CalmInv, Turns, Busy
    <2>5. Guarded'
      BY <1>4, <2>1, <2>3 DEF CalmInv, Guarded
    <2>6. Bound'
      <3> SUFFICES ASSUME NEW k \in Pid, proc'[k].st \in {"copying", "done"} PROVE sock' = k
        BY DEF Bound
      <3>1. \A x \in Pid : proc[x].st \in {"copying", "done"} => sock = x
        BY <2>1 DEF CalmInv, Bound
      <3>2. CASE k = p
        BY <1>5, <1>6, <3>1, <3>2
      <3>3. CASE k # p
        <4>1. proc[k].st \in {"copying", "done"} /\ sock = k
          BY <1>6, <3>1, <3>3
        <4> QED
          BY <1>5, <3>3, <4>1
      <3> QED
        BY <3>2, <3>3
    <2>7. OneAlive'
      BY <2>1, <2>2 DEF CalmInv, OneAlive
    <2>8. ASSUME NEW v \in Worker, NEW j \in Slot PROVE ActorOK(v, j)'
      <3>1. ActorOK(v, j)
        BY <2>1 DEF CalmInv, Actors
      <3>2. act[v][j].pc \in {"final", "cancel"} => ~is_alive(act[v][j].pid)'
        <4>1. act[v][j].pid \in 0..MaxPid
          <5>1. act[v][j] \in Actor
            BY <1>1 DEF TypeInv
          <5> QED
            BY <5>1 DEF Actor
        <4>2. CASE act[v][j].pid = 0
          BY <1>4, <4>2 DEF is_alive
        <4>3. CASE act[v][j].pid \in Pid
          BY <1>4, <2>2, <3>1, <4>3 DEF ActorOK
        <4> QED
          BY <4>1, <4>2, <4>3 DEF Pid
      <3>3. \A k \in Pid : proc[k].st # "starting" => proc'[k].st # "starting"
        BY <2>3
      <3> QED
        BY <1>4, <3>1, <3>2, <3>3 DEF ActorOK
    <2> QED
      BY <2>4, <2>5, <2>6, <2>7, <2>8 DEF CalmInv, Actors
  <1> QED
    BY <1>4, <1>8, <1>9 DEF QueueInv

LEMMA RestartStep ==
    ASSUME QueueInv, Restart
    PROVE  QueueInv'
  <1>1. TypeInv
    BY DEF QueueInv
  <1>2. /\ act' = [w \in Worker |-> [i \in Slot |-> Off]]
        /\ stalled' = TRUE
        /\ trouble' \in 0..MaxTrouble
        /\ UNCHANGED <<row, proc, sock>>
    BY <1>1, TroubleBound DEF Restart, Slot
  <1>3. calm' \in BOOLEAN /\ (calm' => calm /\ Alone)
    <2>1. calm' = (calm /\ Alone)
      BY DEF Restart
    <2> QED
      BY <2>1
  <1>4. act' \in [Worker -> [Slot -> Actor]] /\ \A w \in Worker, i \in Slot : act'[w][i] = Off
    BY <1>2, OffShape
  <1>5. TypeInv'
    BY <1>1, <1>2, <1>3, <1>4, OffShape DEF TypeInv
  <1>6. ASSUME calm' PROVE CalmInv'
    <2>1. CalmInv /\ Alone
      BY <1>3, <1>6 DEF QueueInv
    <2>2. Turns' /\ Actors'
      BY <1>4, OffShape DEF Turns, Busy, Actors, ActorOK
    <2>3. \A v \in Worker, j \in Slot : act[v][j].pc # "save"
      BY <2>1 DEF Alone, Busy, Slot
    <2>4. Guarded'
      BY <1>2, <2>1, <2>3 DEF CalmInv, Guarded
    <2>5. Bound' /\ OneAlive'
      BY <1>2, <2>1 DEF CalmInv, Bound, OneAlive, is_alive
    <2> QED
      BY <2>2, <2>4, <2>5 DEF CalmInv
  <1> QED
    BY <1>5, <1>6 DEF QueueInv

-----------------------------------------------------------------------------
(* The invariant and what follows from it *)

LEMMA QueueInitInv == QueueInit => QueueInv
  <1> SUFFICES ASSUME QueueInit PROVE QueueInv
    OBVIOUS
  <1>1. act \in [Worker -> [Slot -> Actor]] /\ \A w \in Worker, i \in Slot : act[w][i] = Off
    BY OffShape DEF QueueInit, Slot
  <1>2. PICK n \in Row : n = [status |-> "none", pid |-> 0]
    BY Numbers DEF Row
  <1>3. PICK q : q = [task |-> 0, st |-> "none", said |-> ""]
    OBVIOUS
  <1>4. q \in Process /\ q.st = "none"
    BY <1>3, Numbers DEF Process, Slot
  <1>5. row \in [Task -> Row] /\ proc \in [Pid -> Process] /\ \A p \in Pid : proc[p] = q
    BY <1>2, <1>3, <1>4 DEF QueueInit
  <1>6. TypeInv
    <2>1. \A w \in Worker, i \in Slot : Shape(act[w][i], i)
      BY <1>1, OffShape
    <2>2. sock \in 0..MaxPid /\ trouble \in 0..MaxTrouble
      <3>1. sock = 0 /\ trouble = 0
        BY DEF QueueInit
      <3> QED
        BY <3>1
    <2>3. calm \in BOOLEAN /\ stalled \in BOOLEAN
      BY Zenon DEF QueueInit
    <2> QED
      BY <1>1, <1>5, <2>1, <2>2, <2>3 DEF TypeInv
  <1>7. Turns /\ Actors
    BY <1>1, OffShape DEF Turns, Busy, Actors, ActorOK
  <1>8. Guarded /\ Bound /\ OneAlive
    BY <1>4, <1>5 DEF Guarded, Bound, OneAlive, is_alive
  <1> QED
    BY <1>6, <1>7, <1>8 DEF QueueInv, CalmInv

LEMMA QueueStepInv == QueueInv /\ [QueueNext]_queueVars => QueueInv'
  <1> SUFFICES ASSUME QueueInv, [QueueNext]_queueVars PROVE QueueInv'
    OBVIOUS
  <1>1. ASSUME NEW w \in Worker, Submit(w) \/ CancelSave(w) PROVE QueueInv'
    BY <1>1, SubmitStep, CancelSaveStep
  <1>2. ASSUME NEW w \in Worker, NEW t \in Task, CancelStop(w, t) \/ Poll(w, t) \/ PollCrash(w, t)
        PROVE  QueueInv'
    BY <1>2, CancelStopStep, PollLoadStep, PollEndStep, PollSaveStep, PollCrashStep DEF Poll
  <1>3. ASSUME NEW w \in Worker, NEW i \in Slot, Advance(w, i) PROVE QueueInv'
    BY <1>3, PickStep, CheckStep, SpawnStep, SpawnFailsStep, SaveStep, StartPollerStep DEF Advance
  <1>4. ASSUME UNCHANGED queueVars PROVE QueueInv'
    <2>1. UNCHANGED <<row, proc, sock, act, trouble, calm, stalled>>
      BY <1>4 DEF queueVars
    <2>2. TypeInv'
      BY <2>1 DEF QueueInv, TypeInv
    <2>3. ASSUME calm PROVE CalmInv'
      <3>1. CalmInv
        BY <2>3 DEF QueueInv
      <3>2. Turns' /\ Guarded' /\ Bound' /\ OneAlive'
        BY <2>1, <3>1 DEF CalmInv, Turns, Busy, Guarded, Bound, OneAlive, is_alive
      <3>3. Actors'
        BY <2>1, <3>1 DEF CalmInv, Actors, ActorOK, is_alive
      <3> QED
        BY <3>2, <3>3 DEF CalmInv
    <2> QED
      BY <2>1, <2>2, <2>3 DEF QueueInv
  <1> QED
    BY <1>1, <1>2, <1>3, <1>4, WorldStep, RestartStep DEF QueueNext, Slot

\* The invariant holds in every reachable state: the facts above, by induction.
THEOREM QueueInvariant == QueueSpec => []QueueInv
  <1> QED
    BY QueueInitInv, QueueStepInv, PTL DEF QueueSpec

\* Rows, processes, requests and threads have their types, for any number of
\* tasks, workers and troubles.
THEOREM QueueTypes == QueueSpec => []QueueTypeOK
  <1>1. QueueInv => QueueTypeOK
    BY DEF QueueInv, TypeInv, QueueTypeOK, Slot
  <1> QED
    BY <1>1, QueueInvariant, PTL

\* As long as handlers take turns there is one rebuild of the table at a time,
\* however many tasks wait and however the running one, its poller and the web
\* server end.
THEOREM QueueOneRebuild == QueueSpec => []OneRebuild
  <1>1. QueueInv => OneRebuild
    BY DEF QueueInv, CalmInv, OneAlive, OneRebuild
  <1> QED
    BY <1>1, QueueInvariant, PTL

\* The tasks are started in the order of their submission, each while it
\* waits, as long as handlers take turns, for any number of tasks and workers.
THEOREM QueueInTurn == QueueSpec => InTurn
  <1>1. QueueInv /\ [QueueNext]_queueVars =>
          [\A p \in Pid :
             proc[p].st = "none" /\ proc'[p].st # "none" /\ calm =>
                /\ row[proc'[p].task].status = "queued"
                /\ \A u \in 1..proc'[p].task - 1 : row[u].status # "queued"]_queueVars
    <2> SUFFICES ASSUME QueueInv, QueueNext, NEW p \in Pid,
                        proc[p].st = "none", proc'[p].st # "none", calm
                 PROVE  /\ row[proc'[p].task].status = "queued"
                        /\ \A u \in 1..proc'[p].task - 1 : row[u].status # "queued"
      OBVIOUS
    <2>1. TypeInv /\ CalmInv
      BY DEF QueueInv
    <2>2. \A k \in 0..MaxPid : Killed(k)[p] = proc[p]
      BY <2>1, KilledFacts DEF is_alive
    <2>3. PICK w \in Worker, i \in Slot : Spawn(w, i)
      <3>1. ASSUME NEW w \in Worker, Submit(w) \/ CancelSave(w) PROVE FALSE
        BY <3>1 DEF Submit, CancelSave
      <3>2. ASSUME NEW w \in Worker, NEW t \in Task, CancelStop(w, t) PROVE FALSE
        <4>1. row[t].pid \in 0..MaxPid
          BY <2>1 DEF TypeInv, Row
        <4> QED
          BY <2>2, <3>2, <4>1 DEF CancelStop
      <3>3. ASSUME NEW w \in Worker, NEW t \in Task, Poll(w, t) PROVE FALSE
        <4>1. act[w][t] \in Actor
          BY <2>1, Numbers DEF TypeInv
        <4>2. act[w][t].pid \in 0..MaxPid
          BY <4>1 DEF Actor
        <4> QED
          BY <2>2, <3>3, <4>2 DEF Poll, PollLoad, PollEnd, PollSave
      <3>4. ASSUME NEW w \in Worker, NEW t \in Task, PollCrash(w, t) PROVE FALSE
        BY <3>4 DEF PollCrash
      <3>5. ASSUME NEW w \in Worker, NEW i \in Slot, Advance(w, i) PROVE Spawn(w, i)
        BY <3>5 DEF Advance, Pick, Check, SpawnFails, Save, StartPoller
      <3>6. ASSUME NEW k \in Pid, GhOst(k) \/ Die(k) PROVE FALSE
        <4>1. k # p
          BY <3>6 DEF GhOst, Bind, Finish, Exit, Die, is_alive
        <4>2. proc \in [Pid -> Process]
          BY <2>1 DEF TypeInv
        <4> QED
          BY <3>6, <4>1, <4>2 DEF GhOst, Bind, Finish, Exit, Die
      <3>7. ~Restart
        BY DEF Restart
      <3> QED
        BY <3>1, <3>2, <3>3, <3>4, <3>5, <3>6, <3>7 DEF QueueNext, Slot
    <2>4. PICK k \in Pid :
            proc' = [proc EXCEPT ![k] = [task |-> act[w][i].task, st |-> "starting", said |-> ""]]
      BY <2>3 DEF Spawn
    <2>5. proc \in [Pid -> Process]
      BY <2>1 DEF TypeInv
    <2>6. k = p
      BY <2>4, <2>5
    <2>7. proc'[p].task = act[w][i].task
      BY <2>4, <2>5, <2>6
    <2>8. act[w][i].pc = "spawn"
      BY <2>3 DEF Spawn
    <2>9. ActorOK(w, i)
      BY <2>1 DEF CalmInv, Actors
    <2> QED
      BY <2>7, <2>8, <2>9 DEF ActorOK
  <1> QED
    BY <1>1, QueueInvariant, PTL DEF QueueSpec, InTurn
===============================================================================
