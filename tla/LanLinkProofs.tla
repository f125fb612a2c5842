--------------------------- MODULE LanLinkProofs ---------------------------
(***************************************************************************)
(* LanDevice keeps the promises of LanLink, for every set of callers,      *)
(* settings and library objects, and every number of protocol versions.    *)
(*                                                                         *)
(* What has to be known about a close: the job with which async_close      *)
(* drops the connection is the last one, of those that can still make a    *)
(* connection or drop one.                                                 *)
(***************************************************************************)
EXTENDS LanDeviceProofs

NoOpen(q) == \A i \in 1..Len(q) : q[i].op # "open"

(* No connection, and nothing left that makes one.                         *)
Drained == api = NoConn /\ work.op # "open" /\ NoOpen(queue)

(* The background task and the setup do not outlast the start of a close.  *)
ClosingTasks ==
    /\ closed <=> pc["close"] # "idle"
    /\ closed => pc["run"] \in {"off", "done"}
    /\ \A t \in Callers : pc[t] = "connect" => pc["run"] = "off" /\ ~closed

(* The job of async_close, in the queue, at work and done.                 *)
DropQueued ==
    \A i \in 1..Len(queue) : queue[i].task = "close" =>
        /\ closed /\ queue[i].op = "drop"
        /\ \A j \in i..Len(queue) : queue[j].op # "open"
DropAtWork == work.task = "close" => closed /\ work.op = "drop" /\ NoOpen(queue)
DropDone ==
    /\ \A i \in 1..Len(ready) : ready[i].task = "close" => closed /\ Drained
    /\ pc["close"] \in {"shutdown", "closed"} => Drained

OpeningHasPeer == local # NoConn => peer[local] \in Configs

DropIsLast == DropQueued /\ DropAtWork /\ DropDone

LInv == IInv /\ ClosingTasks /\ DropIsLast /\ OpeningHasPeer

-----------------------------------------------------------------------------
(* The steps of the loop.                                                  *)

Ended == {"shutdown", "closed"}

(* A step of the loop submits no attempt once a close has begun, delivers  *)
(* the oldest result, and goes beyond the drop only with its result.       *)
LoopQuiet ==
    /\ UNCHANGED <<api, work>>
    /\ closed => closed'
    /\ \/ queue' = queue
       \/ \E job \in Jobs :
             /\ queue' = Append(queue, job)
             /\ job.op = "open" => ~closed
             /\ job.task = "close" => job.op = "drop" /\ closed'
    /\ ready' = ready \/ (ready # <<>> /\ ready' = Tail(ready))
    /\ pc'["close"] \in Ended =>
          pc["close"] \in Ended \/ (ready # <<>> /\ Head(ready).task = "close")

LEMMA QuietKeepsQueue ==
  ASSUME TypeOK, ClosingTasks, DropIsLast, LoopQuiet
  PROVE  DropQueued' /\ DropAtWork'
<1>1. queue \in Seq(Jobs) /\ Len(queue) \in Nat
  BY LenProperties DEF TypeOK
<1>2. CASE queue' = queue
  BY <1>2 DEF DropIsLast, DropQueued, DropAtWork, LoopQuiet, NoOpen
<1>3. ASSUME NEW job \in Jobs, queue' = Append(queue, job),
             job.op = "open" => ~closed,
             job.task = "close" => job.op = "drop" /\ closed'
      PROVE  DropQueued' /\ DropAtWork'
  <2>1. /\ Len(queue') = Len(queue) + 1 /\ queue'[Len(queue) + 1] = job
        /\ \A i \in 1..Len(queue) : queue'[i] = queue[i]
    BY <1>1, <1>3, AppendProperties
  <2>2. DropQueued'
    BY <1>1, <1>3, <2>1 DEF DropIsLast, DropQueued, LoopQuiet
  <2>3. DropAtWork'
    BY <1>1, <1>3, <2>1 DEF DropIsLast, DropAtWork, LoopQuiet, NoOpen
  <2> QED
    BY <2>2, <2>3
<1> QED
  BY <1>2, <1>3 DEF LoopQuiet

LEMMA QuietKeepsDone ==
  ASSUME TypeOK, ClosingTasks, DropIsLast, LoopQuiet
  PROVE  DropDone'
<1>1. queue \in Seq(Jobs) /\ Len(queue) \in Nat /\ ready \in Seq(Results) /\ Len(ready) \in Nat
  BY LenProperties DEF TypeOK
<1>2. ASSUME closed, Drained PROVE Drained'
  <2>1. CASE queue' = queue
    BY <1>2, <2>1 DEF Drained, NoOpen, LoopQuiet
  <2>2. ASSUME NEW job \in Jobs, queue' = Append(queue, job), job.op # "open"
        PROVE  Drained'
    <3>1. /\ Len(queue') = Len(queue) + 1 /\ queue'[Len(queue) + 1] = job
          /\ \A i \in 1..Len(queue) : queue'[i] = queue[i]
      BY <1>1, <2>2, AppendProperties
    <3> QED
      BY <1>1, <1>2, <2>2, <3>1 DEF Drained, NoOpen, LoopQuiet
  <2> QED
    BY <1>2, <2>1, <2>2 DEF LoopQuiet
<1>3. \A i \in 1..Len(ready') : \E j \in 1..Len(ready) : ready'[i] = ready[j]
  <2>1. CASE ready' = ready
    BY <2>1
  <2>2. CASE ready # <<>> /\ ready' = Tail(ready)
    <3>1. /\ Len(ready') = Len(ready) - 1
          /\ \A i \in 1..Len(ready') : ready'[i] = ready[i + 1]
      BY <1>1, <2>2, HeadTailProperties
    <3> QED
      BY <1>1, <3>1
  <2> QED
    BY <2>1, <2>2 DEF LoopQuiet
<1>4. \A i \in 1..Len(ready') : ready'[i].task = "close" => closed' /\ Drained'
  BY <1>2, <1>3 DEF DropIsLast, DropDone, LoopQuiet
<1>5. pc'["close"] \in Ended => Drained'
  <2>1. SUFFICES ASSUME pc'["close"] \in Ended PROVE closed /\ Drained
    BY <1>2
  <2>2. CASE pc["close"] \in Ended
    BY <2>2 DEF DropIsLast, DropDone, ClosingTasks, Ended
  <2>3. CASE ready # <<>> /\ Head(ready).task = "close"
    <3>1. 1 \in 1..Len(ready) /\ Head(ready) = ready[1]
      BY <1>1, <2>3, EmptySeq
    <3> QED
      BY <2>3, <3>1 DEF DropIsLast, DropDone
  <2> QED
    BY <2>1, <2>2, <2>3 DEF LoopQuiet
<1> QED
  BY <1>4, <1>5 DEF DropDone, Ended

(* A step as the users see it.                                             *)
LinkStep == Link!Next \/ UNCHANGED Link!vars

(* What has to be shown of a step of the loop.                             *)
LoopKeeps ==
    /\ LoopQuiet
    /\ ClosingTasks'
    /\ UNCHANGED <<local, peer>>
    /\ LinkStep

LEMMA RunKeeps ==
  ASSUME LInv, RunTop \/ RunResume \/ RunWake \/ Start
  PROVE  LoopKeeps
<1> USE RunIsNoCaller, JobOf DEF LInv, IInv, TypeOK, PcOK, Tasks, link, flags, Ended,
        LoopKeeps, LoopQuiet, ClosingTasks, LinkStep, Link!vars, Connection, Life
<1>1. CASE RunOpen
  BY <1>1 DEF RunOpen, Submit, OpOf
<1>2. CASE RunDead
  BY <1>2 DEF RunDead, Submit, OpOf
<1>3. CASE RunStatus
  BY <1>3 DEF RunStatus, Submit, OpOf
<1>4. ASSUME NEW label \in {"beat", "receive"}, RunListen(label) PROVE LoopKeeps
  BY <1>4 DEF RunListen, Submit, OpOf
<1>5. CASE RunBeatSent
  <2>1. LoopQuiet
    <3>1. queue' = Append(queue, [task |-> "run", op |-> "receive"])
      BY <1>5 DEF RunBeatSent, Submit, OpOf
    <3>2. [task |-> "run", op |-> "receive"] \in Jobs
      BY DEF Jobs, Ops
    <3>3. UNCHANGED <<api, work, closed>> /\ pc'["close"] = pc["close"]
      BY <1>5 DEF RunBeatSent, Submit
    <3> QED
      BY <1>5, <3>1, <3>2, <3>3 DEF RunBeatSent, Resume
  <2>2. ClosingTasks' /\ UNCHANGED <<local, peer>> /\ LinkStep
    BY <1>5 DEF RunBeatSent, Resume, Submit
  <2> QED
    BY <2>1, <2>2
<1>6. CASE RunReceived
  BY <1>6 DEF RunReceived, Resume, Goto
<1>7. CASE RunStatusRead
  BY <1>7 DEF RunStatusRead, Resume, Goto, HandleStatus
<1>8. CASE RunOpened
  BY <1>8 DEF RunOpened, Resume, Goto, HandleConnected, Link!Next, Link!Show
<1>9. CASE RunOpenFailed
  BY <1>9 DEF RunOpenFailed, Resume, Goto, FallAsleep, Link!Next, Link!Hide
<1>10. CASE RunLost
  <2>1. /\ queue' = Append(queue, [task |-> "run", op |-> "drop"])
        /\ [task |-> "run", op |-> "drop"] \in Jobs
        /\ ready # <<>> /\ ready' = Tail(ready) /\ pc["run"] \in {"status", "beat", "receive"}
        /\ pc' = [pc EXCEPT !["run"] = "lost"]
        /\ UNCHANGED <<config, link, closed, flags, work>>
    BY <1>10 DEF RunLost, Resume, Submit, OpOf, Jobs, Ops
  <2>2. LoopQuiet
    BY <2>1
  <2> QED
    BY <2>1, <2>2
<1>11. CASE RunDropped
  BY <1>11 DEF RunDropped, Resume, Goto, FallAsleep, Link!Next, Link!Hide
<1>12. CASE RunWake
  BY <1>12 DEF RunWake, Goto
<1>13. CASE Start
  BY <1>13 DEF Start, Goto, Quiet
<1> QED
  BY <1>1, <1>2, <1>3, <1>4, <1>5, <1>6, <1>7, <1>8, <1>9, <1>10, <1>11, <1>12, <1>13
  DEF RunTop, RunResume

(* A caller waits for a job that makes no connection.                      *)
LEMMA CallerSubmits ==
  ASSUME LInv, NEW t \in Callers, NEW label \in {"refresh", "set", "lost"},
         Submit(t, label),
         ready' = ready \/ (ready # <<>> /\ ready' = Tail(ready)),
         UNCHANGED <<config, api, local, peer, work, closed, available>>
  PROVE  LoopKeeps
<1> USE RunIsNoCaller DEF LInv, IInv, TypeOK, PcOK, Tasks
<1>1. PICK job \in Jobs : /\ queue' = Append(queue, job)
                         /\ job.op # "open" /\ job.task # "close"
  BY JobOf DEF Submit, OpOf
<1>2. pc'["close"] = pc["close"] /\ pc'["run"] = pc["run"]
      /\ \A u \in Callers : pc'[u] = "connect" => pc[u] = "connect"
  BY DEF Submit
<1>3. LoopQuiet
  BY <1>1, <1>2 DEF LoopQuiet
<1>4. ClosingTasks' /\ LinkStep
  BY <1>2 DEF ClosingTasks, LinkStep, Link!vars, Connection, Life
<1> QED
  BY <1>3, <1>4 DEF LoopKeeps

LEMMA CallersKeep ==
  ASSUME LInv, NEW t \in Callers, Caller(t) \/ CallerResume(t)
  PROVE  LoopKeeps
<1> USE RunIsNoCaller, JobOf DEF LInv, IInv, TypeOK, PcOK, Tasks, link, flags, Ended,
        LoopKeeps, LoopQuiet, ClosingTasks, LinkStep, Link!vars, Connection, Life
<1>1. CASE Connect(t)
  <2>1. /\ queue' = Append(queue, [task |-> t, op |-> "open"]) /\ ~closed
        /\ pc' = [pc EXCEPT ![t] = "connect"] /\ pc["run"] = "off"
        /\ UNCHANGED <<config, api, local, peer, work, ready, closed, available>>
    BY <1>1 DEF Connect, MayCall, Submit, OpOf
  <2>2. [task |-> t, op |-> "open"] \in Jobs
    BY DEF Jobs, Ops
  <2>3. pc'["close"] = pc["close"] /\ pc'["run"] = "off"
    BY <2>1
  <2>4. LoopQuiet
    BY <2>1, <2>2, <2>3
  <2>5. ClosingTasks' /\ LinkStep
    BY <2>1, <2>3
  <2> QED
    BY <2>1, <2>4, <2>5
<1>2. CASE CancelConnect(t)
  BY <1>2 DEF CancelConnect, Goto
<1>3. CASE Refresh(t)
  BY <1>3, CallerSubmits DEF Refresh
<1>4. CASE SetDps(t)
  BY <1>4, CallerSubmits DEF SetDps
<1>5. ASSUME NEW c \in Configs, Reconfigure(t, c) PROVE LoopKeeps
  <2>1. LoopQuiet
    BY <1>5 DEF Reconfigure, Interrupt, Submit, OpOf
  <2>2. ClosingTasks' /\ UNCHANGED <<local, peer>>
    BY <1>5 DEF Reconfigure, Interrupt, Submit
  <2>3. Link!Reconfigure
    BY <1>5 DEF Reconfigure, MayCall, Interrupt, Submit, Link!Reconfigure
  <2> QED
    BY <2>1, <2>2, <2>3 DEF Link!Next
<1>6. CASE Connected(t)
  BY <1>6 DEF Connected, Resume, Goto, HandleConnected, Link!Next, Link!Show
<1>7. CASE ConnectFailed(t)
  BY <1>7 DEF ConnectFailed, Resume, Goto
<1>8. CASE Refreshed(t)
  BY <1>8 DEF Refreshed, Resume, Goto, HandleStatus
<1>9. CASE SetSent(t)
  BY <1>9 DEF SetSent, Resume, Goto
<1>10. CASE CallerLost(t)
  BY <1>10, CallerSubmits DEF CallerLost, Resume
<1>11. CASE CallerDropped(t)
  BY <1>11 DEF CallerDropped, Resume, Goto, Link!Next, Link!Hide
<1>12. CASE Reconfigured(t)
  BY <1>12 DEF Reconfigured, Resume, Goto, Link!Next, Link!Hide
<1> QED
  BY <1>1, <1>2, <1>3, <1>4, <1>5, <1>6, <1>7, <1>8, <1>9, <1>10, <1>11, <1>12
  DEF Caller, CallerResume

LEMMA CloseKeeps ==
  ASSUME LInv, CloseBegin \/ Closing
  PROVE  LoopKeeps
<1> USE RunIsNoCaller, JobOf DEF LInv, IInv, TypeOK, PcOK, Tasks, link, flags, Ended,
        LoopKeeps, LoopQuiet, ClosingTasks, LinkStep, Link!vars, Connection, Life
<1>1. CASE CloseBegin
  <2>1. /\ closed' /\ ~closed /\ pc["close"] = "idle"
        /\ UNCHANGED <<config, available, api, local, peer, work, ready>>
    BY <1>1 DEF CloseBegin, Interrupt
  <2>2. /\ pc'["close"] \in {"join", "drop"} /\ pc'["run"] \in {"off", "done"}
        /\ \A t \in Callers : pc'[t] = pc[t] /\ pc[t] # "connect"
    BY <1>1 DEF CloseBegin, Submit, Quiet
  <2>3. \/ queue' = queue
        \/ queue' = Append(queue, [task |-> "close", op |-> "drop"])
    BY <1>1 DEF CloseBegin, Submit, OpOf
  <2>4. LoopQuiet
    BY <2>1, <2>2, <2>3 DEF Jobs, Ops
  <2>5. ClosingTasks'
    BY <2>1, <2>2
  <2>6. Link!Close
    BY <2>1, <2>2 DEF Link!Close
  <2> QED
    BY <2>1, <2>4, <2>5, <2>6 DEF Link!Next
<1>2. CASE CloseJoin
  BY <1>2 DEF CloseJoin, Submit, OpOf
<1>3. CASE CloseDropped
  BY <1>3 DEF CloseDropped, Resume, Goto
<1>4. CASE CloseDone
  BY <1>4 DEF CloseDone, Goto, DropIsLast, DropDone, Drained, Link!Next, Link!Closed
<1> QED
  BY <1>1, <1>2, <1>3, <1>4 DEF Closing

LEMMA RestKeeps ==
  ASSUME LInv, Discard \/ RefreshTimer \/ DeadTimer \/ Environment \/ UNCHANGED vars
  PROVE  LoopKeeps
<1> USE DEF LInv, IInv, TypeOK, PcOK, Tasks, link, flags, Ended,
        LoopKeeps, LoopQuiet, ClosingTasks, LinkStep, Link!vars, Connection, Life
<1>1. CASE Discard
  BY <1>1 DEF Discard
<1>2. CASE RefreshTimer
  BY <1>2 DEF RefreshTimer
<1>3. CASE DeadTimer
  BY <1>3 DEF DeadTimer
<1>4. ASSUME NEW a \in Configs \cup {Nowhere}, Move(a) PROVE LoopKeeps
  BY <1>4 DEF Move
<1>5. ASSUME NEW c \in Conns, NEW how \in {"silent", "cut"}, Cut(c, how) PROVE LoopKeeps
  BY <1>5 DEF Cut
<1>6. CASE UNCHANGED vars
  BY <1>6 DEF vars
<1> QED
  BY <1>1, <1>2, <1>3, <1>4, <1>5, <1>6 DEF Environment

-----------------------------------------------------------------------------
(* The steps of the worker.                                                *)

WorkerKeeps == ClosingTasks' /\ DropIsLast' /\ OpeningHasPeer' /\ LinkStep

LEMMA TakeKeepsLink ==
  ASSUME LInv, WTake \/ WSkip
  PROVE  WorkerKeeps
<1> USE DEF LInv, IInv
<1>1. /\ work = Idle /\ queue # <<>> /\ queue' = Tail(queue)
      /\ queue \in Seq(Jobs) /\ work' \in {Idle, Head(queue)}
      /\ UNCHANGED <<config, api, local, peer, closed, available, pc, ready>>
  BY DEF WTake, WSkip, TypeOK, flags, link
<1>2. /\ Len(queue) \in Nat \ {0} /\ Len(Tail(queue)) = Len(queue) - 1
      /\ \A i \in 1..Len(Tail(queue)) : Tail(queue)[i] = queue[i + 1]
      /\ Head(queue) = queue[1]
  BY <1>1, HeadTailProperties, EmptySeq, LenProperties
<1>3. DropQueued'
  BY <1>1, <1>2 DEF DropIsLast, DropQueued
<1>4. DropAtWork'
  <2>1. CASE work' = Idle
    BY <2>1 DEF DropAtWork, Idle
  <2>2. CASE work' = Head(queue)
    BY <1>1, <1>2, <2>2 DEF DropIsLast, DropQueued, DropAtWork, NoOpen
  <2> QED
    BY <1>1, <2>1, <2>2
<1>5. Drained => Drained'
  BY <1>1, <1>2 DEF Drained, NoOpen
<1>6. DropDone'
  BY <1>1, <1>5 DEF DropIsLast, DropDone
<1>7. ClosingTasks' /\ OpeningHasPeer' /\ LinkStep
  BY <1>1 DEF ClosingTasks, OpeningHasPeer, LinkStep, Link!vars, Connection, Life
<1> QED
  BY <1>3, <1>4, <1>6, <1>7 DEF WorkerKeeps, DropIsLast

(* A job is done, or an attempt goes on: a result of async_close is only   *)
(* there once the connection is dropped and no attempt is left.            *)
LEMMA FinishKeepsDrop ==
  ASSUME TypeOK, DropIsLast, NEW res, Finish(res), work \in Jobs,
         UNCHANGED <<queue, pc, closed>>,
         work.op = "open" \/ api' \in {api, NoConn},
         work.op = "drop" => api' = NoConn
  PROVE  DropIsLast'
<1>1. /\ work' = Idle /\ ready \in Seq(Results) /\ Len(ready) \in Nat
      /\ ready' = Append(ready, [task |-> work.task, res |-> res])
  BY LenProperties DEF Finish, TypeOK
<1>2. DropQueued' /\ DropAtWork'
  BY <1>1 DEF DropIsLast, DropQueued, DropAtWork, Idle
<1>3. Drained => Drained'
  BY <1>1 DEF Drained, NoOpen, Idle
<1>4. work.task = "close" => closed' /\ Drained'
  BY <1>1 DEF DropIsLast, DropAtWork, Drained, NoOpen, Idle
<1>5. \A i \in 1..Len(ready') : ready'[i].task = "close" => closed' /\ Drained'
  <2>1. TAKE i \in 1..Len(ready')
  <2>2. CASE i \in 1..Len(ready)
    <3>1. ready'[i] = ready[i]
      BY <1>1, <2>2
    <3> QED
      BY <1>3, <2>2, <3>1 DEF DropIsLast, DropDone
  <2>3. CASE i \notin 1..Len(ready)
    <3>1. ready'[i] = [task |-> work.task, res |-> res]
      BY <1>1, <2>3
    <3> QED
      BY <1>4, <3>1
  <2> QED
    BY <2>2, <2>3
<1>6. DropDone'
  BY <1>3, <1>5 DEF DropIsLast, DropDone
<1> QED
  BY <1>2, <1>6 DEF DropIsLast

LEMMA OpeningKeepsDrop ==
  ASSUME DropIsLast, work.op = "open", UNCHANGED <<queue, pc, closed, work, ready>>
  PROVE  DropIsLast'
  BY DEF DropIsLast, DropQueued, DropAtWork, DropDone, Drained

(* What the jobs other than an attempt and a drop do.                      *)
LEMMA ServeKeepsLink ==
  ASSUME LInv, work \in Jobs, NEW res, Finish(res), work.op \notin {"open", "drop"},
         UNCHANGED <<config, link, closed, available, pc, queue>>
  PROVE  WorkerKeeps
<1> USE DEF LInv, IInv, link
<1>1. DropIsLast'
  BY FinishKeepsDrop
<1> QED
  BY <1>1 DEF WorkerKeeps, ClosingTasks, OpeningHasPeer, LinkStep, Link!vars, Connection, Life

LEMMA WorkKeepsLink ==
  ASSUME LInv, WDrop \/ WStatus \/ WReceive
                 \/ \E res \in {"ok", "lost"} : WHeartbeat(res) \/ WSet(res)
  PROVE  WorkerKeeps
<1> USE WorkIsJob DEF LInv, IInv, Ops, Working, flags
<1>1. CASE WDrop
  <2>1. api' = NoConn /\ work.op = "drop" /\ Finish("ok") /\ work \in Jobs
        /\ UNCHANGED <<config, local, available, closed, pc, queue>>
    BY <1>1 DEF WDrop
  <2>2. DropIsLast'
    BY <2>1, FinishKeepsDrop
  <2>3. OpeningHasPeer'
    BY <1>1 DEF WDrop, CloseConn, OpeningHasPeer, OneSocket, TypeOK, ConnOrNone
  <2>4. LinkStep
    BY <2>1 DEF LinkStep, Link!Next, Link!Down, Connection, Life
  <2> QED
    BY <2>1, <2>2, <2>3, <2>4 DEF WorkerKeeps, ClosingTasks
<1>2. CASE WStatus
  <2>1. PICK res : Finish(res)
    BY <1>2 DEF WStatus
  <2> QED
    BY <1>2, <2>1, ServeKeepsLink DEF WStatus
<1>3. CASE WReceive
  <2>1. PICK res : Finish(res)
    BY <1>3 DEF WReceive
  <2> QED
    BY <1>3, <2>1, ServeKeepsLink DEF WReceive
<1>4. ASSUME NEW res \in {"ok", "lost"}, WHeartbeat(res) PROVE WorkerKeeps
  BY <1>4, ServeKeepsLink DEF WHeartbeat
<1>5. ASSUME NEW res \in {"ok", "lost"}, WSet(res) PROVE WorkerKeeps
  BY <1>5, ServeKeepsLink DEF WSet
<1> QED
  BY <1>1, <1>2, <1>3, <1>4, <1>5

(* The steps of an attempt that end before its last one.                   *)
LEMMA AttemptKeepsLink ==
  ASSUME LInv, work.op = "open",
         UNCHANGED <<config, closed, available, pc, queue>>,
         \/ UNCHANGED <<work, ready>>
         \/ \E res : Finish(res) /\ work \in Jobs,
         api' \in {api, NoConn},
         Connection' \in {Connection, Nowhere},
         OpeningHasPeer'
  PROVE  WorkerKeeps
<1> USE DEF LInv, IInv
<1>1. DropIsLast'
  BY FinishKeepsDrop, OpeningKeepsDrop
<1>2. LinkStep
  BY DEF LinkStep, Link!Next, Link!vars, Link!Down, Life
<1> QED
  BY <1>1, <1>2 DEF WorkerKeeps, ClosingTasks

LEMMA OpenKeepsLink ==
  ASSUME LInv, WOpen
  PROVE  WorkerKeeps
<1> USE NoneAssumption, WorkIsJob
    DEF LInv, IInv, Ops, Working, flags, link, CloseConn, Connection, OpeningHasPeer,
        WorkerShape, OneSocket, TypeOK, ConnOrNone
<1>1. CASE WOpenBegin
  BY <1>1, AttemptKeepsLink DEF WOpenBegin
<1>2. CASE WOpenAbort
  BY <1>2, AttemptKeepsLink DEF WOpenAbort
<1>3. ASSUME NEW c \in Conns, WOpenNew(c) PROVE WorkerKeeps
  BY <1>3, AttemptKeepsLink DEF WOpenNew
<1>4. CASE WOpenDial
  BY <1>4, AttemptKeepsLink DEF WOpenDial
<1>5. CASE WOpenTcp
  BY <1>5, AttemptKeepsLink DEF WOpenTcp
<1>6. ASSUME NEW outcome \in {"good", "bad", "gone"}, WOpenStatus(outcome)
      PROVE  WorkerKeeps
  BY <1>6, AttemptKeepsLink DEF WOpenStatus
<1>7. CASE WOpenBad
  BY <1>7, AttemptKeepsLink DEF WOpenBad
<1>8. CASE WOpenGone
  BY <1>8, AttemptKeepsLink DEF WOpenGone
<1>9. CASE WOpenGood
  <2>1. /\ work.op = "open" /\ work \in Jobs /\ Finish("ok") /\ api = NoConn
        /\ api' = local /\ local' = NoConn
        /\ UNCHANGED <<config, peer, available, closed, pc, queue>>
    BY <1>9 DEF WOpenGood
  <2>2. DropIsLast'
    BY <2>1, FinishKeepsDrop
  <2>3. Life # "closed" /\ Life' = Life
    BY <2>1 DEF Life, DropIsLast, DropDone, Drained
  <2>4. LinkStep
    BY <2>1, <2>3 DEF LinkStep, Link!Next, Link!Up, Link!vars
  <2> QED
    BY <2>1, <2>2, <2>4 DEF WorkerKeeps, ClosingTasks
<1> QED
  BY <1>1, <1>2, <1>3, <1>4, <1>5, <1>6, <1>7, <1>8, <1>9 DEF WOpen

-----------------------------------------------------------------------------
(* The refinement.                                                         *)

LEMMA LInvInit == Init => LInv
  BY IInvInit
  DEF Init, LInv, Tasks, ClosingTasks, DropIsLast, DropQueued, DropAtWork, DropDone,
      Idle, OpeningHasPeer

LEMMA LInvNext == LInv /\ [Next]_vars => LInv' /\ LinkStep
<1> SUFFICES ASSUME LInv, [Next]_vars PROVE LInv' /\ LinkStep
  OBVIOUS
<1>1. IInv'
  BY IInvNext DEF LInv
<1>2. CASE Worker
  <2>1. WorkerKeeps
    BY <1>2, TakeKeepsLink, WorkKeepsLink, OpenKeepsLink DEF Worker
  <2> QED
    BY <1>1, <2>1 DEF LInv, WorkerKeeps
<1>3. ASSUME LoopKeeps PROVE LInv' /\ LinkStep
  <2>1. DropIsLast'
    BY <1>3, QuietKeepsQueue, QuietKeepsDone DEF LInv, IInv, LoopKeeps, DropIsLast
  <2>2. OpeningHasPeer'
    BY <1>3 DEF LInv, OpeningHasPeer, LoopKeeps
  <2> QED
    BY <1>1, <1>3, <2>1, <2>2 DEF LInv, LoopKeeps
<1>4. CASE ~Worker
  BY <1>3, <1>4, RunKeeps, CallersKeep, CloseKeeps, RestKeeps DEF Next, System
<1> QED
  BY <1>2, <1>4

(* The device as its users see it behaves as LanLink says, for every set   *)
(* of callers, settings and library objects: whatever the interleaving of  *)
(* the worker, the background task, the callers and the close, a           *)
(* connection never replaces another one, a device being closed does not   *)
(* report to be available, and a closed one makes no connection.           *)
THEOREM KeepsItsPromises == Spec => ImplementsLink
<1>1. Init => Link!Init
  BY RunIsNoCaller DEF Init, Link!Init, Connection, Life
<1>2. LInv /\ [Next]_vars => [Link!Next]_(Link!vars)
  BY LInvNext DEF LinkStep
<1> QED
  BY <1>1, <1>2, LInvInit, LInvNext, PTL DEF Spec, ImplementsLink, Link!SafeSpec

-----------------------------------------------------------------------------
(* What async_close leaves behind.  The worker is shut down only after the *)
(* job with which the close drops the connection is done.  A caller whose  *)
(* request fails then would submit another drop, which the executor would  *)
(* refuse.  It cannot be: callers that still wait asked before the close   *)
(* did, and are answered before it.                                        *)

(* Callers that submit another job when they lose the connection.          *)
Asking == {"refresh", "set"}

NoClose(seq) == \A i \in 1..Len(seq) : seq[i].task # "close"

BeforeClose(seq, t) ==
    \E i \in 1..Len(seq) : seq[i].task = t /\ \A j \in 1..i : seq[j].task # "close"

(* A job of t is ahead of that of the close, in the queue, at work or done. *)
Served(t) ==
    \/ BeforeClose(ready, t)
    \/ /\ NoClose(ready)
       /\ work.task = t \/ (work.task # "close" /\ BeforeClose(queue, t))

AskersFirst ==
    \A t \in Callers : pc[t] \in Asking => pc["close"] \notin Ended /\ Served(t)

(* Nothing is submitted once the executor is shut down, and nothing was    *)
(* left when that was done.                                                *)
ClosedIsEmpty == pc["close"] = "closed" => queue = <<>> /\ work = Idle

CInv == LInv /\ AskersFirst /\ ClosedIsEmpty

-----------------------------------------------------------------------------
(* Sequences of jobs or results, by their tasks.                           *)

LEMMA AppendBehind ==
  ASSUME NEW S, NEW seq \in Seq(S), NEW e \in S, NEW t, BeforeClose(seq, t)
  PROVE  BeforeClose(Append(seq, e), t)
<1>1. /\ Len(seq) \in Nat /\ Len(Append(seq, e)) = Len(seq) + 1
      /\ \A i \in 1..Len(seq) : Append(seq, e)[i] = seq[i]
  BY AppendProperties, LenProperties
<1>2. PICK i \in 1..Len(seq) : seq[i].task = t /\ \A j \in 1..i : seq[j].task # "close"
  BY DEF BeforeClose
<1>3. i \in 1..Len(Append(seq, e)) /\ \A j \in 1..i : j \in 1..Len(seq)
  BY <1>1
<1> QED
  BY <1>1, <1>2, <1>3 DEF BeforeClose

LEMMA AppendFirst ==
  ASSUME NEW S, NEW seq \in Seq(S), NEW e \in S, NoClose(seq), e.task # "close"
  PROVE  NoClose(Append(seq, e)) /\ BeforeClose(Append(seq, e), e.task)
<1>1. /\ Len(seq) \in Nat /\ Len(Append(seq, e)) = Len(seq) + 1
      /\ Append(seq, e)[Len(seq) + 1] = e
      /\ \A i \in 1..Len(seq) : Append(seq, e)[i] = seq[i]
  BY AppendProperties, LenProperties
<1>2. NoClose(Append(seq, e))
  BY <1>1 DEF NoClose
<1>3. Len(seq) + 1 \in 1..Len(Append(seq, e))
  BY <1>1
<1> QED
  BY <1>1, <1>2, <1>3 DEF NoClose, BeforeClose

LEMMA HeadFirst ==
  ASSUME NEW S, NEW seq \in Seq(S), seq # <<>>, NEW t, BeforeClose(seq, t)
  PROVE  /\ Head(seq).task # "close"
         /\ Head(seq).task # t => BeforeClose(Tail(seq), t)
<1>1. /\ Len(seq) \in Nat /\ Head(seq) = seq[1] /\ Len(Tail(seq)) = Len(seq) - 1
      /\ \A i \in 1..Len(Tail(seq)) : Tail(seq)[i] = seq[i + 1]
  BY HeadTailProperties, LenProperties
<1>2. PICK i \in 1..Len(seq) : seq[i].task = t /\ \A j \in 1..i : seq[j].task # "close"
  BY DEF BeforeClose
<1>3. Head(seq).task # "close"
  BY <1>1, <1>2
<1>4. ASSUME Head(seq).task # t PROVE BeforeClose(Tail(seq), t)
  <2>1. i # 1 /\ i - 1 \in 1..Len(Tail(seq)) /\ Tail(seq)[i - 1] = seq[i]
    BY <1>1, <1>2, <1>4
  <2>2. \A j \in 1..i - 1 : Tail(seq)[j] = seq[j + 1] /\ j + 1 \in 1..i
    BY <1>1, <1>2
  <2> QED
    BY <1>2, <2>1, <2>2 DEF BeforeClose
<1> QED
  BY <1>3, <1>4

LEMMA TailNoClose ==
  ASSUME NEW S, NEW seq \in Seq(S), seq # <<>>, NoClose(seq)
  PROVE  NoClose(Tail(seq))
<1>1. /\ Len(seq) \in Nat /\ Len(Tail(seq)) = Len(seq) - 1
      /\ \A i \in 1..Len(Tail(seq)) : Tail(seq)[i] = seq[i + 1]
  BY HeadTailProperties, LenProperties
<1> QED
  BY <1>1 DEF NoClose

-----------------------------------------------------------------------------
(* The steps of the loop.                                                  *)

(* Before the close begins there is no job of it anywhere.                 *)
LEMMA NoCloseYet ==
  ASSUME LInv, ~closed
  PROVE  NoClose(ready) /\ work.task # "close" /\ NoClose(queue) /\ pc["close"] \notin Ended
BY DEF LInv, ClosingTasks, DropIsLast, DropQueued, DropAtWork, DropDone, NoClose, Ended

(* A step of the loop serves the task of the oldest result, lets a caller  *)
(* ask before the close begins only, and submits nothing after a shutdown. *)
LoopAsks ==
    /\ UNCHANGED work
    /\ \/ queue' = queue
       \/ \E job \in Jobs : queue' = Append(queue, job)
    /\ \/ ready' = ready
       \/ ready # <<>> /\ ready' = Tail(ready) /\ pc'[Head(ready).task] \notin Asking
    /\ \A t \in Callers : pc'[t] \in Asking =>
          \/ pc[t] \in Asking
          \/ /\ ~closed /\ ready' = ready /\ pc'["close"] \notin Ended
             /\ \E job \in Jobs : job.task = t /\ queue' = Append(queue, job)
    /\ pc'["close"] \in Ended =>
          pc["close"] \in Ended \/ (ready # <<>> /\ Head(ready).task = "close")
    /\ pc["close"] \in Ended => queue' = queue
    /\ pc'["close"] = "closed" =>
          pc["close"] \in Ended /\ (pc["close"] # "closed" => queue = <<>> /\ work = Idle)

LEMMA AsksKeeps ==
  ASSUME CInv, LoopAsks
  PROVE  AskersFirst' /\ ClosedIsEmpty'
<1>1. queue \in Seq(Jobs) /\ ready \in Seq(Results)
  BY DEF CInv, LInv, IInv, TypeOK
<1>2. ASSUME NEW t \in Callers, pc'[t] \in Asking
      PROVE  pc'["close"] \notin Ended /\ Served(t)'
  <2>1. CASE pc[t] \in Asking
    <3>1. pc["close"] \notin Ended /\ Served(t)
      BY <2>1 DEF CInv, AskersFirst
    <3>2. BeforeClose(queue, t) => BeforeClose(queue', t)
      <4>1. CASE queue' = queue
        BY <4>1 DEF BeforeClose
      <4>2. ASSUME NEW job \in Jobs, queue' = Append(queue, job), BeforeClose(queue, t)
            PROVE  BeforeClose(Append(queue, job), t)
        BY <1>1, <4>2, AppendBehind
      <4> QED
        BY <4>1, <4>2 DEF LoopAsks
    <3>3. BeforeClose(ready, t) =>
             (ready # <<>> => Head(ready).task # "close") /\ BeforeClose(ready', t)
      BY <1>1, <1>2, HeadFirst DEF LoopAsks
    <3>4. NoClose(ready) =>
             (ready # <<>> => Head(ready).task # "close") /\ NoClose(ready')
      <4>1. ready # <<>> => 1 \in 1..Len(ready) /\ Head(ready) = ready[1]
        BY <1>1, HeadTailProperties, LenProperties, EmptySeq
      <4> QED
        BY <1>1, <4>1, TailNoClose DEF LoopAsks, NoClose
    <3>5. Served(t)'
      BY <3>1, <3>2, <3>3, <3>4 DEF Served, LoopAsks
    <3>6. pc'["close"] \notin Ended
      BY <3>1, <3>3, <3>4 DEF Served, LoopAsks
    <3> QED
      BY <3>5, <3>6
  <2>2. CASE pc[t] \notin Asking
    <3>1. PICK job \in Jobs : job.task = t /\ queue' = Append(queue, job)
      BY <1>2, <2>2 DEF LoopAsks
    <3>2. ~closed /\ ready' = ready /\ pc'["close"] \notin Ended /\ work' = work
      BY <1>2, <2>2 DEF LoopAsks
    <3>3. BeforeClose(queue', t)
      BY <1>1, <3>1, <3>2, NoCloseYet, AppendFirst, RunIsNoCaller DEF CInv
    <3> QED
      BY <3>2, <3>3, NoCloseYet DEF CInv, Served
  <2> QED
    BY <2>1, <2>2
<1>3. ClosedIsEmpty'
  BY DEF CInv, ClosedIsEmpty, LoopAsks, Ended
<1> QED
  BY <1>2, <1>3 DEF AskersFirst

LEMMA LoopKeepsClose ==
  ASSUME LInv, LoopKeeps,
         \/ ready' = ready
         \/ ready # <<>> /\ ready' = Tail(ready) /\ pc'[Head(ready).task] \notin Asking,
         \A t \in Callers : pc'[t] \in Asking =>
            \/ pc[t] \in Asking
            \/ /\ ~closed /\ ready' = ready /\ pc'["close"] \notin Ended
               /\ \E job \in Jobs : job.task = t /\ queue' = Append(queue, job),
         pc["close"] \in Ended => queue' = queue,
         pc'["close"] = "closed" => pc["close"] = "closed"
  PROVE  LoopAsks
BY DEF LoopKeeps, LoopQuiet, LoopAsks, Ended

LEMMA RunAsks ==
  ASSUME CInv, RunTop \/ RunResume \/ RunWake \/ Start
  PROVE  LoopAsks
<1>1. LInv /\ LoopKeeps
  BY RunKeeps DEF CInv
<1> USE RunIsNoCaller DEF RunTop, RunResume, RunWake, Start, RunOpen, RunDead, RunStatus,
        RunListen, RunBeatSent, RunReceived, RunStatusRead, RunOpened, RunOpenFailed,
        RunLost, RunDropped
<1>2. \A t \in Tasks \ {"run"} : pc'[t] = pc[t]
  BY <1>1 DEF LInv, IInv, TypeOK, PcOK, Tasks, Submit, Goto, FallAsleep
<1>3. pc'["run"] \notin Asking
  BY <1>1 DEF LInv, IInv, TypeOK, PcOK, Tasks, Submit, Goto, FallAsleep, Asking
<1>4. \/ ready' = ready
      \/ ready # <<>> /\ ready' = Tail(ready) /\ Head(ready).task = "run"
  BY DEF Resume
<1>5. pc["run"] \notin {"off", "done"} \/ queue' = queue
  BY DEF Resume, Goto, FallAsleep
<1>6. pc["close"] \in Ended => queue' = queue
  BY <1>1, <1>5 DEF LInv, ClosingTasks, Ended
<1> QED
  BY <1>1, <1>2, <1>3, <1>4, <1>6, LoopKeepsClose DEF Tasks

LEMMA CallerAsks ==
  ASSUME CInv, NEW t \in Callers, Caller(t) \/ CallerResume(t)
  PROVE  LoopAsks
<1>1. LInv /\ LoopKeeps
  BY CallersKeep DEF CInv
<1>2. pc \in [Tasks -> RunLabels \cup CallerLabels \cup CloseLabels] /\ t \in Tasks
  BY <1>1 DEF LInv, IInv, TypeOK, PcOK, Tasks
<1> USE RunIsNoCaller DEF Caller, CallerResume, Connect, CancelConnect, Reconfigure,
        Connected, ConnectFailed, Refreshed, SetSent, CallerLost, CallerDropped, Reconfigured
<1>3. \A u \in Tasks \ {t} : pc'[u] = pc[u]
  BY <1>2 DEF Refresh, SetDps, Submit, Goto
<1>4. CASE Refresh(t) \/ SetDps(t)
  <2>1. ~closed /\ ready' = ready
    BY <1>4 DEF Refresh, SetDps, MayCall
  <2>2. PICK job \in Jobs : job.task = t /\ queue' = Append(queue, job)
    BY <1>4, JobOf, <1>2 DEF Refresh, SetDps, Submit, OpOf
  <2>3. pc["close"] \notin Ended /\ pc'["close"] = pc["close"]
    BY <1>1, <1>3, <2>1, NoCloseYet DEF Tasks
  <2>4. \A u \in Callers : pc'[u] \in Asking => pc[u] \in Asking \/ u = t
    BY <1>3 DEF Tasks
  <2> QED
    BY <1>1, <2>1, <2>2, <2>3, <2>4, LoopKeepsClose DEF Ended
<1>5. CASE ~(Refresh(t) \/ SetDps(t))
  <2>1. pc'[t] \notin Asking
    BY <1>2, <1>5 DEF Submit, Goto, Asking
  <2>2. \/ ready' = ready
        \/ ready # <<>> /\ ready' = Tail(ready) /\ Head(ready).task = t
    BY <1>5 DEF Resume
  <2>3. \/ queue' = queue \/ ~closed \/ pc[t] \in Asking
    BY <1>5 DEF MayCall, Resume, Goto, Asking
  <2>4. pc["close"] \in Ended => queue' = queue
    BY <1>1, <2>3, NoCloseYet DEF CInv, AskersFirst
  <2>5. pc'["close"] = pc["close"] /\ \A u \in Callers : pc'[u] \in Asking => pc[u] \in Asking
    BY <1>3, <2>1 DEF Tasks
  <2> QED
    BY <1>1, <2>1, <2>2, <2>4, <2>5, LoopKeepsClose
<1> QED
  BY <1>4, <1>5

LEMMA CloseAsks ==
  ASSUME CInv, CloseBegin \/ Closing
  PROVE  LoopAsks
<1>1. LInv /\ LoopKeeps
  BY CloseKeeps DEF CInv
<1> USE RunIsNoCaller DEF CloseBegin, Closing, CloseJoin, CloseDropped, CloseDone
<1>2. \A t \in Callers : pc'[t] = pc[t]
  BY <1>1 DEF LInv, IInv, TypeOK, PcOK, Tasks, Submit, Goto
<1>3. pc'["close"] \notin Asking
  BY <1>1 DEF LInv, IInv, TypeOK, PcOK, Tasks, Submit, Goto, Asking
<1>4. \/ ready' = ready
      \/ ready # <<>> /\ ready' = Tail(ready) /\ Head(ready).task = "close"
  BY DEF Resume
<1>5. pc["close"] \in Ended => queue' = queue
  BY <1>1, NoCloseYet DEF Resume, Goto, Ended
<1>6. pc'["close"] = "closed" =>
         pc["close"] \in Ended /\ (pc["close"] # "closed" => queue = <<>> /\ work = Idle)
  BY <1>1 DEF LInv, IInv, TypeOK, PcOK, Tasks, Submit, Goto, Ended
<1> QED
  BY <1>1, <1>2, <1>3, <1>4, <1>5, <1>6 DEF LoopKeeps, LoopQuiet, LoopAsks, Ended

LEMMA RestAsks ==
  ASSUME CInv, Discard \/ RefreshTimer \/ DeadTimer \/ Environment \/ UNCHANGED vars
  PROVE  LoopAsks
<1>1. LInv /\ LoopKeeps
  BY RestKeeps DEF CInv
<1>2. UNCHANGED <<pc, queue>>
  BY DEF Discard, RefreshTimer, DeadTimer, Environment, Move, Cut, vars
<1>3. \/ ready' = ready
      \/ ready # <<>> /\ ready' = Tail(ready) /\ pc[Head(ready).task] \notin Asking
  BY DEF Discard, RefreshTimer, DeadTimer, Environment, Move, Cut, vars, Asking
<1> QED
  BY <1>1, <1>2, <1>3, LoopKeepsClose

-----------------------------------------------------------------------------
(* The steps of the worker, which takes the jobs in order and answers them *)
(* in order.                                                               *)

LEMMA TakeKeepsAskers ==
  ASSUME CInv, WTake \/ WSkip
  PROVE  AskersFirst' /\ ClosedIsEmpty'
<1>1. queue \in Seq(Jobs) /\ queue # <<>> /\ work = Idle /\ queue' = Tail(queue)
      /\ UNCHANGED <<pc, ready>>
  BY DEF CInv, LInv, IInv, TypeOK, WTake, WSkip
<1>2. ASSUME NEW t \in Callers, pc'[t] \in Asking
      PROVE  pc'["close"] \notin Ended /\ Served(t)'
  <2>1. pc["close"] \notin Ended /\ Served(t)
    BY <1>1, <1>2 DEF CInv, AskersFirst
  <2>2. work.task # t
    BY <1>1, RunIsNoCaller DEF Idle
  <2>3. BeforeClose(queue, t) => /\ Head(queue).task # "close"
                                 /\ Head(queue).task # t => BeforeClose(queue', t)
    BY <1>1, HeadFirst
  <2>4. CASE WTake
    BY <1>1, <2>1, <2>2, <2>3, <2>4 DEF Served, WTake
  <2>5. CASE WSkip
    <3>1. Head(queue).task # t
      BY <1>1, <1>2, <2>5 DEF WSkip, Asking
    <3> QED
      BY <1>1, <2>1, <2>2, <2>3, <2>5, <3>1 DEF Served, WSkip
  <2> QED
    BY <1>1, <2>1, <2>4, <2>5
<1>3. ClosedIsEmpty'
  BY <1>1 DEF CInv, ClosedIsEmpty
<1> QED
  BY <1>2, <1>3 DEF AskersFirst

(* The worker goes on with its job, or ends it.                            *)
LEMMA WorkKeepsAskers ==
  ASSUME CInv, Worker, ~(WTake \/ WSkip)
  PROVE  AskersFirst' /\ ClosedIsEmpty'
<1>1. /\ UNCHANGED <<pc, queue>>
      /\ work # Idle
      /\ \/ UNCHANGED <<work, ready>>
         \/ work' = Idle /\ \E res \in {"ok", "fail", "lost"} :
               ready' = Append(ready, [task |-> work.task, res |-> res])
  BY DEF Worker, WDrop, WOpen, WOpenBegin, WOpenAbort, WOpenNew, WOpenDial, WOpenTcp,
     WOpenStatus, WOpenGood, WOpenBad, WOpenGone, WStatus, WHeartbeat, WReceive, WSet,
     Finish, Working, Idle
<1>2. ready \in Seq(Results) /\ work \in Jobs
  BY <1>1 DEF CInv, LInv, IInv, TypeOK
<1>3. ASSUME NEW t \in Callers, pc'[t] \in Asking
      PROVE  pc'["close"] \notin Ended /\ Served(t)'
  <2>1. pc["close"] \notin Ended /\ Served(t)
    BY <1>1, <1>3 DEF CInv, AskersFirst
  <2>2. CASE UNCHANGED <<work, ready>>
    BY <1>1, <2>1, <2>2 DEF Served
  <2>3. ASSUME NEW res \in {"ok", "fail", "lost"}, work' = Idle,
               ready' = Append(ready, [task |-> work.task, res |-> res])
        PROVE  Served(t)'
    <3>1. [task |-> work.task, res |-> res] \in Results
      BY <1>2 DEF Jobs, Results
    <3>2. BeforeClose(ready, t) => BeforeClose(ready', t)
      BY <1>2, <2>3, <3>1, AppendBehind
    <3>3. NoClose(ready) /\ work.task # "close" =>
             NoClose(ready') /\ BeforeClose(ready', work.task)
      BY <1>2, <2>3, <3>1, AppendFirst
    <3> QED
      BY <1>1, <2>1, <2>3, <3>2, <3>3, RunIsNoCaller DEF Served, Idle
  <2> QED
    BY <1>1, <2>1, <2>2, <2>3
<1>4. ClosedIsEmpty'
  BY <1>1 DEF CInv, ClosedIsEmpty
<1> QED
  BY <1>3, <1>4 DEF AskersFirst

-----------------------------------------------------------------------------
LEMMA CInvInit == Init => CInv
<1> SUFFICES ASSUME Init PROVE CInv
  OBVIOUS
<1>1. AskersFirst /\ ClosedIsEmpty
  BY RunIsNoCaller DEF Init, AskersFirst, ClosedIsEmpty, Asking, Tasks
<1> QED
  BY <1>1, LInvInit DEF CInv

(* What a step may submit.                                                 *)
Submits == pc["close"] \in Ended => Len(queue') <= Len(queue)

LEMMA CInvNext == CInv /\ [Next]_vars => CInv' /\ Submits
<1> SUFFICES ASSUME CInv, [Next]_vars PROVE CInv' /\ Submits
  OBVIOUS
<1>1. LInv'
  BY LInvNext DEF CInv
<1>2. queue \in Seq(Jobs) /\ Len(queue) \in Nat
  BY LenProperties DEF CInv, LInv, IInv, TypeOK
<1>3. ASSUME LoopAsks PROVE CInv' /\ Submits
  BY <1>1, <1>2, <1>3, AsksKeeps DEF CInv, LoopAsks, Submits
<1>4. CASE WTake \/ WSkip
  <2>1. queue # <<>> /\ queue' = Tail(queue)
    BY <1>4 DEF WTake, WSkip
  <2>2. Len(queue') <= Len(queue)
    BY <1>2, <2>1, HeadTailProperties
  <2> QED
    BY <1>1, <1>4, <2>2, TakeKeepsAskers DEF CInv, Submits
<1>5. CASE Worker /\ ~(WTake \/ WSkip)
  <2>1. queue' = queue
    BY <1>5 DEF Worker, WDrop, WOpen, WOpenBegin, WOpenAbort, WOpenNew, WOpenDial, WOpenTcp,
       WOpenStatus, WOpenGood, WOpenBad, WOpenGone, WStatus, WHeartbeat, WReceive, WSet
  <2> QED
    BY <1>1, <1>2, <1>5, <2>1, WorkKeepsAskers DEF CInv, Submits
<1> QED
  BY <1>3, <1>4, <1>5, RunAsks, CallerAsks, CloseAsks, RestAsks DEF Next, System

LEMMA CInvAlways == Spec => []CInv
BY CInvInit, CInvNext, PTL DEF Spec

(* async_close of lan/device.py shuts the executor down when no caller can *)
(* need it any more: _call never meets an executor that refuses.           *)
THEOREM NobodyIsRefused == Spec => NoJobAfterShutdown
<1>1. CInv /\ [Next]_vars => [pc["close"] \in {"shutdown", "closed"} => Len(queue') <= Len(queue)]_vars
  BY CInvNext DEF Submits, Ended
<1> QED
  BY <1>1, CInvAlways, PTL DEF Spec, NoJobAfterShutdown

(* When async_close has returned, the object holds no connection, no       *)
(* socket and no job.                                                      *)
THEOREM CloseLeavesNothing == Spec => []ClosedIsClean
<1>1. CInv => ClosedIsClean
  BY NoneAssumption
  DEF CInv, LInv, IInv, ClosedIsEmpty, ClosedIsClean, DropIsLast, DropDone, Drained,
      OneSocket, WorkerShape
<1> QED
  BY <1>1, CInvAlways, PTL
=============================================================================
