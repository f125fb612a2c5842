-------------------------- MODULE LanDeviceProofs --------------------------
(***************************************************************************)
(* Safety of LanDevice for every set of callers, settings and library      *)
(* objects, and every number of protocol versions.                         *)
(***************************************************************************)
EXTENDS LanDevice, TLAPS, SequenceTheorems

(* The local variable of _w_open is set only inside it, and the connection *)
(* in use only outside of it.                                              *)
WorkerShape ==
    /\ local # NoConn => work.op = "open" /\ stage \notin {"begin", "next"}
    /\ work.op = "open" /\ stage # "begin" => api = NoConn

(* The job that async_reconfigure leaves behind.  That of the background   *)
(* task would not do: closing the device cancels it.                       *)
CallerDrop(job) == job.op = "drop" /\ job.task \in Callers
CallerDropPending ==
    \/ CallerDrop(work)
    \/ \E i \in 1..Len(queue) : CallerDrop(queue[i])

(* An object made from old settings, in use or being opened, has that job  *)
(* ahead of it.                                                            *)
OldSettings(c) == c # NoConn /\ peer[c] # config
DropsOldSettings == OldSettings(api) \/ OldSettings(local) => CallerDropPending

IInv == TypeOK /\ WorkerShape /\ OneSocket /\ DropsOldSettings

-----------------------------------------------------------------------------
(* The pieces shared by the actions.                                       *)

LEMMA RunIsNoCaller == "run" \notin Callers /\ "close" \notin Callers
                       /\ "nobody" \notin Callers
  BY TasksAssumption

(* A task moves to a label of its own kind.                                *)
LEMMA PcStep ==
  ASSUME PcOK, NEW t \in Tasks, NEW label,
         t = "run" => label \in RunLabels,
         t = "close" => label \in CloseLabels,
         t \in Callers => label \in CallerLabels,
         pc' = [pc EXCEPT ![t] = label]
  PROVE  PcOK'
  BY RunIsNoCaller DEF PcOK, Tasks

(* What _call does.                                                        *)
LEMMA SubmitStep ==
  ASSUME PcOK, queue \in Seq(Jobs), NEW t \in Tasks, NEW label \in DOMAIN OpOf,
         t = "run" => label \in RunLabels,
         t = "close" => label \in CloseLabels,
         t \in Callers => label \in CallerLabels,
         Submit(t, label)
  PROVE  /\ PcOK' /\ queue' \in Seq(Jobs)
         /\ queue' = Append(queue, [task |-> t, op |-> OpOf[label]])
<1>1. OpOf[label] \in Ops
  BY DEF OpOf, Ops
<1>2. [task |-> t, op |-> OpOf[label]] \in Jobs
  BY <1>1 DEF Jobs
<1>3. queue' = Append(queue, [task |-> t, op |-> OpOf[label]])
  BY DEF Submit
<1>4. PcOK'
  BY PcStep DEF Submit
<1> QED
  BY <1>2, <1>3, <1>4

(* What the end of a job does.                                             *)
LEMMA FinishStep ==
  ASSUME work \in Jobs, ready \in Seq(Results), NEW res \in {"ok", "fail", "lost"},
         Finish(res)
  PROVE  work' = Idle /\ ready' \in Seq(Results)
  BY DEF Finish, Jobs, Results

(* What the delivery of a result does.                                     *)
LEMMA ResumeStep ==
  ASSUME ready \in Seq(Results), NEW t, NEW label, NEW res, Resume(t, label, res)
  PROVE  ready' \in Seq(Results)
  BY DEF Resume

LEMMA WorkIsJob ==
  ASSUME TypeOK, NEW op \in Ops, Working(op)
  PROVE  work \in Jobs
  BY DEF TypeOK, Working, Ops, Idle

-----------------------------------------------------------------------------
(* The type invariant.                                                     *)

LEMMA TypeInit == Init => TypeOK
<1> SUFFICES ASSUME Init PROVE TypeOK
  OBVIOUS
<1>1. PcOK
  BY RunIsNoCaller DEF Init, PcOK, Tasks, RunLabels, CallerLabels, CloseLabels
<1>2. queue \in Seq(Jobs) /\ ready \in Seq(Results)
  BY DEF Init
<1>3. attempt \in 1..Versions
  BY VersionsAssumption DEF Init
<1>4. sock \in [Conns -> {"none", "dialing", "up", "silent", "cut"}]
      /\ peer \in [Conns -> Configs \cup {Nowhere}]
  BY DEF Init
<1> QED
  BY <1>1, <1>2, <1>3, <1>4 DEF Init, TypeOK, ConnOrNone

LEMMA TypeWorker == TypeOK /\ Worker => TypeOK'
<1> SUFFICES ASSUME TypeOK, Worker PROVE TypeOK'
  OBVIOUS
<1> USE DEF PcOK
<1>1. CASE WTake
  <2>1. Head(queue) \in Jobs /\ Tail(queue) \in Seq(Jobs)
    BY <1>1 DEF WTake, TypeOK
  <2> QED
    BY <1>1, <2>1, VersionsAssumption DEF WTake, TypeOK, ConnOrNone, link, flags
<1>2. CASE WSkip
  <2>1. Tail(queue) \in Seq(Jobs)
    BY <1>2 DEF WSkip, TypeOK
  <2> QED
    BY <1>2, <2>1 DEF WSkip, TypeOK, ConnOrNone, link, flags
<1>3. CASE WDrop
  <2>1. work \in Jobs
    BY <1>3, WorkIsJob DEF WDrop, Ops
  <2>2. work' = Idle /\ ready' \in Seq(Results)
    BY <1>3, <2>1, FinishStep DEF WDrop, TypeOK
  <2> QED
    BY <1>3, <2>2 DEF WDrop, TypeOK, ConnOrNone, link, flags, CloseConn
<1>4. CASE WOpenBegin
  BY <1>4 DEF WOpenBegin, TypeOK, ConnOrNone, link, flags, CloseConn
<1>5. CASE WOpenAbort
  <2>1. work \in Jobs
    BY <1>5, WorkIsJob DEF WOpenAbort, Ops
  <2>2. work' = Idle /\ ready' \in Seq(Results)
    BY <1>5, <2>1, FinishStep DEF WOpenAbort, TypeOK
  <2> QED
    BY <1>5, <2>2 DEF WOpenAbort, TypeOK, ConnOrNone, link, flags
<1>6. ASSUME NEW c \in Conns, WOpenNew(c) PROVE TypeOK'
  BY <1>6 DEF WOpenNew, TypeOK, ConnOrNone, link, flags
<1>7. CASE WOpenDial
  <2>1. sock' \in [Conns -> {"none", "dialing", "up", "silent", "cut"}]
    BY <1>7 DEF WOpenDial, TypeOK
  <2> QED
    BY <1>7, <2>1 DEF WOpenDial, TypeOK, ConnOrNone, link, flags
<1>8. CASE WOpenTcp
  <2>1. sock' \in [Conns -> {"none", "dialing", "up", "silent", "cut"}]
    BY <1>8 DEF WOpenTcp, TypeOK
  <2> QED
    BY <1>8, <2>1 DEF WOpenTcp, TypeOK, ConnOrNone, link, flags
<1>9. ASSUME NEW outcome \in {"good", "bad", "gone"}, WOpenStatus(outcome) PROVE TypeOK'
  BY <1>9 DEF WOpenStatus, TypeOK, ConnOrNone, link, flags
<1>10. CASE WOpenGood
  <2>1. work \in Jobs
    BY <1>10, WorkIsJob DEF WOpenGood, Ops
  <2>2. work' = Idle /\ ready' \in Seq(Results)
    BY <1>10, <2>1, FinishStep DEF WOpenGood, TypeOK
  <2> QED
    BY <1>10, <2>2 DEF WOpenGood, TypeOK, ConnOrNone, link, flags
<1>11. CASE WOpenBad
  <2>1. work \in Jobs
    BY <1>11, WorkIsJob DEF WOpenBad, Ops
  <2>2. work' \in Jobs \cup {Idle} /\ ready' \in Seq(Results)
    BY <1>11, <2>1, FinishStep DEF WOpenBad, TypeOK
  <2>3. attempt' \in 1..Versions
    BY <1>11, VersionsAssumption DEF WOpenBad, TypeOK
  <2> QED
    BY <1>11, <2>2, <2>3 DEF WOpenBad, TypeOK, ConnOrNone, link, flags, CloseConn
<1>12. CASE WOpenGone
  <2>1. work \in Jobs
    BY <1>12, WorkIsJob DEF WOpenGone, Ops
  <2>2. work' = Idle /\ ready' \in Seq(Results)
    BY <1>12, <2>1, FinishStep DEF WOpenGone, TypeOK
  <2> QED
    BY <1>12, <2>2 DEF WOpenGone, TypeOK, ConnOrNone, link, flags, CloseConn
<1>13. CASE WStatus
  <2>1. work \in Jobs
    BY <1>13, WorkIsJob DEF WStatus, Ops
  <2>2. work' = Idle /\ ready' \in Seq(Results)
    BY <1>13, <2>1, FinishStep DEF WStatus, TypeOK
  <2> QED
    BY <1>13, <2>2 DEF WStatus, TypeOK, ConnOrNone, link, flags
<1>14. ASSUME NEW res \in {"ok", "lost"}, WHeartbeat(res) PROVE TypeOK'
  <2>1. work \in Jobs
    BY <1>14, WorkIsJob DEF WHeartbeat, Ops
  <2>2. work' = Idle /\ ready' \in Seq(Results)
    BY <1>14, <2>1, FinishStep DEF WHeartbeat, TypeOK
  <2> QED
    BY <1>14, <2>2 DEF WHeartbeat, TypeOK, ConnOrNone, link, flags
<1>15. CASE WReceive
  <2>1. work \in Jobs
    BY <1>15, WorkIsJob DEF WReceive, Ops
  <2>2. work' = Idle /\ ready' \in Seq(Results)
    BY <1>15, <2>1, FinishStep DEF WReceive, TypeOK
  <2>3. rxDead' \in BOOLEAN
    BY <1>15 DEF WReceive, TypeOK
  <2> QED
    BY <1>15, <2>2, <2>3 DEF WReceive, TypeOK, ConnOrNone, link, flags
<1>16. ASSUME NEW res \in {"ok", "lost"}, WSet(res) PROVE TypeOK'
  <2>1. work \in Jobs
    BY <1>16, WorkIsJob DEF WSet, Ops
  <2>2. work' = Idle /\ ready' \in Seq(Results)
    BY <1>16, <2>1, FinishStep DEF WSet, TypeOK
  <2> QED
    BY <1>16, <2>2 DEF WSet, TypeOK, ConnOrNone, link, flags
<1> QED
  BY <1>1, <1>2, <1>3, <1>4, <1>5, <1>6, <1>7, <1>8, <1>9, <1>10, <1>11, <1>12, <1>13, <1>14, <1>15, <1>16 DEF Worker, WOpen

LEMMA TypeRun == TypeOK /\ (RunTop \/ RunResume \/ RunWake \/ Start) => TypeOK'
<1> SUFFICES ASSUME TypeOK, RunTop \/ RunResume \/ RunWake \/ Start PROVE TypeOK'
  OBVIOUS
<1>1. CASE RunOpen
  <2>1. PcOK' /\ queue' \in Seq(Jobs)
    BY <1>1, RunIsNoCaller, SubmitStep DEF RunOpen, TypeOK, Tasks, RunLabels, CallerLabels, CloseLabels, OpOf
  <2>3. /\ available' \in BOOLEAN /\ wake' \in BOOLEAN /\ rxDead' \in BOOLEAN
        /\ refreshAt' \in {"none", "armed", "due"}
    BY <1>1 DEF RunOpen, TypeOK, flags
  <2> QED
    BY <1>1, <2>1, <2>3 DEF RunOpen, TypeOK, ConnOrNone, link, flags
<1>2. CASE RunDead
  <2>1. PcOK' /\ queue' \in Seq(Jobs)
    BY <1>2, RunIsNoCaller, SubmitStep DEF RunDead, TypeOK, Tasks, RunLabels, CallerLabels, CloseLabels, OpOf
  <2> QED
    BY <1>2, <2>1 DEF RunDead, TypeOK, ConnOrNone, link, flags
<1>3. CASE RunStatus
  <2>1. PcOK' /\ queue' \in Seq(Jobs)
    BY <1>3, RunIsNoCaller, SubmitStep DEF RunStatus, TypeOK, Tasks, RunLabels, CallerLabels, CloseLabels, OpOf
  <2> QED
    BY <1>3, <2>1 DEF RunStatus, TypeOK, ConnOrNone, link, flags
<1>4. ASSUME NEW label \in {"beat", "receive"}, RunListen(label) PROVE TypeOK'
  <2>1. PcOK' /\ queue' \in Seq(Jobs)
    BY <1>4, RunIsNoCaller, SubmitStep DEF RunListen, TypeOK, Tasks, RunLabels, CallerLabels, CloseLabels, OpOf
  <2> QED
    BY <1>4, <2>1 DEF RunListen, TypeOK, ConnOrNone, link, flags
<1>5. CASE RunBeatSent
  <2>1. PcOK' /\ queue' \in Seq(Jobs)
    BY <1>5, RunIsNoCaller, SubmitStep DEF RunBeatSent, TypeOK, Tasks, RunLabels, CallerLabels, CloseLabels, OpOf
  <2>2. ready' \in Seq(Results)
    BY <1>5, ResumeStep DEF RunBeatSent, TypeOK
  <2> QED
    BY <1>5, <2>1, <2>2 DEF RunBeatSent, TypeOK, ConnOrNone, link, flags
<1>6. CASE RunReceived
  <2>1. PcOK' /\ queue' \in Seq(Jobs)
    BY <1>6, RunIsNoCaller, PcStep DEF RunReceived, TypeOK, Tasks, RunLabels, CallerLabels, CloseLabels, Goto
  <2>2. ready' \in Seq(Results)
    BY <1>6, ResumeStep DEF RunReceived, TypeOK
  <2> QED
    BY <1>6, <2>1, <2>2 DEF RunReceived, TypeOK, ConnOrNone, link, flags
<1>7. CASE RunStatusRead
  <2>1. PcOK' /\ queue' \in Seq(Jobs)
    BY <1>7, RunIsNoCaller, PcStep DEF RunStatusRead, TypeOK, Tasks, RunLabels, CallerLabels, CloseLabels, Goto
  <2>2. ready' \in Seq(Results)
    BY <1>7, ResumeStep DEF RunStatusRead, TypeOK
  <2>3. /\ available' \in BOOLEAN /\ wake' \in BOOLEAN /\ rxDead' \in BOOLEAN
        /\ refreshAt' \in {"none", "armed", "due"}
    BY <1>7 DEF RunStatusRead, TypeOK, HandleStatus
  <2> QED
    BY <1>7, <2>1, <2>2, <2>3 DEF RunStatusRead, TypeOK, ConnOrNone, link, flags, HandleStatus
<1>8. CASE RunOpened
  <2>1. PcOK' /\ queue' \in Seq(Jobs)
    BY <1>8, RunIsNoCaller, PcStep DEF RunOpened, TypeOK, Tasks, RunLabels, CallerLabels, CloseLabels, Goto
  <2>2. ready' \in Seq(Results)
    BY <1>8, ResumeStep DEF RunOpened, TypeOK
  <2> QED
    BY <1>8, <2>1, <2>2 DEF RunOpened, TypeOK, ConnOrNone, link, flags, HandleConnected
<1>9. CASE RunOpenFailed
  <2>1. PcOK' /\ queue' \in Seq(Jobs)
    BY <1>9, RunIsNoCaller, PcStep DEF RunOpenFailed, TypeOK, Tasks, RunLabels, CallerLabels, CloseLabels, Goto, FallAsleep
  <2>2. ready' \in Seq(Results)
    BY <1>9, ResumeStep DEF RunOpenFailed, TypeOK
  <2>3. /\ available' \in BOOLEAN /\ wake' \in BOOLEAN /\ rxDead' \in BOOLEAN
        /\ refreshAt' \in {"none", "armed", "due"}
    BY <1>9 DEF RunOpenFailed, TypeOK, FallAsleep
  <2> QED
    BY <1>9, <2>1, <2>2, <2>3 DEF RunOpenFailed, TypeOK, ConnOrNone, link, flags, FallAsleep
<1>10. CASE RunLost
  <2>1. PcOK' /\ queue' \in Seq(Jobs)
    BY <1>10, RunIsNoCaller, SubmitStep DEF RunLost, TypeOK, Tasks, RunLabels, CallerLabels, CloseLabels, OpOf
  <2>2. ready' \in Seq(Results)
    BY <1>10, ResumeStep DEF RunLost, TypeOK
  <2> QED
    BY <1>10, <2>1, <2>2 DEF RunLost, TypeOK, ConnOrNone, link, flags
<1>11. CASE RunDropped
  <2>1. PcOK' /\ queue' \in Seq(Jobs)
    BY <1>11, RunIsNoCaller, PcStep DEF RunDropped, TypeOK, Tasks, RunLabels, CallerLabels, CloseLabels, Goto, FallAsleep
  <2>2. ready' \in Seq(Results)
    BY <1>11, ResumeStep DEF RunDropped, TypeOK
  <2>3. /\ available' \in BOOLEAN /\ wake' \in BOOLEAN /\ rxDead' \in BOOLEAN
        /\ refreshAt' \in {"none", "armed", "due"}
    BY <1>11 DEF RunDropped, TypeOK, FallAsleep
  <2> QED
    BY <1>11, <2>1, <2>2, <2>3 DEF RunDropped, TypeOK, ConnOrNone, link, flags, FallAsleep
<1>12. CASE RunWake
  <2>1. PcOK' /\ queue' \in Seq(Jobs)
    BY <1>12, RunIsNoCaller, PcStep DEF RunWake, TypeOK, Tasks, RunLabels, CallerLabels, CloseLabels, Goto
  <2> QED
    BY <1>12, <2>1 DEF RunWake, TypeOK, ConnOrNone, link, flags
<1>13. CASE Start
  <2>1. PcOK' /\ queue' \in Seq(Jobs)
    BY <1>13, RunIsNoCaller, PcStep DEF Start, TypeOK, Tasks, RunLabels, CallerLabels, CloseLabels, Goto
  <2> QED
    BY <1>13, <2>1 DEF Start, TypeOK, ConnOrNone, link, flags
<1> QED
  BY <1>1, <1>2, <1>3, <1>4, <1>5, <1>6, <1>7, <1>8, <1>9, <1>10, <1>11, <1>12, <1>13 DEF RunTop, RunResume

LEMMA TypeCallers == TypeOK /\ (\E t \in Callers : Caller(t) \/ CallerResume(t)) => TypeOK'
<1> SUFFICES ASSUME TypeOK, \E t \in Callers : Caller(t) \/ CallerResume(t) PROVE TypeOK'
  OBVIOUS
<1>1. ASSUME NEW t \in Callers, Connect(t) PROVE TypeOK'
  <2>1. PcOK' /\ queue' \in Seq(Jobs)
    BY <1>1, RunIsNoCaller, SubmitStep DEF Connect, TypeOK, Tasks, RunLabels, CallerLabels, CloseLabels, OpOf
  <2> QED
    BY <1>1, <2>1 DEF Connect, TypeOK, ConnOrNone, link, flags
<1>2. ASSUME NEW t \in Callers, CancelConnect(t) PROVE TypeOK'
  <2>1. PcOK' /\ queue' \in Seq(Jobs)
    BY <1>2, RunIsNoCaller, PcStep DEF CancelConnect, TypeOK, Tasks, RunLabels, CallerLabels, CloseLabels, Goto
  <2> QED
    BY <1>2, <2>1 DEF CancelConnect, TypeOK, ConnOrNone, link, flags
<1>3. ASSUME NEW t \in Callers, Refresh(t) PROVE TypeOK'
  <2>1. PcOK' /\ queue' \in Seq(Jobs)
    BY <1>3, RunIsNoCaller, SubmitStep DEF Refresh, TypeOK, Tasks, RunLabels, CallerLabels, CloseLabels, OpOf
  <2> QED
    BY <1>3, <2>1 DEF Refresh, TypeOK, ConnOrNone, link, flags
<1>4. ASSUME NEW t \in Callers, SetDps(t) PROVE TypeOK'
  <2>1. PcOK' /\ queue' \in Seq(Jobs)
    BY <1>4, RunIsNoCaller, SubmitStep DEF SetDps, TypeOK, Tasks, RunLabels, CallerLabels, CloseLabels, OpOf
  <2> QED
    BY <1>4, <2>1 DEF SetDps, TypeOK, ConnOrNone, link, flags
<1>5. ASSUME NEW t \in Callers, NEW c \in Configs, Reconfigure(t, c) PROVE TypeOK'
  <2>1. PcOK' /\ queue' \in Seq(Jobs)
    BY <1>5, RunIsNoCaller, SubmitStep DEF Reconfigure, TypeOK, Tasks, RunLabels, CallerLabels, CloseLabels, OpOf
  <2>2. sock' \in [Conns -> {"none", "dialing", "up", "silent", "cut"}]
    BY <1>5 DEF Reconfigure, Interrupt, TypeOK
  <2> QED
    BY <1>5, <2>1, <2>2 DEF Reconfigure, TypeOK, ConnOrNone, link, flags, Interrupt
<1>6. ASSUME NEW t \in Callers, Connected(t) PROVE TypeOK'
  <2>1. PcOK' /\ queue' \in Seq(Jobs)
    BY <1>6, RunIsNoCaller, PcStep DEF Connected, TypeOK, Tasks, RunLabels, CallerLabels, CloseLabels, Goto
  <2>2. ready' \in Seq(Results)
    BY <1>6, ResumeStep DEF Connected, TypeOK
  <2> QED
    BY <1>6, <2>1, <2>2 DEF Connected, TypeOK, ConnOrNone, link, flags, HandleConnected
<1>7. ASSUME NEW t \in Callers, ConnectFailed(t) PROVE TypeOK'
  <2>1. PcOK' /\ queue' \in Seq(Jobs)
    BY <1>7, RunIsNoCaller, PcStep DEF ConnectFailed, TypeOK, Tasks, RunLabels, CallerLabels, CloseLabels, Goto
  <2>2. ready' \in Seq(Results)
    BY <1>7, ResumeStep DEF ConnectFailed, TypeOK
  <2> QED
    BY <1>7, <2>1, <2>2 DEF ConnectFailed, TypeOK, ConnOrNone, link, flags
<1>8. ASSUME NEW t \in Callers, Refreshed(t) PROVE TypeOK'
  <2>1. PcOK' /\ queue' \in Seq(Jobs)
    BY <1>8, RunIsNoCaller, PcStep DEF Refreshed, TypeOK, Tasks, RunLabels, CallerLabels, CloseLabels, Goto
  <2>2. ready' \in Seq(Results)
    BY <1>8, ResumeStep DEF Refreshed, TypeOK
  <2>3. /\ available' \in BOOLEAN /\ wake' \in BOOLEAN /\ rxDead' \in BOOLEAN
        /\ refreshAt' \in {"none", "armed", "due"}
    BY <1>8 DEF Refreshed, TypeOK, HandleStatus
  <2> QED
    BY <1>8, <2>1, <2>2, <2>3 DEF Refreshed, TypeOK, ConnOrNone, link, flags, HandleStatus
<1>9. ASSUME NEW t \in Callers, SetSent(t) PROVE TypeOK'
  <2>1. PcOK' /\ queue' \in Seq(Jobs)
    BY <1>9, RunIsNoCaller, PcStep DEF SetSent, TypeOK, Tasks, RunLabels, CallerLabels, CloseLabels, Goto
  <2>2. ready' \in Seq(Results)
    BY <1>9, ResumeStep DEF SetSent, TypeOK
  <2> QED
    BY <1>9, <2>1, <2>2 DEF SetSent, TypeOK, ConnOrNone, link, flags
<1>10. ASSUME NEW t \in Callers, CallerLost(t) PROVE TypeOK'
  <2>1. PcOK' /\ queue' \in Seq(Jobs)
    BY <1>10, RunIsNoCaller, SubmitStep DEF CallerLost, TypeOK, Tasks, RunLabels, CallerLabels, CloseLabels, OpOf
  <2>2. ready' \in Seq(Results)
    BY <1>10, ResumeStep DEF CallerLost, TypeOK
  <2> QED
    BY <1>10, <2>1, <2>2 DEF CallerLost, TypeOK, ConnOrNone, link, flags
<1>11. ASSUME NEW t \in Callers, CallerDropped(t) PROVE TypeOK'
  <2>1. PcOK' /\ queue' \in Seq(Jobs)
    BY <1>11, RunIsNoCaller, PcStep DEF CallerDropped, TypeOK, Tasks, RunLabels, CallerLabels, CloseLabels, Goto
  <2>2. ready' \in Seq(Results)
    BY <1>11, ResumeStep DEF CallerDropped, TypeOK
  <2>3. /\ available' \in BOOLEAN /\ wake' \in BOOLEAN /\ rxDead' \in BOOLEAN
        /\ refreshAt' \in {"none", "armed", "due"}
    BY <1>11 DEF CallerDropped, TypeOK
  <2> QED
    BY <1>11, <2>1, <2>2, <2>3 DEF CallerDropped, TypeOK, ConnOrNone, link, flags
<1>12. ASSUME NEW t \in Callers, Reconfigured(t) PROVE TypeOK'
  <2>1. PcOK' /\ queue' \in Seq(Jobs)
    BY <1>12, RunIsNoCaller, PcStep DEF Reconfigured, TypeOK, Tasks, RunLabels, CallerLabels, CloseLabels, Goto
  <2>2. ready' \in Seq(Results)
    BY <1>12, ResumeStep DEF Reconfigured, TypeOK
  <2>3. /\ available' \in BOOLEAN /\ wake' \in BOOLEAN /\ rxDead' \in BOOLEAN
        /\ refreshAt' \in {"none", "armed", "due"}
    BY <1>12 DEF Reconfigured, TypeOK
  <2> QED
    BY <1>12, <2>1, <2>2, <2>3 DEF Reconfigured, TypeOK, ConnOrNone, link, flags
<1> QED
  BY <1>1, <1>2, <1>3, <1>4, <1>5, <1>6, <1>7, <1>8, <1>9, <1>10, <1>11, <1>12 DEF Caller, CallerResume

LEMMA TypeClosing == TypeOK /\ (Closing) => TypeOK'
<1> SUFFICES ASSUME TypeOK, Closing PROVE TypeOK'
  OBVIOUS
<1>1. CASE CloseJoin
  <2>1. PcOK' /\ queue' \in Seq(Jobs)
    BY <1>1, RunIsNoCaller, SubmitStep DEF CloseJoin, TypeOK, Tasks, RunLabels, CallerLabels, CloseLabels, OpOf
  <2> QED
    BY <1>1, <2>1 DEF CloseJoin, TypeOK, ConnOrNone, link, flags
<1>2. CASE CloseDropped
  <2>1. PcOK' /\ queue' \in Seq(Jobs)
    BY <1>2, RunIsNoCaller, PcStep DEF CloseDropped, TypeOK, Tasks, RunLabels, CallerLabels, CloseLabels, Goto
  <2>2. ready' \in Seq(Results)
    BY <1>2, ResumeStep DEF CloseDropped, TypeOK
  <2> QED
    BY <1>2, <2>1, <2>2 DEF CloseDropped, TypeOK, ConnOrNone, link, flags
<1>3. CASE CloseDone
  <2>1. PcOK' /\ queue' \in Seq(Jobs)
    BY <1>3, RunIsNoCaller, PcStep DEF CloseDone, TypeOK, Tasks, RunLabels, CallerLabels, CloseLabels, Goto
  <2> QED
    BY <1>3, <2>1 DEF CloseDone, TypeOK, ConnOrNone, link, flags
<1> QED
  BY <1>1, <1>2, <1>3 DEF Closing

LEMMA TypeCloseBegin == TypeOK /\ CloseBegin => TypeOK'
<1> SUFFICES ASSUME TypeOK, CloseBegin PROVE TypeOK'
  OBVIOUS
<1>1. sock' \in [Conns -> {"none", "dialing", "up", "silent", "cut"}]
  BY DEF CloseBegin, Interrupt, TypeOK
<1>2. PcOK' /\ queue' \in Seq(Jobs)
  <2>1. CASE pc["run"] = "off"
    BY <2>1, RunIsNoCaller, SubmitStep
    DEF CloseBegin, TypeOK, Tasks, OpOf, CloseLabels
  <2>2. CASE pc["run"] # "off"
    BY <2>2, RunIsNoCaller
    DEF CloseBegin, TypeOK, PcOK, Tasks, RunLabels, CloseLabels
  <2> QED
    BY <2>1, <2>2
<1> QED
  BY <1>1, <1>2 DEF CloseBegin, Interrupt, TypeOK, ConnOrNone, link, flags

LEMMA TypeRest == TypeOK /\ (Discard \/ RefreshTimer \/ DeadTimer \/ Environment) => TypeOK'
<1> SUFFICES ASSUME TypeOK, Discard \/ RefreshTimer \/ DeadTimer \/ Environment
             PROVE  TypeOK'
  OBVIOUS
<1> USE DEF PcOK
<1>1. CASE Discard
  <2>1. ready' \in Seq(Results)
    BY <1>1 DEF Discard, TypeOK
  <2> QED
    BY <1>1, <2>1 DEF Discard, TypeOK, ConnOrNone, link, flags
<1>2. CASE RefreshTimer
  BY <1>2 DEF RefreshTimer, TypeOK, ConnOrNone, link, flags
<1>3. CASE DeadTimer
  BY <1>3 DEF DeadTimer, TypeOK, ConnOrNone, link, flags
<1>4. ASSUME NEW a \in Configs \cup {Nowhere}, Move(a) PROVE TypeOK'
  BY <1>4 DEF Move, TypeOK, ConnOrNone, link, flags
<1>5. ASSUME NEW c \in Conns, NEW how \in {"silent", "cut"}, Cut(c, how) PROVE TypeOK'
  <2>1. sock' \in [Conns -> {"none", "dialing", "up", "silent", "cut"}]
    BY <1>5 DEF Cut, TypeOK
  <2> QED
    BY <1>5, <2>1 DEF Cut, TypeOK, ConnOrNone, link, flags
<1> QED
  BY <1>1, <1>2, <1>3, <1>4, <1>5 DEF Environment

LEMMA TypeNext == TypeOK /\ [Next]_vars => TypeOK'
<1> SUFFICES ASSUME TypeOK, [Next]_vars PROVE TypeOK'
  OBVIOUS
<1>1. CASE UNCHANGED vars
  BY <1>1 DEF vars, PcOK, TypeOK, ConnOrNone, link, flags
<1>2. CASE Next
  BY <1>2, TypeWorker, TypeRun, TypeCallers, TypeClosing, TypeCloseBegin, TypeRest
  DEF Next, System
<1> QED
  BY <1>1, <1>2

(* Every variable keeps its type, whatever the number of callers, settings *)
(* and library objects: in particular every job in the executor's queue    *)
(* belongs to a task, and no attempt goes beyond the last version.         *)
THEOREM TypeCorrect == Spec => []TypeOK
  BY TypeInit, TypeNext, PTL DEF Spec

-----------------------------------------------------------------------------
(* One socket, and never the old settings.                                 *)

(* What a step does that leaves the connections and the worker alone: it   *)
(* may cut sockets and add jobs, nothing else the invariant speaks of.     *)
LoopStep ==
  /\ UNCHANGED <<config, api, local, peer, stage, work>>
  /\ \A c \in Conns : sock'[c] # "none" => sock[c] # "none"
  /\ queue' = queue \/ \E job \in Jobs : queue' = Append(queue, job)

LEMMA AppendKeepsDrop ==
  ASSUME queue \in Seq(Jobs), NEW job \in Jobs, queue' = Append(queue, job),
         UNCHANGED work, CallerDropPending
  PROVE  CallerDropPending'
<1>1. Len(queue') = Len(queue) + 1 /\ \A i \in 1..Len(queue) : queue'[i] = queue[i]
  BY AppendProperties
<1>2. Len(queue) \in Nat
  BY LenProperties
<1> QED
  BY <1>1, <1>2 DEF CallerDropPending, CallerDrop

LEMMA LoopStepKeeps ==
  ASSUME TypeOK, WorkerShape, OneSocket, DropsOldSettings, LoopStep
  PROVE  (WorkerShape /\ OneSocket /\ DropsOldSettings)'
<1>1. WorkerShape'
  BY DEF LoopStep, WorkerShape
<1>2. OneSocket'
  BY DEF LoopStep, OneSocket
<1>3. CallerDropPending => CallerDropPending'
  BY AppendKeepsDrop DEF LoopStep, TypeOK, CallerDropPending, CallerDrop
<1>4. DropsOldSettings'
  BY <1>3 DEF LoopStep, DropsOldSettings, OldSettings
<1> QED
  BY <1>1, <1>2, <1>4

LEMMA JobOf ==
  ASSUME NEW t \in Tasks, NEW label \in DOMAIN OpOf
  PROVE  [task |-> t, op |-> OpOf[label]] \in Jobs
  BY DEF Jobs, OpOf, Ops

LEMMA IInvInit == Init => IInv
  BY TypeInit, NoneAssumption
  DEF Init, IInv, WorkerShape, OneSocket, DropsOldSettings, OldSettings, Idle

(* The worker takes or skips a job: that of async_reconfigure is not lost. *)
LEMMA TakeKeeps ==
  ASSUME TypeOK, WorkerShape, OneSocket, DropsOldSettings, WTake \/ WSkip
  PROVE  (WorkerShape /\ OneSocket /\ DropsOldSettings)'
<1>1. work = Idle /\ queue # <<>> /\ queue' = Tail(queue) /\ queue \in Seq(Jobs)
  BY DEF WTake, WSkip, TypeOK
<1>2. /\ Len(queue) \in Nat \ {0} /\ Len(Tail(queue)) = Len(queue) - 1
      /\ \A i \in 1..Len(Tail(queue)) : Tail(queue)[i] = queue[i + 1]
      /\ Head(queue) = queue[1]
  BY <1>1, HeadTailProperties, EmptySeq, LenProperties
<1>3. CASE WTake
  <2>1. CallerDropPending => CallerDropPending'
    <3>1. SUFFICES ASSUME NEW i \in 1..Len(queue), CallerDrop(queue[i])
                   PROVE  CallerDropPending'
      BY <1>1 DEF CallerDropPending, CallerDrop, Idle
    <3>2. CASE i = 1
      BY <1>2, <1>3, <3>1, <3>2 DEF WTake, CallerDropPending, CallerDrop
    <3>3. CASE i # 1
      <4>1. i - 1 \in 1..Len(Tail(queue)) /\ Tail(queue)[i - 1] = queue[i]
        BY <1>2, <3>3
      <4> QED
        BY <1>1, <4>1, <3>1 DEF CallerDropPending, CallerDrop
    <3> QED
      BY <3>2, <3>3
  <2>2. local = NoConn
    BY <1>1 DEF WorkerShape, Idle
  <2> QED
    BY <1>3, <2>1, <2>2 DEF WTake, WorkerShape, OneSocket, DropsOldSettings, OldSettings
<1>4. CASE WSkip
  <2>1. ~CallerDrop(Head(queue))
    BY <1>4, RunIsNoCaller DEF WSkip, CallerDrop
  <2>2. CallerDropPending => CallerDropPending'
    <3>1. SUFFICES ASSUME NEW i \in 1..Len(queue), CallerDrop(queue[i])
                   PROVE  CallerDropPending'
      BY <1>1 DEF CallerDropPending, CallerDrop, Idle
    <3>2. i # 1
      BY <1>2, <2>1, <3>1
    <3>3. i - 1 \in 1..Len(Tail(queue)) /\ Tail(queue)[i - 1] = queue[i]
      BY <1>2, <3>2
    <3> QED
      BY <1>1, <3>3, <3>1 DEF CallerDropPending, CallerDrop
  <2> QED
    BY <1>4, <2>2 DEF WSkip, link, WorkerShape, OneSocket, DropsOldSettings, OldSettings
<1> QED
  BY <1>3, <1>4

(* The worker executes a job.                                              *)
LEMMA WorkKeeps ==
  ASSUME TypeOK, WorkerShape, OneSocket, DropsOldSettings,
         WDrop \/ WOpen \/ WStatus \/ WReceive
           \/ \E res \in {"ok", "lost"} : WHeartbeat(res) \/ WSet(res)
  PROVE  (WorkerShape /\ OneSocket /\ DropsOldSettings)'
<1> USE NoneAssumption DEF TypeOK, ConnOrNone, Working, Finish, Idle, link
<1>1. CASE WDrop
  <2>1. WorkerShape'
    BY <1>1 DEF WDrop, CloseConn, WorkerShape
  <2>2. OneSocket'
    BY <1>1 DEF WDrop, CloseConn, WorkerShape, OneSocket
  <2>3. DropsOldSettings'
    BY <1>1 DEF WDrop, CloseConn, WorkerShape, OneSocket, DropsOldSettings, OldSettings, CallerDropPending, CallerDrop
  <2> QED
    BY <2>1, <2>2, <2>3
<1>2. CASE WOpenBegin
  <2>1. WorkerShape'
    BY <1>2 DEF WOpenBegin, CloseConn, WorkerShape
  <2>2. OneSocket'
    BY <1>2 DEF WOpenBegin, CloseConn, WorkerShape, OneSocket
  <2>3. DropsOldSettings'
    BY <1>2 DEF WOpenBegin, CloseConn, WorkerShape, OneSocket, DropsOldSettings, OldSettings, CallerDropPending, CallerDrop
  <2> QED
    BY <2>1, <2>2, <2>3
<1>3. CASE WOpenAbort
  <2>1. WorkerShape'
    BY <1>3 DEF WOpenAbort, WorkerShape
  <2>2. OneSocket'
    BY <1>3 DEF WOpenAbort, WorkerShape, OneSocket
  <2>3. DropsOldSettings'
    BY <1>3 DEF WOpenAbort, WorkerShape, OneSocket, DropsOldSettings, OldSettings, CallerDropPending, CallerDrop
  <2> QED
    BY <2>1, <2>2, <2>3
<1>4. ASSUME NEW c \in Conns, WOpenNew(c)
      PROVE  (WorkerShape /\ OneSocket /\ DropsOldSettings)'
  <2>1. WorkerShape'
    BY <1>4 DEF WOpenNew, WorkerShape
  <2>2. OneSocket'
    BY <1>4 DEF WOpenNew, WorkerShape, OneSocket
  <2>3. DropsOldSettings'
    BY <1>4 DEF WOpenNew, WorkerShape, OneSocket, DropsOldSettings, OldSettings, CallerDropPending, CallerDrop
  <2> QED
    BY <2>1, <2>2, <2>3
<1>5. CASE WOpenDial
  <2>1. WorkerShape'
    BY <1>5 DEF WOpenDial, WorkerShape
  <2>2. OneSocket'
    BY <1>5 DEF WOpenDial, WorkerShape, OneSocket
  <2>3. DropsOldSettings'
    BY <1>5 DEF WOpenDial, WorkerShape, OneSocket, DropsOldSettings, OldSettings, CallerDropPending, CallerDrop
  <2> QED
    BY <2>1, <2>2, <2>3
<1>6. CASE WOpenTcp
  <2>1. WorkerShape'
    BY <1>6 DEF WOpenTcp, WorkerShape
  <2>2. OneSocket'
    BY <1>6 DEF WOpenTcp, WorkerShape, OneSocket
  <2>3. DropsOldSettings'
    BY <1>6 DEF WOpenTcp, WorkerShape, OneSocket, DropsOldSettings, OldSettings, CallerDropPending, CallerDrop
  <2> QED
    BY <2>1, <2>2, <2>3
<1>7. ASSUME NEW outcome \in {"good", "bad", "gone"}, WOpenStatus(outcome)
      PROVE  (WorkerShape /\ OneSocket /\ DropsOldSettings)'
  <2>1. WorkerShape'
    BY <1>7 DEF WOpenStatus, WorkerShape
  <2>2. OneSocket'
    BY <1>7 DEF WOpenStatus, WorkerShape, OneSocket
  <2>3. DropsOldSettings'
    BY <1>7 DEF WOpenStatus, WorkerShape, OneSocket, DropsOldSettings, OldSettings, CallerDropPending, CallerDrop
  <2> QED
    BY <2>1, <2>2, <2>3
<1>8. CASE WOpenGood
  <2>1. WorkerShape'
    BY <1>8 DEF WOpenGood, WorkerShape
  <2>2. OneSocket'
    BY <1>8 DEF WOpenGood, WorkerShape, OneSocket
  <2>3. DropsOldSettings'
    BY <1>8 DEF WOpenGood, WorkerShape, OneSocket, DropsOldSettings, OldSettings, CallerDropPending, CallerDrop
  <2> QED
    BY <2>1, <2>2, <2>3
<1>9. CASE WOpenBad
  <2>1. WorkerShape'
    BY <1>9 DEF WOpenBad, CloseConn, WorkerShape
  <2>2. OneSocket'
    BY <1>9 DEF WOpenBad, CloseConn, WorkerShape, OneSocket
  <2>3. DropsOldSettings'
    BY <1>9 DEF WOpenBad, CloseConn, WorkerShape, OneSocket, DropsOldSettings, OldSettings, CallerDropPending, CallerDrop
  <2> QED
    BY <2>1, <2>2, <2>3
<1>10. CASE WOpenGone
  <2>1. WorkerShape'
    BY <1>10 DEF WOpenGone, CloseConn, WorkerShape
  <2>2. OneSocket'
    BY <1>10 DEF WOpenGone, CloseConn, WorkerShape, OneSocket
  <2>3. DropsOldSettings'
    BY <1>10 DEF WOpenGone, CloseConn, WorkerShape, OneSocket, DropsOldSettings, OldSettings, CallerDropPending, CallerDrop
  <2> QED
    BY <2>1, <2>2, <2>3
<1>11. CASE WStatus
  <2>1. WorkerShape'
    BY <1>11 DEF WStatus, WorkerShape
  <2>2. OneSocket'
    BY <1>11 DEF WStatus, WorkerShape, OneSocket
  <2>3. DropsOldSettings'
    BY <1>11 DEF WStatus, WorkerShape, OneSocket, DropsOldSettings, OldSettings, CallerDropPending, CallerDrop
  <2> QED
    BY <2>1, <2>2, <2>3
<1>12. ASSUME NEW res \in {"ok", "lost"}, WHeartbeat(res)
      PROVE  (WorkerShape /\ OneSocket /\ DropsOldSettings)'
  <2>1. WorkerShape'
    BY <1>12 DEF WHeartbeat, WorkerShape
  <2>2. OneSocket'
    BY <1>12 DEF WHeartbeat, WorkerShape, OneSocket
  <2>3. DropsOldSettings'
    BY <1>12 DEF WHeartbeat, WorkerShape, OneSocket, DropsOldSettings, OldSettings, CallerDropPending, CallerDrop
  <2> QED
    BY <2>1, <2>2, <2>3
<1>13. CASE WReceive
  <2>1. WorkerShape'
    BY <1>13 DEF WReceive, WorkerShape
  <2>2. OneSocket'
    BY <1>13 DEF WReceive, WorkerShape, OneSocket
  <2>3. DropsOldSettings'
    BY <1>13 DEF WReceive, WorkerShape, OneSocket, DropsOldSettings, OldSettings, CallerDropPending, CallerDrop
  <2> QED
    BY <2>1, <2>2, <2>3
<1>14. ASSUME NEW res \in {"ok", "lost"}, WSet(res)
      PROVE  (WorkerShape /\ OneSocket /\ DropsOldSettings)'
  <2>1. WorkerShape'
    BY <1>14 DEF WSet, WorkerShape
  <2>2. OneSocket'
    BY <1>14 DEF WSet, WorkerShape, OneSocket
  <2>3. DropsOldSettings'
    BY <1>14 DEF WSet, WorkerShape, OneSocket, DropsOldSettings, OldSettings, CallerDropPending, CallerDrop
  <2> QED
    BY <2>1, <2>2, <2>3
<1> QED
  BY <1>1, <1>2, <1>3, <1>4, <1>5, <1>6, <1>7, <1>8, <1>9, <1>10, <1>11, <1>12, <1>13, <1>14 DEF WOpen

(* Every other action, except async_reconfigure, is such a harmless step.  *)
LEMMA RunIsLoopStep == TypeOK /\ (RunTop \/ RunResume \/ RunWake \/ Start) => LoopStep
<1> SUFFICES ASSUME TypeOK, RunTop \/ RunResume \/ RunWake \/ Start PROVE LoopStep
  OBVIOUS
<1> USE JobOf DEF LoopStep, link, Submit, Goto, FallAsleep, Tasks
<1>1. CASE RunOpen
  BY <1>1 DEF RunOpen, OpOf
<1>2. CASE RunDead
  BY <1>2 DEF RunDead, OpOf
<1>3. CASE RunStatus
  BY <1>3 DEF RunStatus, OpOf
<1>4. ASSUME NEW label \in {"beat", "receive"}, RunListen(label) PROVE LoopStep
  BY <1>4 DEF RunListen, OpOf
<1>5. CASE RunBeatSent
  BY <1>5 DEF RunBeatSent, OpOf
<1>6. CASE RunReceived
  BY <1>6 DEF RunReceived
<1>7. CASE RunStatusRead
  BY <1>7 DEF RunStatusRead
<1>8. CASE RunOpened
  BY <1>8 DEF RunOpened
<1>9. CASE RunOpenFailed
  BY <1>9 DEF RunOpenFailed
<1>10. CASE RunLost
  BY <1>10 DEF RunLost, OpOf
<1>11. CASE RunDropped
  BY <1>11 DEF RunDropped
<1>12. CASE RunWake
  BY <1>12 DEF RunWake
<1>13. CASE Start
  BY <1>13 DEF Start
<1> QED
  BY <1>1, <1>2, <1>3, <1>4, <1>5, <1>6, <1>7, <1>8, <1>9, <1>10, <1>11, <1>12, <1>13 DEF RunTop, RunResume

LEMMA CallIsLoopStep == TypeOK /\ (\E t \in Callers : (Caller(t) /\ config' = config) \/ CallerResume(t)) => LoopStep
<1> SUFFICES ASSUME TypeOK, \E t \in Callers : (Caller(t) /\ config' = config) \/ CallerResume(t) PROVE LoopStep
  OBVIOUS
<1> USE JobOf DEF LoopStep, link, Submit, Goto, FallAsleep, Tasks
<1>1. ASSUME NEW t \in Callers, Connect(t) PROVE LoopStep
  BY <1>1 DEF Connect, OpOf
<1>2. ASSUME NEW t \in Callers, CancelConnect(t) PROVE LoopStep
  BY <1>2 DEF CancelConnect
<1>3. ASSUME NEW t \in Callers, Refresh(t) PROVE LoopStep
  BY <1>3 DEF Refresh, OpOf
<1>4. ASSUME NEW t \in Callers, SetDps(t) PROVE LoopStep
  BY <1>4 DEF SetDps, OpOf
<1>5. ASSUME NEW t \in Callers, Connected(t) PROVE LoopStep
  BY <1>5 DEF Connected
<1>6. ASSUME NEW t \in Callers, ConnectFailed(t) PROVE LoopStep
  BY <1>6 DEF ConnectFailed
<1>7. ASSUME NEW t \in Callers, Refreshed(t) PROVE LoopStep
  BY <1>7 DEF Refreshed
<1>8. ASSUME NEW t \in Callers, SetSent(t) PROVE LoopStep
  BY <1>8 DEF SetSent
<1>9. ASSUME NEW t \in Callers, CallerLost(t) PROVE LoopStep
  BY <1>9 DEF CallerLost, OpOf
<1>10. ASSUME NEW t \in Callers, CallerDropped(t) PROVE LoopStep
  BY <1>10 DEF CallerDropped
<1>11. ASSUME NEW t \in Callers, Reconfigured(t) PROVE LoopStep
  BY <1>11 DEF Reconfigured
<1>12. ASSUME NEW t \in Callers, NEW c \in Configs, config' = config, Reconfigure(t, c)
       PROVE  LoopStep
  BY <1>12 DEF Reconfigure
<1> QED
  BY <1>1, <1>2, <1>3, <1>4, <1>5, <1>6, <1>7, <1>8, <1>9, <1>10, <1>11, <1>12 DEF Caller, CallerResume

LEMMA CloseIsLoopStep == TypeOK /\ (Closing) => LoopStep
<1> SUFFICES ASSUME TypeOK, Closing PROVE LoopStep
  OBVIOUS
<1> USE JobOf DEF LoopStep, link, Submit, Goto, FallAsleep, Tasks
<1>1. CASE CloseJoin
  BY <1>1 DEF CloseJoin, OpOf
<1>2. CASE CloseDropped
  BY <1>2 DEF CloseDropped
<1>3. CASE CloseDone
  BY <1>3 DEF CloseDone
<1> QED
  BY <1>1, <1>2, <1>3 DEF Closing

LEMMA RestIsLoopStep == TypeOK /\ (Discard \/ RefreshTimer \/ DeadTimer \/ Environment) => LoopStep
<1> SUFFICES ASSUME TypeOK, Discard \/ RefreshTimer \/ DeadTimer \/ Environment PROVE LoopStep
  OBVIOUS
<1> USE JobOf DEF LoopStep, link, Submit, Goto, FallAsleep, Tasks
<1>1. CASE Discard
  BY <1>1 DEF Discard
<1>2. CASE RefreshTimer
  BY <1>2 DEF RefreshTimer
<1>3. CASE DeadTimer
  BY <1>3 DEF DeadTimer
<1>4. ASSUME NEW a \in Configs \cup {Nowhere}, Move(a) PROVE LoopStep
  BY <1>4 DEF Move
<1>5. ASSUME NEW c \in Conns, NEW how \in {"silent", "cut"}, Cut(c, how) PROVE LoopStep
  BY <1>5 DEF Cut, TypeOK
<1> QED
  BY <1>1, <1>2, <1>3, <1>4, <1>5 DEF Environment

LEMMA CloseBeginIsLoopStep == TypeOK /\ CloseBegin => LoopStep
<1> SUFFICES ASSUME TypeOK, CloseBegin PROVE LoopStep
  OBVIOUS
<1>1. \A c \in Conns : sock'[c] # "none" => sock[c] # "none"
  BY DEF CloseBegin, Interrupt
<1>2. queue' = queue \/ \E job \in Jobs : queue' = Append(queue, job)
  BY JobOf DEF CloseBegin, Submit, Tasks, OpOf
<1> QED
  BY <1>1, <1>2 DEF CloseBegin, Interrupt, LoopStep

(* async_reconfigure leaves the connections on the old settings, and the   *)
(* job that drops them.                                                    *)
LEMMA ReconfigureKeeps ==
  ASSUME TypeOK, WorkerShape, OneSocket, NEW t \in Callers, NEW c \in Configs,
         Reconfigure(t, c)
  PROVE  (WorkerShape /\ OneSocket /\ DropsOldSettings)'
<1>1. WorkerShape' /\ OneSocket'
  BY DEF Reconfigure, Interrupt, WorkerShape, OneSocket
<1>2. queue \in Seq(Jobs) /\ queue' = Append(queue, [task |-> t, op |-> "drop"])
  BY DEF Reconfigure, Submit, OpOf, TypeOK
<1>3. [task |-> t, op |-> "drop"] \in Jobs
  BY DEF Jobs, Tasks, Ops
<1>4. /\ Len(queue') = Len(queue) + 1 /\ Len(queue) \in Nat
      /\ queue'[Len(queue) + 1] = [task |-> t, op |-> "drop"]
  BY <1>2, <1>3, AppendProperties, LenProperties
<1>5. Len(queue) + 1 \in 1..Len(queue') /\ CallerDrop(queue'[Len(queue) + 1])
  BY <1>4 DEF CallerDrop
<1>6. CallerDropPending'
  BY <1>5 DEF CallerDropPending, CallerDrop
<1> QED
  BY <1>1, <1>6 DEF DropsOldSettings

LEMMA IInvNext == IInv /\ [Next]_vars => IInv'
<1> SUFFICES ASSUME IInv, [Next]_vars PROVE IInv'
  OBVIOUS
<1> USE DEF IInv
<1>1. TypeOK'
  BY TypeNext
<1>2. CASE WTake \/ WSkip
  BY <1>1, <1>2, TakeKeeps
<1>3. CASE Worker /\ ~(WTake \/ WSkip)
  BY <1>1, <1>3, WorkKeeps DEF Worker
<1>4. ASSUME LoopStep PROVE IInv'
  BY <1>1, <1>4, LoopStepKeeps
<1>5. CASE \E t \in Callers : \E c \in Configs : Reconfigure(t, c)
  BY <1>1, <1>5, ReconfigureKeeps
<1>6. CASE (\E t \in Callers : Caller(t)) /\ ~(\E t \in Callers : \E c \in Configs : Reconfigure(t, c))
  <2>1. PICK t \in Callers : Caller(t)
    BY <1>6
  <2>2. config' = config
    BY <1>6, <2>1 DEF Caller, Connect, CancelConnect, Refresh, SetDps
  <2> QED
    BY <1>4, <2>1, <2>2, CallIsLoopStep
<1>7. CASE System /\ ~Worker
  BY <1>4, <1>7, RunIsLoopStep, CallIsLoopStep, CloseIsLoopStep, RestIsLoopStep
  DEF System
<1>8. CASE CloseBegin \/ Environment
  BY <1>4, <1>8, CloseBeginIsLoopStep, RestIsLoopStep
<1>9. CASE UNCHANGED vars
  BY <1>4, <1>9 DEF vars, link, LoopStep
<1> QED
  BY <1>2, <1>3, <1>5, <1>6, <1>7, <1>8, <1>9 DEF Next, System

LEMMA Invariance == Spec => []IInv
  BY IInvInit, IInvNext, PTL DEF Spec

(* No library object but the one in use, or the one being opened, holds a  *)
(* socket, through every cut, failed attempt, reconfiguration and close.   *)
THEOREM SocketsNeverLeak == Spec => []OneSocket
<1>1. IInv => OneSocket
  BY DEF IInv
<1> QED
  BY <1>1, Invariance, PTL

(* A connection made from old settings has a drop ahead of it: the device  *)
(* does not stay on an address, key or version it was told to leave,       *)
(* wherever the worker and the background task were at that moment.        *)
THEOREM NeverSettlesOnOldSettings == Spec => []ConnectedToConfigured
<1>1. IInv => ConnectedToConfigured
  BY DEF IInv, ConnectedToConfigured, DropsOldSettings, OldSettings,
         CallerDropPending, CallerDrop, DropPending
<1> QED
  BY <1>1, Invariance, PTL
=============================================================================
