----------------------------- MODULE LanDevice -----------------------------
(***************************************************************************)
(* One purifier on the local network: birdie/lan/device.py, LanDevice.     *)
(*                                                                         *)
(* Two threads share the object.  The event loop runs the coroutines: the  *)
(* background task _run, the callers of the public methods, and close.     *)
(* The single worker thread of the executor runs the blocking calls to the *)
(* protocol library, first in first out.  Code between two awaits is       *)
(* atomic for the coroutines but not for the worker, so every await, and   *)
(* every access of _w_open to a shared attribute, is a step of its own.    *)
(* Results reach the loop in the order in which the worker produced them.  *)
(*                                                                         *)
(* Address, key and protocol setting are one value, a member of Configs.   *)
(* The environment decides which of them the purifier answers to.          *)
(***************************************************************************)
EXTENDS Naturals, Sequences

CONSTANTS
    Callers,    \* tasks that use the public methods
    Configs,    \* connection settings (address, key, port, version setting)
    Conns,      \* identities of library objects (tinytuya.Device)
    Versions,   \* how many protocol versions an open attempt tries
    Speaks,     \* which of them the purifier speaks
    NoConn,     \* no library object (None)
    Nowhere     \* the purifier answers to no settings: powered off

ASSUME TasksAssumption == {"run", "close", "nobody"} \cap Callers = {}
ASSUME NoneAssumption == NoConn \notin Conns /\ Nowhere \notin Configs
ASSUME VersionsAssumption == Versions \in Nat \ {0} /\ Speaks \in 1..Versions

VARIABLES
    config,     \* _config
    api,        \* _api: the connection in use
    opening,    \* _opening: the connection being made, for interrupts
    local,      \* the local variable api of _w_open
    sock,       \* per library object: its socket
    peer,       \* per library object: the settings it was made with
    closed,     \* _closed
    available,  \* _available
    wake,       \* the event _wake
    rxDead,     \* nothing received for longer than dead_after
    refreshAt,  \* _refresh_at: none, armed, or due
    pc,         \* what each task awaits
    queue,      \* jobs of the executor
    work,       \* the job the worker thread executes
    stage,      \* where the worker is in _w_open
    attempt,    \* which protocol version it tries
    ready,      \* results the loop has not handed to their task yet
    answersTo,  \* environment: the settings the purifier answers to
    dirty       \* ghost: a command was sent and no full status read since

link == <<api, opening, local, sock, peer, stage, attempt>>
flags == <<available, wake, rxDead, refreshAt>>
vars == <<config, link, closed, flags, pc, queue, work, ready, answersTo, dirty>>

Tasks == Callers \cup {"run", "close"}
ConnOrNone == Conns \cup {NoConn}

(* The worker function behind each await.                                  *)
OpOf == [connect |-> "open", open |-> "open", status |-> "status",
         refresh |-> "status", beat |-> "beat", receive |-> "receive",
         set |-> "set", lost |-> "drop", reconf |-> "drop", drop |-> "drop"]

RunLabels == {"off", "top", "open", "status", "beat", "receive", "lost",
              "pause", "backoff", "done"}
CallerLabels == {"idle", "connect", "refresh", "set", "lost", "reconf", "done"}
CloseLabels == {"idle", "join", "drop", "shutdown", "closed"}

Ops == {"open", "status", "beat", "receive", "set", "drop"}
Jobs == [task : Tasks, op : Ops]
Idle == [task |-> "nobody", op |-> "idle"]
Results == [task : Tasks, res : {"ok", "fail", "lost"}]

PcOK ==
    /\ pc \in [Tasks -> RunLabels \cup CallerLabels \cup CloseLabels]
    /\ pc["run"] \in RunLabels /\ pc["close"] \in CloseLabels
    /\ \A t \in Callers : pc[t] \in CallerLabels

TypeOK ==
    /\ config \in Configs
    /\ api \in ConnOrNone /\ opening \in ConnOrNone /\ local \in ConnOrNone
    /\ sock \in [Conns -> {"none", "dialing", "up", "silent", "cut"}]
    /\ peer \in [Conns -> Configs \cup {Nowhere}]
    /\ closed \in BOOLEAN /\ available \in BOOLEAN
    /\ wake \in BOOLEAN /\ rxDead \in BOOLEAN
    /\ refreshAt \in {"none", "armed", "due"}
    /\ PcOK
    /\ queue \in Seq(Jobs)
    /\ work \in Jobs \cup {Idle}
    /\ stage \in {"begin", "next", "new", "dial", "wait", "good", "bad", "gone"}
    /\ attempt \in 1..Versions
    /\ ready \in Seq(Results)
    /\ answersTo \in Configs \cup {Nowhere}
    /\ dirty \in BOOLEAN

Init ==
    /\ config \in Configs
    /\ api = NoConn /\ opening = NoConn /\ local = NoConn
    /\ sock = [c \in Conns |-> "none"]
    /\ peer = [c \in Conns |-> Nowhere]
    /\ closed = FALSE /\ available = FALSE /\ wake = FALSE /\ rxDead = FALSE
    /\ refreshAt = "none"
    /\ pc = [t \in Tasks |-> IF t = "run" THEN "off" ELSE "idle"]
    /\ queue = <<>> /\ work = Idle /\ ready = <<>>
    /\ stage = "begin" /\ attempt = 1
    /\ answersTo \in Configs \cup {Nowhere}
    /\ dirty = FALSE

-----------------------------------------------------------------------------
(* Shared pieces.                                                          *)

(* The connection leads to the purifier, which accepts its settings.       *)
Answers(c) == c # NoConn /\ sock[c] = "up" /\ peer[c] = answersTo

(* _interrupt_socket: shut down the sockets of _api and _opening, if any.  *)
Interrupt ==
    /\ sock' = [c \in Conns |->
                  IF c \in {api, opening} /\ sock[c] # "none" THEN "cut" ELSE sock[c]]
    /\ UNCHANGED <<api, opening, local, peer, stage, attempt>>

(* api.close() of the protocol library.                                    *)
CloseConn(c) ==
    /\ sock' = [d \in Conns |-> IF d = c THEN "none" ELSE sock[d]]
    /\ peer' = [d \in Conns |-> IF d = c THEN Nowhere ELSE peer[d]]

(* _call: task t hands a function to the executor and awaits it at label.  *)
Submit(t, label) ==
    /\ pc' = [pc EXCEPT ![t] = label]
    /\ queue' = Append(queue, [task |-> t, op |-> OpOf[label]])

Goto(t, label) == pc' = [pc EXCEPT ![t] = label] /\ UNCHANGED queue

(* The loop runs another coroutine only when _run is at an await.          *)
LoopFree == pc["run"] # "top"

(* Mutant: results reach their tasks in any order.                         *)
Resume_AnyOrder(t, label, res) ==
    /\ LoopFree
    /\ pc[t] = label
    /\ \E i \in 1..Len(ready) :
          /\ ready[i] = [task |-> t, res |-> res]
          /\ ready' = SubSeq(ready, 1, i - 1) \o SubSeq(ready, i + 1, Len(ready))

(* Task t, awaiting at label, receives the oldest result, which is res.    *)
Resume(t, label, res) ==
    /\ LoopFree
    /\ ready # <<>>
    /\ Head(ready) = [task |-> t, res |-> res]
    /\ pc[t] = label
    /\ ready' = Tail(ready)

(* Nobody uses the device: during setup calls are made one after another.  *)
Quiet == \A t \in Callers : pc[t] \in {"idle", "done"}

(* Mutant: a closed device accepts calls.                                  *)
MayCall_Closed(t) ==
    /\ LoopFree
    /\ pc[t] = "idle"
    /\ pc["run"] = "off" => \A u \in Callers : pc[u] = "idle"

(* Before _run starts only the setup coroutine uses the device.            *)
MayCall(t) ==
    /\ LoopFree /\ ~closed
    /\ pc[t] = "idle"
    /\ pc["run"] = "off" => \A u \in Callers : pc[u] = "idle"

(* _require_connection.                                                    *)
HasConnection == ~closed /\ api # NoConn

(* _handle_connected, and _handle_dps with a full status.                  *)
HandleConnected ==
    /\ available' = TRUE /\ rxDead' = FALSE /\ refreshAt' = "none"
    /\ UNCHANGED wake

HandleStatus ==
    /\ rxDead' = FALSE /\ refreshAt' = "none"
    /\ UNCHANGED <<available, wake>>

-----------------------------------------------------------------------------
(* The worker thread.                                                      *)

Finish(res) ==
    /\ ready' = Append(ready, [task |-> work.task, res |-> res])
    /\ work' = Idle

(* The thread takes the next job.                                          *)
WTake ==
    /\ work = Idle /\ queue # <<>>
    /\ work' = Head(queue) /\ queue' = Tail(queue)
    /\ stage' = "begin" /\ attempt' = 1
    /\ UNCHANGED <<config, api, opening, local, sock, peer, closed, flags, pc,
                   ready, answersTo, dirty>>

(* A job whose task was cancelled before the thread took it is skipped;    *)
(* the cancellation may also come too late for that.  Only the background  *)
(* task and a setup that connects are ever cancelled.                      *)
WSkip ==
    /\ work = Idle /\ queue # <<>>
    /\ pc[Head(queue).task] = "done"
    /\ Head(queue).task = "run" \/ Head(queue).op = "open"
    /\ queue' = Tail(queue)
    /\ UNCHANGED <<config, link, closed, flags, pc, work, ready, answersTo, dirty>>

Working(op) == work.op = op

(* _w_drop.                                                                *)
WDrop ==
    /\ Working("drop")
    /\ api' = NoConn
    /\ CloseConn(api)
    /\ Finish("ok")
    /\ UNCHANGED <<config, opening, local, stage, attempt, closed, flags, pc,
                   queue, answersTo, dirty>>

(* _w_open first drops the connection in use.                              *)
WOpenBegin ==
    /\ Working("open") /\ stage = "begin"
    /\ api' = NoConn
    /\ CloseConn(api)
    /\ stage' = "next"
    /\ UNCHANGED <<config, opening, local, attempt, closed, flags, pc, queue,
                   work, ready, answersTo, dirty>>

(* Closed meanwhile: give up.                                              *)
WOpenAbort ==
    /\ Working("open") /\ stage = "next" /\ closed
    /\ Finish("fail")
    /\ UNCHANGED <<config, link, closed, flags, pc, queue, answersTo, dirty>>

(* A library object for this version, made from the settings of this       *)
(* moment, which may differ from those of the previous version's object.   *)
WOpenNew(c) ==
    /\ Working("open") /\ stage = "next" /\ ~closed
    /\ sock[c] = "none" /\ c # api
    /\ local' = c /\ opening' = c
    /\ peer' = [peer EXCEPT ![c] = config]
    /\ stage' = "new"
    /\ UNCHANGED <<config, api, sock, attempt, closed, flags, pc, queue, work,
                   ready, answersTo, dirty>>

(* status() creates the socket, which an interrupt reaches from here on.   *)
WOpenDial ==
    /\ Working("open") /\ stage = "new"
    /\ sock' = [sock EXCEPT ![local] = "dialing"]
    /\ stage' = "dial"
    /\ UNCHANGED <<config, api, opening, local, peer, attempt, closed, flags, pc,
                   queue, work, ready, answersTo, dirty>>

(* The TCP connection is made: to the purifier, to another device at the   *)
(* address, or to the purifier with a key that it does not accept.         *)
WOpenTcp ==
    /\ Working("open") /\ stage = "dial"
    /\ sock[local] = "dialing"
    /\ sock' = [sock EXCEPT ![local] = "up"]
    /\ stage' = "wait"
    /\ UNCHANGED <<config, api, opening, local, peer, attempt, closed, flags, pc,
                   queue, work, ready, answersTo, dirty>>

(* status() returned, with or without values; _opening is reset first.     *)
WOpenStatus(outcome) ==
    /\ Working("open") /\ stage \in {"dial", "wait"}
    /\ LET accepted == stage = "wait" /\ Answers(local) /\ attempt = Speaks
       IN CASE outcome = "good" -> accepted
            [] outcome = "bad"  -> stage = "wait" /\ ~accepted
            [] outcome = "gone" -> sock[local] = "cut" \/ peer[local] # answersTo
    /\ opening' = NoConn
    /\ stage' = outcome
    /\ UNCHANGED <<config, api, local, sock, peer, attempt, closed, flags, pc,
                   queue, work, ready, answersTo, dirty>>

(* The connection answered: it becomes the one in use.                     *)
WOpenGood ==
    /\ Working("open") /\ stage = "good"
    /\ api' = local /\ local' = NoConn
    /\ dirty' = FALSE
    /\ Finish("ok")
    /\ UNCHANGED <<config, opening, sock, peer, stage, attempt, closed, flags, pc,
                   queue, answersTo>>

(* Mutant: an object that was refused is forgotten, not closed.            *)
WOpenBad_Leak ==
    /\ Working("open") /\ stage = "bad"
    /\ local' = NoConn
    /\ IF attempt < Versions
       THEN /\ attempt' = attempt + 1 /\ stage' = "next"
            /\ UNCHANGED <<work, ready>>
       ELSE Finish("fail") /\ UNCHANGED <<attempt, stage>>
    /\ UNCHANGED <<config, api, opening, sock, peer, closed, flags, pc, queue,
                   answersTo, dirty>>

(* Mutant: one version too many.                                           *)
WOpenBad_OffByOne ==
    /\ Working("open") /\ stage = "bad"
    /\ CloseConn(local) /\ local' = NoConn
    /\ IF attempt <= Versions
       THEN /\ attempt' = attempt + 1 /\ stage' = "next"
            /\ UNCHANGED <<work, ready>>
       ELSE Finish("fail") /\ UNCHANGED <<attempt, stage>>
    /\ UNCHANGED <<config, api, opening, closed, flags, pc, queue, answersTo, dirty>>

(* No values: close the object and try the next version, if there is one.  *)
WOpenBad ==
    /\ Working("open") /\ stage = "bad"
    /\ CloseConn(local) /\ local' = NoConn
    /\ IF attempt < Versions
       THEN /\ attempt' = attempt + 1 /\ stage' = "next"
            /\ UNCHANGED <<work, ready>>
       ELSE Finish("fail") /\ UNCHANGED <<attempt, stage>>
    /\ UNCHANGED <<config, api, opening, closed, flags, pc, queue, answersTo, dirty>>

(* Nothing listens there: other versions will not help.                    *)
WOpenGone ==
    /\ Working("open") /\ stage = "gone"
    /\ CloseConn(local) /\ local' = NoConn
    /\ Finish("fail")
    /\ UNCHANGED <<config, api, opening, stage, attempt, closed, flags, pc, queue,
                   answersTo, dirty>>

(* _w_status, _w_heartbeat, _w_receive and _w_set.  A silent connection    *)
(* fails a status request only; a write on it is not noticed, nor is every *)
(* write on a connection that was just cut.                                *)
WStatus ==
    /\ Working("status")
    /\ Finish(IF Answers(api) THEN "ok" ELSE "lost")
    /\ dirty' = (dirty /\ ~Answers(api))
    /\ UNCHANGED <<config, link, closed, flags, pc, queue, answersTo>>

Writable(res) == IF api = NoConn THEN res = "lost"
                 ELSE res = "ok" \/ sock[api] = "cut"

WHeartbeat(res) ==
    /\ Working("beat") /\ Writable(res)
    /\ Finish(res)
    /\ UNCHANGED <<config, link, closed, flags, pc, queue, answersTo, dirty>>

(* Mutant: every receive counts as a sign of life, with a frame or not.    *)
WReceive_Alive ==
    /\ Working("receive")
    /\ Finish(IF api = NoConn THEN "lost" ELSE IF sock[api] = "cut" THEN "lost" ELSE "ok")
    /\ rxDead' = FALSE
    /\ UNCHANGED <<config, link, closed, available, wake, refreshAt, pc, queue,
                   answersTo, dirty>>

WReceive ==
    /\ Working("receive")
    /\ Finish(IF api = NoConn THEN "lost" ELSE IF sock[api] = "cut" THEN "lost" ELSE "ok")
    /\ \/ Answers(api) /\ rxDead' = FALSE
       \/ UNCHANGED rxDead
    /\ UNCHANGED <<config, link, closed, available, wake, refreshAt, pc, queue,
                   answersTo, dirty>>

WSet(res) ==
    /\ Working("set") /\ Writable(res)
    /\ Finish(res)
    /\ dirty' = (dirty \/ res = "ok")
    /\ UNCHANGED <<config, link, closed, flags, pc, queue, answersTo>>

WOpen ==
    \/ WOpenBegin \/ WOpenAbort \/ WOpenDial \/ WOpenTcp
    \/ WOpenGood \/ WOpenBad \/ WOpenGone
    \/ \E c \in Conns : WOpenNew(c)
    \/ \E outcome \in {"good", "bad", "gone"} : WOpenStatus(outcome)

Worker ==
    \/ WTake \/ WSkip \/ WDrop \/ WOpen \/ WStatus \/ WReceive
    \/ \E res \in {"ok", "lost"} : WHeartbeat(res) \/ WSet(res)

-----------------------------------------------------------------------------
(* The background task.                                                    *)

(* start(), called once the setup has connected and read the status.       *)
Start ==
    /\ LoopFree /\ ~closed /\ available
    /\ pc["run"] = "off" /\ Quiet
    /\ Goto("run", "top")
    /\ UNCHANGED <<config, link, closed, flags, work, ready, answersTo, dirty>>

(* _run without a connection opens one.                                    *)
RunOpen ==
    /\ pc["run"] = "top" /\ api = NoConn
    /\ Submit("run", "open")
    /\ UNCHANGED <<config, link, closed, flags, work, ready, answersTo, dirty>>

(* _step: the device stopped answering.                                    *)
RunDead ==
    /\ pc["run"] = "top" /\ api # NoConn /\ rxDead
    /\ Submit("run", "lost")
    /\ UNCHANGED <<config, link, closed, flags, work, ready, answersTo, dirty>>

(* _step: a full status, because it is time or a command must be read back. *)
RunStatus ==
    /\ pc["run"] = "top" /\ api # NoConn /\ ~rxDead
    /\ refreshAt' = "none"
    /\ Submit("run", "status")
    /\ UNCHANGED <<config, link, closed, available, wake, rxDead, work, ready,
                   answersTo, dirty>>

(* _step: a heartbeat if it is time, then a receive.                       *)
RunListen(label) ==
    /\ pc["run"] = "top" /\ api # NoConn /\ ~rxDead /\ refreshAt # "due"
    /\ Submit("run", label)
    /\ UNCHANGED <<config, link, closed, flags, work, ready, answersTo, dirty>>

RunBeatSent ==
    /\ Resume("run", "beat", "ok")
    /\ Submit("run", "receive")
    /\ UNCHANGED <<config, link, closed, flags, work, answersTo, dirty>>

RunReceived ==
    /\ Resume("run", "receive", "ok")
    /\ Goto("run", "top")
    /\ UNCHANGED <<config, link, closed, flags, work, answersTo, dirty>>

RunStatusRead ==
    /\ Resume("run", "status", "ok")
    /\ Goto("run", "top")
    /\ HandleStatus
    /\ UNCHANGED <<config, link, closed, work, answersTo, dirty>>

RunOpened ==
    /\ Resume("run", "open", "ok")
    /\ Goto("run", "top")
    /\ HandleConnected
    /\ UNCHANGED <<config, link, closed, work, answersTo, dirty>>

(* _sleep clears the event before it waits for it.                         *)
FallAsleep(label) == Goto("run", label) /\ wake' = FALSE

RunOpenFailed ==
    /\ Resume("run", "open", "fail")
    /\ available' = FALSE
    /\ FallAsleep("backoff")
    /\ UNCHANGED <<config, link, closed, rxDead, refreshAt, work, answersTo, dirty>>

(* _async_lost, first half: drop the connection.                           *)
RunLost ==
    /\ \E label \in {"status", "beat", "receive"} : Resume("run", label, "lost")
    /\ Submit("run", "lost")
    /\ UNCHANGED <<config, link, closed, flags, work, answersTo, dirty>>

(* _async_lost, second half, and the pause of one second.                  *)
RunDropped ==
    /\ Resume("run", "lost", "ok")
    /\ available' = FALSE
    /\ FallAsleep("pause")
    /\ UNCHANGED <<config, link, closed, rxDead, refreshAt, work, answersTo, dirty>>

(* _sleep ends: the event is set, or the time is over.                     *)
RunWake ==
    /\ pc["run"] \in {"pause", "backoff"}
    /\ Goto("run", "top")
    /\ UNCHANGED <<config, link, closed, flags, work, ready, answersTo, dirty>>

RunTop ==
    \/ RunOpen \/ RunDead \/ RunStatus
    \/ \E label \in {"beat", "receive"} : RunListen(label)

RunResume ==
    \/ RunBeatSent \/ RunReceived \/ RunStatusRead \/ RunOpened
    \/ RunOpenFailed \/ RunLost \/ RunDropped

-----------------------------------------------------------------------------
(* The callers.                                                            *)

(* The setup connects before anything else, again after a failed attempt.  *)
Connect(t) ==
    /\ MayCall(t) /\ pc["run"] = "off" /\ ~available
    /\ Submit(t, "connect")
    /\ UNCHANGED <<config, link, closed, flags, work, ready, answersTo, dirty>>

Connected(t) ==
    /\ Resume(t, "connect", "ok")
    /\ Goto(t, "idle")
    /\ HandleConnected
    /\ UNCHANGED <<config, link, closed, work, answersTo, dirty>>

ConnectFailed(t) ==
    /\ Resume(t, "connect", "fail")
    /\ Goto(t, "idle")
    /\ UNCHANGED <<config, link, closed, flags, work, answersTo, dirty>>

(* The setup is cancelled while it connects; it only closes the device then. *)
CancelConnect(t) ==
    /\ LoopFree /\ pc[t] = "connect"
    /\ Goto(t, "done")
    /\ UNCHANGED <<config, link, closed, flags, work, ready, answersTo, dirty>>

Refresh(t) ==
    /\ MayCall(t) /\ HasConnection
    /\ Submit(t, "refresh")
    /\ UNCHANGED <<config, link, closed, flags, work, ready, answersTo, dirty>>

Refreshed(t) ==
    /\ Resume(t, "refresh", "ok")
    /\ Goto(t, "idle")
    /\ HandleStatus
    /\ UNCHANGED <<config, link, closed, work, answersTo, dirty>>

SetDps(t) ==
    /\ MayCall(t) /\ HasConnection /\ pc["run"] # "off"
    /\ Submit(t, "set")
    /\ UNCHANGED <<config, link, closed, flags, work, ready, answersTo, dirty>>

(* Mutant: the command is not read back.                                   *)
SetSent_NotArmed(t) ==
    /\ Resume(t, "set", "ok")
    /\ Goto(t, "idle")
    /\ UNCHANGED <<config, link, closed, flags, work, answersTo, dirty>>

(* The command is out: read back later, in case no push confirms it.       *)
SetSent(t) ==
    /\ Resume(t, "set", "ok")
    /\ Goto(t, "idle")
    /\ refreshAt' = "armed"
    /\ UNCHANGED <<config, link, closed, available, wake, rxDead, work, answersTo,
                   dirty>>

(* _async_lost on behalf of a caller.                                      *)
CallerLost(t) ==
    /\ \E label \in {"refresh", "set"} : Resume(t, label, "lost")
    /\ Submit(t, "lost")
    /\ UNCHANGED <<config, link, closed, flags, work, answersTo, dirty>>

(* Mutant: a caller that lost the connection does not report it.           *)
CallerDropped_Silent(t) ==
    /\ Resume(t, "lost", "ok")
    /\ Goto(t, "idle")
    /\ UNCHANGED <<config, link, closed, flags, work, answersTo, dirty>>

CallerDropped(t) ==
    /\ Resume(t, "lost", "ok")
    /\ Goto(t, "idle")
    /\ available' = FALSE
    /\ UNCHANGED <<config, link, closed, wake, rxDead, refreshAt, work, answersTo,
                   dirty>>

(* Mutant: the old connection is interrupted, not dropped.                 *)
Reconfigure_NoDrop(t, c) ==
    /\ MayCall(t) /\ c # config
    /\ config' = c /\ wake' = TRUE
    /\ Interrupt
    /\ UNCHANGED <<closed, available, rxDead, refreshAt, pc, queue, work, ready,
                   answersTo, dirty>>

(* async_reconfigure: new settings, interrupt, drop ...                    *)
Reconfigure(t, c) ==
    /\ MayCall(t) /\ c # config
    /\ config' = c
    /\ Interrupt
    /\ Submit(t, "reconf")
    /\ UNCHANGED <<closed, flags, work, ready, answersTo, dirty>>

(* ... and once the drop is done, tell the task to reconnect.              *)
Reconfigured(t) ==
    /\ Resume(t, "reconf", "ok")
    /\ Goto(t, "idle")
    /\ available' = FALSE /\ wake' = TRUE
    /\ UNCHANGED <<config, link, closed, rxDead, refreshAt, work, answersTo, dirty>>

Caller(t) ==
    \/ Connect(t) \/ CancelConnect(t) \/ Refresh(t) \/ SetDps(t)
    \/ \E c \in Configs : Reconfigure(t, c)

CallerResume(t) ==
    \/ Connected(t) \/ ConnectFailed(t) \/ Refreshed(t) \/ SetSent(t)
    \/ CallerLost(t) \/ CallerDropped(t) \/ Reconfigured(t)

(* The result of a cancelled task is dropped.                              *)
Discard ==
    /\ LoopFree /\ ready # <<>>
    /\ pc[Head(ready).task] = "done"
    /\ ready' = Tail(ready)
    /\ UNCHANGED <<config, link, closed, flags, pc, queue, work, answersTo, dirty>>

-----------------------------------------------------------------------------
(* async_close.                                                            *)

(* Mutant: close waits for the task without cancelling it.                 *)
CloseBegin_NoCancel ==
    /\ LoopFree /\ ~closed
    /\ pc["run"] = "off" => Quiet
    /\ closed' = TRUE /\ wake' = TRUE
    /\ Interrupt
    /\ IF pc["run"] = "off" THEN Submit("close", "drop") ELSE Goto("close", "join")
    /\ UNCHANGED <<config, available, rxDead, refreshAt, work, ready, answersTo, dirty>>

CloseBegin ==
    /\ LoopFree /\ ~closed
    /\ pc["run"] = "off" => Quiet
    /\ closed' = TRUE /\ wake' = TRUE
    /\ Interrupt
    /\ IF pc["run"] = "off"
       THEN Submit("close", "drop")
       ELSE /\ pc' = [pc EXCEPT !["run"] = "done", !["close"] = "join"]
            /\ UNCHANGED queue
    /\ UNCHANGED <<config, available, rxDead, refreshAt, work, ready, answersTo, dirty>>

(* Mutant: the thread is shut down without the last drop.                  *)
CloseJoin_NoDrop ==
    /\ pc["close"] = "join" /\ pc["run"] = "done"
    /\ Goto("close", "shutdown")
    /\ UNCHANGED <<config, link, closed, flags, work, ready, answersTo, dirty>>

(* The cancelled task ended.                                               *)
CloseJoin ==
    /\ pc["close"] = "join" /\ pc["run"] = "done"
    /\ Submit("close", "drop")
    /\ UNCHANGED <<config, link, closed, flags, work, ready, answersTo, dirty>>

CloseDropped ==
    /\ Resume("close", "drop", "ok")
    /\ Goto("close", "shutdown")
    /\ UNCHANGED <<config, link, closed, flags, work, answersTo, dirty>>

(* Mutant: shutdown(wait=False).                                           *)
CloseDone_NoWait ==
    /\ pc["close"] = "shutdown"
    /\ Goto("close", "closed")
    /\ UNCHANGED <<config, link, closed, flags, work, ready, answersTo, dirty>>

(* executor.shutdown returns when the thread has executed every job.       *)
CloseDone ==
    /\ pc["close"] = "shutdown"
    /\ queue = <<>> /\ work = Idle
    /\ Goto("close", "closed")
    /\ UNCHANGED <<config, link, closed, flags, work, ready, answersTo, dirty>>

Closing == CloseJoin \/ CloseDropped \/ CloseDone

-----------------------------------------------------------------------------
(* Time and the environment.                                               *)

(* refresh_after_command seconds have passed.                              *)
RefreshTimer ==
    /\ refreshAt = "armed"
    /\ refreshAt' = "due"
    /\ UNCHANGED <<config, link, closed, available, wake, rxDead, pc, queue, work,
                   ready, answersTo, dirty>>

(* dead_after seconds without a frame.  A connection that answers sends    *)
(* one for every heartbeat.                                                *)
DeadTimer ==
    /\ api # NoConn /\ ~Answers(api) /\ ~rxDead
    /\ rxDead' = TRUE
    /\ UNCHANGED <<config, link, closed, available, wake, refreshAt, pc, queue,
                   work, ready, answersTo, dirty>>

(* The purifier gets another address or key, is switched off or on.        *)
Move(a) ==
    /\ a # answersTo
    /\ answersTo' = a
    /\ UNCHANGED <<config, link, closed, flags, pc, queue, work, ready, dirty>>

(* The purifier or the network ends the connection: in a way that the next *)
(* read notices, or silently (a reboot, a router that forgot it).          *)
Cut(c, how) ==
    /\ sock[c] \in {"up", "silent"} \ {how}
    /\ sock' = [sock EXCEPT ![c] = how]
    /\ UNCHANGED <<config, api, opening, local, peer, stage, attempt, closed, flags,
                   pc, queue, work, ready, answersTo, dirty>>

Environment ==
    \/ \E a \in Configs \cup {Nowhere} : Move(a)
    \/ \E c \in Conns, how \in {"silent", "cut"} : Cut(c, how)

System ==
    \/ Worker \/ Start \/ RunTop \/ RunResume \/ RunWake \/ Discard \/ Closing
    \/ RefreshTimer \/ DeadTimer
    \/ \E t \in Callers : CallerResume(t)

Next ==
    \/ System
    \/ \E t \in Callers : Caller(t)
    \/ CloseBegin
    \/ Environment

Spec == Init /\ [][Next]_vars

(* The worker thread, the loop and its timers always get on; nobody has to *)
(* call a method, and the network has to do nothing.                       *)
Fairness ==
    /\ WF_vars(Worker)
    /\ WF_vars(RunTop) /\ WF_vars(RunWake)
    /\ WF_vars(RunResume \/ Discard \/ Closing \/ \E t \in Callers : CallerResume(t))
    /\ WF_vars(RefreshTimer) /\ WF_vars(DeadTimer)

FairSpec == Spec /\ Fairness

-----------------------------------------------------------------------------
(* Properties.                                                             *)

(* At most one library object holds a socket, and it is the one in use or  *)
(* the one being opened: no reconnect, cut or close leaks a connection     *)
(* (the purifier accepts very few).                                        *)
OneSocket ==
    /\ \A c \in Conns : sock[c] # "none" => c \in {api, local}
    /\ api # NoConn => local = NoConn

(* A connection that does not lead to the configured address has a job of  *)
(* async_reconfigure ahead of it that drops it: whatever the worker was    *)
(* doing when the settings changed, the device never settles on old ones.  *)
DropPending ==
    \/ work.op = "drop"
    \/ \E i \in 1..Len(queue) : queue[i].op = "drop"
ConnectedToConfigured ==
    api # NoConn /\ peer[api] # config => DropPending

(* A device shown available without a connection is about to be corrected: *)
(* a task awaits the drop that makes it unavailable.                       *)
AvailableMeansConnected ==
    available /\ api = NoConn /\ ~closed =>
        \E t \in Tasks : pc[t] \in {"lost", "reconf"}
                         \/ \E i \in 1..Len(ready) : ready[i].res = "lost"

(* A connection in use is shown as available, once the result of the       *)
(* attempt that made it has been handled: a late drop of an older          *)
(* connection never hides a new one.                                       *)
ConnectedMeansAvailable ==
    api # NoConn /\ ~closed /\ ~available /\ pc["run"] # "off" =>
        \E i \in 1..Len(ready) : ready[i].res = "ok"

(* Once close has returned nothing is left: no socket, no job, no result.  *)
ClosedIsClean ==
    pc["close"] = "closed" =>
        /\ \A c \in Conns : sock[c] = "none"
        /\ api = NoConn
        /\ queue = <<>> /\ work = Idle

(* A command that was sent stays scheduled for a read-back until a full    *)
(* status newer than it was read: an older status, or one the worker       *)
(* served before the command, does not cancel it.                          *)
ReadBackScheduled ==
    dirty /\ api # NoConn /\ ~closed =>
        \/ refreshAt # "none"
        \/ \E t \in Tasks : pc[t] \in {"set", "status", "refresh", "lost"}

(* No task hands a job to the executor after it was shut down (it would    *)
(* raise RuntimeError in the caller).                                      *)
NoJobAfterShutdown ==
    [][pc["close"] \in {"shutdown", "closed"} => Len(queue') <= Len(queue)]_vars

(* While the settings are right, the device stays open and the network     *)
(* stops breaking connections, it comes back for good: from every loss, in *)
(* whatever order its parts happen, and also from a connection that died   *)
(* without a sign.                                                         *)
Recovers ==
    /\ <>[](answersTo = config /\ ~closed /\ pc["run"] # "off")
    /\ <>[][~\E c \in Conns, how \in {"silent", "cut"} : Cut(c, how)]_vars
    => <>[](available /\ Answers(api))

(* The device as its users see it (LanLink.tla).                           *)
Connection == IF api = NoConn THEN Nowhere ELSE peer[api]

Life == IF ~closed THEN "open" ELSE IF pc["close"] = "closed" THEN "closed" ELSE "closing"

Link == INSTANCE LanLink WITH
            Settings <- Configs, Nothing <- Nowhere, settings <- config,
            connection <- Connection, available <- available, life <- Life

(* Every step of the two threads is one of the promised steps or invisible *)
(* to the users: a connection never replaces another one, a device that is *)
(* being closed does not report to be available, and one that is closed    *)
(* has no connection and makes none.                                       *)
ImplementsLink == Link!SafeSpec

(* The promises that need time, from the fairness of the threads: a        *)
(* connection to old settings goes down, whatever the worker was doing     *)
(* when they changed; every loss is reported; and async_close ends, an     *)
(* attempt in flight or a job of a caller does not keep it waiting.        *)
LinkIsLive == Link!Liveness

=============================================================================
