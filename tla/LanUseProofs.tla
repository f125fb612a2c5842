---------------------------- MODULE LanUseProofs ----------------------------
(***************************************************************************)
(* What LanDevice shows and schedules while it is in use, for every set of *)
(* callers, settings and library objects, and every number of protocol     *)
(* versions.                                                               *)
(*                                                                         *)
(* Several tasks may open, lose and drop connections, and the loop learns  *)
(* of it late, from results it handles one after another.  Two facts about *)
(* the results that are still on their way tie what the loop knows to what *)
(* the worker did: the last result that tells of a connection agrees with  *)
(* the connection there is, and a command that was sent has a read-back    *)
(* that no result on its way cancels.  They rest on every task having at   *)
(* most one job or result, and awaiting it.                                *)
(***************************************************************************)
EXTENDS LanLinkProofs

(* A task awaits its job from the moment it submits it until it handles    *)
(* the result.                                                             *)
Waiting == DOMAIN OpOf
Waits(job) == pc[job.task] \in Waiting /\ job.op = OpOf[pc[job.task]]

(* The setup that was cancelled while it connected.  The attempt goes on.  *)
Cancelled == \E t \in Callers : pc[t] = "done"

InUse == ~closed /\ ~Cancelled

(* Each task has at most one job, or the result of one, and awaits it.     *)
TasksDiffer(seq) == \A i, j \in 1..Len(seq) : seq[i].task = seq[j].task => i = j

JobsAwaited ==
    /\ \A i \in 1..Len(queue) : Waits(queue[i])
    /\ work # Idle => Waits(work)
    /\ \A i \in 1..Len(ready) : pc[ready[i].task] \in Waiting

OneJobEach ==
    /\ TasksDiffer(queue) /\ TasksDiffer(ready)
    /\ \A i \in 1..Len(queue) : queue[i].task # work.task
    /\ \A i \in 1..Len(ready) : ready[i].task # work.task
    /\ \A i \in 1..Len(queue) : \A j \in 1..Len(ready) : queue[i].task # ready[j].task

(* What the loop will make of the results: a connection was opened, or     *)
(* dropped.  Every other result leaves open whether there is one.          *)
Opened(r) == pc[r.task] \in {"open", "connect"} /\ r.res = "ok"
Dropped(r) == pc[r.task] \in {"lost", "reconf"}
Says(r, v) == IF v THEN Opened(r) ELSE Dropped(r)

(* The last such result says that the device is available, or is not.      *)
Shows(v) ==
    \/ /\ available = v
       /\ \A i \in 1..Len(ready) : ~Says(ready[i], ~v)
    \/ \E i \in 1..Len(ready) :
          /\ Says(ready[i], v)
          /\ \A j \in i + 1..Len(ready) : ~Says(ready[j], ~v)

ShowsConnection == Shows(api # NoConn)

(* A task opens a connection only while there is none.                     *)
Opening == {"open", "connect"}
OpensUnconnected ==
    \A t \in Tasks : pc[t] \in Opening /\ api # NoConn =>
        \E i \in 1..Len(ready) : ready[i] = [task |-> t, res |-> "ok"]

(* The setup connects while nobody else uses the device.                   *)
SetupAlone ==
    \A t \in Callers : pc[t] = "connect" =>
        /\ pc["run"] = "off" /\ ~available
        /\ \A u \in Callers \ {t} : pc[u] = "idle"

(* What was sent stays scheduled for a read-back: a result not handled yet *)
(* will schedule it after every result that takes it off the schedule; or  *)
(* it is scheduled; or the background task reads it, or has lost the       *)
(* connection and will drop it.                                            *)
IsSent(r) == pc[r.task] = "set" /\ r.res = "ok"
IsRead(r) == pc[r.task] \in {"status", "refresh", "open", "connect"} /\ r.res = "ok"

ReadBack ==
    \/ \E i \in 1..Len(ready) :
          IsSent(ready[i]) /\ \A j \in i + 1..Len(ready) : ~IsRead(ready[j])
    \/ refreshAt # "none" /\ \A i \in 1..Len(ready) : ~IsRead(ready[i])
    \/ pc["run"] = "status" /\ \A i \in 1..Len(ready) : ready[i] # [task |-> "run", res |-> "ok"]
    \/ pc["run"] = "lost" /\ \A i \in 1..Len(ready) : ready[i].task # "run"

SentIsReadBack == dirty /\ api # NoConn => ReadBack

(* After a cancelled setup the device is only closed.                      *)
CancelledIsUnused ==
    Cancelled => /\ pc["run"] = "off" /\ ~available
                 /\ \A t \in Callers : pc[t] \in {"idle", "done"}

(* An attempt has its object from the moment it is made.                   *)
OpeningHasLocal ==
    work.op = "open" /\ stage \notin {"begin", "next"} => local # NoConn

(* Commands are sent once the background task was started.                 *)
Sending == work.op = "set" \/ \E i \in 1..Len(queue) : queue[i].op = "set"
OnlyStartedSends == dirty \/ Sending => pc["run"] # "off"

(* What holds while the device is in use.                                  *)
UInv == /\ JobsAwaited /\ OneJobEach /\ SetupAlone
        /\ OpensUnconnected /\ ShowsConnection /\ SentIsReadBack

SInv == /\ CancelledIsUnused /\ OpeningHasLocal /\ OnlyStartedSends
        /\ InUse => UInv

-----------------------------------------------------------------------------
(* Sequences of jobs or results.                                           *)

LEMMA Shifted ==
  ASSUME NEW S, NEW seq \in Seq(S), seq # <<>>
  PROVE  /\ Len(seq) \in Nat \ {0} /\ Head(seq) = seq[1]
         /\ Len(Tail(seq)) = Len(seq) - 1
         /\ \A i \in 1..Len(Tail(seq)) :
               Tail(seq)[i] = seq[i + 1] /\ i + 1 \in 1..Len(seq) /\ i + 1 # 1
<1>1. Len(seq) \in Nat \ {0}
  BY LenProperties, EmptySeq
<1>2. /\ Head(seq) = seq[1] /\ Len(Tail(seq)) = Len(seq) - 1
      /\ \A i \in 1..Len(Tail(seq)) : Tail(seq)[i] = seq[i + 1]
  BY HeadTailProperties
<1> QED
  BY <1>1, <1>2

LEMMA Appended ==
  ASSUME NEW S, NEW seq \in Seq(S), NEW e \in S
  PROVE  /\ Len(seq) \in Nat /\ Len(Append(seq, e)) = Len(seq) + 1
         /\ Append(seq, e)[Len(seq) + 1] = e
         /\ \A i \in 1..Len(seq) : Append(seq, e)[i] = seq[i]
         /\ \A i \in 1..Len(seq) + 1 : i # Len(seq) + 1 => i \in 1..Len(seq)
<1>1. Len(seq) \in Nat
  BY LenProperties
<1>2. /\ Len(Append(seq, e)) = Len(seq) + 1
      /\ Append(seq, e)[Len(seq) + 1] = e
      /\ \A i \in 1..Len(seq) : Append(seq, e)[i] = seq[i]
  BY AppendProperties
<1> QED
  BY <1>1, <1>2

LEMMA Typed ==
  ASSUME TypeOK
  PROVE  /\ queue \in Seq(Jobs) /\ ready \in Seq(Results) /\ work \in Jobs \cup {Idle}
         /\ \A i \in 1..Len(queue) : queue[i] \in Jobs
         /\ \A i \in 1..Len(ready) : ready[i] \in Results
         /\ \A j \in Jobs : j.task \in Tasks /\ j.op \in Ops
         /\ \A r \in Results : r.task \in Tasks /\ r.res \in {"ok", "fail", "lost"}
         /\ \A t \in Tasks, res \in {"ok", "fail", "lost"} : [task |-> t, res |-> res] \in Results
         /\ pc \in [Tasks -> RunLabels \cup CallerLabels \cup CloseLabels]
<1>1. queue \in Seq(Jobs) /\ ready \in Seq(Results)
  BY DEF TypeOK
<1>2. /\ \A i \in 1..Len(queue) : queue[i] \in Jobs
      /\ \A i \in 1..Len(ready) : ready[i] \in Results
  BY <1>1, ElementOfSeq
<1>3. /\ \A j \in Jobs : j.task \in Tasks /\ j.op \in Ops
      /\ \A r \in Results : r.task \in Tasks /\ r.res \in {"ok", "fail", "lost"}
      /\ \A t \in Tasks, res \in {"ok", "fail", "lost"} : [task |-> t, res |-> res] \in Results
  BY DEF Jobs, Results
<1> QED
  BY <1>1, <1>2, <1>3 DEF TypeOK, PcOK

-----------------------------------------------------------------------------
(* A task moves on: from a label where it does not wait, or with the       *)
(* oldest result, which is its own; and waits for a new job, or not.       *)
MovesOn(t, label) ==
    /\ pc' = [pc EXCEPT ![t] = label] /\ work' = work
    /\ \/ ready' = ready /\ pc[t] \notin Waiting
       \/ ready # <<>> /\ ready' = Tail(ready) /\ Head(ready).task = t
    /\ \/ label \in Waiting /\ queue' = Append(queue, [task |-> t, op |-> OpOf[label]])
       \/ label \notin Waiting /\ queue' = queue

(* How many results it takes.                                              *)
Taken == IF ready' = ready THEN 0 ELSE 1

(* The results that are left are those of other tasks, which stay where    *)
(* they are.                                                               *)
LEMMA OthersWait ==
  ASSUME TypeOK, JobsAwaited, OneJobEach, NEW t \in Tasks, NEW label, MovesOn(t, label)
  PROVE  /\ Len(ready) \in Nat /\ Taken \in {0, 1} /\ Len(ready') = Len(ready) - Taken
         /\ Taken = 1 => 1 \in 1..Len(ready) /\ ready[1] = Head(ready) /\ ready[1].task = t
         /\ Taken = 0 => ready' = ready /\ pc[t] \notin Waiting
         /\ \A i \in 1..Len(ready') :
               /\ i + Taken \in 1..Len(ready) /\ ready'[i] = ready[i + Taken]
               /\ i + Taken > Taken
               /\ ready'[i].task \in Tasks \ {t}
               /\ pc'[ready'[i].task] = pc[ready'[i].task]
         /\ \A i \in 1..Len(ready) : i > Taken =>
               i - Taken \in 1..Len(ready') /\ ready'[i - Taken] = ready[i]
<1> USE Typed
<1>1. Len(ready) \in Nat
  BY LenProperties
<1>0. \A u \in Tasks \ {t} : pc'[u] = pc[u]
  BY DEF MovesOn
<1>2. CASE ready' = ready
  <2>1. pc[t] \notin Waiting
    <3>1. ASSUME ready # <<>>, ready' = Tail(ready) PROVE FALSE
      BY <1>2, <3>1, Shifted
    <3> QED
      BY <1>2, <3>1 DEF MovesOn
  <2>2. \A i \in 1..Len(ready) : ready[i].task \in Tasks \ {t}
    BY <2>1 DEF JobsAwaited
  <2>3. Taken = 0
    BY <1>2 DEF Taken
  <2>4. \A i \in 1..Len(ready) : i + 0 = i /\ i - 0 = i /\ i > 0
    BY <1>1
  <2> QED
    BY <1>0, <1>1, <1>2, <2>1, <2>2, <2>3, <2>4
<1>3. CASE ready' # ready
  <2>1. ready # <<>> /\ ready' = Tail(ready) /\ Head(ready).task = t /\ Taken = 1
    BY <1>3 DEF MovesOn, Taken
  <2>2. /\ Len(ready) \in Nat \ {0} /\ 1 \in 1..Len(ready) /\ ready[1] = Head(ready)
        /\ ready[1].task = t /\ Len(ready') = Len(ready) - 1
        /\ \A i \in 1..Len(ready') :
              ready'[i] = ready[i + 1] /\ i + 1 \in 1..Len(ready) /\ i + 1 # 1
    BY <2>1, Shifted
  <2>3. \A i \in 1..Len(ready) : i # 1 => ready[i].task # t
    BY <2>2 DEF OneJobEach, TasksDiffer
  <2>4. \A i \in 1..Len(ready') : ready'[i].task \in Tasks \ {t} /\ i + 1 > 1
    BY <2>2, <2>3
  <2>5. \A i \in 1..Len(ready) : i > 1 =>
           i - 1 \in 1..Len(ready') /\ ready'[i - 1] = ready[i]
    BY <2>2
  <2> QED
    BY <1>0, <1>1, <2>1, <2>2, <2>4, <2>5
<1> QED
  BY <1>2, <1>3

LEMMA MovesOnJobs ==
  ASSUME TypeOK, JobsAwaited, OneJobEach, NEW t \in Tasks, NEW label, MovesOn(t, label)
  PROVE  JobsAwaited' /\ OneJobEach'
<1>1. /\ Len(ready) \in Nat /\ Len(queue) \in Nat
      /\ \A u \in Tasks \ {t} : pc'[u] = pc[u]
      /\ pc'[t] = label /\ work' = work
  BY Typed, LenProperties DEF MovesOn
<1>2. \A i \in 1..Len(ready') :
         /\ i + Taken \in 1..Len(ready) /\ ready'[i] = ready[i + Taken]
         /\ ready'[i].task \in Tasks \ {t}
  BY OthersWait
(* Nothing else of the task is on its way.                                 *)
<1>3. /\ \A i \in 1..Len(queue) : queue[i].task \in Tasks \ {t}
      /\ work.task # t
  <2>1. CASE pc[t] \notin Waiting
    <3>1. work # Idle => work.task # t
      BY <2>1 DEF JobsAwaited, Waits
    <3> QED
      BY <2>1, <3>1, Typed, RunIsNoCaller, TasksAssumption DEF JobsAwaited, Waits, Idle, Tasks
  <2>2. CASE ready # <<>> /\ Head(ready).task = t
    <3>1. 1 \in 1..Len(ready) /\ ready[1].task = t
      BY <2>2, Typed, Shifted
    <3> QED
      BY <3>1, Typed DEF OneJobEach
  <2> QED
    BY <2>1, <2>2 DEF MovesOn
<1>4. CASE label \notin Waiting /\ queue' = queue
  <2>1. JobsAwaited'
    <3>1. \A i \in 1..Len(queue') : Waits(queue[i])'
      BY <1>1, <1>3, <1>4 DEF JobsAwaited, Waits
    <3>2. work' # Idle => Waits(work)'
      BY <1>1, <1>3, Typed, RunIsNoCaller DEF JobsAwaited, Waits
    <3>3. \A i \in 1..Len(ready') : pc'[ready'[i].task] \in Waiting
      BY <1>1, <1>2 DEF JobsAwaited
    <3> QED
      BY <3>1, <3>2, <3>3 DEF JobsAwaited, Waiting
  <2>2. OneJobEach'
    <3>1. TasksDiffer(ready')
      <4> SUFFICES ASSUME NEW i \in 1..Len(ready'), NEW j \in 1..Len(ready'),
                          ready'[i].task = ready'[j].task
                   PROVE  i = j
        BY DEF TasksDiffer
      <4>1. i + Taken = j + Taken
        <5>1. /\ i + Taken \in 1..Len(ready) /\ ready'[i] = ready[i + Taken]
              /\ j + Taken \in 1..Len(ready) /\ ready'[j] = ready[j + Taken]
          BY <1>2
        <5>2. TasksDiffer(ready)
          BY DEF OneJobEach
        <5> QED
          BY <5>1, <5>2 DEF TasksDiffer
      <4> QED
        BY <4>1 DEF Taken
    <3>2. TasksDiffer(queue') /\ \A i \in 1..Len(queue') : queue'[i].task # work'.task
      BY <1>1, <1>4 DEF OneJobEach, TasksDiffer
    <3>3. \A i \in 1..Len(ready') : \E j \in 1..Len(ready) : ready'[i] = ready[j]
      BY <1>2
    <3>4. /\ \A i \in 1..Len(ready') : ready'[i].task # work'.task
          /\ \A i \in 1..Len(queue') : \A j \in 1..Len(ready') :
                queue'[i].task # ready'[j].task
      BY <1>1, <1>4, <3>3 DEF OneJobEach
    <3> QED
      BY <3>1, <3>2, <3>4 DEF OneJobEach
  <2> QED
    BY <2>1, <2>2
<1>5. CASE label \in Waiting /\ queue' = Append(queue, [task |-> t, op |-> OpOf[label]])
  <2> DEFINE job == [task |-> t, op |-> OpOf[label]]
  <2>0. job \in Jobs /\ job.task = t /\ job.op = OpOf[label]
    BY <1>5, JobOf DEF Waiting
  <2> HIDE DEF job
  <2>1. /\ Len(queue') = Len(queue) + 1 /\ queue'[Len(queue) + 1] = job
        /\ \A i \in 1..Len(queue) : queue'[i] = queue[i]
        /\ \A i \in 1..Len(queue) + 1 : i # Len(queue) + 1 => i \in 1..Len(queue)
    BY <1>5, <2>0, Typed, Appended DEF job
  <2>2. JobsAwaited'
    <3>1. \A i \in 1..Len(queue') : Waits(queue[i])'
      BY <1>1, <1>3, <1>5, <2>0, <2>1 DEF JobsAwaited, Waits
    <3>2. work' # Idle => Waits(work)'
      BY <1>1, <1>3, Typed, RunIsNoCaller DEF JobsAwaited, Waits
    <3>3. \A i \in 1..Len(ready') : pc'[ready'[i].task] \in Waiting
      BY <1>1, <1>2 DEF JobsAwaited
    <3> QED
      BY <3>1, <3>2, <3>3 DEF JobsAwaited, Waiting
  <2>3. TasksDiffer(queue')
    <3> SUFFICES ASSUME NEW i \in 1..Len(queue'), NEW j \in 1..Len(queue'),
                        queue'[i].task = queue'[j].task
                 PROVE  i = j
      BY DEF TasksDiffer
    <3> QED
      BY <1>3, <2>0, <2>1 DEF OneJobEach, TasksDiffer
  <2>4. TasksDiffer(ready')
    <3> SUFFICES ASSUME NEW i \in 1..Len(ready'), NEW j \in 1..Len(ready'),
                        ready'[i].task = ready'[j].task
                 PROVE  i = j
      BY DEF TasksDiffer
    <3>1. i + Taken = j + Taken
      <4>1. /\ i + Taken \in 1..Len(ready) /\ ready'[i] = ready[i + Taken]
            /\ j + Taken \in 1..Len(ready) /\ ready'[j] = ready[j + Taken]
        BY <1>2
      <4>2. TasksDiffer(ready)
        BY DEF OneJobEach
      <4> QED
        BY <4>1, <4>2 DEF TasksDiffer
    <3> QED
      BY <3>1 DEF Taken
  <2>5. \A i \in 1..Len(queue') : queue'[i].task # work.task
    BY <1>3, <2>0, <2>1 DEF OneJobEach
  <2>6. \A i \in 1..Len(ready') : ready'[i].task # work.task
    BY <1>2 DEF OneJobEach
  <2>7. ASSUME NEW i \in 1..Len(queue'), NEW j \in 1..Len(ready')
        PROVE  queue'[i].task # ready'[j].task
    <3>1. /\ j + Taken \in 1..Len(ready) /\ ready'[j] = ready[j + Taken]
          /\ ready'[j].task # t
      BY <1>2
    <3>2. i # Len(queue) + 1 => i \in 1..Len(queue) /\ queue'[i] = queue[i]
      BY <2>1
    <3>3. i = Len(queue) + 1 => queue'[i].task = t
      BY <2>0, <2>1
    <3> QED
      BY <3>1, <3>2, <3>3 DEF OneJobEach
  <2> QED
    BY <1>1, <2>2, <2>3, <2>4, <2>5, <2>6, <2>7 DEF OneJobEach
<1> QED
  BY <1>4, <1>5 DEF MovesOn

LEMMA TakesJob ==
  ASSUME TypeOK, JobsAwaited, OneJobEach, WTake
  PROVE  JobsAwaited' /\ OneJobEach'
<1>1. /\ work = Idle /\ queue # <<>> /\ work' = queue[1] /\ queue' = Tail(queue)
      /\ pc' = pc /\ ready' = ready /\ Len(queue) \in Nat \ {0} /\ Len(ready) \in Nat
      /\ 1 \in 1..Len(queue)
  BY Typed, Shifted, LenProperties DEF WTake
<1>2. \A i \in 1..Len(queue') :
         queue'[i] = queue[i + 1] /\ i + 1 \in 1..Len(queue) /\ i + 1 # 1
  BY <1>1, Typed, Shifted
<1>3. JobsAwaited'
  <2>1. \A i \in 1..Len(queue') : Waits(queue[i])'
    BY <1>1, <1>2 DEF JobsAwaited, Waits
  <2>2. Waits(work)' /\ \A i \in 1..Len(ready') : pc'[ready'[i].task] \in Waiting
    BY <1>1 DEF JobsAwaited, Waits
  <2> QED
    BY <2>1, <2>2 DEF JobsAwaited, Waiting
<1>4. TasksDiffer(queue')
  <2> SUFFICES ASSUME NEW i \in 1..Len(queue'), NEW j \in 1..Len(queue'),
                      queue'[i].task = queue'[j].task
               PROVE  i = j
    BY DEF TasksDiffer
  <2>1. i + 1 = j + 1
    BY <1>2 DEF OneJobEach, TasksDiffer
  <2> QED
    BY <2>1
<1>5. TasksDiffer(ready')
  BY <1>1 DEF OneJobEach, TasksDiffer
<1>6. \A i \in 1..Len(queue') : queue'[i].task # work'.task
  BY <1>1, <1>2 DEF OneJobEach, TasksDiffer
<1>7. \A i \in 1..Len(ready') : ready'[i].task # work'.task
  BY <1>1 DEF OneJobEach
<1>8. \A i \in 1..Len(queue') : \A j \in 1..Len(ready') : queue'[i].task # ready'[j].task
  BY <1>1, <1>2 DEF OneJobEach
<1> QED
  BY <1>3, <1>4, <1>5, <1>6, <1>7, <1>8 DEF OneJobEach

(* A job that ends becomes the newest result.                              *)
LEMMA Finished ==
  ASSUME TypeOK, work # Idle, NEW res \in {"ok", "fail", "lost"}, Finish(res)
  PROVE  /\ work \in Jobs /\ work.task \in Tasks /\ work' = Idle
         /\ [task |-> work.task, res |-> res] \in Results
         /\ Len(ready) \in Nat /\ Len(ready') = Len(ready) + 1
         /\ ready'[Len(ready) + 1] = [task |-> work.task, res |-> res]
         /\ \A i \in 1..Len(ready) : ready'[i] = ready[i]
         /\ \A i \in 1..Len(ready') : i # Len(ready) + 1 => i \in 1..Len(ready)
<1>1. work \in Jobs /\ work.task \in Tasks
  BY Typed
<1>2. [task |-> work.task, res |-> res] \in Results
  BY <1>1, Typed
<1>3. ready' = Append(ready, [task |-> work.task, res |-> res]) /\ work' = Idle
  BY DEF Finish
<1> QED
  BY <1>1, <1>2, <1>3, Typed, Appended

LEMMA FinishesJob ==
  ASSUME TypeOK, JobsAwaited, OneJobEach, work # Idle, UNCHANGED <<pc, queue>>,
         NEW res \in {"ok", "fail", "lost"}, Finish(res)
  PROVE  JobsAwaited' /\ OneJobEach'
<1> DEFINE r == [task |-> work.task, res |-> res]
<1>1. /\ work' = Idle /\ work.task \in Tasks /\ r.task = work.task
      /\ Len(ready) \in Nat /\ Len(ready') = Len(ready) + 1
      /\ ready'[Len(ready) + 1] = r
      /\ \A i \in 1..Len(ready) : ready'[i] = ready[i]
      /\ \A i \in 1..Len(ready') : i # Len(ready) + 1 => i \in 1..Len(ready)
  BY Finished
<1> HIDE DEF r
<1>2. JobsAwaited'
  <2>1. \A i \in 1..Len(queue') : Waits(queue[i])'
    BY DEF JobsAwaited, Waits
  <2>2. \A i \in 1..Len(ready') : pc'[ready'[i].task] \in Waiting
    BY <1>1 DEF JobsAwaited, Waits
  <2> QED
    BY <1>1, <2>1, <2>2 DEF JobsAwaited, Waiting
<1>3. TasksDiffer(queue')
  BY DEF OneJobEach, TasksDiffer
<1>4. TasksDiffer(ready')
  <2> SUFFICES ASSUME NEW i \in 1..Len(ready'), NEW j \in 1..Len(ready'),
                      ready'[i].task = ready'[j].task
               PROVE  i = j
    BY DEF TasksDiffer
  <2> QED
    BY <1>1 DEF OneJobEach, TasksDiffer
<1>5. /\ \A i \in 1..Len(queue') : queue'[i].task # work'.task
      /\ \A i \in 1..Len(ready') : ready'[i].task # work'.task
  <2>1. work'.task = "nobody" /\ "nobody" \notin Tasks
    BY <1>1, RunIsNoCaller, TasksAssumption DEF Idle, Tasks
  <2>2. \A i \in 1..Len(queue') : queue'[i].task \in Tasks
    BY Typed
  <2>3. \A i \in 1..Len(ready') : ready'[i].task \in Tasks
    BY <1>1, Typed
  <2> QED
    BY <2>1, <2>2, <2>3
<1>6. \A i \in 1..Len(queue') : \A j \in 1..Len(ready') : queue'[i].task # ready'[j].task
  BY <1>1 DEF OneJobEach
<1> QED
  BY <1>2, <1>3, <1>4, <1>5, <1>6 DEF OneJobEach

(* While the device is in use nothing is skipped or discarded.             *)
LEMMA NothingIsDropped ==
  ASSUME TypeOK, JobsAwaited
  PROVE  ~WSkip /\ ~Discard
<1>1. "done" \notin Waiting
  BY DEF Waiting, OpOf
<1>2. ASSUME WSkip PROVE FALSE
  <2>1. 1 \in 1..Len(queue) /\ Head(queue) = queue[1]
    BY <1>2, Typed, Shifted DEF WSkip
  <2> QED
    BY <1>1, <1>2, <2>1 DEF WSkip, JobsAwaited, Waits
<1>3. ASSUME Discard PROVE FALSE
  <2>1. 1 \in 1..Len(ready) /\ Head(ready) = ready[1]
    BY <1>3, Typed, Shifted DEF Discard
  <2> QED
    BY <1>1, <1>3, <2>1 DEF Discard, JobsAwaited
<1> QED
  BY <1>2, <1>3

-----------------------------------------------------------------------------
(* The steps of the loop.  What the task makes of the result it takes:     *)
(* whether the device is available ...                                     *)
ShownBy(t) ==
    \/ ready' = ready /\ available' = available
    \/ available' = TRUE /\ pc[t] \in Opening /\ Head(ready).res = "ok"
    \/ available' = FALSE /\ pc[t] \in {"lost", "reconf"}
    \/ available' = FALSE /\ pc[t] \in Opening /\ Head(ready).res = "fail"
    \/ /\ available' = available /\ pc[t] \notin {"lost", "reconf"}
       /\ pc[t] \in Opening => Head(ready).res # "ok"

(* ... and whether a read-back is scheduled.                               *)
ScheduledBy(t, label) ==
    /\ pc[t] = "set" /\ Head(ready).res = "ok" => refreshAt' # "none"
    /\ refreshAt # "none" /\ refreshAt' = "none" =>
          \/ pc[t] \in {"status", "refresh", "open", "connect"} /\ Head(ready).res = "ok"
          \/ t = "run" /\ label = "status"
    /\ t = "run" /\ pc[t] = "status" => label = "lost" \/ Head(ready).res = "ok"

(* A connection is opened only while there is none, and the setup is alone. *)
OpensAlone(t, label) ==
    /\ label \in Opening => api = NoConn
    /\ \A u \in Callers \ {t} : pc[u] # "connect"
    /\ label = "connect" =>
          pc'["run"] = "off" /\ ~available' /\ \A u \in Callers \ {t} : pc[u] = "idle"

LoopMoves(t, label) ==
    /\ MovesOn(t, label) /\ UNCHANGED <<api, dirty>>
    /\ ShownBy(t) /\ ScheduledBy(t, label) /\ OpensAlone(t, label)

LEMMA MovesShow ==
  ASSUME TypeOK, UInv, NEW t \in Tasks, NEW label, LoopMoves(t, label)
  PROVE  ShowsConnection'
<1>1. MovesOn(t, label) /\ api' = api /\ ShownBy(t)
  BY DEF LoopMoves
<1>2. /\ Len(ready) \in Nat /\ Taken \in {0, 1}
      /\ Taken = 1 => 1 \in 1..Len(ready) /\ ready[1] = Head(ready) /\ ready[1].task = t
      /\ Taken = 0 => ready' = ready /\ pc[t] \notin Waiting
      /\ \A i \in 1..Len(ready') :
            /\ i + Taken \in 1..Len(ready) /\ ready'[i] = ready[i + Taken]
            /\ i + Taken > Taken
            /\ pc'[ready'[i].task] = pc[ready'[i].task]
      /\ \A i \in 1..Len(ready) : i > Taken =>
            i - Taken \in 1..Len(ready') /\ ready'[i - Taken] = ready[i]
  BY <1>1, OthersWait DEF UInv
<1> DEFINE v == api # NoConn
<1>3. Shows(v) /\ v \in BOOLEAN /\ v' = v
  BY <1>1 DEF UInv, ShowsConnection
<1> DEFINE Said(i, w) == Says(ready[i], w)
           SaidNext(i, w) == IF w THEN pc'[ready'[i].task] \in {"open", "connect"} /\ ready'[i].res = "ok"
                                  ELSE pc'[ready'[i].task] \in {"lost", "reconf"}
<1>4. \A i \in 1..Len(ready') : \A w \in BOOLEAN : SaidNext(i, w) <=> Said(i + Taken, w)
  BY <1>2 DEF Says, Opened, Dropped
<1>5. Shows(v)' <=>
         \/ available' = v /\ \A i \in 1..Len(ready') : ~SaidNext(i, ~v)
         \/ \E i \in 1..Len(ready') :
               SaidNext(i, v) /\ \A j \in i + 1..Len(ready') : ~SaidNext(j, ~v)
  BY <1>3 DEF Shows, Says, Opened, Dropped
(* The result that is taken.                                               *)
<1>6. \/ Taken = 0 /\ available' = available
      \/ Taken = 1 /\ Said(1, v) /\ available' = v
      \/ Taken = 1 /\ Said(1, ~v) /\ ~Said(1, v)
      \/ Taken = 1 /\ ~Said(1, v) /\ ~Said(1, ~v) /\ available' \in {available, v}
  <2>1. CASE Taken = 0
    BY <1>1, <1>2, <2>1 DEF ShownBy, Opening, Waiting, OpOf
  <2>2. CASE Taken = 1
    <3>0. ready' # ready
      BY <2>2 DEF Taken
    <3>1. Said(1, TRUE) <=> pc[t] \in Opening /\ Head(ready).res = "ok"
      BY <1>2, <2>2 DEF Says, Opened, Opening
    <3>2. Said(1, FALSE) <=> pc[t] \in {"lost", "reconf"}
      BY <1>2, <2>2 DEF Says, Dropped
    <3>3. ASSUME pc[t] \in Opening, Head(ready).res = "fail" PROVE v = FALSE
      <4>1. \A i \in 1..Len(ready) : ready[i].task = t => i = 1
        BY <1>2, <2>2 DEF UInv, OneJobEach, TasksDiffer
      <4>2. \A i \in 1..Len(ready) : ready[i] # [task |-> t, res |-> "ok"]
        BY <1>2, <2>2, <3>3, <4>1
      <4> QED
        BY <3>3, <4>2 DEF UInv, OpensUnconnected
    <3>4. available \in BOOLEAN
      BY DEF TypeOK
    <3> HIDE DEF Said, v
    <3>5. ShownBy(t) /\ v \in BOOLEAN
      BY <1>1, <1>3
    <3>6. Said(1, TRUE) => ~Said(1, FALSE)
      BY <3>1, <3>2 DEF Opening
    <3>7. CASE v
      BY <2>2, <3>0, <3>1, <3>2, <3>3, <3>4, <3>5, <3>6, <3>7 DEF ShownBy, Opening
    <3>8. CASE ~v
      BY <2>2, <3>0, <3>1, <3>2, <3>3, <3>4, <3>5, <3>6, <3>8 DEF ShownBy, Opening
    <3> QED
      BY <3>5, <3>7, <3>8
  <2> QED
    BY <1>2, <2>1, <2>2
<1>7. \/ available = v /\ \A i \in 1..Len(ready) : ~Said(i, ~v)
      \/ \E i \in 1..Len(ready) : Said(i, v) /\ \A j \in i + 1..Len(ready) : ~Said(j, ~v)
  BY <1>3 DEF Shows
<1> HIDE DEF Said, SaidNext, v
<1>8. CASE available = v /\ \A i \in 1..Len(ready) : ~Said(i, ~v)
  <2>1. available' = v
    BY <1>2, <1>6, <1>8
  <2>2. \A i \in 1..Len(ready') : ~SaidNext(i, ~v)
    BY <1>2, <1>3, <1>4, <1>8
  <2> QED
    BY <1>3, <1>5, <2>1, <2>2 DEF ShowsConnection, v
<1>9. ASSUME NEW i \in 1..Len(ready), Said(i, v), \A j \in i + 1..Len(ready) : ~Said(j, ~v)
       PROVE  Shows(v)'
  <2>1. CASE i > Taken
    <3>1. i - Taken \in 1..Len(ready') /\ i - Taken + Taken = i
      BY <1>2, <2>1
    <3>2. SaidNext(i - Taken, v)
      BY <1>3, <1>4, <1>9, <3>1
    <3>3. \A j \in i - Taken + 1..Len(ready') : ~SaidNext(j, ~v)
      <4> TAKE j \in i - Taken + 1..Len(ready')
      <4>1. j \in 1..Len(ready') /\ j + Taken \in i + 1..Len(ready)
        BY <1>2, <3>1
      <4> QED
        BY <1>3, <1>4, <1>9, <4>1
    <3> QED
      BY <1>5, <3>1, <3>2, <3>3
  <2>2. CASE ~(i > Taken)
    <3>1. i = 1 /\ Taken = 1
      BY <1>2, <2>2
    <3>2. available' = v
      BY <1>6, <1>9, <3>1
    <3>3. \A j \in 1..Len(ready') : ~SaidNext(j, ~v)
      <4> TAKE j \in 1..Len(ready')
      <4>1. j + Taken \in i + 1..Len(ready)
        BY <1>2, <3>1
      <4> QED
        BY <1>3, <1>4, <1>9, <4>1
    <3> QED
      BY <1>5, <3>2, <3>3
  <2> QED
    BY <2>1, <2>2
<1> QED
  BY <1>3, <1>7, <1>8, <1>9 DEF ShowsConnection, v

LEMMA MovesSchedule ==
  ASSUME TypeOK, UInv, NEW t \in Tasks, NEW label, LoopMoves(t, label)
  PROVE  SentIsReadBack'
<1>1. /\ MovesOn(t, label) /\ api' = api /\ dirty' = dirty /\ ScheduledBy(t, label)
      /\ pc'[t] = label
  BY Typed DEF LoopMoves, MovesOn
<1>2. /\ Len(ready) \in Nat /\ Taken \in {0, 1} /\ Len(ready') = Len(ready) - Taken
      /\ Taken = 1 => 1 \in 1..Len(ready) /\ ready[1] = Head(ready) /\ ready[1].task = t
      /\ Taken = 0 => ready' = ready /\ pc[t] \notin Waiting
      /\ \A i \in 1..Len(ready') :
            /\ i + Taken \in 1..Len(ready) /\ ready'[i] = ready[i + Taken]
            /\ i + Taken > Taken /\ ready'[i].task \in Tasks \ {t}
            /\ pc'[ready'[i].task] = pc[ready'[i].task]
      /\ \A i \in 1..Len(ready) : i > Taken =>
            i - Taken \in 1..Len(ready') /\ ready'[i - Taken] = ready[i]
  BY <1>1, OthersWait DEF UInv
<1>3. \A u \in Tasks \ {t} : pc'[u] = pc[u]
  BY <1>1, Typed DEF MovesOn
<1> SUFFICES ASSUME dirty, api # NoConn PROVE ReadBack'
  BY <1>1 DEF SentIsReadBack
<1>4. ReadBack
  BY DEF UInv, SentIsReadBack
<1> DEFINE SentAt(i) == IsSent(ready[i])
           ReadAt(i) == IsRead(ready[i])
           SentNext(i) == pc'[ready'[i].task] = "set" /\ ready'[i].res = "ok"
           ReadNext(i) == /\ pc'[ready'[i].task] \in {"status", "refresh", "open", "connect"}
                          /\ ready'[i].res = "ok"
<1>5. \A i \in 1..Len(ready') :
         (SentNext(i) <=> SentAt(i + Taken)) /\ (ReadNext(i) <=> ReadAt(i + Taken))
  BY <1>2 DEF IsSent, IsRead
<1>6. Taken = 1 => /\ SentAt(1) <=> pc[t] = "set" /\ Head(ready).res = "ok"
                   /\ ReadAt(1) <=> /\ pc[t] \in {"status", "refresh", "open", "connect"}
                                    /\ Head(ready).res = "ok"
  BY <1>2 DEF IsSent, IsRead
<1>7. /\ \A i \in 1..Len(ready') : SentNext(i) /\ (\A j \in i + 1..Len(ready') : ~ReadNext(j))
            => ReadBack'
      /\ refreshAt' # "none" /\ (\A i \in 1..Len(ready') : ~ReadNext(i)) => ReadBack'
      /\ pc'["run"] = "status"
            /\ (\A i \in 1..Len(ready') : ready'[i] # [task |-> "run", res |-> "ok"])
         => ReadBack'
      /\ pc'["run"] = "lost" /\ (\A i \in 1..Len(ready') : ready'[i].task # "run")
         => ReadBack'
  BY DEF ReadBack, IsSent, IsRead
<1>8. ASSUME NEW i \in 1..Len(ready), SentAt(i), \A j \in i + 1..Len(ready) : ~ReadAt(j)
      PROVE  ReadBack'
  <2> HIDE DEF SentAt, ReadAt, SentNext, ReadNext
  <2>1. CASE i > Taken
    <3>1. i - Taken \in 1..Len(ready')
      BY <1>2, <2>1
    <3>2. i \in Nat /\ Taken \in Nat /\ Len(ready) \in Nat /\ Len(ready') \in Int
      BY <1>2
    <3>3. SentNext(i - Taken)
      <4>1. i - Taken + Taken = i
        BY <3>2
      <4> QED
        BY <1>5, <1>8, <3>1, <4>1
    <3>4. \A j \in i - Taken + 1..Len(ready') : ~ReadNext(j)
      <4> TAKE j \in i - Taken + 1..Len(ready')
      <4>1. j \in 1..Len(ready') /\ j + Taken > i
        BY <3>1, <3>2
      <4>2. j + Taken \in 1..Len(ready)
        BY <1>2, <4>1
      <4>3. j + Taken \in i + 1..Len(ready)
        BY <3>2, <4>1, <4>2
      <4> QED
        BY <1>5, <1>8, <4>1, <4>3
    <3> QED
      BY <1>7, <3>1, <3>3, <3>4
  <2>2. CASE ~(i > Taken)
    <3>1. i = 1 /\ Taken = 1
      BY <1>2, <2>2
    <3>2. refreshAt' # "none"
      BY <1>1, <1>6, <1>8, <3>1 DEF ScheduledBy
    <3>3. \A j \in 1..Len(ready') : ~ReadNext(j)
      <4> TAKE j \in 1..Len(ready')
      <4>1. j + Taken \in i + 1..Len(ready)
        BY <1>2, <3>1
      <4> QED
        BY <1>5, <1>8, <4>1
    <3> QED
      BY <1>7, <3>2, <3>3
  <2> QED
    BY <2>1, <2>2
<1>9. CASE refreshAt # "none" /\ \A i \in 1..Len(ready) : ~ReadAt(i)
  <2> HIDE DEF SentAt, ReadAt, SentNext, ReadNext
  <2>1. \A i \in 1..Len(ready') : ~ReadNext(i)
    BY <1>2, <1>5, <1>9
  <2>2. CASE refreshAt' # "none"
    BY <1>7, <2>1, <2>2
  <2>3. CASE refreshAt' = "none"
    <3>1. t = "run" /\ label = "status"
      <4>1. CASE Taken = 1
        BY <1>1, <1>2, <1>6, <1>9, <2>3, <4>1 DEF ScheduledBy
      <4>2. CASE Taken = 0
        BY <1>1, <1>2, <1>9, <2>3, <4>2 DEF ScheduledBy, Waiting, OpOf
      <4> QED
        BY <1>2, <4>1, <4>2
    <3>2. \A i \in 1..Len(ready') : ready'[i] # [task |-> "run", res |-> "ok"]
      BY <1>2, <3>1
    <3> QED
      BY <1>1, <1>7, <3>1, <3>2
  <2> QED
    BY <2>2, <2>3
<1>10. CASE /\ pc["run"] = "status"
            /\ \A i \in 1..Len(ready) : ready[i] # [task |-> "run", res |-> "ok"]
  <2>1. CASE t # "run"
    <3>1. /\ pc'["run"] = "status"
          /\ \A i \in 1..Len(ready') : ready'[i] # [task |-> "run", res |-> "ok"]
      BY <1>2, <1>3, <1>10, <2>1 DEF Tasks
    <3> QED
      BY <1>7, <3>1
  <2>2. CASE t = "run"
    <3>1. Taken = 1 /\ ready[1] \in Results
      BY <1>2, <1>10, <2>2, Typed DEF Waiting, OpOf
    <3>2. Head(ready).res # "ok"
      <4>1. ready[1] = [task |-> ready[1].task, res |-> ready[1].res]
        BY <3>1 DEF Results
      <4> QED
        BY <1>2, <1>10, <2>2, <3>1, <4>1
    <3>3. pc'["run"] = "lost"
      BY <1>1, <1>10, <2>2, <3>2 DEF ScheduledBy
    <3> QED
      BY <1>2, <1>7, <2>2, <3>3
  <2> QED
    BY <2>1, <2>2
<1>11. CASE pc["run"] = "lost" /\ \A i \in 1..Len(ready) : ready[i].task # "run"
  <2>1. t # "run"
    BY <1>2, <1>11 DEF Waiting, OpOf
  <2>2. pc'["run"] = "lost"
    BY <1>3, <1>11, <2>1 DEF Tasks
  <2>3. \A i \in 1..Len(ready') : ready'[i].task # "run"
    <3> TAKE i \in 1..Len(ready')
    <3>1. i + Taken \in 1..Len(ready) /\ ready'[i] = ready[i + Taken]
      BY <1>2
    <3> QED
      BY <1>11, <3>1
  <2> QED
    BY <1>7, <2>2, <2>3
<1> QED
  BY <1>4, <1>8, <1>9, <1>10, <1>11 DEF ReadBack

LEMMA MovesAlone ==
  ASSUME TypeOK, UInv, NEW t \in Tasks, NEW label, LoopMoves(t, label)
  PROVE  SetupAlone' /\ OpensUnconnected'
<1>1. /\ MovesOn(t, label) /\ api' = api /\ OpensAlone(t, label)
      /\ pc'[t] = label /\ \A u \in Tasks \ {t} : pc'[u] = pc[u]
  BY Typed DEF LoopMoves, MovesOn
<1>2. /\ Len(ready) \in Nat /\ Taken \in {0, 1}
      /\ Taken = 1 => 1 \in 1..Len(ready) /\ ready[1].task = t
      /\ \A i \in 1..Len(ready) : i > Taken =>
            i - Taken \in 1..Len(ready') /\ ready'[i - Taken] = ready[i]
  BY <1>1, OthersWait DEF UInv
<1>3. SetupAlone'
  <2> SUFFICES ASSUME NEW u \in Callers, pc'[u] = "connect"
               PROVE  /\ pc'["run"] = "off" /\ ~available'
                      /\ \A w \in Callers \ {u} : pc'[w] = "idle"
    BY DEF SetupAlone
  <2>1. u = t /\ label = "connect"
    BY <1>1 DEF OpensAlone, Tasks
  <2> QED
    BY <1>1, <2>1 DEF OpensAlone, Tasks
<1>4. OpensUnconnected'
  <2> SUFFICES ASSUME NEW u \in Tasks, pc'[u] \in Opening, api # NoConn
               PROVE  \E i \in 1..Len(ready') : ready'[i] = [task |-> u, res |-> "ok"]
    BY <1>1 DEF OpensUnconnected, Opening
  <2>1. u # t
    BY <1>1 DEF OpensAlone
  <2>2. PICK i \in 1..Len(ready) : ready[i] = [task |-> u, res |-> "ok"]
    BY <1>1, <2>1 DEF UInv, OpensUnconnected
  <2>3. i > Taken
    BY <1>2, <2>1, <2>2
  <2> QED
    BY <1>2, <2>2, <2>3
<1> QED
  BY <1>3, <1>4

LEMMA MovesKeep ==
  ASSUME TypeOK, UInv, NEW t \in Tasks, NEW label, LoopMoves(t, label)
  PROVE  UInv'
<1>1. JobsAwaited' /\ OneJobEach'
  BY MovesOnJobs DEF LoopMoves, UInv
<1> QED
  BY <1>1, MovesShow, MovesSchedule, MovesAlone DEF UInv

(* The background task moves on.                                           *)
LEMMA RunMoves ==
  ASSUME TypeOK, UInv, RunTop \/ RunResume \/ RunWake \/ Start
  PROVE  \E label : LoopMoves("run", label)
<1> DEFINE Goal == \E label : LoopMoves("run", label)
<1> USE DEF LoopMoves, MovesOn, ShownBy, ScheduledBy, OpensAlone, Waiting, OpOf, Opening,
            Submit, Goto, FallAsleep, Resume, link, flags
<1>1. \A u \in Callers : pc[u] = "connect" => pc["run"] = "off"
  BY DEF UInv, SetupAlone
<1>2. CASE RunOpen
  <2>1. LoopMoves("run", "open")
    BY <1>1, <1>2 DEF RunOpen
  <2> QED
    BY <2>1
<1>3. CASE RunDead
  <2>1. LoopMoves("run", "lost")
    BY <1>1, <1>3 DEF RunDead
  <2> QED
    BY <2>1
<1>4. CASE RunStatus
  <2>1. LoopMoves("run", "status")
    BY <1>1, <1>4 DEF RunStatus
  <2> QED
    BY <2>1
<1>5. ASSUME NEW label \in {"beat", "receive"}, RunListen(label) PROVE Goal
  <2>1. LoopMoves("run", label)
    BY <1>1, <1>5 DEF RunListen
  <2> QED
    BY <2>1
<1>6. CASE RunBeatSent
  <2>1. LoopMoves("run", "receive")
    BY <1>1, <1>6 DEF RunBeatSent
  <2> QED
    BY <2>1
<1>7. CASE RunReceived
  <2>1. LoopMoves("run", "top")
    BY <1>1, <1>7 DEF RunReceived
  <2> QED
    BY <2>1
<1>8. CASE RunStatusRead
  <2>1. LoopMoves("run", "top")
    BY <1>1, <1>8 DEF RunStatusRead, HandleStatus
  <2> QED
    BY <2>1
<1>9. CASE RunOpened
  <2>0. /\ available' = TRUE /\ refreshAt' = "none" /\ pc["run"] = "open"
        /\ ready # <<>> /\ Head(ready) = [task |-> "run", res |-> "ok"] /\ ready' = Tail(ready)
        /\ pc' = [pc EXCEPT !["run"] = "top"] /\ UNCHANGED <<queue, work, api, dirty>>
    BY <1>1, <1>9 DEF RunOpened, HandleConnected
  <2>1. LoopMoves("run", "top")
    <3>1. MovesOn("run", "top")
      BY <2>0
    <3>2. ShownBy("run")
      <4>1. Head(ready).res = "ok" /\ pc["run"] \in Opening
        BY <2>0
      <4> HIDE DEF Opening
      <4> QED
        BY <2>0, <4>1, Zenon
    <3>3. ScheduledBy("run", "top")
      BY <2>0
    <3>4. OpensAlone("run", "top")
      BY <2>0, <1>1, <1>9
    <3> QED
      BY <2>0, <3>1, <3>2, <3>3, <3>4
  <2> QED
    BY <2>1
<1>10. CASE RunOpenFailed
  <2>1. LoopMoves("run", "backoff")
    BY <1>1, <1>10 DEF RunOpenFailed
  <2> QED
    BY <2>1
<1>11. CASE RunLost
  <2>1. LoopMoves("run", "lost")
    BY <1>1, <1>11 DEF RunLost
  <2> QED
    BY <2>1
<1>12. CASE RunDropped
  <2>1. LoopMoves("run", "pause")
    BY <1>1, <1>12 DEF RunDropped
  <2> QED
    BY <2>1
<1>13. CASE RunWake
  <2>1. LoopMoves("run", "top")
    BY <1>1, <1>13 DEF RunWake
  <2> QED
    BY <2>1
<1>14. CASE Start
  <2>1. LoopMoves("run", "top")
    BY <1>14 DEF Start, Quiet
  <2> QED
    BY <2>1
<1> QED
  BY <1>2, <1>3, <1>4, <1>5, <1>6, <1>7, <1>8, <1>9, <1>10, <1>11, <1>12, <1>13, <1>14
  DEF RunTop, RunResume

(* While the setup may connect there is no job and no result, and so no    *)
(* connection, unless it is available.                                     *)
LEMMA NothingUnderWay ==
  ASSUME LInv, UInv, ~closed, pc["run"] = "off", \A u \in Callers : pc[u] = "idle",
         ~available
  PROVE  api = NoConn
<1>1. \A t \in Tasks : pc[t] \notin Waiting
  <2>1. pc["close"] = "idle"
    BY DEF LInv, ClosingTasks
  <2> QED
    BY <2>1 DEF Tasks, Waiting, OpOf
<1>2. \A i \in 1..Len(ready) : FALSE
  BY <1>1, Typed DEF LInv, IInv, UInv, JobsAwaited
<1> QED
  BY <1>2 DEF UInv, ShowsConnection, Shows

(* A caller moves on; one that is cancelled does not.                      *)
LEMMA CallerMoves ==
  ASSUME LInv, UInv, InUse, NEW t \in Callers,
         (Caller(t) /\ ~CancelConnect(t)) \/ CallerResume(t)
  PROVE  \E label : LoopMoves(t, label)
<1> DEFINE Goal == \E label : LoopMoves(t, label)
<1>0. t # "run" /\ t \in Tasks /\ TypeOK /\ ~closed
  BY RunIsNoCaller DEF LInv, IInv, Tasks, InUse
<1>1. pc[t] # "idle" => \A u \in Callers \ {t} : pc[u] # "connect"
  BY DEF UInv, SetupAlone
<1>2. MayCall(t) => pc[t] = "idle" /\ \A u \in Callers \ {t} : pc[u] # "connect"
  BY DEF MayCall, UInv, SetupAlone
<1>3. ASSUME Connect(t) PROVE Goal
  <2>1. /\ pc["run"] = "off" /\ ~available /\ \A u \in Callers : pc[u] = "idle"
        /\ Submit(t, "connect") /\ UNCHANGED <<config, link, closed, flags, work, ready, answersTo, dirty>>
    BY <1>3 DEF Connect, MayCall
  <2>2. api = NoConn
    BY <1>0, <2>1, NothingUnderWay
  <2>3. pc'["run"] = "off"
    BY <1>0, <2>1, Typed DEF Submit, Tasks
  <2>4. LoopMoves(t, "connect")
    BY <1>0, <2>1, <2>2, <2>3 DEF LoopMoves, MovesOn, ShownBy, ScheduledBy, OpensAlone,
       Waiting, OpOf, Opening, Submit, link, flags
  <2> QED
    BY <2>4
<1> USE DEF LoopMoves, MovesOn, ShownBy, ScheduledBy, OpensAlone, Waiting, OpOf, Opening,
            Submit, Goto, Resume, link, flags
<1>4. ASSUME Refresh(t) PROVE Goal
  <2>1. LoopMoves(t, "refresh")
    BY <1>0, <1>2, <1>4 DEF Refresh
  <2> QED
    BY <2>1
<1>5. ASSUME SetDps(t) PROVE Goal
  <2>1. LoopMoves(t, "set")
    BY <1>0, <1>2, <1>5 DEF SetDps
  <2> QED
    BY <2>1
<1>6. ASSUME NEW c \in Configs, Reconfigure(t, c) PROVE Goal
  <2>1. LoopMoves(t, "reconf")
    BY <1>0, <1>2, <1>6 DEF Reconfigure, Interrupt
  <2> QED
    BY <2>1
<1>7. ASSUME Connected(t) PROVE Goal
  <2>0. /\ available' = TRUE /\ refreshAt' = "none" /\ pc[t] = "connect"
        /\ ready # <<>> /\ Head(ready) = [task |-> t, res |-> "ok"] /\ ready' = Tail(ready)
        /\ pc' = [pc EXCEPT ![t] = "idle"] /\ UNCHANGED <<queue, work, api, dirty>>
    BY <1>0, <1>1, <1>7 DEF Connected, HandleConnected
  <2>1. LoopMoves(t, "idle")
    <3>1. MovesOn(t, "idle")
      BY <2>0
    <3>2. ShownBy(t)
      <4>1. Head(ready).res = "ok" /\ pc[t] \in Opening
        BY <2>0
      <4> HIDE DEF Opening
      <4> QED
        BY <2>0, <4>1, Zenon
    <3>3. ScheduledBy(t, "idle")
      BY <2>0
    <3>4. OpensAlone(t, "idle")
      BY <2>0, <1>0, <1>1, <1>7
    <3> QED
      BY <2>0, <3>1, <3>2, <3>3, <3>4
  <2> QED
    BY <2>1
<1>8. ASSUME ConnectFailed(t) PROVE Goal
  <2>1. LoopMoves(t, "idle")
    BY <1>0, <1>1, <1>8 DEF ConnectFailed
  <2> QED
    BY <2>1
<1>9. ASSUME Refreshed(t) PROVE Goal
  <2>1. LoopMoves(t, "idle")
    BY <1>0, <1>1, <1>9 DEF Refreshed, HandleStatus
  <2> QED
    BY <2>1
<1>10. ASSUME SetSent(t) PROVE Goal
  <2>1. LoopMoves(t, "idle")
    BY <1>0, <1>1, <1>10 DEF SetSent
  <2> QED
    BY <2>1
<1>11. ASSUME CallerLost(t) PROVE Goal
  <2>1. LoopMoves(t, "lost")
    BY <1>0, <1>1, <1>11 DEF CallerLost
  <2> QED
    BY <2>1
<1>12. ASSUME CallerDropped(t) PROVE Goal
  <2>1. LoopMoves(t, "idle")
    BY <1>0, <1>1, <1>12 DEF CallerDropped
  <2> QED
    BY <2>1
<1>13. ASSUME Reconfigured(t) PROVE Goal
  <2>1. LoopMoves(t, "idle")
    BY <1>0, <1>1, <1>13 DEF Reconfigured
  <2> QED
    BY <2>1
<1> HIDE DEF Goal
<1>14. Goal
  BY <1>3, <1>4, <1>5, <1>6, <1>7, <1>8, <1>9, <1>10, <1>11, <1>12, <1>13
  DEF Caller, CallerResume
<1> QED
  BY <1>14 DEF Goal

-----------------------------------------------------------------------------
(* The steps that bring no result: the clock, the network, an attempt that *)
(* goes on.                                                                *)
LEMMA QuietKeepsUse ==
  ASSUME UInv, UNCHANGED <<pc, queue, work, ready, available, dirty, api>>,
         refreshAt' = "none" => refreshAt = "none"
  PROVE  UInv'
<1>1. JobsAwaited' /\ OneJobEach'
  BY DEF UInv, JobsAwaited, OneJobEach, TasksDiffer, Waits, Waiting
<1>2. SetupAlone' /\ OpensUnconnected'
  BY DEF UInv, SetupAlone, OpensUnconnected, Opening
<1>3. ShowsConnection'
  BY DEF UInv, ShowsConnection, Shows, Says, Opened, Dropped
<1>4. SentIsReadBack'
  BY DEF UInv, SentIsReadBack, ReadBack, IsSent, IsRead
<1> QED
  BY <1>1, <1>2, <1>3, <1>4 DEF UInv

LEMMA TakeKeepsUse ==
  ASSUME TypeOK, UInv, WTake
  PROVE  UInv'
<1>1. UNCHANGED <<pc, ready, available, refreshAt, dirty, api>>
  BY DEF WTake, flags
<1>2. JobsAwaited' /\ OneJobEach'
  BY TakesJob DEF UInv
<1>3. SetupAlone' /\ OpensUnconnected'
  BY <1>1 DEF UInv, SetupAlone, OpensUnconnected, Opening
<1>4. ShowsConnection'
  BY <1>1 DEF UInv, ShowsConnection, Shows, Says, Opened, Dropped
<1>5. SentIsReadBack'
  BY <1>1 DEF UInv, SentIsReadBack, ReadBack, IsSent, IsRead
<1> QED
  BY <1>2, <1>3, <1>4, <1>5 DEF UInv

(* What a job that ends has done, by the task that awaits it.              *)
Did(t, res) ==
    /\ \/ pc[t] \in Opening /\ res = "ok" /\ api' # NoConn
       \/ pc[t] \in {"lost", "reconf"} /\ api' = NoConn
       \/ /\ api' = api /\ pc[t] \notin {"lost", "reconf"}
          /\ pc[t] \in Opening => res # "ok"
    /\ dirty' /\ api' # NoConn =>
          \/ pc[t] = "set" /\ res = "ok"
          \/ /\ dirty /\ api # NoConn
             /\ pc[t] \in {"status", "refresh", "open", "connect"} => res # "ok"

LEMMA FinishKeepsUse ==
  ASSUME TypeOK, UInv, work # Idle, NEW res \in {"ok", "fail", "lost"}, Finish(res),
         UNCHANGED <<pc, queue, available, refreshAt>>, Did(work.task, res)
  PROVE  UInv'
<1> DEFINE t == work.task
           r == [task |-> t, res |-> res]
           n == Len(ready) + 1
<1>1. /\ t \in Tasks /\ r.task = t /\ r.res = res
      /\ Len(ready) \in Nat /\ Len(ready') = n /\ ready'[n] = r
      /\ \A i \in 1..Len(ready) : ready'[i] = ready[i]
      /\ \A i \in 1..Len(ready') : i # n => i \in 1..Len(ready)
      /\ n \in 1..Len(ready') /\ \A i \in 1..Len(ready) : i \in 1..Len(ready')
  BY Finished
<1>2. Did(t, res)
  OBVIOUS
<1> HIDE DEF r, n
<1>3. JobsAwaited' /\ OneJobEach'
  BY FinishesJob DEF UInv
<1>4. SetupAlone'
  BY DEF UInv, SetupAlone
<1>5. OpensUnconnected'
  <2> SUFFICES ASSUME NEW u \in Tasks, pc[u] \in Opening, api' # NoConn
               PROVE  \E i \in 1..Len(ready') : ready'[i] = [task |-> u, res |-> "ok"]
    BY DEF OpensUnconnected, Opening
  <2>1. CASE pc[t] \in Opening /\ res = "ok"
    <3>1. u = t
      <4>1. \A w \in Tasks : pc[w] = "open" => w = "run"
        BY DEF TypeOK, PcOK, Tasks, CallerLabels, CloseLabels
      <4>2. \A w \in Tasks : pc[w] = "connect" => w \in Callers
        BY DEF TypeOK, PcOK, Tasks, RunLabels, CloseLabels
      <4> QED
        BY <1>1, <2>1, <4>1, <4>2 DEF Opening, UInv, SetupAlone
    <3> QED
      BY <1>1, <2>1, <3>1 DEF r
  <2>2. CASE ~(pc[t] \in Opening /\ res = "ok")
    <3>1. api # NoConn
      BY <1>2, <2>2 DEF Did
    <3>2. PICK i \in 1..Len(ready) : ready[i] = [task |-> u, res |-> "ok"]
      BY <3>1 DEF UInv, OpensUnconnected
    <3> QED
      BY <1>1, <3>2
  <2> QED
    BY <2>1, <2>2
<1> DEFINE Said(i, w) == Says(ready[i], w)
           SaidNext(i, w) == IF w THEN pc[ready'[i].task] \in {"open", "connect"} /\ ready'[i].res = "ok"
                                  ELSE pc[ready'[i].task] \in {"lost", "reconf"}
           v == api # NoConn
           vNext == api' # NoConn
<1>6. /\ \A i \in 1..Len(ready) : \A w \in BOOLEAN : SaidNext(i, w) <=> Said(i, w)
      /\ SaidNext(n, TRUE) <=> pc[t] \in Opening /\ res = "ok"
      /\ SaidNext(n, FALSE) <=> pc[t] \in {"lost", "reconf"}
  BY <1>1 DEF Says, Opened, Dropped, Opening
<1>7. /\ v \in BOOLEAN /\ vNext \in BOOLEAN
      /\ \/ available = v /\ \A i \in 1..Len(ready) : ~Said(i, ~v)
         \/ \E i \in 1..Len(ready) : Said(i, v) /\ \A j \in i + 1..Len(ready) : ~Said(j, ~v)
  BY DEF UInv, ShowsConnection, Shows
<1>8. ShowsConnection' <=>
         \/ available = vNext /\ \A i \in 1..Len(ready') : ~SaidNext(i, ~vNext)
         \/ \E i \in 1..Len(ready') :
               SaidNext(i, vNext) /\ \A j \in i + 1..Len(ready') : ~SaidNext(j, ~vNext)
  BY DEF ShowsConnection, Shows, Says, Opened, Dropped
<1>9. \/ SaidNext(n, vNext)
      \/ vNext = v /\ ~SaidNext(n, ~vNext)
  BY <1>2, <1>6 DEF Did
<1> HIDE DEF Said, SaidNext, v, vNext
<1>10. ShowsConnection'
  <2>1. CASE SaidNext(n, vNext)
    <3>1. \A j \in n + 1..Len(ready') : FALSE
      BY <1>1 DEF n
    <3> QED
      BY <1>1, <1>8, <2>1, <3>1
  <2>2. CASE vNext = v /\ ~SaidNext(n, ~vNext)
    <3>1. CASE available = v /\ \A i \in 1..Len(ready) : ~Said(i, ~v)
      BY <1>1, <1>6, <1>7, <1>8, <2>2, <3>1
    <3>2. ASSUME NEW i \in 1..Len(ready), Said(i, v), \A j \in i + 1..Len(ready) : ~Said(j, ~v)
          PROVE  ShowsConnection'
      <4>1. \A j \in i + 1..Len(ready') : j # n => j \in i + 1..Len(ready)
        BY <1>1
      <4>2. \A j \in i + 1..Len(ready') : ~SaidNext(j, ~vNext)
        <5> TAKE j \in i + 1..Len(ready')
        <5>1. CASE j = n
          BY <2>2, <5>1
        <5>2. CASE j # n
          <6>1. j \in i + 1..Len(ready) /\ j \in 1..Len(ready)
            BY <1>1, <4>1, <5>2
          <6> QED
            BY <1>6, <1>7, <2>2, <3>2, <6>1
        <5> QED
          BY <5>1, <5>2
      <4> QED
        BY <1>1, <1>6, <1>7, <1>8, <2>2, <3>2, <4>2
    <3> QED
      BY <1>7, <3>1, <3>2
  <2> QED
    BY <1>9, <2>1, <2>2
<1> DEFINE SentAt(i) == IsSent(ready[i])
           ReadAt(i) == IsRead(ready[i])
           SentNext(i) == pc[ready'[i].task] = "set" /\ ready'[i].res = "ok"
           ReadNext(i) == /\ pc[ready'[i].task] \in {"status", "refresh", "open", "connect"}
                          /\ ready'[i].res = "ok"
<1>11. /\ \A i \in 1..Len(ready) : (SentNext(i) <=> SentAt(i)) /\ (ReadNext(i) <=> ReadAt(i))
       /\ SentNext(n) <=> pc[t] = "set" /\ res = "ok"
       /\ ReadNext(n) <=> pc[t] \in {"status", "refresh", "open", "connect"} /\ res = "ok"
  BY <1>1 DEF IsSent, IsRead
<1>12. /\ \A i \in 1..Len(ready') : SentNext(i) /\ (\A j \in i + 1..Len(ready') : ~ReadNext(j))
             => ReadBack'
       /\ refreshAt # "none" /\ (\A i \in 1..Len(ready') : ~ReadNext(i)) => ReadBack'
       /\ pc["run"] = "status"
             /\ (\A i \in 1..Len(ready') : ready'[i] # [task |-> "run", res |-> "ok"])
          => ReadBack'
       /\ pc["run"] = "lost" /\ (\A i \in 1..Len(ready') : ready'[i].task # "run")
          => ReadBack'
  BY DEF ReadBack, IsSent, IsRead
<1>13. SentIsReadBack'
  <2> SUFFICES ASSUME dirty', api' # NoConn PROVE ReadBack'
    BY DEF SentIsReadBack
  <2>1. CASE pc[t] = "set" /\ res = "ok"
    <3>1. SentNext(n) /\ \A j \in n + 1..Len(ready') : FALSE
      BY <1>1, <1>11, <2>1 DEF n
    <3> QED
      BY <1>1, <1>12, <3>1
  <2>2. CASE /\ dirty /\ api # NoConn
             /\ pc[t] \in {"status", "refresh", "open", "connect"} => res # "ok"
    <3>1. ReadBack /\ ~ReadNext(n)
      BY <1>11, <2>2 DEF UInv, SentIsReadBack
    <3> HIDE DEF SentAt, ReadAt, SentNext, ReadNext
    <3>2. ASSUME NEW i \in 1..Len(ready), SentAt(i), \A j \in i + 1..Len(ready) : ~ReadAt(j)
          PROVE  ReadBack'
      <4>1. \A j \in i + 1..Len(ready') : ~ReadNext(j)
        <5> TAKE j \in i + 1..Len(ready')
        <5>1. CASE j = n
          BY <3>1, <5>1
        <5>2. CASE j # n
          <6>1. j \in i + 1..Len(ready) /\ j \in 1..Len(ready)
            BY <1>1, <5>2
          <6> QED
            BY <1>11, <3>2, <6>1
        <5> QED
          BY <5>1, <5>2
      <4> QED
        BY <1>1, <1>11, <1>12, <3>2, <4>1
    <3>3. CASE refreshAt # "none" /\ \A i \in 1..Len(ready) : ~ReadAt(i)
      BY <1>1, <1>11, <1>12, <3>1, <3>3
    <3>4. CASE /\ pc["run"] = "status"
               /\ \A i \in 1..Len(ready) : ready[i] # [task |-> "run", res |-> "ok"]
      <4>1. ready'[n] # [task |-> "run", res |-> "ok"]
        BY <1>1, <2>2, <3>4
      <4> QED
        BY <1>1, <1>12, <3>4, <4>1
    <3>5. CASE pc["run"] = "lost" /\ \A i \in 1..Len(ready) : ready[i].task # "run"
      <4>1. ready'[n].task # "run"
        BY <1>1, <1>2, <3>5 DEF Did, Opening
      <4> QED
        BY <1>1, <1>12, <3>5, <4>1
    <3> QED
      BY <3>1, <3>2, <3>3, <3>4, <3>5 DEF ReadBack, SentAt, ReadAt
  <2> QED
    BY <1>2, <2>1, <2>2 DEF Did
<1> QED
  BY <1>3, <1>4, <1>5, <1>10, <1>13 DEF UInv

-----------------------------------------------------------------------------
(* The worker, while the device is in use.                                 *)
LEMMA WorkOf ==
  ASSUME LInv, UInv, ~closed, work # Idle
  PROVE  /\ work.task \in Tasks /\ work \in Jobs
         /\ work.op = "open" <=> pc[work.task] \in Opening
         /\ work.op = "drop" <=> pc[work.task] \in {"lost", "reconf"}
         /\ work.op = "status" <=> pc[work.task] \in {"status", "refresh"}
         /\ work.op = "set" <=> pc[work.task] = "set"
<1>1. TypeOK /\ pc["close"] = "idle"
  BY DEF LInv, IInv, ClosingTasks
<1>2. work \in Jobs /\ work.task \in Tasks
  BY <1>1 DEF TypeOK, Jobs
<1>3. pc[work.task] \in Waiting /\ work.op = OpOf[pc[work.task]]
  BY DEF UInv, JobsAwaited, Waits
<1>4. pc[work.task] # "drop"
  BY <1>1, <1>2 DEF TypeOK, PcOK, Tasks, RunLabels, CallerLabels
<1> QED
  BY <1>2, <1>3, <1>4 DEF Waiting, OpOf, Opening

LEMMA WorkerKeepsUse ==
  ASSUME LInv, UInv, ~closed, OpeningHasLocal, Worker
  PROVE  UInv'
<1>1. TypeOK /\ ~WSkip
  BY NothingIsDropped DEF LInv, IInv, UInv
<1>2. ASSUME NEW op, Working(op), op # "idle" PROVE work # Idle
  BY <1>2 DEF Working, Idle
<1>3. CASE WTake
  BY <1>1, <1>3, TakeKeepsUse
<1>4. CASE WDrop
  <2>1. work # Idle /\ work.op = "drop" /\ Finish("ok") /\ api' = NoConn
        /\ UNCHANGED <<pc, queue, available, refreshAt>>
    BY <1>2, <1>4 DEF WDrop, Working, flags
  <2>2. Did(work.task, "ok")
    BY <2>1, WorkOf DEF Did
  <2> QED
    BY <1>1, <2>1, <2>2, FinishKeepsUse
<1>5. CASE WStatus
  <2>1. PICK res \in {"ok", "lost"} :
           /\ work # Idle /\ work.op = "status" /\ Finish(res)
           /\ UNCHANGED <<pc, queue, available, refreshAt, api>>
           /\ dirty' => dirty /\ res # "ok"
    <3>1. CASE Answers(api)
      BY <1>2, <1>5, <3>1 DEF WStatus, Working, flags, link
    <3>2. CASE ~Answers(api)
      BY <1>2, <1>5, <3>2 DEF WStatus, Working, flags, link
    <3> QED
      BY <3>1, <3>2
  <2>2. Did(work.task, res)
    BY <2>1, WorkOf DEF Did, Opening
  <2> QED
    BY <1>1, <2>1, <2>2, FinishKeepsUse
<1>6. CASE WReceive
  <2>1. PICK res \in {"ok", "lost"} :
           /\ work # Idle /\ work.op = "receive" /\ Finish(res)
           /\ UNCHANGED <<pc, queue, available, refreshAt, api, dirty>>
    <3>1. \E res \in {"ok", "lost"} : Finish(res)
      BY <1>6 DEF WReceive
    <3>2. work # Idle
      BY <1>2, <1>6 DEF WReceive
    <3> QED
      BY <1>6, <3>1, <3>2 DEF WReceive, Working, link
  <2>2. Did(work.task, res)
    BY <2>1, WorkOf DEF Did, Opening
  <2> QED
    BY <1>1, <2>1, <2>2, FinishKeepsUse
<1>7. ASSUME NEW res \in {"ok", "lost"}, WHeartbeat(res) PROVE UInv'
  <2>1. /\ work # Idle /\ work.op = "beat" /\ Finish(res)
        /\ UNCHANGED <<pc, queue, available, refreshAt, api, dirty>>
    BY <1>2, <1>7 DEF WHeartbeat, Working, flags, link
  <2>2. Did(work.task, res)
    BY <2>1, WorkOf DEF Did, Opening
  <2> QED
    BY <1>1, <2>1, <2>2, FinishKeepsUse
<1>8. ASSUME NEW res \in {"ok", "lost"}, WSet(res) PROVE UInv'
  <2>1. /\ work # Idle /\ work.op = "set" /\ Finish(res)
        /\ UNCHANGED <<pc, queue, available, refreshAt, api>>
        /\ dirty' => dirty \/ res = "ok"
    BY <1>2, <1>8 DEF WSet, Working, flags, link
  <2>2. Did(work.task, res)
    BY <2>1, WorkOf DEF Did, Opening
  <2> QED
    BY <1>1, <2>1, <2>2, FinishKeepsUse
<1>9. CASE WOpenGood
  <2>1. /\ work # Idle /\ work.op = "open" /\ Finish("ok") /\ api' = local /\ ~dirty'
        /\ UNCHANGED <<pc, queue, available, refreshAt>> /\ local # NoConn
    BY <1>2, <1>9 DEF WOpenGood, Working, flags, OpeningHasLocal
  <2>2. Did(work.task, "ok")
    BY <2>1, WorkOf DEF Did
  <2> QED
    BY <1>1, <2>1, <2>2, FinishKeepsUse
<1>10. CASE WOpenAbort \/ WOpenGone \/ (WOpenBad /\ attempt >= Versions)
  <2>1. /\ work # Idle /\ work.op = "open" /\ Finish("fail")
        /\ UNCHANGED <<pc, queue, available, refreshAt, api, dirty>>
    <3>1. attempt \in Nat /\ Versions \in Nat
      BY <1>1, VersionsAssumption DEF TypeOK
    <3> QED
      BY <1>2, <1>10, <3>1 DEF WOpenAbort, WOpenGone, WOpenBad, Working, flags, link
  <2>2. Did(work.task, "fail")
    BY <2>1, WorkOf DEF Did, Opening
  <2> QED
    BY <1>1, <2>1, <2>2, FinishKeepsUse
<1>11. CASE WOpenBegin
  <2>1. work # Idle /\ work.op = "open" /\ api' = NoConn
        /\ UNCHANGED <<pc, queue, work, ready, available, dirty, refreshAt>>
    BY <1>2, <1>11 DEF WOpenBegin, Working, flags
  <2>2. api = NoConn
    <3>1. pc[work.task] \in Opening /\ work.task \in Tasks
      BY <2>1, WorkOf
    <3>2. \A i \in 1..Len(ready) : ready[i].task # work.task
      BY DEF UInv, OneJobEach
    <3>3. SUFFICES ASSUME api # NoConn PROVE FALSE
      OBVIOUS
    <3>4. PICK i \in 1..Len(ready) : ready[i] = [task |-> work.task, res |-> "ok"]
      BY <3>1, <3>3 DEF UInv, OpensUnconnected
    <3>5. ready[i].task = work.task
      BY <3>4
    <3> QED
      BY <3>2, <3>5
  <2> QED
    BY <2>1, <2>2, QuietKeepsUse
<1>12. ASSUME \/ WOpenDial \/ WOpenTcp
              \/ \E c \in Conns : WOpenNew(c)
              \/ \E outcome \in {"good", "bad", "gone"} : WOpenStatus(outcome)
              \/ WOpenBad /\ attempt < Versions
       PROVE  UInv'
  <2>1. UNCHANGED <<pc, queue, work, ready, available, dirty, api, refreshAt>>
    BY <1>12 DEF WOpenDial, WOpenTcp, WOpenNew, WOpenStatus, WOpenBad, flags
  <2> QED
    BY <2>1, QuietKeepsUse
<1>13. WOpenBad => attempt >= Versions \/ attempt < Versions
  BY <1>1, VersionsAssumption DEF TypeOK
<1> QED
  BY <1>1, <1>3, <1>4, <1>5, <1>6, <1>7, <1>8, <1>9, <1>10, <1>11, <1>12, <1>13
  DEF Worker, WOpen

-----------------------------------------------------------------------------
(* What does not depend on the device being in use.                        *)
LEMMA WorkerKeepsRest ==
  ASSUME TypeOK, OpeningHasLocal, OnlyStartedSends, Worker
  PROVE  OpeningHasLocal' /\ OnlyStartedSends' /\ UNCHANGED <<pc, closed, available>>
<1>1. queue # <<>> =>
         /\ Head(queue) = queue[1] /\ 1 \in 1..Len(queue)
         /\ \A i \in 1..Len(Tail(queue)) : \E j \in 1..Len(queue) : Tail(queue)[i] = queue[j]
  BY Typed, Shifted
<1>2. UNCHANGED <<pc, closed, available>>
  BY DEF Worker, WTake, WSkip, WDrop, WOpen, WOpenBegin, WOpenAbort, WOpenNew, WOpenDial,
     WOpenTcp, WOpenStatus, WOpenGood, WOpenBad, WOpenGone, WStatus, WHeartbeat, WReceive,
     WSet, flags
<1>3. OpeningHasLocal'
  <2>1. CASE WTake \/ WSkip
    BY <2>1 DEF WTake, WSkip, OpeningHasLocal, link
  <2>2. CASE WDrop \/ WStatus \/ WReceive
             \/ \E res \in {"ok", "lost"} : WHeartbeat(res) \/ WSet(res)
    BY <2>2 DEF WDrop, WStatus, WReceive, WHeartbeat, WSet, Finish, Idle, OpeningHasLocal
  <2>3. CASE WOpen
    BY <2>3, NoneAssumption
    DEF WOpen, WOpenBegin, WOpenAbort, WOpenNew, WOpenDial, WOpenTcp, WOpenStatus,
        WOpenGood, WOpenBad, WOpenGone, Finish, Idle, OpeningHasLocal, Working
  <2> QED
    BY <2>1, <2>2, <2>3 DEF Worker
<1>4. OnlyStartedSends'
  <2>1. CASE WTake \/ WSkip
    <3>1. /\ queue # <<>> /\ queue' = Tail(queue) /\ UNCHANGED <<dirty, pc>>
          /\ work' = queue[1] \/ work' = work
      BY <1>1, <2>1 DEF WTake, WSkip
    <3>2. Sending' => Sending
      BY <1>1, <3>1 DEF Sending
    <3> QED
      BY <3>1, <3>2 DEF OnlyStartedSends
  <2>2. CASE WDrop \/ WStatus \/ WReceive
             \/ \E res \in {"ok", "lost"} : WHeartbeat(res) \/ WSet(res)
    <3>1. work' = Idle /\ UNCHANGED <<pc, queue>>
      BY <2>2 DEF WDrop, WStatus, WReceive, WHeartbeat, WSet, Finish
    <3>2. dirty' => dirty \/ work.op = "set"
      <4>1. CASE WDrop \/ WStatus \/ WReceive
        BY <4>1 DEF WDrop, WStatus, WReceive
      <4>2. ASSUME NEW res \in {"ok", "lost"}, WHeartbeat(res) \/ WSet(res)
            PROVE  dirty' => dirty \/ work.op = "set"
        BY <4>2 DEF WHeartbeat, WSet, Working
      <4> QED
        BY <2>2, <4>1, <4>2
    <3>3. Sending' => Sending
      BY <3>1 DEF Sending, Idle
    <3> QED
      BY <3>1, <3>2, <3>3 DEF OnlyStartedSends, Sending
  <2>3. CASE WOpen
    BY <1>2, <2>3
    DEF WOpen, WOpenBegin, WOpenAbort, WOpenNew, WOpenDial, WOpenTcp, WOpenStatus,
        WOpenGood, WOpenBad, WOpenGone, Finish, Idle, OnlyStartedSends, Sending
  <2> QED
    BY <2>1, <2>2, <2>3 DEF Worker
<1> QED
  BY <1>2, <1>3, <1>4

(* A step of the loop or of the environment leaves the worker alone and    *)
(* sends nothing before the background task was started.                   *)
LoopSends ==
    /\ UNCHANGED <<work, stage, local, dirty>>
    /\ closed => closed'
    /\ pc["run"] # "off" => pc'["run"] # "off"
    /\ \/ queue' = queue
       \/ \E job \in Jobs : queue' = Append(queue, job)
                            /\ (job.op = "set" => pc["run"] # "off")

LEMMA LoopKeepsRest ==
  ASSUME TypeOK, OpeningHasLocal, OnlyStartedSends, LoopSends
  PROVE  OpeningHasLocal' /\ OnlyStartedSends'
<1>1. OpeningHasLocal'
  BY DEF OpeningHasLocal, LoopSends
<1>2. ASSUME NEW job \in Jobs, queue' = Append(queue, job), job.op = "set" => pc["run"] # "off"
      PROVE  OnlyStartedSends'
  <2>1. /\ Len(queue) \in Nat /\ Len(queue') = Len(queue) + 1
        /\ queue'[Len(queue) + 1] = job
        /\ \A i \in 1..Len(queue) : queue'[i] = queue[i]
    BY <1>2, Typed, Appended
  <2>2. \A i \in 1..Len(queue') : i # Len(queue) + 1 => i \in 1..Len(queue)
    BY <2>1
  <2> QED
    BY <1>2, <2>1, <2>2 DEF OnlyStartedSends, Sending, LoopSends
<1> QED
  BY <1>1, <1>2 DEF OnlyStartedSends, Sending, LoopSends

LEMMA RunSends ==
  ASSUME TypeOK, RunTop \/ RunResume \/ RunWake \/ Start
  PROVE  LoopSends /\ UNCHANGED closed /\ (\A t \in Callers : pc'[t] = pc[t])
         /\ (pc["run"] = "off" => available)
<1> USE RunIsNoCaller, JobOf
    DEF RunTop, RunResume, RunWake, Start, RunOpen, RunDead, RunStatus, RunListen,
        RunBeatSent, RunReceived, RunStatusRead, RunOpened, RunOpenFailed, RunLost,
        RunDropped, Submit, Goto, FallAsleep, Resume, link
<1>1. UNCHANGED <<work, stage, local, dirty, closed>>
  OBVIOUS
<1>2. pc["run"] \in RunLabels /\ \A t \in Callers : pc'[t] = pc[t]
  BY DEF TypeOK, PcOK, Tasks
<1>3. pc'["run"] # "off" /\ (pc["run"] = "off" => available)
  BY DEF TypeOK, PcOK, Tasks
<1>4. \/ queue' = queue
      \/ \E job \in Jobs : queue' = Append(queue, job) /\ job.op # "set"
  BY DEF Jobs, Ops, Tasks, OpOf
<1> QED
  BY <1>1, <1>2, <1>3, <1>4 DEF LoopSends

LEMMA CallerSends ==
  ASSUME TypeOK, NEW t \in Callers, Caller(t) \/ CallerResume(t)
  PROVE  LoopSends /\ UNCHANGED closed
<1>1. UNCHANGED <<work, stage, local, dirty, closed>>
  BY DEF Caller, CallerResume, Connect, CancelConnect, Refresh, SetDps, Reconfigure,
     Connected, ConnectFailed, Refreshed, SetSent, CallerLost, CallerDropped, Reconfigured,
     Interrupt, link
<1>2. pc'["run"] = pc["run"]
  BY RunIsNoCaller
  DEF Caller, CallerResume, Connect, CancelConnect, Refresh, SetDps, Reconfigure,
     Connected, ConnectFailed, Refreshed, SetSent, CallerLost, CallerDropped, Reconfigured,
     Submit, Goto, TypeOK, PcOK, Tasks
<1>3. ASSUME NEW label \in DOMAIN OpOf, Submit(t, label), label = "set" => pc["run"] # "off"
      PROVE  \E job \in Jobs : queue' = Append(queue, job)
                               /\ (job.op = "set" => pc["run"] # "off")
  <2>1. [task |-> t, op |-> OpOf[label]] \in Jobs /\ (OpOf[label] = "set" => label = "set")
    BY JobOf DEF Tasks, OpOf
  <2> QED
    BY <1>3, <2>1 DEF Submit
<1>4. \/ queue' = queue
      \/ \E label \in DOMAIN OpOf : Submit(t, label) /\ (label = "set" => pc["run"] # "off")
  BY DEF Caller, CallerResume, Connect, CancelConnect, Refresh, SetDps, Reconfigure,
     Connected, ConnectFailed, Refreshed, SetSent, CallerLost, CallerDropped, Reconfigured,
     Goto, OpOf
<1> QED
  BY <1>1, <1>2, <1>3, <1>4 DEF LoopSends

LEMMA CloseSends ==
  ASSUME TypeOK, CloseBegin \/ Closing
  PROVE  LoopSends /\ UNCHANGED available /\ (\A t \in Callers : pc'[t] = pc[t])
         /\ (pc["run"] = "off" => pc'["run"] = "off")
<1> USE RunIsNoCaller, JobOf
    DEF CloseBegin, Closing, CloseJoin, CloseDropped, CloseDone, Submit, Goto, Interrupt,
        link, flags
<1>1. UNCHANGED <<work, stage, local, dirty, available>> /\ (closed => closed')
  OBVIOUS
<1>2. /\ \A t \in Callers : pc'[t] = pc[t]
      /\ pc["run"] = "off" <=> pc'["run"] = "off"
  BY DEF TypeOK, PcOK, Tasks
<1>3. \/ queue' = queue
      \/ \E job \in Jobs : queue' = Append(queue, job) /\ job.op # "set"
  BY DEF Tasks, OpOf
<1> QED
  BY <1>1, <1>2, <1>3 DEF LoopSends

LEMMA RestSends ==
  ASSUME Discard \/ RefreshTimer \/ DeadTimer \/ Environment \/ UNCHANGED vars
  PROVE  LoopSends /\ UNCHANGED <<available, pc, closed>>
BY DEF Discard, RefreshTimer, DeadTimer, Environment, Move, Cut, LoopSends, vars, link, flags

(* A setup that is cancelled was alone, and nothing follows it.            *)
LEMMA CallerKeepsCancelled ==
  ASSUME LInv, SInv, NEW t \in Callers, Caller(t) \/ CallerResume(t)
  PROVE  CancelledIsUnused' /\ (Cancelled => Cancelled')
<1>2. ASSUME Cancelled PROVE FALSE
  <2>1. pc["run"] = "off" /\ pc[t] \in {"idle", "done"}
    BY <1>2 DEF SInv, CancelledIsUnused
  <2>2. ~MayCall(t)
    BY <1>2, <2>1 DEF MayCall, Cancelled
  <2> QED
    BY <2>1, <2>2
    DEF Caller, CallerResume, Connect, CancelConnect, Refresh, SetDps, Reconfigure,
        Connected, ConnectFailed, Refreshed, SetSent, CallerLost, CallerDropped,
        Reconfigured, Resume
<1>3. ASSUME ~CancelConnect(t) PROVE ~Cancelled'
  <2>1. /\ \A u \in Callers \ {t} : pc'[u] = pc[u]
        /\ pc'[t] # "done"
    BY <1>3
    DEF Caller, CallerResume, Connect, Refresh, SetDps, Reconfigure,
        Connected, ConnectFailed, Refreshed, SetSent, CallerLost, CallerDropped,
        Reconfigured, Submit, Goto, LInv, IInv, TypeOK, PcOK, Tasks
  <2> QED
    BY <1>2, <2>1 DEF Cancelled
<1>4. ASSUME CancelConnect(t) PROVE CancelledIsUnused'
  <2>1. /\ ~closed /\ pc[t] = "connect" /\ pc' = [pc EXCEPT ![t] = "done"]
        /\ UNCHANGED available
    BY <1>4 DEF CancelConnect, Goto, LInv, ClosingTasks, flags
  <2>2. /\ pc["run"] = "off" /\ ~available
        /\ \A u \in Callers \ {t} : pc[u] = "idle"
    BY <1>2, <2>1 DEF SInv, InUse, UInv, SetupAlone
  <2> QED
    BY <2>1, <2>2, RunIsNoCaller DEF CancelledIsUnused, LInv, IInv, TypeOK, PcOK, Tasks
<1> QED
  BY <1>2, <1>3, <1>4 DEF CancelledIsUnused

-----------------------------------------------------------------------------
(* The invariant.                                                          *)
LEMMA SInvInit == Init => SInv
<1> SUFFICES ASSUME Init PROVE SInv
  OBVIOUS
<1> USE DEF Init
<1>1. /\ queue = <<>> /\ ready = <<>> /\ work = Idle /\ api = NoConn /\ ~dirty /\ ~available
      /\ Len(queue) = 0 /\ Len(ready) = 0
      /\ \A t \in Callers : pc[t] = "idle"
  BY RunIsNoCaller DEF Tasks
<1>2. \A i \in 1..0 : FALSE
  OBVIOUS
<1>3. CancelledIsUnused /\ OpeningHasLocal /\ OnlyStartedSends
  BY <1>1, <1>2 DEF CancelledIsUnused, Cancelled, OpeningHasLocal, OnlyStartedSends, Sending, Idle
<1>4. JobsAwaited /\ OneJobEach /\ SetupAlone
  BY <1>1, <1>2 DEF JobsAwaited, OneJobEach, TasksDiffer, SetupAlone
<1>5. OpensUnconnected /\ ShowsConnection /\ SentIsReadBack
  BY <1>1, <1>2 DEF OpensUnconnected, ShowsConnection, Shows, SentIsReadBack
<1> QED
  BY <1>3, <1>4, <1>5 DEF SInv, UInv

LEMMA SInvNext == LInv /\ SInv /\ [Next]_vars => SInv'
<1> SUFFICES ASSUME LInv, SInv, [Next]_vars PROVE SInv'
  OBVIOUS
<1>1. /\ TypeOK /\ CancelledIsUnused /\ OpeningHasLocal /\ OnlyStartedSends
      /\ InUse => UInv
  BY DEF LInv, IInv, SInv
<1>2. CASE Worker
  <2>1. OpeningHasLocal' /\ OnlyStartedSends' /\ UNCHANGED <<pc, closed, available>>
    BY <1>1, <1>2, WorkerKeepsRest
  <2>2. CancelledIsUnused' /\ (InUse' <=> InUse)
    BY <1>1, <2>1 DEF CancelledIsUnused, Cancelled, InUse
  <2>3. InUse => UInv'
    BY <1>1, <1>2, WorkerKeepsUse DEF InUse
  <2> QED
    BY <2>1, <2>2, <2>3 DEF SInv
<1>3. CASE RunTop \/ RunResume \/ RunWake \/ Start
  <2>1. /\ LoopSends /\ UNCHANGED closed /\ \A t \in Callers : pc'[t] = pc[t]
        /\ pc["run"] = "off" => available
    BY <1>1, <1>3, RunSends
  <2>2. OpeningHasLocal' /\ OnlyStartedSends'
    BY <1>1, <2>1, LoopKeepsRest
  <2>3. ~Cancelled /\ ~Cancelled'
    BY <1>1, <2>1 DEF CancelledIsUnused, Cancelled
  <2>4. ASSUME InUse' PROVE UInv'
    <3>1. UInv
      BY <1>1, <2>1, <2>3, <2>4 DEF InUse
    <3>2. PICK label : LoopMoves("run", label)
      BY <1>1, <1>3, <3>1, RunMoves
    <3> QED
      BY <1>1, <3>1, <3>2, MovesKeep DEF Tasks
  <2> QED
    BY <2>2, <2>3, <2>4 DEF SInv, CancelledIsUnused
<1>4. ASSUME NEW t \in Callers, Caller(t) \/ CallerResume(t) PROVE SInv'
  <2>1. OpeningHasLocal' /\ OnlyStartedSends' /\ UNCHANGED closed
    BY <1>1, <1>4, CallerSends, LoopKeepsRest
  <2>2. CancelledIsUnused' /\ (Cancelled => Cancelled')
    BY <1>4, CallerKeepsCancelled
  <2>3. ASSUME InUse' PROVE UInv'
    <3>1. UInv /\ InUse
      BY <1>1, <2>1, <2>2, <2>3 DEF InUse
    <3>2. ~CancelConnect(t)
      BY <1>1, <2>3 DEF CancelConnect, Goto, InUse, Cancelled, TypeOK, PcOK, Tasks
    <3>3. PICK label : LoopMoves(t, label)
      BY <1>4, <3>1, <3>2, CallerMoves
    <3> QED
      BY <1>1, <3>1, <3>3, MovesKeep DEF Tasks
  <2> QED
    BY <2>1, <2>2, <2>3 DEF SInv
<1>5. CASE CloseBegin \/ Closing
  <2>1. /\ LoopSends /\ UNCHANGED available /\ \A t \in Callers : pc'[t] = pc[t]
        /\ pc["run"] = "off" => pc'["run"] = "off"
    BY <1>1, <1>5, CloseSends
  <2>2. OpeningHasLocal' /\ OnlyStartedSends'
    BY <1>1, <2>1, LoopKeepsRest
  <2>3. CancelledIsUnused'
    BY <1>1, <2>1 DEF CancelledIsUnused, Cancelled
  <2>4. closed'
    BY <1>5 DEF CloseBegin, Closing, CloseJoin, CloseDropped, CloseDone, Resume, LInv,
       ClosingTasks
  <2> QED
    BY <2>2, <2>3, <2>4 DEF SInv, InUse
<1>6. CASE Discard \/ RefreshTimer \/ DeadTimer \/ Environment \/ UNCHANGED vars
  <2>1. LoopSends /\ UNCHANGED <<available, pc, closed>>
    BY <1>6, RestSends
  <2>2. OpeningHasLocal' /\ OnlyStartedSends'
    BY <1>1, <2>1, LoopKeepsRest
  <2>3. CancelledIsUnused' /\ (InUse' <=> InUse)
    BY <1>1, <2>1 DEF CancelledIsUnused, Cancelled, InUse
  <2>4. ASSUME InUse PROVE UInv'
    <3>1. UInv /\ ~Discard
      BY <1>1, <2>4, NothingIsDropped DEF UInv
    <3>2. /\ UNCHANGED <<pc, queue, work, ready, available, dirty, api>>
          /\ refreshAt' = "none" => refreshAt = "none"
      BY <1>6, <3>1 DEF RefreshTimer, DeadTimer, Environment, Move, Cut, vars, link, flags
    <3> QED
      BY <3>1, <3>2, QuietKeepsUse
  <2> QED
    BY <2>2, <2>3, <2>4 DEF SInv
<1> QED
  BY <1>2, <1>3, <1>4, <1>5, <1>6 DEF Next, System

LEMMA UseInvariance == Spec => [](LInv /\ SInv)
<1>1. Init => LInv /\ SInv
  BY LInvInit, SInvInit
<1>2. LInv /\ SInv /\ [Next]_vars => LInv' /\ SInv'
  BY LInvNext, SInvNext
<1> QED
  BY <1>1, <1>2, PTL DEF Spec

(* The last result that opens or drops a connection, or the shown          *)
(* availability when no such result is left, agrees with the connection.   *)
(* So a device shown available without one has a drop, or its result,      *)
(* ahead of it, whatever the order in which tasks lose a connection and    *)
(* make a new one (_async_lost, async_reconfigure, _handle_connected).     *)
THEOREM AvailableIsCorrected == Spec => []AvailableMeansConnected
<1>1. LInv /\ SInv => AvailableMeansConnected
  <2> SUFFICES ASSUME LInv, SInv, available, api = NoConn, ~closed
               PROVE  \E t \in Tasks : pc[t] \in {"lost", "reconf"}
    BY DEF AvailableMeansConnected
  <2>1. UInv /\ TypeOK
    BY DEF SInv, CancelledIsUnused, InUse, LInv, IInv
  <2>2. PICK i \in 1..Len(ready) : Says(ready[i], FALSE)
    BY <2>1 DEF UInv, ShowsConnection, Shows
  <2>3. ready[i].task \in Tasks
    BY <2>1, Typed
  <2> QED
    BY <2>2, <2>3 DEF Says, Dropped
<1> QED
  BY <1>1, UseInvariance, PTL

(* A connection in use is shown as available, or the result of the attempt *)
(* that made it is still to be handled: a late drop of an older connection *)
(* never hides a new one.                                                  *)
THEOREM ConnectedIsShown == Spec => []ConnectedMeansAvailable
<1>1. LInv /\ SInv => ConnectedMeansAvailable
  <2> SUFFICES ASSUME LInv, SInv, ~available, api # NoConn, ~closed, pc["run"] # "off"
               PROVE  \E i \in 1..Len(ready) : ready[i].res = "ok"
    BY DEF ConnectedMeansAvailable
  <2>1. UInv
    BY DEF SInv, CancelledIsUnused, InUse
  <2> QED
    BY <2>1 DEF UInv, ShowsConnection, Shows, Says, Opened
<1> QED
  BY <1>1, UseInvariance, PTL

(* A command that was sent is read back: until a full status newer than it *)
(* is read, it is on the schedule of _run, or a result that puts it there  *)
(* is still to be handled, or the read-back itself is under way.           *)
THEOREM SentStaysScheduled == Spec => []ReadBackScheduled
<1>1. LInv /\ SInv => ReadBackScheduled
  <2> SUFFICES ASSUME LInv, SInv, dirty, api # NoConn, ~closed
               PROVE  \/ refreshAt # "none"
                      \/ \E t \in Tasks : pc[t] \in {"set", "status", "refresh", "lost"}
    BY DEF ReadBackScheduled
  <2>1. UInv /\ TypeOK
    BY DEF SInv, CancelledIsUnused, OnlyStartedSends, InUse, LInv, IInv
  <2>2. ReadBack
    BY <2>1 DEF UInv, SentIsReadBack
  <2>3. \A i \in 1..Len(ready) : ready[i].task \in Tasks
    BY <2>1, Typed
  <2>4. "run" \in Tasks
    BY DEF Tasks
  <2> QED
    BY <2>2, <2>3, <2>4 DEF ReadBack, IsSent
<1> QED
  BY <1>1, UseInvariance, PTL

=============================================================================
