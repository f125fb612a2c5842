----------------------- MODULE BleCoordinatorProofs -----------------------
(***************************************************************************)
(* Safety of BleCoordinator for every number of tasks and links.           *)
(*                                                                         *)
(* What carries the proof is that, until the unload, at most one link that *)
(* was not left behind is up: that of the client, or that of the task that *)
(* holds the lock.                                                         *)
(***************************************************************************)
EXTENDS BleCoordinator, TLAPS

Kept == entry \in {"setup", "loaded"}

(* The tasks that are in an attempt, and where they have no connection.    *)
Attempting == {"stale", "dial", "dialed", "discover", "read", "notify"}
Connectless == {"stale", "dial", "dialed"}
Settling == {"discover", "stopping", "stopped"}

(* The setup runs exactly while the entry is being set up, and only the    *)
(* unload closes a link without the lock.                                  *)
TasksShape ==
    /\ pc["setup"] # "idle" <=> entry = "setup"
    /\ pc["unload"] \in {"idle", "stopping", "stopped"}
    /\ Kept => pc["unload"] = "idle"
    /\ \A t \in Tasks \ {"unload"} : pc[t] \in {"stopping", "stopped"} => lock = t
    /\ lock # None => pc[lock] \in Attempting \cup {"stopping", "stopped"}
    /\ Kept => \A t \in Tasks : mine[t] # None => pc[t] \notin {"idle", "lock", "stale", "dial"}

(* A client whose link goes down is forgotten.  The holder of the lock has *)
(* the same link as the client or the client has none, and none at all     *)
(* before the holder gives it its own.                                     *)
LinksShape ==
    /\ client # None => up[client]
    /\ \A l \in leftBehind : up[l]
    /\ lock # None /\ pc[lock] \in Connectless => client = None
    /\ lock # None /\ pc[lock] \in Settling => client \in {None, mine[lock]}
    /\ Kept /\ lock # None /\ pc[lock] \in Settling /\ up[mine[lock]] =>
          client = mine[lock] \/ mine[lock] \in leftBehind
    /\ Kept /\ lock # None /\ pc[lock] \in {"read", "notify"} =>
          \A l \in Links : up[l] => l \in leftBehind \cup {client}

(* A notice that is scheduled is about an earlier link, unless the client  *)
(* has none: it is handled before the reads end.  From their end on, a     *)
(* connected device is shown.                                              *)
Shown ==
    (lock = None \/ pc[lock] = "notify") /\ IsConnected =>
        /\ Kept => available
        /\ ~unavailDue

Tasking == TypeOK /\ TasksShape
Linking == LinksShape /\ NoOrphanLink /\ ServicesOfClient /\ Shown

IInv == Tasking /\ Linking

USE TasksAssumption, NoneAssumption

-----------------------------------------------------------------------------
LEMMA IInvInit == Init => IInv
<1> SUFFICES ASSUME Init PROVE IInv
  OBVIOUS
<1>1. TypeOK
  BY DEF Init, TypeOK, Tasks
<1>2. TasksShape
  BY DEF Init, TasksShape, Kept, Tasks
<1>3. LinksShape /\ NoOrphanLink /\ ServicesOfClient /\ Shown
  BY DEF Init, LinksShape, NoOrphanLink, ServicesOfClient, Shown, IsConnected
<1> QED
  BY <1>1, <1>2, <1>3 DEF IInv, Tasking, Linking

(* Until the unload, at most one link is up that was not left behind.      *)
LEMMA OneLink ==
  ASSUME IInv, Kept, NEW k \in Links, NEW l \in Links, up[k], up[l],
         k \notin leftBehind, l \notin leftBehind
  PROVE  k = l
<1>1. TypeOK /\ TasksShape /\ LinksShape /\ NoOrphanLink
  BY DEF IInv, Tasking, Linking
<1>2. ASSUME NEW t \in Tasks, lock = t, NEW m \in Links, mine[t] = m, up[m],
             m \notin leftBehind
      PROVE  client \in {None, m}
  <2>1. t # None /\ pc[t] \in Attempting \cup {"stopping", "stopped"}
    BY <1>1, <1>2 DEF TasksShape, Tasks
  <2> QED
    BY <1>1, <1>2, <2>1, Kept DEF LinksShape, Attempting, Connectless, Settling
<1>3. k = client \/ \E t \in Tasks : lock = t /\ mine[t] = k
  BY <1>1, Kept DEF NoOrphanLink, Kept
<1>4. l = client \/ \E t \in Tasks : lock = t /\ mine[t] = l
  BY <1>1, Kept DEF NoOrphanLink, Kept
<1> QED
  BY <1>2, <1>3, <1>4, NoneAssumption

-----------------------------------------------------------------------------
(* A task begins, and takes the lock when it is free: no other is in an    *)
(* attempt then.                                                           *)
LEMMA BeginsKeeps ==
  ASSUME IInv,
         \/ \E t \in Workers : Advertisement(t) \/ SetNumber(t)
         \/ \E t \in Tasks : TakeLock(t)
  PROVE  IInv'
<1>0. Tasking /\ Linking
  BY DEF IInv
<1>1. ASSUME NEW t \in Workers, Advertisement(t) PROVE IInv'
  <2>1. TypeOK'
    BY <1>0, <1>1 DEF Advertisement, Goto, conns, shown, Tasking, TypeOK,
           Tasks
  <2>2. TasksShape'
    BY <1>0, <1>1 DEF Advertisement, Goto, conns, shown, Tasking, TypeOK,
           TasksShape, Kept, Attempting, Tasks
  <2>3. LinksShape'
    BY <1>0, <1>1 DEF Advertisement, Goto, conns, shown, Tasking, TypeOK,
           TasksShape, Linking, LinksShape, Kept, Attempting, Connectless,
           Settling, IsConnected, Tasks
  <2>4. NoOrphanLink'
    BY <1>0, <1>1 DEF Advertisement, Goto, conns, shown, Tasking, TypeOK,
           TasksShape, Linking, LinksShape, Kept, Attempting, Connectless,
           Settling, IsConnected, Tasks, NoOrphanLink
  <2>5. ServicesOfClient'
    BY <1>0, <1>1 DEF Advertisement, Goto, conns, shown, Tasking, TypeOK,
           TasksShape, Linking, LinksShape, Kept, Attempting, Connectless,
           Settling, IsConnected, Tasks, ServicesOfClient
  <2>6. Shown'
    BY <1>0, <1>1 DEF Advertisement, Goto, conns, shown, Tasking, TypeOK,
           TasksShape, Linking, LinksShape, Kept, Attempting, Connectless,
           Settling, IsConnected, Tasks, Shown
  <2> QED
    BY <2>1, <2>2, <2>3, <2>4, <2>5, <2>6 DEF IInv, Tasking, Linking
<1>2. ASSUME NEW t \in Workers, SetNumber(t) PROVE IInv'
  <2>1. TypeOK'
    BY <1>0, <1>2 DEF SetNumber, Goto, Usable, conns, shown, Tasking, TypeOK,
           Tasks
  <2>2. TasksShape'
    BY <1>0, <1>2 DEF SetNumber, Goto, Usable, conns, shown, Tasking, TypeOK,
           TasksShape, Kept, Attempting, Tasks
  <2>3. LinksShape'
    BY <1>0, <1>2 DEF SetNumber, Goto, Usable, conns, shown, Tasking, TypeOK,
           TasksShape, Linking, LinksShape, Kept, Attempting, Connectless,
           Settling, IsConnected, Tasks
  <2>4. NoOrphanLink'
    BY <1>0, <1>2 DEF SetNumber, Goto, Usable, conns, shown, Tasking, TypeOK,
           TasksShape, Linking, LinksShape, Kept, Attempting, Connectless,
           Settling, IsConnected, Tasks, NoOrphanLink
  <2>5. ServicesOfClient'
    BY <1>0, <1>2 DEF SetNumber, Goto, Usable, conns, shown, Tasking, TypeOK,
           TasksShape, Linking, LinksShape, Kept, Attempting, Connectless,
           Settling, IsConnected, Tasks, ServicesOfClient
  <2>6. Shown'
    BY <1>0, <1>2 DEF SetNumber, Goto, Usable, conns, shown, Tasking, TypeOK,
           TasksShape, Linking, LinksShape, Kept, Attempting, Connectless,
           Settling, IsConnected, Tasks, Shown
  <2> QED
    BY <2>1, <2>2, <2>3, <2>4, <2>5, <2>6 DEF IInv, Tasking, Linking
<1>3. ASSUME NEW t \in Tasks, TakeLock(t) PROVE IInv'
  <2>1. TypeOK'
    BY <1>0, <1>3 DEF TakeLock, Goto, conns, shown, Tasking, TypeOK, Tasks
  <2>2. TasksShape'
    BY <1>0, <1>3 DEF TakeLock, Goto, conns, shown, Tasking, TypeOK,
           TasksShape, Kept, Attempting, Tasks
  <2>3. LinksShape'
    BY <1>0, <1>3 DEF TakeLock, Goto, conns, shown, Tasking, TypeOK,
           TasksShape, Linking, LinksShape, Kept, Attempting, Connectless,
           Settling, IsConnected, Tasks, NoOrphanLink
  <2>4. NoOrphanLink'
    BY <1>0, <1>3 DEF TakeLock, Goto, conns, shown, Tasking, TypeOK,
           TasksShape, Linking, LinksShape, Kept, Attempting, Connectless,
           Settling, IsConnected, Tasks, NoOrphanLink
  <2>5. ServicesOfClient'
    BY <1>0, <1>3 DEF TakeLock, Goto, conns, shown, Tasking, TypeOK,
           TasksShape, Linking, LinksShape, Kept, Attempting, Connectless,
           Settling, IsConnected, Tasks, ServicesOfClient
  <2>6. Shown'
    BY <1>0, <1>3 DEF TakeLock, Goto, conns, shown, Tasking, TypeOK,
           TasksShape, Linking, LinksShape, Kept, Attempting, Connectless,
           Settling, IsConnected, Tasks, Shown
  <2> QED
    BY <2>1, <2>2, <2>3, <2>4, <2>5, <2>6 DEF IInv, Tasking, Linking
<1> QED
  BY <1>1, <1>2, <1>3

-----------------------------------------------------------------------------
(* The attempt as far as its own link: the client has none meanwhile.      *)
LEMMA DialsKeeps ==
  ASSUME IInv,
         \E t \in Tasks :
            \/ StartDial(t) \/ ConnectFails(t) \/ ConnectRaises(t) \/ UseLink(t)
            \/ \E l \in Links : DialSucceeds(t, l)
  PROVE  IInv'
<1>0. Tasking /\ Linking
  BY DEF IInv
<1>1. ASSUME NEW t \in Tasks, StartDial(t) PROVE IInv'
  <2>1. TypeOK'
    BY <1>0, <1>1 DEF StartDial, Goto, conns, shown, Tasking, TypeOK, Tasks
  <2>2. TasksShape'
    BY <1>0, <1>1 DEF StartDial, Goto, conns, shown, Tasking, TypeOK,
           TasksShape, Kept, Attempting, Tasks
  <2>3. LinksShape'
    BY <1>0, <1>1 DEF StartDial, Goto, conns, shown, Tasking, TypeOK,
           TasksShape, Linking, LinksShape, Kept, Attempting, Connectless,
           Settling, IsConnected, Tasks
  <2>4. NoOrphanLink'
    BY <1>0, <1>1 DEF StartDial, Goto, conns, shown, Tasking, TypeOK,
           TasksShape, Linking, LinksShape, Kept, Attempting, Connectless,
           Settling, IsConnected, Tasks, NoOrphanLink
  <2>5. ServicesOfClient'
    BY <1>0, <1>1 DEF StartDial, Goto, conns, shown, Tasking, TypeOK,
           TasksShape, Linking, LinksShape, Kept, Attempting, Connectless,
           Settling, IsConnected, Tasks, ServicesOfClient
  <2>6. Shown'
    BY <1>0, <1>1 DEF StartDial, Goto, conns, shown, Tasking, TypeOK,
           TasksShape, Linking, LinksShape, Kept, Attempting, Connectless,
           Settling, IsConnected, Tasks, Shown
  <2> QED
    BY <2>1, <2>2, <2>3, <2>4, <2>5, <2>6 DEF IInv, Tasking, Linking
<1>2. ASSUME NEW t \in Tasks, NEW l \in Links, DialSucceeds(t, l) PROVE IInv'
  <2>1. TypeOK'
    BY <1>0, <1>2 DEF DialSucceeds, Goto, Unused, LoopCaughtUp, conns, shown,
           Tasking, TypeOK, Tasks
  <2>2. TasksShape'
    BY <1>0, <1>2 DEF DialSucceeds, Goto, Unused, LoopCaughtUp, conns, shown,
           Tasking, TypeOK, TasksShape, Kept, Attempting, Tasks
  <2>3. LinksShape'
    BY <1>0, <1>2 DEF DialSucceeds, Goto, Unused, LoopCaughtUp, conns, shown,
           Tasking, TypeOK, TasksShape, Linking, LinksShape, Kept, Attempting,
           Connectless, Settling, IsConnected, Tasks
  <2>4. NoOrphanLink'
    BY <1>0, <1>2 DEF DialSucceeds, Goto, Unused, LoopCaughtUp, conns, shown,
           Tasking, TypeOK, TasksShape, Linking, LinksShape, Kept, Attempting,
           Connectless, Settling, IsConnected, Tasks, NoOrphanLink
  <2>5. ServicesOfClient'
    BY <1>0, <1>2 DEF DialSucceeds, Goto, Unused, LoopCaughtUp, conns, shown,
           Tasking, TypeOK, TasksShape, Linking, LinksShape, Kept, Attempting,
           Connectless, Settling, IsConnected, Tasks, ServicesOfClient
  <2>6. Shown'
    BY <1>0, <1>2 DEF DialSucceeds, Goto, Unused, LoopCaughtUp, conns, shown,
           Tasking, TypeOK, TasksShape, Linking, LinksShape, Kept, Attempting,
           Connectless, Settling, IsConnected, Tasks, Shown
  <2> QED
    BY <2>1, <2>2, <2>3, <2>4, <2>5, <2>6 DEF IInv, Tasking, Linking
<1>3. ASSUME NEW t \in Tasks, ConnectFails(t) PROVE IInv'
  <2>1. TypeOK'
    BY <1>0, <1>3 DEF ConnectFails, Goto, Unlock, End, conns, shown, Tasking,
           TypeOK, Tasks
  <2>2. TasksShape'
    BY <1>0, <1>3 DEF ConnectFails, Goto, Unlock, End, conns, shown, Tasking,
           TypeOK, TasksShape, Kept, Attempting, Tasks
  <2>3. LinksShape'
    BY <1>0, <1>3 DEF ConnectFails, Goto, Unlock, End, conns, shown, Tasking,
           TypeOK, TasksShape, Linking, LinksShape, Kept, Attempting,
           Connectless, Settling, IsConnected, Tasks
  <2>4. NoOrphanLink'
    BY <1>0, <1>3 DEF ConnectFails, Goto, Unlock, End, conns, shown, Tasking,
           TypeOK, TasksShape, Linking, LinksShape, Kept, Attempting,
           Connectless, Settling, IsConnected, Tasks, NoOrphanLink
  <2>5. ServicesOfClient'
    BY <1>0, <1>3 DEF ConnectFails, Goto, Unlock, End, conns, shown, Tasking,
           TypeOK, TasksShape, Linking, LinksShape, Kept, Attempting,
           Connectless, Settling, IsConnected, Tasks, ServicesOfClient
  <2>6. Shown'
    BY <1>0, <1>3 DEF ConnectFails, Goto, Unlock, End, conns, shown, Tasking,
           TypeOK, TasksShape, Linking, LinksShape, Kept, Attempting,
           Connectless, Settling, IsConnected, Tasks, Shown
  <2> QED
    BY <2>1, <2>2, <2>3, <2>4, <2>5, <2>6 DEF IInv, Tasking, Linking
<1>4. ASSUME NEW t \in Tasks, ConnectRaises(t) PROVE IInv'
  <2>1. TypeOK'
    BY <1>0, <1>4 DEF ConnectRaises, Goto, Unlock, End, conns, shown, Tasking,
           TypeOK, Tasks
  <2>2. TasksShape'
    BY <1>0, <1>4 DEF ConnectRaises, Goto, Unlock, End, conns, shown, Tasking,
           TypeOK, TasksShape, Kept, Attempting, Tasks
  <2>3. LinksShape'
    BY <1>0, <1>4 DEF ConnectRaises, Goto, Unlock, End, conns, shown, Tasking,
           TypeOK, TasksShape, Linking, LinksShape, Kept, Attempting,
           Connectless, Settling, IsConnected, Tasks
  <2>4. NoOrphanLink'
    BY <1>0, <1>4 DEF ConnectRaises, Goto, Unlock, End, conns, shown, Tasking,
           TypeOK, TasksShape, Linking, LinksShape, Kept, Attempting,
           Connectless, Settling, IsConnected, Tasks, NoOrphanLink
  <2>5. ServicesOfClient'
    BY <1>0, <1>4 DEF ConnectRaises, Goto, Unlock, End, conns, shown, Tasking,
           TypeOK, TasksShape, Linking, LinksShape, Kept, Attempting,
           Connectless, Settling, IsConnected, Tasks, ServicesOfClient
  <2>6. Shown'
    BY <1>0, <1>4 DEF ConnectRaises, Goto, Unlock, End, conns, shown, Tasking,
           TypeOK, TasksShape, Linking, LinksShape, Kept, Attempting,
           Connectless, Settling, IsConnected, Tasks, Shown
  <2> QED
    BY <2>1, <2>2, <2>3, <2>4, <2>5, <2>6 DEF IInv, Tasking, Linking
<1>5. ASSUME NEW t \in Tasks, UseLink(t) PROVE IInv'
  <2>1. TypeOK'
    BY <1>0, <1>5 DEF UseLink, Goto, conns, shown, Tasking, TypeOK, Tasks
  <2>2. TasksShape'
    BY <1>0, <1>5 DEF UseLink, Goto, conns, shown, Tasking, TypeOK,
           TasksShape, Kept, Attempting, Tasks
  <2>3. LinksShape'
    BY <1>0, <1>5 DEF UseLink, Goto, conns, shown, Tasking, TypeOK,
           TasksShape, Linking, LinksShape, Kept, Attempting, Connectless,
           Settling, IsConnected, Tasks
  <2>4. NoOrphanLink'
    BY <1>0, <1>5 DEF UseLink, Goto, conns, shown, Tasking, TypeOK,
           TasksShape, Linking, LinksShape, Kept, Attempting, Connectless,
           Settling, IsConnected, Tasks, NoOrphanLink
  <2>5. ServicesOfClient'
    BY <1>0, <1>5 DEF UseLink, Goto, conns, shown, Tasking, TypeOK,
           TasksShape, Linking, LinksShape, Kept, Attempting, Connectless,
           Settling, IsConnected, Tasks, ServicesOfClient
  <2>6. Shown'
    BY <1>0, <1>5 DEF UseLink, Goto, conns, shown, Tasking, TypeOK,
           TasksShape, Linking, LinksShape, Kept, Attempting, Connectless,
           Settling, IsConnected, Tasks, Shown
  <2> QED
    BY <2>1, <2>2, <2>3, <2>4, <2>5, <2>6 DEF IInv, Tasking, Linking
<1> QED
  BY <1>1, <1>2, <1>3, <1>4, <1>5

-----------------------------------------------------------------------------
(* The link is the client's: it is examined, read, subscribed to, written. *)
LEMMA UsesKeeps ==
  ASSUME IInv,
         \E t \in Tasks :
            \/ Discovered(t) \/ RejectLink(t) \/ ReadDone(t) \/ NotifyDone(t)
            \/ WriteDone(t) \/ WriteFails(t)
  PROVE  IInv'
<1>0. Tasking /\ Linking
  BY DEF IInv
<1>1. ASSUME NEW t \in Tasks, Discovered(t) PROVE IInv'
  <2>1. TypeOK'
    BY <1>0, <1>1 DEF Discovered, Goto, conns, shown, Tasking, TypeOK, Tasks
  <2>2. TasksShape'
    BY <1>0, <1>1 DEF Discovered, Goto, conns, shown, Tasking, TypeOK,
           TasksShape, Kept, Attempting, Tasks
  <2>3. LinksShape'
    BY <1>0, <1>1 DEF Discovered, Goto, conns, shown, Tasking, TypeOK,
           TasksShape, Linking, LinksShape, Kept, Attempting, Connectless,
           Settling, IsConnected, Tasks, NoOrphanLink
  <2>4. NoOrphanLink'
    BY <1>0, <1>1 DEF Discovered, Goto, conns, shown, Tasking, TypeOK,
           TasksShape, Linking, LinksShape, Kept, Attempting, Connectless,
           Settling, IsConnected, Tasks, NoOrphanLink
  <2>5. ServicesOfClient'
    BY <1>0, <1>1 DEF Discovered, Goto, conns, shown, Tasking, TypeOK,
           TasksShape, Linking, LinksShape, Kept, Attempting, Connectless,
           Settling, IsConnected, Tasks, ServicesOfClient
  <2>6. Shown'
    BY <1>0, <1>1 DEF Discovered, Goto, conns, shown, Tasking, TypeOK,
           TasksShape, Linking, LinksShape, Kept, Attempting, Connectless,
           Settling, IsConnected, Tasks, Shown
  <2> QED
    BY <2>1, <2>2, <2>3, <2>4, <2>5, <2>6 DEF IInv, Tasking, Linking
<1>2. ASSUME NEW t \in Tasks, RejectLink(t) PROVE IInv'
  <2>1. TypeOK'
    <3>1. CASE client = None
      <4>1. lock = t
        BY <1>0, <1>2 DEF RejectLink, Tasking, TypeOK
      <4>2. /\ services' = None /\ available' = FALSE /\ expectedDisconnect' = TRUE
            /\ lock' = None
            /\ pc' = [pc EXCEPT ![t] = "idle"] /\ mine' = [mine EXCEPT ![t] = None]
            /\ UNCHANGED <<up, client, leftBehind, unavailDue, expected, purpose>>
        BY <1>2, <3>1, <4>1 DEF RejectLink, Goto, Unlock, End
      <4>3. entry' \in {entry, "loaded"}
        BY <1>2, <3>1 DEF RejectLink, End
      <4> QED
        BY <1>0, <4>1, <4>2, <4>3 DEF Tasking, TypeOK
    <3>2. CASE client # None
      <4>1. /\ pc' = [pc EXCEPT ![t] = "stopping"] /\ expectedDisconnect' = TRUE
            /\ UNCHANGED <<up, client, services, leftBehind, available, unavailDue, lock,
                           expected, entry, purpose, mine>>
        BY <1>2, <3>2 DEF RejectLink, Goto
      <4>2. mine[t] # None
        BY <1>0, <1>2 DEF RejectLink, Tasking, TypeOK
      <4> QED
        BY <1>0, <4>1, <4>2 DEF Tasking, TypeOK
    <3> QED
      BY <3>1, <3>2
  <2>2. TasksShape'
    BY <1>0, <1>2 DEF RejectLink, Goto, Unlock, End, conns, shown, Tasking,
           TypeOK, TasksShape, Kept, Attempting, Tasks
  <2>3. LinksShape'
    BY <1>0, <1>2 DEF RejectLink, Goto, Unlock, End, conns, shown, Tasking,
           TypeOK, TasksShape, Linking, LinksShape, Kept, Attempting,
           Connectless, Settling, IsConnected, Tasks
  <2>4. NoOrphanLink'
    BY <1>0, <1>2 DEF RejectLink, Goto, Unlock, End, conns, shown, Tasking,
           TypeOK, TasksShape, Linking, LinksShape, Kept, Attempting,
           Connectless, Settling, IsConnected, Tasks, NoOrphanLink
  <2>5. ServicesOfClient'
    BY <1>0, <1>2 DEF RejectLink, Goto, Unlock, End, conns, shown, Tasking,
           TypeOK, TasksShape, Linking, LinksShape, Kept, Attempting,
           Connectless, Settling, IsConnected, Tasks, ServicesOfClient
  <2>6. Shown'
    BY <1>0, <1>2 DEF RejectLink, Goto, Unlock, End, conns, shown, Tasking,
           TypeOK, TasksShape, Linking, LinksShape, Kept, Attempting,
           Connectless, Settling, IsConnected, Tasks, Shown
  <2> QED
    BY <2>1, <2>2, <2>3, <2>4, <2>5, <2>6 DEF IInv, Tasking, Linking
<1>3. ASSUME NEW t \in Tasks, ReadDone(t) PROVE IInv'
  <2>1. TypeOK'
    BY <1>0, <1>3 DEF ReadDone, Goto, Unlock, End, Usable, LoopCaughtUp,
           conns, shown, Tasking, TypeOK, Tasks
  <2>2. TasksShape'
    BY <1>0, <1>3 DEF ReadDone, Goto, Unlock, End, Usable, LoopCaughtUp,
           conns, shown, Tasking, TypeOK, TasksShape, Kept, Attempting, Tasks
  <2>3. LinksShape'
    BY <1>0, <1>3 DEF ReadDone, Goto, Unlock, End, Usable, LoopCaughtUp,
           conns, shown, Tasking, TypeOK, TasksShape, Linking, LinksShape,
           Kept, Attempting, Connectless, Settling, IsConnected, Tasks
  <2>4. NoOrphanLink'
    BY <1>0, <1>3 DEF ReadDone, Goto, Unlock, End, Usable, LoopCaughtUp,
           conns, shown, Tasking, TypeOK, TasksShape, Linking, LinksShape,
           Kept, Attempting, Connectless, Settling, IsConnected, Tasks,
           NoOrphanLink
  <2>5. ServicesOfClient'
    BY <1>0, <1>3 DEF ReadDone, Goto, Unlock, End, Usable, LoopCaughtUp,
           conns, shown, Tasking, TypeOK, TasksShape, Linking, LinksShape,
           Kept, Attempting, Connectless, Settling, IsConnected, Tasks,
           ServicesOfClient
  <2>6. Shown'
    BY <1>0, <1>3 DEF ReadDone, Goto, Unlock, End, Usable, LoopCaughtUp,
           conns, shown, Tasking, TypeOK, TasksShape, Linking, LinksShape,
           Kept, Attempting, Connectless, Settling, IsConnected, Tasks, Shown
  <2> QED
    BY <2>1, <2>2, <2>3, <2>4, <2>5, <2>6 DEF IInv, Tasking, Linking
<1>4. ASSUME NEW t \in Tasks, NotifyDone(t) PROVE IInv'
  <2>1. TypeOK'
    BY <1>0, <1>4 DEF NotifyDone, Goto, Unlock, End, Usable, conns, shown,
           Tasking, TypeOK, Tasks
  <2>2. TasksShape'
    BY <1>0, <1>4 DEF NotifyDone, Goto, Unlock, End, Usable, conns, shown,
           Tasking, TypeOK, TasksShape, Kept, Attempting, Tasks
  <2>3. LinksShape'
    BY <1>0, <1>4 DEF NotifyDone, Goto, Unlock, End, Usable, conns, shown,
           Tasking, TypeOK, TasksShape, Linking, LinksShape, Kept, Attempting,
           Connectless, Settling, IsConnected, Tasks
  <2>4. NoOrphanLink'
    BY <1>0, <1>4 DEF NotifyDone, Goto, Unlock, End, Usable, conns, shown,
           Tasking, TypeOK, TasksShape, Linking, LinksShape, Kept, Attempting,
           Connectless, Settling, IsConnected, Tasks, NoOrphanLink
  <2>5. ServicesOfClient'
    BY <1>0, <1>4 DEF NotifyDone, Goto, Unlock, End, Usable, conns, shown,
           Tasking, TypeOK, TasksShape, Linking, LinksShape, Kept, Attempting,
           Connectless, Settling, IsConnected, Tasks, ServicesOfClient
  <2>6. Shown'
    BY <1>0, <1>4 DEF NotifyDone, Goto, Unlock, End, Usable, conns, shown,
           Tasking, TypeOK, TasksShape, Linking, LinksShape, Kept, Attempting,
           Connectless, Settling, IsConnected, Tasks, Shown
  <2> QED
    BY <2>1, <2>2, <2>3, <2>4, <2>5, <2>6 DEF IInv, Tasking, Linking
<1>5. ASSUME NEW t \in Tasks, WriteDone(t) PROVE IInv'
  <2>1. TypeOK'
    BY <1>0, <1>5 DEF WriteDone, Goto, End, Usable, conns, shown, Tasking,
           TypeOK, Tasks
  <2>2. TasksShape'
    BY <1>0, <1>5 DEF WriteDone, Goto, End, Usable, conns, shown, Tasking,
           TypeOK, TasksShape, Kept, Attempting, Tasks
  <2>3. LinksShape'
    BY <1>0, <1>5 DEF WriteDone, Goto, End, Usable, conns, shown, Tasking,
           TypeOK, TasksShape, Linking, LinksShape, Kept, Attempting,
           Connectless, Settling, IsConnected, Tasks
  <2>4. NoOrphanLink'
    BY <1>0, <1>5 DEF WriteDone, Goto, End, Usable, conns, shown, Tasking,
           TypeOK, TasksShape, Linking, LinksShape, Kept, Attempting,
           Connectless, Settling, IsConnected, Tasks, NoOrphanLink
  <2>5. ServicesOfClient'
    BY <1>0, <1>5 DEF WriteDone, Goto, End, Usable, conns, shown, Tasking,
           TypeOK, TasksShape, Linking, LinksShape, Kept, Attempting,
           Connectless, Settling, IsConnected, Tasks, ServicesOfClient
  <2>6. Shown'
    BY <1>0, <1>5 DEF WriteDone, Goto, End, Usable, conns, shown, Tasking,
           TypeOK, TasksShape, Linking, LinksShape, Kept, Attempting,
           Connectless, Settling, IsConnected, Tasks, Shown
  <2> QED
    BY <2>1, <2>2, <2>3, <2>4, <2>5, <2>6 DEF IInv, Tasking, Linking
<1>6. ASSUME NEW t \in Tasks, WriteFails(t) PROVE IInv'
  <2>1. TypeOK'
    BY <1>0, <1>6 DEF WriteFails, Goto, End, conns, shown, Tasking, TypeOK,
           Tasks
  <2>2. TasksShape'
    BY <1>0, <1>6 DEF WriteFails, Goto, End, conns, shown, Tasking, TypeOK,
           TasksShape, Kept, Attempting, Tasks
  <2>3. LinksShape'
    BY <1>0, <1>6 DEF WriteFails, Goto, End, conns, shown, Tasking, TypeOK,
           TasksShape, Linking, LinksShape, Kept, Attempting, Connectless,
           Settling, IsConnected, Tasks
  <2>4. NoOrphanLink'
    BY <1>0, <1>6 DEF WriteFails, Goto, End, conns, shown, Tasking, TypeOK,
           TasksShape, Linking, LinksShape, Kept, Attempting, Connectless,
           Settling, IsConnected, Tasks, NoOrphanLink
  <2>5. ServicesOfClient'
    BY <1>0, <1>6 DEF WriteFails, Goto, End, conns, shown, Tasking, TypeOK,
           TasksShape, Linking, LinksShape, Kept, Attempting, Connectless,
           Settling, IsConnected, Tasks, ServicesOfClient
  <2>6. Shown'
    BY <1>0, <1>6 DEF WriteFails, Goto, End, conns, shown, Tasking, TypeOK,
           TasksShape, Linking, LinksShape, Kept, Attempting, Connectless,
           Settling, IsConnected, Tasks, Shown
  <2> QED
    BY <2>1, <2>2, <2>3, <2>4, <2>5, <2>6 DEF IInv, Tasking, Linking
<1> QED
  BY <1>1, <1>2, <1>3, <1>4, <1>5, <1>6

-----------------------------------------------------------------------------
(* Links end, or are left behind.                                         *)
LEMMA EndsKeeps ==
  ASSUME IInv,
         \/ Unload \/ ShowUnavailable
         \/ \E t \in Tasks : CloseLink(t) \/ ForgetClient(t)
         \/ \E l \in Links : Drop(l)
  PROVE  IInv'
<1>0. Tasking /\ Linking
  BY DEF IInv
<1>1. ASSUME Unload PROVE IInv'
  <2>1. TypeOK'
    <3>1. CASE client = None
      <4>1. UNCHANGED <<up, client, leftBehind, unavailDue, lock, purpose, pc, mine>>
        BY <1>1, <3>1 DEF Unload
      <4>2. /\ expected' = FALSE /\ expectedDisconnect' = TRUE /\ services' = None
            /\ available' = FALSE /\ entry' = "unloaded"
        BY <1>1, <3>1 DEF Unload
      <4> QED
        BY <1>0, <4>1, <4>2 DEF Tasking, TypeOK
    <3>2. CASE client # None
      <4>1. /\ pc' = [pc EXCEPT !["unload"] = "stopping"]
            /\ mine' = [mine EXCEPT !["unload"] = client]
            /\ UNCHANGED <<up, client, leftBehind, unavailDue, lock, purpose, services,
                           available>>
        BY <1>1, <3>2 DEF Unload, Goto
      <4>2. expected' = FALSE /\ expectedDisconnect' = TRUE /\ entry' = "unloading"
        BY <1>1, <3>2 DEF Unload
      <4>3. pc["unload"] = "idle"
        BY <1>0, <1>1 DEF Unload, Tasking, TasksShape, Kept
      <4> QED
        BY <1>0, <3>2, <4>1, <4>2, <4>3 DEF Tasking, TypeOK, Tasks
    <3> QED
      BY <3>1, <3>2
  <2>2. TasksShape'
    BY <1>0, <1>1 DEF Unload, Goto, conns, shown, Tasking, TypeOK, TasksShape,
           Kept, Attempting, Tasks
  <2>3. LinksShape'
    BY <1>0, <1>1 DEF Unload, Goto, conns, shown, Tasking, TypeOK, TasksShape,
           Linking, LinksShape, Kept, Attempting, Connectless, Settling,
           IsConnected, Tasks
  <2>4. NoOrphanLink'
    BY <1>0, <1>1 DEF Unload, Goto, conns, shown, Tasking, TypeOK, TasksShape,
           Linking, LinksShape, Kept, Attempting, Connectless, Settling,
           IsConnected, Tasks, NoOrphanLink
  <2>5. ServicesOfClient'
    BY <1>0, <1>1 DEF Unload, Goto, conns, shown, Tasking, TypeOK, TasksShape,
           Linking, LinksShape, Kept, Attempting, Connectless, Settling,
           IsConnected, Tasks, ServicesOfClient
  <2>6. Shown'
    BY <1>0, <1>1 DEF Unload, Goto, conns, shown, Tasking, TypeOK, TasksShape,
           Linking, LinksShape, Kept, Attempting, Connectless, Settling,
           IsConnected, Tasks, Shown
  <2> QED
    BY <2>1, <2>2, <2>3, <2>4, <2>5, <2>6 DEF IInv, Tasking, Linking
<1>2. ASSUME NEW t \in Tasks, CloseLink(t) PROVE IInv'
  <2>1. TypeOK'
    BY <1>0, <1>2, OneLink DEF CloseLink, Goto, LinkDown, conns, shown,
           Tasking, TypeOK, Tasks
  <2>2. TasksShape'
    BY <1>0, <1>2, OneLink DEF CloseLink, Goto, LinkDown, conns, shown,
           Tasking, TypeOK, TasksShape, Kept, Attempting, Tasks
  <2>3. LinksShape'
    BY <1>0, <1>2, OneLink DEF CloseLink, Goto, LinkDown, conns, shown,
           Tasking, TypeOK, TasksShape, Linking, LinksShape, Kept, Attempting,
           Connectless, Settling, IsConnected, Tasks
  <2>4. NoOrphanLink'
    BY <1>0, <1>2, OneLink DEF CloseLink, Goto, LinkDown, conns, shown,
           Tasking, TypeOK, TasksShape, Linking, LinksShape, Kept, Attempting,
           Connectless, Settling, IsConnected, Tasks, NoOrphanLink
  <2>5. ServicesOfClient'
    BY <1>0, <1>2, OneLink DEF CloseLink, Goto, LinkDown, conns, shown,
           Tasking, TypeOK, TasksShape, Linking, LinksShape, Kept, Attempting,
           Connectless, Settling, IsConnected, Tasks, ServicesOfClient
  <2>6. Shown'
    BY <1>0, <1>2, OneLink DEF CloseLink, Goto, LinkDown, conns, shown,
           Tasking, TypeOK, TasksShape, Linking, LinksShape, Kept, Attempting,
           Connectless, Settling, IsConnected, Tasks, Shown
  <2> QED
    BY <2>1, <2>2, <2>3, <2>4, <2>5, <2>6 DEF IInv, Tasking, Linking
<1>3. ASSUME NEW t \in Tasks, ForgetClient(t) PROVE IInv'
  <2>1. TypeOK'
    <3>1. /\ client' = None /\ services' = None /\ available' = FALSE
          /\ UNCHANGED <<up, expectedDisconnect, unavailDue, expected, purpose>>
          /\ pc' = [pc EXCEPT ![t] = "idle"] /\ mine' = [mine EXCEPT ![t] = None]
      BY <1>3 DEF ForgetClient, Goto, End
    <3>2. lock' = (IF lock = t THEN None ELSE lock)
      BY <1>3 DEF ForgetClient, Unlock
    <3>3. entry' \in {entry, "unloaded", "loaded"}
      BY <1>3 DEF ForgetClient, End
    <3>4. \A u \in Tasks :
             /\ pc'[u] \in {"stale", "dial", "dialed", "discover", "read", "notify"} =>
                   lock' = u
             /\ pc'[u] \in {"dialed", "discover", "stopping", "stopped"} => mine'[u] # None
      BY <1>0, <3>1, <3>2 DEF Tasking, TypeOK
    <3>5. leftBehind' \subseteq Links
      <4>1. mine[t] \in Links
        BY <1>0, <1>3 DEF ForgetClient, Tasking, TypeOK
      <4> QED
        BY <1>0, <1>3, <4>1 DEF ForgetClient, Tasking, TypeOK
    <3> QED
      BY <1>0, <3>1, <3>2, <3>3, <3>4, <3>5 DEF Tasking, TypeOK
  <2>2. TasksShape'
    BY <1>0, <1>3 DEF ForgetClient, Goto, Unlock, End, conns, shown, Tasking,
           TypeOK, TasksShape, Kept, Attempting, Tasks
  <2>3. LinksShape'
    BY <1>0, <1>3 DEF ForgetClient, Goto, Unlock, End, conns, shown, Tasking,
           TypeOK, TasksShape, Linking, LinksShape, Kept, Attempting,
           Connectless, Settling, IsConnected, Tasks
  <2>4. NoOrphanLink'
    BY <1>0, <1>3 DEF ForgetClient, Goto, Unlock, End, conns, shown, Tasking,
           TypeOK, TasksShape, Linking, LinksShape, Kept, Attempting,
           Connectless, Settling, IsConnected, Tasks, NoOrphanLink
  <2>5. ServicesOfClient'
    BY <1>0, <1>3 DEF ForgetClient, Goto, Unlock, End, conns, shown, Tasking,
           TypeOK, TasksShape, Linking, LinksShape, Kept, Attempting,
           Connectless, Settling, IsConnected, Tasks, ServicesOfClient
  <2>6. Shown'
    BY <1>0, <1>3 DEF ForgetClient, Goto, Unlock, End, conns, shown, Tasking,
           TypeOK, TasksShape, Linking, LinksShape, Kept, Attempting,
           Connectless, Settling, IsConnected, Tasks, Shown
  <2> QED
    BY <2>1, <2>2, <2>3, <2>4, <2>5, <2>6 DEF IInv, Tasking, Linking
<1>4. ASSUME NEW l \in Links, Drop(l) PROVE IInv'
  <2>1. TypeOK'
    BY <1>0, <1>4, OneLink DEF Drop, LinkDown, conns, shown, Tasking, TypeOK,
           Tasks
  <2>2. TasksShape'
    BY <1>0, <1>4, OneLink DEF Drop, LinkDown, conns, shown, Tasking, TypeOK,
           TasksShape, Kept, Attempting, Tasks
  <2>3. LinksShape'
    BY <1>0, <1>4, OneLink DEF Drop, LinkDown, conns, shown, Tasking, TypeOK,
           TasksShape, Linking, LinksShape, Kept, Attempting, Connectless,
           Settling, IsConnected, Tasks
  <2>4. NoOrphanLink'
    BY <1>0, <1>4, OneLink DEF Drop, LinkDown, conns, shown, Tasking, TypeOK,
           TasksShape, Linking, LinksShape, Kept, Attempting, Connectless,
           Settling, IsConnected, Tasks, NoOrphanLink
  <2>5. ServicesOfClient'
    BY <1>0, <1>4, OneLink DEF Drop, LinkDown, conns, shown, Tasking, TypeOK,
           TasksShape, Linking, LinksShape, Kept, Attempting, Connectless,
           Settling, IsConnected, Tasks, ServicesOfClient
  <2>6. Shown'
    BY <1>0, <1>4, OneLink DEF Drop, LinkDown, conns, shown, Tasking, TypeOK,
           TasksShape, Linking, LinksShape, Kept, Attempting, Connectless,
           Settling, IsConnected, Tasks, Shown
  <2> QED
    BY <2>1, <2>2, <2>3, <2>4, <2>5, <2>6 DEF IInv, Tasking, Linking
<1>5. ASSUME ShowUnavailable PROVE IInv'
  <2>1. TypeOK'
    BY <1>0, <1>5 DEF ShowUnavailable, conns, shown, Tasking, TypeOK, Tasks
  <2>2. TasksShape'
    BY <1>0, <1>5 DEF ShowUnavailable, conns, shown, Tasking, TypeOK,
           TasksShape, Kept, Attempting, Tasks
  <2>3. LinksShape'
    BY <1>0, <1>5 DEF ShowUnavailable, conns, shown, Tasking, TypeOK,
           TasksShape, Linking, LinksShape, Kept, Attempting, Connectless,
           Settling, IsConnected, Tasks
  <2>4. NoOrphanLink'
    BY <1>0, <1>5 DEF ShowUnavailable, conns, shown, Tasking, TypeOK,
           TasksShape, Linking, LinksShape, Kept, Attempting, Connectless,
           Settling, IsConnected, Tasks, NoOrphanLink
  <2>5. ServicesOfClient'
    BY <1>0, <1>5 DEF ShowUnavailable, conns, shown, Tasking, TypeOK,
           TasksShape, Linking, LinksShape, Kept, Attempting, Connectless,
           Settling, IsConnected, Tasks, ServicesOfClient
  <2>6. Shown'
    BY <1>0, <1>5 DEF ShowUnavailable, conns, shown, Tasking, TypeOK,
           TasksShape, Linking, LinksShape, Kept, Attempting, Connectless,
           Settling, IsConnected, Tasks, Shown
  <2> QED
    BY <2>1, <2>2, <2>3, <2>4, <2>5, <2>6 DEF IInv, Tasking, Linking
<1> QED
  BY <1>1, <1>2, <1>3, <1>4, <1>5

-----------------------------------------------------------------------------
LEMMA IInvStep == IInv /\ [Next]_vars => IInv'
<1>1. ASSUME IInv, UNCHANGED vars PROVE IInv'
  BY <1>1 DEF vars, conns, shown, IInv, Tasking, TypeOK, TasksShape, Kept,
         Linking, LinksShape, NoOrphanLink, ServicesOfClient, Shown, IsConnected,
         Attempting, Connectless, Settling
<1> QED
  BY <1>1, BeginsKeeps, DialsKeeps, UsesKeeps, EndsKeeps DEF Next, Connecting

LEMMA IInvAlways == Spec => []IInv
BY IInvInit, IInvStep, PTL DEF Spec

(* Every variable keeps its type, and only the holder of the lock is in an *)
(* attempt: _connect_lock of client.py.                                    *)
THEOREM TypeCorrect == Spec => []TypeOK
<1>1. IInv => TypeOK
  BY DEF IInv, Tasking
<1> QED
  BY <1>1, IInvAlways, PTL

(* Until the entry is unloaded client.py forgets no link, whatever drops   *)
(* or fails in an attempt, but one whose disconnect() failed, or one in    *)
(* use when a link that was left behind ends (async_disconnect,            *)
(* _handle_disconnect).                                                    *)
THEOREM LinksAreKnown == Spec => []NoOrphanLink
<1>1. IInv => NoOrphanLink
  BY DEF IInv, Linking
<1> QED
  BY <1>1, IInvAlways, PTL

(* Between attempts, and from the reads of an attempt on, the services     *)
(* that client.py uses for a connected link are that link's, although      *)
(* async_connect may set them for a link that is down already.             *)
THEOREM ServicesAreCurrent == Spec => []ServicesOfClient
<1>1. IInv => ServicesOfClient
  BY DEF IInv, Linking
<1> QED
  BY <1>1, IInvAlways, PTL

(* coordinator.py shows a connected device once nobody is connecting: a    *)
(* disconnect callback that comes late cannot hide it.                     *)
THEOREM ConnectedDevicesAreShown == Spec => []ConnectedIsShown
<1>1. IInv => ConnectedIsShown
  BY DEF IInv, Linking, Shown, ConnectedIsShown, Kept
<1> QED
  BY <1>1, IInvAlways, PTL
=============================================================================
