--------------------------- MODULE BleCoordinator ---------------------------
(***************************************************************************)
(* The Bluetooth connection of a CO2 monitor: birdie/client.py             *)
(* (BirdieBleClient), birdie/coordinator.py (BirdieCoordinator) and the    *)
(* tasks of birdie/__init__.py that use them.                              *)
(*                                                                         *)
(* Everything runs in the event loop and interleaves at its awaits.  A     *)
(* connection attempt takes the lock, closes stale connections, dials,     *)
(* discovers the services, reads the initial values, and subscribes.       *)
(* async_disconnect does not take the lock, and an error of the disconnect *)
(* itself is swallowed: the link may stay up, and nobody knows of it.      *)
(***************************************************************************)
EXTENDS Naturals

CONSTANTS
    Workers,    \* tasks started by advertisements and by the number entities
    Links,      \* identities of BleakClient objects
    None

ASSUME TasksAssumption == {"setup", "unload"} \cap Workers = {}
ASSUME NoneAssumption == None \notin Links \cup Workers \cup {"setup", "unload"}

VARIABLES
    up,         \* per link: connected
    client,     \* _client
    services,   \* the link whose services _services holds
    expectedDisconnect, \* _expected_disconnect
    available,  \* data.available
    unavailDue, \* a call of _async_handle_disconnect is scheduled
    lock,       \* the task that holds _connect_lock
    expected,   \* _expected_connected
    entry,      \* state of the config entry
    pc,         \* what each task awaits
    purpose,    \* why it connects
    mine,       \* its local variable client
    leftBehind  \* ghost: links given up while they were up, see ForgetClient

conns == <<up, client, services, expectedDisconnect, leftBehind>>
shown == <<available, unavailDue>>
vars == <<conns, shown, lock, expected, entry, pc, purpose, mine>>

Tasks == Workers \cup {"setup", "unload"}

TypeOK ==
    /\ up \in [Links -> BOOLEAN]
    /\ client \in Links \cup {None}
    /\ services \in Links \cup {None} /\ leftBehind \subseteq Links
    /\ expectedDisconnect \in BOOLEAN
    /\ available \in BOOLEAN /\ unavailDue \in BOOLEAN
    /\ lock \in Tasks \cup {None}
    /\ expected \in BOOLEAN
    /\ entry \in {"setup", "loaded", "failed", "unloading", "unloaded"}
    /\ pc \in [Tasks -> {"idle", "lock", "stale", "dial", "dialed", "discover",
                         "read", "notify", "write", "stopping", "stopped"}]
    /\ purpose \in [Tasks -> {"reconnect", "write", "setup"}]
    /\ mine \in [Tasks -> Links \cup {None}]
    /\ \A t \in Tasks :
          /\ pc[t] \in {"stale", "dial", "dialed", "discover", "read", "notify"} =>
                lock = t
          /\ pc[t] \in {"dialed", "discover", "stopping", "stopped"} => mine[t] # None

(* async_setup_entry made the coordinator and called async_connect.        *)
Init ==
    /\ up = [l \in Links |-> FALSE]
    /\ client = None /\ services = None /\ expectedDisconnect = FALSE
    /\ leftBehind = {}
    /\ available = FALSE /\ unavailDue = FALSE
    /\ lock = None /\ expected = FALSE
    /\ entry = "setup"
    /\ pc = [t \in Tasks |-> IF t = "setup" THEN "lock" ELSE "idle"]
    /\ purpose = [t \in Tasks |-> IF t = "setup" THEN "setup" ELSE "reconnect"]
    /\ mine = [t \in Tasks |-> None]

Unused(l) == ~up[l] /\ client # l /\ \A t \in Tasks : mine[t] # l

IsConnected == client # None /\ up[client]

(* _require_client and _require_services.                                  *)
Usable == IsConnected /\ services # None

Goto(t, label) == pc' = [pc EXCEPT ![t] = label]

(* The task is over; the setup goes on to load the entry, or fails.        *)
End(t, loaded) ==
    /\ Goto(t, "idle")
    /\ mine' = [mine EXCEPT ![t] = None]
    /\ entry' = IF t # "setup" THEN entry ELSE IF loaded THEN "loaded" ELSE "failed"

Unlock(t) == lock' = IF lock = t THEN None ELSE lock

(* _handle_disconnect, called when a link goes down, whichever it was: the *)
(* end of a link that was left behind takes the client away from another.  *)
LinkDown(l) ==
    /\ up' = [up EXCEPT ![l] = FALSE]
    /\ client' = None /\ services' = None
    /\ leftBehind' = IF l \in leftBehind
                     THEN (leftBehind \cup {client}) \ {l, None} ELSE leftBehind
    /\ unavailDue' = (unavailDue \/ ~expectedDisconnect)
    /\ UNCHANGED expectedDisconnect

-----------------------------------------------------------------------------
(* What starts a task.                                                     *)

(* The address is seen: async_connect_if_expected.                         *)
Advertisement(t) ==
    /\ entry = "loaded" /\ pc[t] = "idle"
    /\ expected /\ ~IsConnected
    /\ Goto(t, "lock")
    /\ purpose' = [purpose EXCEPT ![t] = "reconnect"]
    /\ UNCHANGED <<conns, shown, lock, expected, entry, mine>>

(* A number entity is set: _async_ensure_connected, then the write.  With  *)
(* a link whose services are not known yet it raises at once.              *)
SetNumber(t) ==
    /\ entry = "loaded" /\ pc[t] = "idle"
    /\ IsConnected => Usable
    /\ Goto(t, IF IsConnected THEN "write" ELSE "lock")
    /\ purpose' = [purpose EXCEPT ![t] = "write"]
    /\ UNCHANGED <<conns, shown, lock, expected, entry, mine>>

-----------------------------------------------------------------------------
(* async_connect of the coordinator and of the client.                     *)

(* Mutant: attempts are not serialised.                                    *)
TakeLock_Free(t) ==
    /\ pc[t] = "lock"
    /\ lock' = t
    /\ expected' = TRUE
    /\ Goto(t, IF IsConnected THEN "read" ELSE "stale")
    /\ client' = IF IsConnected THEN client ELSE None
    /\ services' = IF client # None /\ ~IsConnected THEN None ELSE services
    /\ UNCHANGED <<up, expectedDisconnect, leftBehind, shown, entry, purpose, mine>>

(* The lock is free.  A connection that is there already is used.          *)
TakeLock(t) ==
    /\ pc[t] = "lock" /\ lock = None
    /\ lock' = t
    /\ expected' = TRUE
    /\ Goto(t, IF IsConnected THEN "read" ELSE "stale")
    /\ client' = IF IsConnected THEN client ELSE None
    /\ services' = IF client # None /\ ~IsConnected THEN None ELSE services
    /\ UNCHANGED <<up, expectedDisconnect, leftBehind, shown, entry, purpose, mine>>

(* The device is known: dial it.  What close_stale_connections_by_address  *)
(* finds and closes before is a Drop.                                      *)
StartDial(t) ==
    /\ pc[t] = "stale"
    /\ expectedDisconnect' = FALSE
    /\ Goto(t, "dial")
    /\ UNCHANGED <<up, client, services, leftBehind, shown, lock, expected, entry,
                   purpose, mine>>

(* No callback is scheduled: a radio takes longer than it does.            *)
LoopCaughtUp == ~unavailDue

(* establish_connection: the link comes up.                                *)
DialSucceeds(t, l) ==
    /\ pc[t] = "dial" /\ Unused(l) /\ LoopCaughtUp
    /\ up' = [up EXCEPT ![l] = TRUE]
    /\ mine' = [mine EXCEPT ![t] = l]
    /\ Goto(t, "dialed")
    /\ UNCHANGED <<client, services, expectedDisconnect, leftBehind, shown, lock,
                   expected, entry, purpose>>

(* No device, no connection, or it is gone again: unavailable.             *)
ConnectFails(t) ==
    /\ pc[t] \in {"stale", "dial"} \/ (pc[t] = "dialed" /\ ~up[mine[t]])
    /\ available' = FALSE
    /\ Unlock(t) /\ End(t, TRUE)
    /\ UNCHANGED <<conns, unavailDue, expected, purpose>>

(* Looking for the device, or for stale connections, raises: nothing is    *)
(* marked unavailable, and a setup fails.                                  *)
ConnectRaises(t) ==
    /\ pc[t] = "stale"
    /\ Unlock(t) /\ End(t, FALSE)
    /\ UNCHANGED <<conns, shown, expected, purpose>>

(* The link is up: it is the client's, and its services are asked for.     *)
UseLink(t) ==
    /\ pc[t] = "dialed" /\ up[mine[t]]
    /\ client' = mine[t]
    /\ Goto(t, "discover")
    /\ UNCHANGED <<up, services, expectedDisconnect, leftBehind, shown, lock, expected,
                   entry, purpose, mine>>

(* Mutant: services that are there already are kept.                       *)
Discovered_Cached(t) ==
    /\ pc[t] = "discover"
    /\ services' = IF services = None THEN mine[t] ELSE services
    /\ Goto(t, "read")
    /\ UNCHANGED <<up, client, expectedDisconnect, leftBehind, shown, lock, expected,
                   entry, purpose, mine>>

(* They include known characteristics, and are kept although the link may  *)
(* be down again by now.                                                   *)
Discovered(t) ==
    /\ pc[t] = "discover"
    /\ services' = mine[t]
    /\ Goto(t, "read")
    /\ UNCHANGED <<up, client, expectedDisconnect, leftBehind, shown, lock, expected,
                   entry, purpose, mine>>

(* Mutant: such a link is forgotten without disconnecting it.              *)
RejectLink_Forget(t) ==
    /\ pc[t] = "discover"
    /\ client' = None /\ services' = None
    /\ available' = FALSE
    /\ Unlock(t) /\ End(t, TRUE)
    /\ UNCHANGED <<up, expectedDisconnect, leftBehind, unavailDue, expected, purpose>>

(* They do not, or asking fails: disconnect, unless the link is down.      *)
RejectLink(t) ==
    /\ pc[t] = "discover"
    /\ expectedDisconnect' = TRUE
    /\ IF client = None
       THEN /\ services' = None /\ available' = FALSE
            /\ Unlock(t) /\ End(t, TRUE)
       ELSE /\ Goto(t, "stopping")
            /\ UNCHANGED <<services, available, lock, entry, mine>>
    /\ UNCHANGED <<up, client, leftBehind, unavailDue, expected, purpose>>

(* Mutant: reading the values does not make the device available.          *)
ReadDone_Hidden(t) ==
    /\ pc[t] = "read" /\ (IsConnected => LoopCaughtUp)
    /\ IF Usable
       THEN /\ Goto(t, "notify")
            /\ UNCHANGED <<lock, entry, mine>>
       ELSE Unlock(t) /\ End(t, FALSE)
    /\ UNCHANGED <<conns, shown, expected, purpose>>

(* Mutant: an error while subscribing leaves the lock taken.               *)
ReadDone_KeepLock(t) ==
    /\ pc[t] = "read" /\ (IsConnected => LoopCaughtUp)
    /\ available' = TRUE
    /\ IF Usable
       THEN Goto(t, "notify") /\ UNCHANGED <<entry, mine>>
       ELSE End(t, FALSE)
    /\ UNCHANGED <<conns, unavailDue, lock, expected, purpose>>

(* The reads are over, those that failed are skipped: the device is marked *)
(* available.  Subscribing raises when the link is gone.                   *)
ReadDone(t) ==
    /\ pc[t] = "read" /\ (IsConnected => LoopCaughtUp)
    /\ available' = TRUE
    /\ IF Usable
       THEN /\ Goto(t, "notify")
            /\ UNCHANGED <<lock, entry, mine>>
       ELSE Unlock(t) /\ End(t, FALSE)
    /\ UNCHANGED <<conns, unavailDue, expected, purpose>>

(* Subscribed, as far as the device let us.  A writer goes on to write, if *)
(* there still is a connection.                                            *)
NotifyDone(t) ==
    /\ pc[t] = "notify"
    /\ Unlock(t)
    /\ IF purpose[t] = "write" /\ Usable
       THEN Goto(t, "write") /\ UNCHANGED <<entry, mine>>
       ELSE End(t, TRUE)
    /\ UNCHANGED <<conns, shown, expected, purpose>>

(* The value is written and read back.                                     *)
WriteDone(t) ==
    /\ pc[t] = "write" /\ Usable
    /\ available' = TRUE
    /\ End(t, TRUE)
    /\ UNCHANGED <<conns, unavailDue, lock, expected, purpose>>

WriteFails(t) ==
    /\ pc[t] = "write"
    /\ End(t, TRUE)
    /\ UNCHANGED <<conns, shown, lock, expected, purpose>>

-----------------------------------------------------------------------------
(* async_disconnect of the client, for the unload or a rejected link.      *)

(* The entry is unloaded: nothing is expected any more.                    *)
Unload ==
    /\ entry = "loaded"
    /\ expected' = FALSE
    /\ expectedDisconnect' = TRUE
    /\ IF client = None
       THEN /\ services' = None /\ available' = FALSE
            /\ entry' = "unloaded"
            /\ UNCHANGED <<pc, mine>>
       ELSE /\ Goto("unload", "stopping")
            /\ mine' = [mine EXCEPT !["unload"] = client]
            /\ entry' = "unloading"
            /\ UNCHANGED <<services, available>>
    /\ UNCHANGED <<up, client, leftBehind, unavailDue, lock, purpose>>

(* The notifications are stopped; the link, if still up, is closed ...     *)
CloseLink(t) ==
    /\ pc[t] = "stopping" /\ up[mine[t]]
    /\ LinkDown(mine[t])
    /\ Goto(t, "stopped")
    /\ UNCHANGED <<available, lock, expected, entry, purpose, mine>>

(* ... or disconnect() fails, which nobody hears of.  The client forgets   *)
(* its link, whichever it is by now, and whether or not it is down.        *)
ForgetClient(t) ==
    /\ pc[t] \in {"stopping", "stopped"}
    /\ client' = None /\ services' = None
    /\ leftBehind' = IF up[mine[t]] THEN leftBehind \cup {mine[t]} ELSE leftBehind
    /\ available' = FALSE
    /\ Unlock(t)
    /\ IF t = "unload"
       THEN /\ Goto(t, "idle") /\ entry' = "unloaded"
            /\ mine' = [mine EXCEPT ![t] = None]
       ELSE End(t, TRUE)
    /\ UNCHANGED <<up, expectedDisconnect, unavailDue, expected, purpose>>

-----------------------------------------------------------------------------
(* The link and its callbacks.                                             *)

(* The device or the radio ends a link.                                    *)
Drop(l) ==
    /\ up[l]
    /\ LinkDown(l)
    /\ UNCHANGED <<available, lock, expected, entry, pc, purpose, mine>>

(* _async_handle_disconnect, as scheduled.                                 *)
ShowUnavailable ==
    /\ unavailDue
    /\ unavailDue' = FALSE /\ available' = FALSE
    /\ UNCHANGED <<conns, lock, expected, entry, pc, purpose, mine>>

Connecting(t) ==
    \/ StartDial(t) \/ ConnectFails(t) \/ ConnectRaises(t)
    \/ UseLink(t) \/ Discovered(t) \/ RejectLink(t)
    \/ ReadDone(t) \/ NotifyDone(t) \/ WriteDone(t) \/ WriteFails(t)
    \/ CloseLink(t) \/ ForgetClient(t)
    \/ \E l \in Links : DialSucceeds(t, l)

Next ==
    \/ \E t \in Workers : Advertisement(t) \/ SetNumber(t)
    \/ \E t \in Tasks : TakeLock(t) \/ Connecting(t)
    \/ Unload
    \/ \E l \in Links : Drop(l)
    \/ ShowUnavailable

Spec == Init /\ [][Next]_vars

(* Every await of an attempt has a timeout, and asyncio.Lock serves its    *)
(* waiters in turn.  Nothing outside has to happen.                        *)
Fairness ==
    /\ \A t \in Tasks : WF_vars(Connecting(t)) /\ SF_vars(TakeLock(t))
    /\ WF_vars(ShowUnavailable)

FairSpec == Spec /\ Fairness

-----------------------------------------------------------------------------
(* Properties.                                                             *)

(* No link is forgotten but by a disconnect() that fails, or for one that  *)
(* was left behind so before: until the entry is unloaded, any other link  *)
(* that is up is the client's or the one being made.                       *)
NoOrphanLink ==
    entry \in {"setup", "loaded"} =>
        \A l \in Links : up[l] =>
            \/ l = client \/ l \in leftBehind
            \/ \E t \in Tasks : lock = t /\ mine[t] = l

(* Once its discovery is over and it is not rejected, a connected client   *)
(* has the services of its own link, although a drop during an earlier     *)
(* discovery may have left others: a write then never addresses            *)
(* characteristics of a link that is gone.                                 *)
ServicesOfClient ==
    IsConnected /\ (\A t \in Tasks : pc[t] \notin {"discover", "stopping"})
        => services = client

(* Once nobody is connecting, a connected device is shown as available: a  *)
(* late notice about the previous link does not hide the new one.          *)
ConnectedIsShown ==
    entry = "loaded" /\ lock = None /\ IsConnected /\ ~unavailDue => available

(* Every attempt ends, and every task waiting for the lock gets its turn.  *)
AttemptsEnd == \A t \in Tasks : pc[t] = "lock" ~> pc[t] = "idle"

(* "Disconnect handling with unavailable entity states": once nobody is    *)
(* connecting and no callback is due, a device without a connection is not *)
(* shown as available.                                                     *)
DisconnectedIsUnavailable ==
    lock = None /\ ~unavailDue /\ available /\ entry = "loaded" => IsConnected

(* "Disconnect from the device": after the unload, with every task over    *)
(* and no disconnect() that failed, no link is left.                       *)
UnloadDisconnects ==
    entry = "unloaded" /\ leftBehind = {} /\ (\A t \in Tasks : pc[t] = "idle") =>
        \A l \in Links : ~up[l]

=============================================================================
