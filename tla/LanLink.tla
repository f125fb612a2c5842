------------------------------ MODULE LanLink ------------------------------
(***************************************************************************)
(* What a LanDevice promises to its users, the purifier's coordinator and  *)
(* the checks of the config flow, in the terms of their side of            *)
(* birdie/lan/device.py: the settings they gave it, the settings the       *)
(* connection in use was made with, what it reports, and its life.  No     *)
(* thread, no task and no library object is visible here.                  *)
(***************************************************************************)
CONSTANTS
    Settings,   \* connection settings
    Nothing     \* no connection

VARIABLES
    settings,   \* the settings in force
    connection, \* the settings of the connection in use, or Nothing
    available,  \* what the device reports
    life        \* open; closing once async_close began; closed once it returned

vars == <<settings, connection, available, life>>

Init ==
    /\ settings \in Settings
    /\ connection = Nothing
    /\ available = FALSE
    /\ life = "open"

(* The user gives other settings.  The connection is not touched by that;  *)
(* it goes down on its own.                                                *)
Reconfigure ==
    /\ life = "open"
    /\ settings' \in Settings
    /\ UNCHANGED <<connection, available, life>>

(* A connection is made from none, never in place of another.  It may be   *)
(* one to settings that were just replaced, and be made during a close.    *)
Up ==
    /\ connection = Nothing /\ life # "closed"
    /\ connection' \in Settings
    /\ UNCHANGED <<settings, available, life>>

Down ==
    /\ connection' = Nothing
    /\ UNCHANGED <<settings, available, life>>

(* A device that is being closed never reports to be available again.      *)
Show ==
    /\ life = "open"
    /\ available' = TRUE
    /\ UNCHANGED <<settings, connection, life>>

(* Until async_close returns, the loss of the connection is reported.      *)
Hide ==
    /\ available' = FALSE
    /\ UNCHANGED <<settings, connection, life>>

Close ==
    /\ life = "open" /\ life' = "closing"
    /\ UNCHANGED <<settings, connection, available>>

(* async_close returns when there is no connection, and none is made then. *)
Closed ==
    /\ life = "closing" /\ life' = "closed"
    /\ connection = Nothing
    /\ UNCHANGED <<settings, connection, available>>

Next == Reconfigure \/ Up \/ Down \/ Show \/ Hide \/ Close \/ Closed

SafeSpec == Init /\ [][Next]_vars

Stale == connection \notin {Nothing, settings}
Unreported == available /\ connection = Nothing /\ life = "open"

(* A connection to settings that were replaced goes down, a loss is        *)
(* reported while the device is open, and async_close returns.             *)
Liveness ==
    /\ Stale ~> ~Stale
    /\ Unreported ~> ~Unreported
    /\ life = "closing" ~> life = "closed"

Spec == SafeSpec /\ Liveness
=============================================================================
