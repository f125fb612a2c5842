------------------------- MODULE PurifierDiscovery -------------------------
(***************************************************************************)
(* The listener for the purifiers' broadcasts, shared by all purifier      *)
(* entries: birdie/purifier/discovery.py (PurifierDiscovery, async_scan),  *)
(* with the sockets of birdie/lan/discovery.py (DiscoveryListener).        *)
(*                                                                         *)
(* Everything runs in the event loop; tasks interleave at their awaits:    *)
(* the lookup of the source address before a listener is made, and the     *)
(* binding of each of its ports.                                           *)
(***************************************************************************)
EXTENDS Naturals, FiniteSets

CONSTANTS
    Entries,    \* purifier config entries
    Scans,      \* tasks that scan: config flows, and setups that look for
                \* the new address of a purifier
    Listeners,  \* identities of DiscoveryListener objects
    Ports,      \* number of broadcast ports a listener binds
    None

ASSUME TasksAssumption == Entries \cap Scans = {}
ASSUME NoneAssumption == None \notin Listeners
ASSUME PortsAssumption == Ports \in Nat \ {0}
ASSUME EntriesFinite == IsFiniteSet(Entries)

VARIABLES
    users,      \* _users
    shared,     \* _listener
    remover,    \* the listener that _remove_callback is about
    callback,   \* per listener: _async_on_device is among its callbacks
    bound,      \* per listener: its open sockets (_transports)
    mine,       \* per task: its local variable listener
    left,       \* per task: ports that async_start has not handled yet
    pc          \* per task

vars == <<users, shared, remover, callback, bound, mine, left, pc>>

Tasks == Entries \cup Scans

TypeOK ==
    /\ users \in Nat
    /\ shared \in Listeners \cup {None} /\ remover \in Listeners \cup {None}
    /\ callback \in [Listeners -> BOOLEAN]
    /\ bound \in [Listeners -> 0..Ports]
    /\ mine \in [Tasks -> Listeners \cup {None}]
    /\ left \in [Tasks -> 0..Ports]
    /\ pc \in [Tasks -> {"out", "create", "bind", "in", "own", "borrow"}]
    /\ \A t \in Tasks : pc[t] \in {"bind", "own", "borrow"} => mine[t] # None

Init ==
    /\ users = 0
    /\ shared = None /\ remover = None
    /\ callback = [l \in Listeners |-> FALSE]
    /\ bound = [l \in Listeners |-> 0]
    /\ mine = [t \in Tasks |-> None]
    /\ left = [t \in Tasks |-> 0]
    /\ pc = [t \in Tasks |-> "out"]

(* An object that nothing refers to and that holds no socket can stand for *)
(* a new one.                                                              *)
Unused(l) ==
    /\ l \notin {shared, remover} /\ bound[l] = 0
    /\ \A t \in Tasks : mine[t] # l

Goto(t, label) == pc' = [pc EXCEPT ![t] = label]

-----------------------------------------------------------------------------
(* Mutant: the last port is not the last.                                  *)
Bind_OffByOne(t) ==
    /\ pc[t] = "bind"
    /\ \E sockets \in {0, 1} :
          bound' = [bound EXCEPT ![mine[t]] = @ + sockets]
    /\ left' = [left EXCEPT ![t] = IF @ = 0 THEN 0 ELSE @ - 1]
    /\ IF left[t] > 0 THEN UNCHANGED pc
       ELSE Goto(t, IF t \in Entries THEN "in" ELSE "own")
    /\ UNCHANGED <<users, shared, remover, callback, mine>>

(* async_start binds the next port, or skips it when it is taken.          *)
Bind(t) ==
    /\ pc[t] = "bind"
    /\ \E sockets \in {0, 1} :
          bound' = [bound EXCEPT ![mine[t]] = @ + sockets]
    /\ left' = [left EXCEPT ![t] = @ - 1]
    /\ IF left[t] > 1 THEN UNCHANGED pc
       ELSE Goto(t, IF t \in Entries THEN "in" ELSE "own")
    /\ UNCHANGED <<users, shared, remover, callback, mine>>

(* A task ends, by itself or cancelled, and forgets its listener.          *)
Leave(t) ==
    /\ Goto(t, "out")
    /\ mine' = [mine EXCEPT ![t] = None]
    /\ left' = [left EXCEPT ![t] = 0]

-----------------------------------------------------------------------------
(* An entry is set up: count it, and make the listener if there is none.   *)
Acquire(e) ==
    /\ pc[e] = "out"
    /\ users' = users + 1
    /\ Goto(e, IF shared # None THEN "in" ELSE "create")
    /\ UNCHANGED <<shared, remover, callback, bound, mine, left>>

(* The source address is known: the listener becomes the shared one.       *)
Create(e, l) ==
    /\ pc[e] = "create" /\ Unused(l)
    /\ mine' = [mine EXCEPT ![e] = l]
    /\ left' = [left EXCEPT ![e] = Ports]
    /\ shared' = l /\ remover' = l
    /\ callback' = [callback EXCEPT ![l] = TRUE]
    /\ Goto(e, "bind")
    /\ UNCHANGED <<users, bound>>

(* The setup is cancelled, or a socket cannot be used: the entry is not    *)
(* set up, and async_release was not registered for it yet.                *)
AcquireFails(e) ==
    /\ pc[e] \in {"create", "bind"}
    /\ Leave(e)
    /\ UNCHANGED <<users, shared, remover, callback, bound>>

(* Mutant: an unloaded entry gives up two shares.                          *)
Release_Twice(e) ==
    /\ pc[e] = "in"
    /\ Leave(e)
    /\ users' = IF users < 2 THEN 0 ELSE users - 2
    /\ IF users' > 0 \/ shared = None
       THEN UNCHANGED <<shared, remover, callback, bound>>
       ELSE /\ shared' = None /\ remover' = None
            /\ callback' = [l \in Listeners |-> callback[l] /\ l # remover]
            /\ bound' = [bound EXCEPT ![shared] = 0]

(* Mutant: every entry that is unloaded stops the listener.                *)
Release_Always(e) ==
    /\ pc[e] = "in"
    /\ Leave(e)
    /\ users' = IF users = 0 THEN 0 ELSE users - 1
    /\ IF shared = None
       THEN UNCHANGED <<shared, remover, callback, bound>>
       ELSE /\ shared' = None /\ remover' = None
            /\ callback' = [l \in Listeners |-> callback[l] /\ l # remover]
            /\ bound' = [bound EXCEPT ![shared] = 0]

(* An entry is unloaded: the last one stops the listener.                  *)
Release(e) ==
    /\ pc[e] = "in"
    /\ Leave(e)
    /\ users' = IF users = 0 THEN 0 ELSE users - 1
    /\ IF users' > 0 \/ shared = None
       THEN UNCHANGED <<shared, remover, callback, bound>>
       ELSE /\ shared' = None /\ remover' = None
            /\ callback' = [l \in Listeners |-> callback[l] /\ l # remover]
            /\ bound' = [bound EXCEPT ![shared] = 0]

-----------------------------------------------------------------------------
(* async_scan uses the running listener, or one of its own.                *)
Scan(s) ==
    /\ pc[s] = "out"
    /\ mine' = [mine EXCEPT ![s] = shared]
    /\ Goto(s, IF shared # None THEN "borrow" ELSE "create")
    /\ UNCHANGED <<users, shared, remover, callback, bound, left>>

ScanCreate(s, l) ==
    /\ pc[s] = "create" /\ Unused(l)
    /\ mine' = [mine EXCEPT ![s] = l]
    /\ left' = [left EXCEPT ![s] = Ports]
    /\ callback' = [callback EXCEPT ![l] = FALSE]
    /\ Goto(s, "bind")
    /\ UNCHANGED <<users, shared, remover, bound>>

(* Cancelled before the search proper: nothing stops the listener.         *)
ScanFails(s) ==
    /\ pc[s] \in {"create", "bind"}
    /\ Leave(s)
    /\ UNCHANGED <<users, shared, remover, callback, bound>>

(* Mutant: a scan stops the listener it used, its own or not.              *)
ScanEnds_StopsShared(s) ==
    /\ pc[s] \in {"own", "borrow"}
    /\ Leave(s)
    /\ bound' = [bound EXCEPT ![mine[s]] = 0]
    /\ UNCHANGED <<users, shared, remover, callback>>

(* Found, time over or cancelled: a listener of its own is stopped.        *)
ScanEnds(s) ==
    /\ pc[s] \in {"own", "borrow"}
    /\ Leave(s)
    /\ bound' = IF pc[s] = "own" THEN [bound EXCEPT ![mine[s]] = 0] ELSE bound
    /\ UNCHANGED <<users, shared, remover, callback>>

Next ==
    \/ \E t \in Tasks : Bind(t)
    \/ \E e \in Entries : Acquire(e) \/ AcquireFails(e) \/ Release(e)
    \/ \E s \in Scans : Scan(s) \/ ScanFails(s) \/ ScanEnds(s)
    \/ \E l \in Listeners :
          \/ \E e \in Entries : Create(e, l)
          \/ \E s \in Scans : ScanCreate(s, l)

Spec == Init /\ [][Next]_vars

-----------------------------------------------------------------------------
(* Properties.                                                             *)

(* Every entry that is set up, or about to be, is counted: whatever fails  *)
(* between two awaits, the counter is never too low.  (It may be too high: *)
(* a failed setup is not subtracted.)                                      *)
NeverUndercounted ==
    users >= Cardinality({e \in Entries : pc[e] # "out"})

(* An entry that is set up always has the shared listener, with the        *)
(* callback that follows its purifier to a new address.                    *)
Served ==
    \A e \in Entries : pc[e] = "in" => shared # None /\ callback[shared]

(* The shared listener loses no socket while it is the shared one: a scan  *)
(* that borrowed it, or failed, leaves it as it was.                       *)
SharedKeepsListening ==
    [][shared # None /\ shared' = shared => bound'[shared] >= bound[shared]]_vars

(* "While at least one purifier is set up, one listener receives the       *)
(* devices' UDP broadcasts": never two that hold sockets and the callback. *)
OneListener ==
    \A k, l \in Listeners :
        bound[k] > 0 /\ callback[k] /\ bound[l] > 0 /\ callback[l] => k = l

=============================================================================
