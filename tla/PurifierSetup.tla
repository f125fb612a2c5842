--------------------------- MODULE PurifierSetup ---------------------------
(***************************************************************************)
(* The life of one purifier entry: birdie/purifier/coordinator.py          *)
(* (BirdiePurifierCoordinator, AddressSearch), purifier/entry.py, the      *)
(* announcements of purifier/discovery.py, and the forms of config_flow.py *)
(* that change an entry.                                                   *)
(*                                                                         *)
(* Every attempt to set the entry up makes a new coordinator with a device *)
(* of its own.  The counter of rejected keys during setup and the address  *)
(* search outlive it: a search goes on for a coordinator that was          *)
(* discarded, whose device is closed by then.  Such a coordinator matters  *)
(* only through its search, so one is enough.                              *)
(*                                                                         *)
(* A key is right when the purifier has it now.  Time is counted in hours  *)
(* where the backoff of the searches needs it.                             *)
(***************************************************************************)
EXTENDS Naturals

CONSTANTS
    Hosts,          \* addresses
    Strangers,      \* those where another such device answers, unless the purifier does
    Nowhere,        \* the purifier is off; no announcement
    Limit,          \* PURIFIER_KEY_FAILURES_BEFORE_REAUTH
    MaxInterval     \* ADDRESS_SEARCH_MAX_INTERVAL, in units of the first one

ASSUME StrangersAssumption == Strangers \subseteq Hosts
ASSUME NowhereAssumption == Nowhere \notin Hosts
ASSUME LimitAssumption == Limit \in Nat \ {0}
ASSUME IntervalAssumption == MaxInterval \in Nat \ {0}

VARIABLES
    pc,             \* where the entry is
    verdict,        \* what a failed setup ends with
    reload,         \* a reload of the entry waits for its turn
    entryHost,      \* entry.data: host
    entryRight,     \* entry.data: the key is right
    host,           \* the current device's host
    devRight,       \* the current device's key is right
    up,             \* it is available
    dropping,       \* it was reconfigured and will report that it is down
    failures,       \* _key_failures of the current coordinator
    rejections,     \* DATA_SETUP_KEY_FAILURES of the entry
    since,          \* unreachable_since: none, or how long ago
    next,           \* next_search: hours until then, 0 if none
    interval,       \* interval, in hours
    searcher,       \* whose search runs: none, of the current coordinator, or stale
    staleHost,      \* the host of the discarded coordinator's device
    search,         \* where the search is
    searchRight,    \* the key it uses is right
    found,          \* the address it found
    announced,      \* the last announcement that a listener remembers
    reauth,         \* a reauthentication flow is active
    at, busy,       \* environment: the purifier's address; it refuses handshakes
    streak          \* ghost: rejections in a row, of whichever device

entryData == <<entryHost, entryRight>>
device == <<host, devRight, up, dropping>>
outage == <<since, next, interval>>
searching == <<searcher, staleHost, search, searchRight, found>>
vars == <<pc, verdict, reload, entryData, device, failures, rejections, outage,
          searching, announced, reauth, at, busy, streak>>

Attempt == {"connect", "scan", "again", "refresh"}
Running == {"platforms", "loaded", "unload"}
Idle == {"wait", "error", "off"}
HostOrNone == Hosts \cup {Nowhere}

FlagsOK ==
    /\ reload \in BOOLEAN /\ entryRight \in BOOLEAN /\ devRight \in BOOLEAN
    /\ up \in BOOLEAN /\ dropping \in BOOLEAN /\ searchRight \in BOOLEAN
    /\ reauth \in BOOLEAN /\ busy \in BOOLEAN

CountersOK ==
    /\ failures \in 0..Limit + 1 /\ rejections \in 0..Limit - 1
    /\ streak \in 0..Limit
    /\ next \in 0..MaxInterval /\ interval \in 1..MaxInterval

PlacesOK ==
    /\ pc \in Attempt \cup Running \cup Idle \cup {"close", "removed"}
    /\ verdict \in {"retry", "auth"}
    /\ since \in {"none", "recent", "long"}
    /\ entryHost \in Hosts /\ host \in Hosts
    /\ announced \in HostOrNone /\ at \in HostOrNone

SearchOK ==
    /\ searcher \in {"none", "current", "stale"}
    /\ search \in {"off", "look", "apply", "move"}
    /\ staleHost \in HostOrNone /\ found \in HostOrNone
    /\ search = "apply" => found \in Hosts
    /\ (search = "off") <=> (searcher = "none")
    /\ (searcher = "stale") <=> (staleHost # Nowhere)

TypeOK == FlagsOK /\ CountersOK /\ PlacesOK /\ SearchOK

(* Home Assistant starts, with an entry that was right when it was made.   *)
Init ==
    /\ pc = "connect" /\ verdict = "retry" /\ reload = FALSE
    /\ entryHost \in Hosts /\ entryRight \in BOOLEAN
    /\ host = entryHost /\ devRight = entryRight
    /\ up = FALSE /\ dropping = FALSE
    /\ failures = 0 /\ rejections = 0
    /\ since = "none" /\ next = 0 /\ interval = 1
    /\ searcher = "none" /\ staleHost = Nowhere
    /\ search = "off" /\ searchRight = FALSE /\ found = Nowhere
    /\ announced = Nowhere /\ reauth = FALSE
    /\ at \in HostOrNone /\ busy \in BOOLEAN
    /\ streak = 0

-----------------------------------------------------------------------------
(* What a connection attempt of the current device can result in.          *)

Accepts == at = host /\ devRight /\ ~busy
(* A busy purifier fails the handshake like one that has another key, and  *)
(* so does another device at an address that the purifier has left.        *)
CanReject == IF at = host THEN busy \/ ~devRight ELSE host \in Strangers
CanMiss == at # host \/ busy

Lesser(a, b) == IF a < b THEN a ELSE b

Rejected == streak' = Lesser(streak + 1, Limit)
NotRejected == streak' = 0

-----------------------------------------------------------------------------
(* The bookkeeping of the address search.                                  *)

NoteReachable == since' = "none" /\ next' = 0 /\ interval' = 1

SearchIsDue == search = "off" /\ since = "long" /\ next = 0

NoteUnreachable ==
    /\ since' = IF since = "none" THEN "recent" ELSE since
    /\ IF SearchIsDue
       THEN /\ next' = interval
            /\ interval' = Lesser(interval * 2, MaxInterval)
            /\ searcher' = "current" /\ search' = "look"
            /\ searchRight' = entryRight
            /\ UNCHANGED <<staleHost, found>>
       ELSE UNCHANGED <<next, interval, searching>>

(* The device reports that it is available.  The flow that asks for a key  *)
(* is not needed any more.                                                 *)
OnAvailable ==
    /\ up' = TRUE /\ dropping' = FALSE
    /\ failures' = 0
    /\ NoteReachable
    /\ reauth' = FALSE
    /\ NotRejected

-----------------------------------------------------------------------------
(* Setting the entry up.                                                   *)

(* A new coordinator, because Home Assistant retries, or reloads the entry. *)
SetupBegin ==
    /\ pc \in Idle /\ (pc = "wait" \/ reload)
    /\ pc' = "connect" /\ reload' = FALSE
    /\ host' = entryHost /\ devRight' = entryRight
    /\ failures' = 0
    /\ IF searcher = "current"
       THEN searcher' = "stale" /\ staleHost' = host
       ELSE UNCHANGED <<searcher, staleHost>>
    /\ UNCHANGED <<verdict, entryData, up, dropping, rejections, outage, search,
                   searchRight, found, announced, reauth, at, busy, streak>>

SetupConnected ==
    /\ pc \in {"connect", "again"} /\ Accepts
    /\ pc' = "refresh"
    /\ OnAvailable
    /\ rejections' = 0
    /\ UNCHANGED <<verdict, reload, entryData, host, devRight, searching, announced,
                   at, busy>>

(* Mutant: one rejection too many is needed.                               *)
SetupRejected_OffByOne ==
    /\ pc \in {"connect", "again"} /\ CanReject
    /\ pc' = "close"
    /\ IF rejections + 1 > Limit
       THEN rejections' = 0 /\ verdict' = "auth"
       ELSE rejections' = rejections + 1 /\ verdict' = "retry"
    /\ Rejected
    /\ UNCHANGED <<reload, entryData, device, failures, outage, searching, announced,
                   reauth, at, busy>>

(* A rejected key asks for a new one only after repeated rejections.       *)
SetupRejected ==
    /\ pc \in {"connect", "again"} /\ CanReject
    /\ pc' = "close"
    /\ IF rejections + 1 >= Limit
       THEN rejections' = 0 /\ verdict' = "auth"
       ELSE rejections' = rejections + 1 /\ verdict' = "retry"
    /\ Rejected
    /\ UNCHANGED <<reload, entryData, device, failures, outage, searching, announced,
                   reauth, at, busy>>

(* Nothing answers: look for an announcement.                              *)
SetupUnreachable ==
    /\ pc = "connect" /\ CanMiss
    /\ pc' = "scan"
    /\ NotRejected
    /\ UNCHANGED <<verdict, reload, entryData, device, failures, rejections, outage,
                   searching, announced, reauth, at, busy>>

GiveUp ==
    /\ pc' = "close" /\ verdict' = "retry"
    /\ NoteUnreachable

(* async_scan returns at once what the running listener remembers, and     *)
(* otherwise what it hears.                                                *)
CanHear == IF announced # Nowhere THEN {announced} ELSE {at, Nowhere}

(* Another address was announced: connect there.                           *)
SetupFollows ==
    /\ pc = "scan"
    /\ \E h \in CanHear \ {Nowhere, host} : entryHost' = h /\ host' = h
    /\ pc' = "again"
    /\ UNCHANGED <<verdict, reload, entryRight, devRight, up, dropping, failures,
                   rejections, outage, searching, announced, reauth, at, busy, streak>>

SetupNotAnnounced ==
    /\ pc = "scan" /\ CanHear \cap {Nowhere, host} # {}
    /\ GiveUp
    /\ UNCHANGED <<reload, entryData, device, failures, rejections, announced, reauth,
                   at, busy, streak>>

SetupMissed ==
    /\ pc = "again" /\ CanMiss
    /\ GiveUp
    /\ NotRejected
    /\ UNCHANGED <<reload, entryData, device, failures, rejections, announced, reauth,
                   at, busy>>

(* The first refresh; the background connection starts.                    *)
SetupRefreshed ==
    /\ pc = "refresh" /\ Accepts
    /\ pc' = "platforms"
    /\ UNCHANGED <<verdict, reload, entryData, device, failures, rejections, outage,
                   searching, announced, reauth, at, busy, streak>>

(* The connection is lost before the first refresh.                        *)
SetupLost ==
    /\ pc = "refresh" /\ ~Accepts
    /\ GiveUp
    /\ up' = FALSE
    /\ NotRejected
    /\ UNCHANGED <<reload, entryData, host, devRight, dropping, failures, rejections,
                   announced, reauth, at, busy>>

SetupDone ==
    /\ pc = "platforms"
    /\ pc' = "loaded"
    /\ UNCHANGED <<verdict, reload, entryData, device, failures, rejections, outage,
                   searching, announced, reauth, at, busy, streak>>

(* The device of a failed setup is closed.                                 *)
SetupFailed ==
    /\ pc = "close"
    /\ pc' = IF verdict = "auth" THEN "error" ELSE "wait"
    /\ reauth' = (reauth \/ verdict = "auth")
    /\ verdict' = "retry"
    /\ UNCHANGED <<reload, entryData, device, failures, rejections, outage,
                   searching, announced, at, busy, streak>>

Setup ==
    \/ SetupBegin \/ SetupConnected \/ SetupRejected \/ SetupUnreachable
    \/ SetupFollows \/ SetupNotAnnounced \/ SetupMissed
    \/ SetupRefreshed \/ SetupLost \/ SetupDone \/ SetupFailed

-----------------------------------------------------------------------------
(* The running device and its callbacks.                                   *)

(* Mutant: a purifier that comes back keeps its outage.                    *)
RunConnected_KeepOutage ==
    /\ pc \in Running /\ ~up /\ Accepts
    /\ up' = TRUE /\ dropping' = FALSE
    /\ failures' = 0 /\ reauth' = FALSE
    /\ NotRejected
    /\ UNCHANGED <<pc, verdict, reload, entryData, host, devRight, rejections, outage,
                   searching, announced, at, busy>>

(* Mutant: the flow that asks for a key is left open.                      *)
RunConnected_KeepReauth ==
    /\ pc \in Running /\ ~up /\ Accepts
    /\ up' = TRUE /\ dropping' = FALSE
    /\ failures' = 0
    /\ NoteReachable
    /\ NotRejected
    /\ UNCHANGED <<pc, verdict, reload, entryData, host, devRight, rejections,
                   searching, announced, reauth, at, busy>>

RunConnected ==
    /\ pc \in Running /\ ~up /\ Accepts
    /\ OnAvailable
    /\ UNCHANGED <<pc, verdict, reload, entryData, host, devRight, rejections,
                   searching, announced, at, busy>>

(* The connection is lost, or dropped for new settings.                    *)
RunLost ==
    /\ pc \in Running /\ up /\ (dropping \/ ~Accepts)
    /\ up' = FALSE /\ dropping' = FALSE
    /\ NoteUnreachable
    /\ UNCHANGED <<pc, verdict, reload, entryData, host, devRight, failures,
                   rejections, announced, reauth, at, busy, streak>>

(* Mutant: a purifier that is unreachable does not reset the count.        *)
RunUnreachable_KeepCount ==
    /\ pc \in Running /\ ~up /\ CanMiss
    /\ NoteUnreachable
    /\ NotRejected
    /\ UNCHANGED <<pc, verdict, reload, entryData, device, failures, rejections,
                   announced, reauth, at, busy>>

RunUnreachable ==
    /\ pc \in Running /\ ~up /\ CanMiss
    /\ failures' = 0
    /\ NoteUnreachable
    /\ NotRejected
    /\ UNCHANGED <<pc, verdict, reload, entryData, device, rejections, announced,
                   reauth, at, busy>>

(* Mutant: one rejection more is needed than can be counted.               *)
RunRejected_NeverAsks ==
    /\ pc \in Running /\ ~up /\ CanReject
    /\ failures' = Lesser(failures + 1, Limit + 1)
    /\ Rejected
    /\ UNCHANGED <<pc, verdict, reload, entryData, device, rejections, outage,
                   searching, announced, reauth, at, busy>>

(* Mutant: an answer that rejects the key counts as reachable.             *)
RunRejected_Reachable ==
    /\ pc \in Running /\ ~up /\ CanReject
    /\ failures' = Lesser(failures + 1, Limit + 1)
    /\ reauth' = (reauth \/ failures + 1 = Limit)
    /\ NoteReachable
    /\ Rejected
    /\ UNCHANGED <<pc, verdict, reload, entryData, device, rejections, searching,
                   announced, at, busy>>

(* The last rejection of a streak asks for a new key, a later one does not. *)
RunRejected ==
    /\ pc \in Running /\ ~up /\ CanReject
    /\ failures' = Lesser(failures + 1, Limit + 1)
    /\ reauth' = (reauth \/ failures + 1 = Limit)
    /\ Rejected
    /\ UNCHANGED <<pc, verdict, reload, entryData, device, rejections, outage,
                   searching, announced, at, busy>>

Run == RunConnected \/ RunLost \/ RunUnreachable \/ RunRejected

-----------------------------------------------------------------------------
(* The address search, on behalf of the coordinator that started it.       *)

SearchEnd ==
    /\ search' = "off" /\ searcher' = "none"
    /\ staleHost' = Nowhere /\ searchRight' = FALSE /\ found' = Nowhere

(* async_set_host of a coordinator whose device is open.                   *)
MoveHost(h) ==
    /\ entryHost' = h
    /\ host' = h /\ dropping' = up

SearchAnswers ==
    /\ search = "look" /\ at # Nowhere /\ searchRight /\ ~busy
    /\ search' = "apply" /\ found' = at
    /\ UNCHANGED <<pc, verdict, reload, entryData, device, failures, rejections, outage,
                   searcher, staleHost, searchRight, announced, reauth, at, busy, streak>>

SearchFails ==
    /\ search = "look" /\ (at = Nowhere \/ ~searchRight \/ busy)
    /\ SearchEnd
    /\ UNCHANGED <<pc, verdict, reload, entryData, device, failures, rejections, outage,
                   announced, reauth, at, busy, streak>>

SearcherOpen == searcher = "current" /\ pc \notin Idle \cup {"close"}
SearcherHost == IF searcher = "current" THEN host ELSE staleHost

(* The entry was removed meanwhile, or it is loaded and needs no change.   *)
Reloads == reload' = (reload \/ pc \notin {"loaded", "removed"})

(* Mutant: a coordinator whose device is closed leaves the entry as it is. *)
SearchApplies_OpenOnly ==
    /\ search = "apply"
    /\ IF pc # "removed" /\ found # SearcherHost /\ SearcherOpen
       THEN /\ MoveHost(found)
            /\ search' = "move"
            /\ UNCHANGED <<reload, searcher, staleHost, searchRight, found>>
       ELSE /\ Reloads /\ SearchEnd
            /\ UNCHANGED <<entryHost, host, dropping>>
    /\ UNCHANGED <<pc, verdict, entryRight, devRight, up, failures, rejections, outage,
                   announced, reauth, at, busy, streak>>

(* Found: the coordinator that searched moves there, and the entry.  When  *)
(* its device is open, that awaits the end of the old connection.          *)
SearchApplies ==
    /\ search = "apply"
    /\ LET moves == pc # "removed" /\ found # SearcherHost
       IN  IF moves /\ SearcherOpen
           THEN /\ MoveHost(found)
                /\ search' = "move"
                /\ UNCHANGED <<reload, searcher, staleHost, searchRight, found>>
           ELSE /\ entryHost' = IF moves THEN found ELSE entryHost
                /\ Reloads /\ SearchEnd
                /\ UNCHANGED <<host, dropping>>
    /\ UNCHANGED <<pc, verdict, entryRight, devRight, up, failures, rejections, outage,
                   announced, reauth, at, busy, streak>>

SearchMoved ==
    /\ search = "move"
    /\ Reloads /\ SearchEnd
    /\ UNCHANGED <<pc, verdict, entryData, device, failures, rejections, outage,
                   announced, reauth, at, busy, streak>>

Search == SearchAnswers \/ SearchFails \/ SearchApplies \/ SearchMoved

-----------------------------------------------------------------------------
(* Announcements, the user, and time.                                      *)

(* The purifier announces its address.  A loaded entry with another one    *)
(* moves there.                                                            *)
Announce ==
    /\ at # Nowhere
    /\ announced' = at
    /\ IF pc \in Running /\ at # entryHost /\ at # host
       THEN MoveHost(at)
       ELSE UNCHANGED <<entryHost, host, dropping>>
    /\ UNCHANGED <<pc, verdict, reload, entryRight, devRight, up, failures, rejections,
                   outage, searching, reauth, at, busy, streak>>

(* The listener that remembered the announcement is stopped.               *)
Forget ==
    /\ announced # Nowhere
    /\ announced' = Nowhere
    /\ UNCHANGED <<pc, verdict, reload, entryData, device, failures, rejections, outage,
                   searching, reauth, at, busy, streak>>

(* The entry is unloaded for a reload: its device is closed.               *)
UnloadBegin ==
    /\ pc = "loaded" /\ reload
    /\ pc' = "unload"
    /\ UNCHANGED <<verdict, reload, entryData, device, failures, rejections, outage,
                   searching, announced, reauth, at, busy, streak>>

Unloaded ==
    /\ pc = "unload"
    /\ pc' = "off"
    /\ up' = FALSE /\ dropping' = FALSE
    /\ UNCHANGED <<verdict, reload, entryData, host, devRight, failures, rejections,
                   outage, searching, announced, reauth, at, busy, streak>>

(* The user enters the new key: it is checked at the entry's address.      *)
Reauthenticate ==
    /\ reauth /\ pc # "removed"
    /\ at = entryHost /\ ~busy
    /\ entryRight' = TRUE
    /\ reauth' = FALSE /\ reload' = TRUE
    /\ UNCHANGED <<pc, verdict, entryHost, device, failures, rejections, outage,
                   searching, announced, at, busy, streak>>

(* The user changes the address, the key, or both, after a check.          *)
UserReconfigures ==
    /\ pc # "removed"
    /\ at # Nowhere /\ ~busy
    /\ entryHost' = at /\ entryRight' = TRUE
    /\ reload' = TRUE
    /\ UNCHANGED <<pc, verdict, device, failures, rejections, outage, searching,
                   announced, reauth, at, busy, streak>>

(* The user removes the entry, which closes its flows.                     *)
Remove ==
    /\ pc \in Idle
    /\ pc' = "removed"
    /\ reload' = FALSE /\ reauth' = FALSE
    /\ UNCHANGED <<verdict, entryData, device, failures, rejections, outage, searching,
                   announced, at, busy, streak>>

(* ADDRESS_SEARCH_AFTER has passed; an hour has passed.                    *)
SinceTimer ==
    /\ since = "recent"
    /\ since' = "long"
    /\ UNCHANGED <<pc, verdict, reload, entryData, device, failures, rejections, next,
                   interval, searching, announced, reauth, at, busy, streak>>

HourPasses ==
    /\ next > 0
    /\ next' = next - 1
    /\ UNCHANGED <<pc, verdict, reload, entryData, device, failures, rejections, since,
                   interval, searching, announced, reauth, at, busy, streak>>

(* The purifier moves, is switched off or on, becomes or ceases to be busy, *)
(* or is paired again, which gives it a new key.                           *)
Environment ==
    /\ \/ at' \in HostOrNone \ {at} /\ UNCHANGED <<busy, entryRight, devRight, searchRight>>
       \/ busy' = ~busy /\ UNCHANGED <<at, entryRight, devRight, searchRight>>
       \/ /\ entryRight' = FALSE /\ devRight' = FALSE /\ searchRight' = FALSE
          /\ UNCHANGED <<at, busy>>
    /\ UNCHANGED <<pc, verdict, reload, entryHost, host, up, dropping, failures,
                   rejections, outage, searcher, staleHost, search, found, announced,
                   reauth, streak>>

Next ==
    \/ Setup \/ Run \/ Search
    \/ Announce \/ Forget
    \/ UnloadBegin \/ Unloaded
    \/ Reauthenticate \/ UserReconfigures \/ Remove
    \/ SinceTimer \/ HourPasses
    \/ Environment

Spec == Init /\ [][Next]_vars

(* Attempts end, Home Assistant retries and reloads, the device keeps      *)
(* trying, a search ends, and time passes.  Nothing is ever announced, and *)
(* the user does nothing.                                                  *)
Fairness ==
    /\ WF_vars(Setup) /\ WF_vars(Run) /\ WF_vars(Search)
    /\ WF_vars(UnloadBegin) /\ WF_vars(Unloaded)
    /\ WF_vars(SinceTimer) /\ WF_vars(HourPasses)

FairSpec == Spec /\ Fairness

-----------------------------------------------------------------------------
(* Properties.                                                             *)

(* While the purifier is connected nobody is asked for its key: a flow     *)
(* that was started while it was busy, during whichever setup, is gone.    *)
NoNeedlessReauth == up => ~reauth

(* While the purifier is connected it counts as reachable, and the next    *)
(* outage starts with the first waiting time.                              *)
OutageFromScratch == up => since = "none" /\ next = 0 /\ interval = 1

(* "Consecutive key rejections before asking the user": of a running       *)
(* device, the key is asked for only when the last attempts were all       *)
(* rejected.                                                               *)
RunningReauthIsConsecutive ==
    [][~reauth /\ reauth' /\ pc \in Running => streak' = Limit]_vars

(* "It follows configured purifiers to a new address": after a loaded      *)
(* purifier has announced its address, its device uses it.                 *)
FollowsAnnouncements ==
    [][Announce /\ pc = "loaded" /\ ~reload => host' = at]_vars

(* "When the purifier gets a new IP address, Home Assistant finds it again *)
(* on its own": without any announcement, a purifier that stays at an      *)
(* address and has the entry's key is connected again and again, unless    *)
(* the entry failed for its key and waits for the user.  Where another     *)
(* device answers at the old address, its rejections may make Home         *)
(* Assistant ask for a key instead: a rejected key is not searched for.    *)
FoundAgain ==
    (\E h \in Hosts : <>[](at = h /\ ~busy /\ entryRight /\ pc # "removed"))
        => []<>(\/ pc = "loaded" /\ up
                \/ pc = "error"
                \/ reauth /\ host \in Strangers)

(* "Home Assistant then asks for the new key": a purifier that keeps       *)
(* rejecting the key, at the address the device uses, makes it ask.        *)
AsksForKey ==
    <>[](at = host /\ ~busy /\ ~entryRight /\ pc # "removed") => <>[]reauth

=============================================================================
