----------------------------- MODULE LanSearch -----------------------------
(***************************************************************************)
(* The search for a purifier that does not announce itself:                *)
(* birdie/lan/search.py, async_search_network of purifier/discovery.py,    *)
(* and the counter of keys kept out of the log, birdie/lan/redact.py.      *)
(*                                                                         *)
(* A search lists the addresses that accept connections and tries each     *)
(* with a LanDevice of its own, at most Concurrency at a time.  The first  *)
(* that accepts the key ends the search, which then cancels the others and *)
(* waits for them.  A cancelled attempt closes its device; an attempt that *)
(* is cancelled while it closes its device leaves that undone.             *)
(*                                                                         *)
(* The devices of this module are those of LanDevice.tla with their        *)
(* connection and close reduced to what an attempt sees of them.  What a   *)
(* task that has ended knew is forgotten, except its result.               *)
(***************************************************************************)
EXTENDS Naturals, FiniteSets

CONSTANTS
    Searches,       \* tasks that may run a search
    Hosts,          \* the addresses on the networks
    NoHost,         \* no address
    Concurrency     \* TRY_CONCURRENCY

ASSUME NoHostAssumption == NoHost \notin Hosts
ASSUME ConcurrencyAssumption == Concurrency \in Nat \ {0}
ASSUME FiniteAssumption == IsFiniteSet(Searches) /\ IsFiniteSet(Hosts)

VARIABLES
    task,           \* where each search is
    goal,           \* the address at which the ID and key would be accepted
    result,         \* what it returns: an address or none
    attempt,        \* where its attempt at each address is, if there is one
    accepted,       \* the addresses at which an attempt of it was accepted
    worker,         \* the worker thread of each attempt's device
    secrets         \* the Counter of redact.py for the key that is searched with

searchVars == <<task, goal, result, attempt, accepted, worker, secrets>>

Closing == {"drop", "join"}
Active == {"open"} \cup Closing
Running == {"ports", "trying", "ending"}
Threads == {"open", "ready"}

SearchTypeOK ==
    /\ task \in [Searches -> {"off", "over"} \cup Running]
    /\ goal \in [Searches -> Hosts \cup {NoHost}]
    /\ result \in [Searches -> Hosts \cup {NoHost}]
    /\ attempt \in [Searches -> [Hosts -> {"none", "queued"} \cup Active]]
    /\ accepted \in [Searches -> SUBSET Hosts]
    /\ worker \in [Searches -> [Hosts -> {"none"} \cup Threads]]
    /\ secrets \in Nat

SearchInit ==
    /\ task = [s \in Searches |-> "off"]
    /\ goal = [s \in Searches |-> NoHost]
    /\ result = [s \in Searches |-> NoHost]
    /\ attempt = [s \in Searches |-> [h \in Hosts |-> "none"]]
    /\ accepted = [s \in Searches |-> {}]
    /\ worker = [s \in Searches |-> [h \in Hosts |-> "none"]]
    /\ secrets = 0

-----------------------------------------------------------------------------
(* Asyncio: what cancelling the attempts of some searches does.  One that  *)
(* waits for its turn makes no device.  One that connects goes on to close *)
(* its device, whose worker may still be connecting.  One that is closing  *)
(* it already is torn out of that: nobody unregisters the key, and the     *)
(* worker, if it is still connecting, ends by itself.                      *)

CancelledAttempt(a) == IF a = "open" THEN "drop" ELSE "none"

LeftBehind(a, w) == IF a \in Closing /\ w = "ready" THEN "none" ELSE w

CancelAttempts(S) ==
    /\ attempt' = [s \in Searches |-> [h \in Hosts |->
                      IF s \in S THEN CancelledAttempt(attempt[s][h]) ELSE attempt[s][h]]]
    /\ worker' = [s \in Searches |-> [h \in Hosts |->
                      IF s \in S THEN LeftBehind(attempt[s][h], worker[s][h]) ELSE worker[s][h]]]

(* The caller starts a search for a device that accepts the key at g.      *)
(* Workers that an earlier search left behind have timed out by then.      *)
CanStart(s) ==
    task[s] \notin Running /\ \A h \in Hosts : worker[s][h] \notin Threads

StartSearch(s, g) ==
    /\ task' = [task EXCEPT ![s] = "ports"]
    /\ goal' = [goal EXCEPT ![s] = g]
    /\ result' = [result EXCEPT ![s] = NoHost]
    /\ UNCHANGED <<attempt, accepted, worker, secrets>>

(* task.cancel() on some searches.  One that looks for open ports has      *)
(* nothing to clean up; while one cleans up, its wait for the attempts     *)
(* passes the cancellation on to them and goes on.                         *)
CancelledTask(t) ==
    CASE t = "ports" -> "over"
      [] t \in {"trying", "ending"} -> "ending"
      [] OTHER -> t

CancelSearches(S) ==
    /\ task' = [s \in Searches |-> IF s \in S THEN CancelledTask(task[s]) ELSE task[s]]
    /\ result' = [s \in Searches |-> IF s \in S THEN NoHost ELSE result[s]]
    /\ CancelAttempts({s \in S : task[s] \in {"trying", "ending"}})
    /\ goal' = [s \in Searches |-> IF task'[s] = "over" THEN NoHost ELSE goal[s]]
    /\ UNCHANGED accepted

-----------------------------------------------------------------------------
(* The function returns or raises.                                         *)
Over(s) ==
    /\ task' = [task EXCEPT ![s] = "over"]
    /\ goal' = [goal EXCEPT ![s] = NoHost]
    /\ accepted' = [accepted EXCEPT ![s] = {}]
    /\ UNCHANGED <<result, attempt, worker, secrets>>

(* No network adapter is enabled, or no address accepts a connection.      *)
NoCandidates(s) == task[s] = "ports" /\ Over(s)

Candidates(s) ==
    /\ task[s] = "ports"
    /\ \E open \in SUBSET Hosts \ {{}} :
          attempt' = [attempt EXCEPT ![s] =
                        [h \in Hosts |-> IF h \in open THEN "queued" ELSE "none"]]
    /\ task' = [task EXCEPT ![s] = "trying"]
    /\ UNCHANGED <<goal, result, accepted, worker, secrets>>

(* The attempt gets the semaphore, makes its device, which registers the   *)
(* key, and lets the worker connect.                                       *)
TryHost(s, h) ==
    /\ attempt[s][h] = "queued"
    /\ Cardinality({i \in Hosts : attempt[s][i] \in Active}) < Concurrency
    /\ attempt' = [attempt EXCEPT ![s][h] = "open"]
    /\ worker' = [worker EXCEPT ![s][h] = "open"]
    /\ secrets' = secrets + 1
    /\ UNCHANGED <<task, goal, result, accepted>>

(* The worker has connected, or not.  An attempt that still waits for it   *)
(* takes the result and closes its device; if the attempt was torn out of  *)
(* its close, the device is garbage and goes with its worker.              *)
WorkerConnected(s, h) ==
    /\ worker[s][h] = "open"
    /\ worker' = [worker EXCEPT ![s][h] = IF attempt[s][h] = "none" THEN "none" ELSE "ready"]
    /\ \/ UNCHANGED accepted
       \/ /\ attempt[s][h] = "open" /\ h = goal[s]
          /\ accepted' = [accepted EXCEPT ![s] = @ \cup {h}]
    /\ attempt' = [attempt EXCEPT ![s][h] = IF @ = "open" THEN "drop" ELSE @]
    /\ UNCHANGED <<task, goal, result, secrets>>

(* The steps of async_close: the worker drops the connection and ends.     *)
CloseDrops_Unregisters(s, h) ==
    /\ attempt[s][h] = "drop" /\ worker[s][h] = "ready"
    /\ attempt' = [attempt EXCEPT ![s][h] = "join"]
    /\ secrets' = secrets - 1
    /\ UNCHANGED <<task, goal, result, accepted, worker>>

CloseDrops(s, h) ==
    /\ attempt[s][h] = "drop" /\ worker[s][h] = "ready"
    /\ attempt' = [attempt EXCEPT ![s][h] = "join"]
    /\ UNCHANGED <<task, goal, result, accepted, worker, secrets>>

CloseEnds(s, h) ==
    /\ attempt[s][h] = "join"
    /\ worker' = [worker EXCEPT ![s][h] = "none"]
    /\ attempt' = [attempt EXCEPT ![s][h] = "none"]
    /\ secrets' = secrets - 1
    /\ UNCHANGED <<task, goal, result, accepted>>

AllEnded(s) == \A h \in Hosts : attempt[s][h] = "none"

(* as_completed yields an attempt that was accepted.                       *)
FoundAt(s, h) ==
    /\ task[s] = "trying"
    /\ h \in accepted[s] /\ attempt[s][h] = "none"
    /\ task' = [task EXCEPT ![s] = "ending"]
    /\ result' = [result EXCEPT ![s] = h]
    /\ CancelAttempts({s})
    /\ UNCHANGED <<goal, accepted, secrets>>

NotFound(s) ==
    task[s] = "trying" /\ AllEnded(s) /\ accepted[s] = {} /\ Over(s)

(* The wait for the cancelled attempts ends.                               *)
CleanedUp_NoWait(s) == task[s] = "ending" /\ Over(s)
CleanedUp(s) == task[s] = "ending" /\ AllEnded(s) /\ Over(s)

AttemptStep(s, h) ==
    TryHost(s, h) \/ WorkerConnected(s, h) \/ CloseDrops(s, h) \/ CloseEnds(s, h)

SearchStep(s) ==
    \/ NoCandidates(s) \/ Candidates(s) \/ NotFound(s) \/ CleanedUp(s)
    \/ \E h \in Hosts : FoundAt(s, h) \/ AttemptStep(s, h)

-----------------------------------------------------------------------------
(* Properties.                                                             *)

(* A search that is over, however it ended and however often it was        *)
(* cancelled, leaves no attempt behind: async_find_device waits for them.  *)
OverIsOver == \A s \in Searches : task[s] \notin Running => AllEnded(s)

=============================================================================
