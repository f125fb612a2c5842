------------------------- MODULE ConfigFlowProofs -------------------------
(***************************************************************************)
(* Safety of ConfigFlow, with the searches of LanSearch, for any finite    *)
(* number of flows and addresses, any devices, any bound on submissions.   *)
(***************************************************************************)
EXTENDS ConfigFlow, FiniteSetTheorems, TLAPS

(* SearchTypeOK without the counter of keys, which KeyRegistered is about. *)
SearchShape ==
    /\ task \in [Searches -> {"off", "over"} \cup Running]
    /\ goal \in [Searches -> Hosts \cup {NoHost}]
    /\ result \in [Searches -> Hosts \cup {NoHost}]
    /\ attempt \in [Searches -> [Hosts -> {"none", "queued"} \cup Active]]
    /\ accepted \in [Searches -> SUBSET Hosts]

FlowShape ==
    /\ step \in [Flows -> {"off"} \cup Forms \cup Progress]
    /\ handler \in [Flows -> {"idle", "lookup", "check"}]
    /\ flow \in [Flows -> Objects]
    /\ entry \in [Ids -> Addresses]

(* Attempts exist only while their search tries addresses or cleans up,    *)
(* and only the address it is for accepts one.                             *)
SearchOK(s) ==
    /\ task[s] \notin {"trying", "ending"} => AllEnded(s) /\ accepted[s] = {}
    /\ accepted[s] \subseteq {goal[s]}

(* What a flow looks into: some device, or one that announced itself as a  *)
(* Podium.                                                                 *)
Asked(f) == flow[f].input \in Inputs /\ flow[f].input.id \in Ids
ForPodium(f) == flow[f].input.id \in Podiums

(* Where a search of the flow looks, and what it found, is where the       *)
(* device is that the flow looks into.                                     *)
Aimed(f) ==
    /\ Asked(f) /\ flow[f].search = "running"
    /\ goal[f] \in {NoHost, At[flow[f].input.id]}
    /\ result[f] \in {NoHost, At[flow[f].input.id]}

FlowOK(f) ==
    /\ handler[f] # "idle" => step[f] \in {"off", "key", "manual"}
    /\ handler[f] # "idle" => Asked(f)
    /\ handler[f] = "check" /\ flow[f].trusted => ForPodium(f)
    /\ step[f] = "key" => Asked(f) /\ ForPodium(f)
    /\ step[f] = "again" => flow[f].search # "none"
    /\ step[f] \in {"search", "found"} => Aimed(f)
    /\ step[f] = "found" => ForPodium(f) /\ result[f] # NoHost

SearchInv == SearchShape /\ \A s \in Searches : SearchOK(s)
FlowInv == FlowShape /\ \A f \in Flows : FlowOK(f)

IInv == SearchInv /\ FlowInv

USE NoHostAssumption, PodiumsAssumption, AtAssumption, NoIdAssumption, NoneAssumption

-----------------------------------------------------------------------------
LEMMA IInvInit == Init => IInv
<1> SUFFICES ASSUME Init PROVE IInv
  OBVIOUS
<1>1. SearchInv
  BY DEF Init, SearchInit, SearchInv, SearchShape, SearchOK, AllEnded, Running, Active
<1>2. NoFlow \in Objects
  BY DEF NoFlow, Objects, Addresses
<1>3. FlowShape
  BY <1>2 DEF Init, FlowShape, Forms, Progress, Addresses
<1>4. \A f \in Flows : FlowOK(f)
  BY DEF Init, FlowOK
<1> QED
  BY <1>1, <1>3, <1>4 DEF IInv, FlowInv

-----------------------------------------------------------------------------
(* The search: its own steps, its start and its cancellation.              *)

LEMMA CancelAttemptsKeeps ==
  ASSUME SearchShape, NEW S, CancelAttempts(S)
  PROVE  /\ attempt' \in [Searches -> [Hosts -> {"none", "queued"} \cup Active]]
         /\ \A s \in Searches : AllEnded(s) => AllEnded(s)'
BY DEF SearchShape, CancelAttempts, CancelledAttempt, AllEnded, Active, Closing

LEMMA SearchStepKeeps ==
  ASSUME SearchInv, NEW s \in Searches, SearchStep(s)
  PROVE  /\ SearchInv'
         /\ \A r \in Searches \ {s} : goal'[r] = goal[r] /\ result'[r] = result[r]
         /\ goal'[s] \in {NoHost, goal[s]}
         /\ \/ result'[s] = result[s]
            \/ result'[s] \in Hosts /\ result'[s] = goal[s]
<1> DEFINE Goal == /\ SearchInv'
                   /\ \A r \in Searches \ {s} : goal'[r] = goal[r] /\ result'[r] = result[r]
                   /\ goal'[s] \in {NoHost, goal[s]}
                   /\ \/ result'[s] = result[s]
                      \/ result'[s] \in Hosts /\ result'[s] = goal[s]
<1> USE DEF SearchInv, SearchShape, SearchOK, AllEnded, Running, Active, Closing
<1>1. ASSUME NoCandidates(s) \/ NotFound(s) \/ CleanedUp(s) PROVE Goal
  <2>1. AllEnded(s) /\ Over(s)
    BY <1>1 DEF NoCandidates, NotFound, CleanedUp
  <2>2. SearchShape'
    BY <2>1 DEF Over
  <2>3. \A r \in Searches : SearchOK(r)'
    BY <2>1 DEF Over
  <2> QED
    BY <2>1, <2>2, <2>3 DEF Over
<1>2. ASSUME Candidates(s) PROVE Goal
  BY <1>2 DEF Candidates
<1>3. ASSUME NEW h \in Hosts, FoundAt(s, h) PROVE Goal
  <2>1. /\ attempt' \in [Searches -> [Hosts -> {"none", "queued"} \cup Active]]
        /\ \A r \in Searches : AllEnded(r) => AllEnded(r)'
    BY <1>3, CancelAttemptsKeeps DEF FoundAt
  <2> QED
    BY <1>3, <2>1 DEF FoundAt
<1>4. ASSUME NEW h \in Hosts, TryHost(s, h) PROVE Goal
  BY <1>4 DEF TryHost
<1>5. ASSUME NEW h \in Hosts, WorkerConnected(s, h) PROVE Goal
  BY <1>5 DEF WorkerConnected
<1>6. ASSUME NEW h \in Hosts, CloseDrops(s, h) PROVE Goal
  BY <1>6 DEF CloseDrops
<1>7. ASSUME NEW h \in Hosts, CloseEnds(s, h) PROVE Goal
  BY <1>7 DEF CloseEnds
<1> HIDE DEF Goal
<1>8. Goal
  BY <1>1, <1>2, <1>3, <1>4, <1>5, <1>6, <1>7 DEF SearchStep, AttemptStep
<1> QED
  BY <1>8 DEF Goal

LEMMA StartKeeps ==
  ASSUME SearchInv, NEW s \in Searches, NEW g \in Hosts \cup {NoHost},
         CanStart(s), StartSearch(s, g)
  PROVE  /\ SearchInv'
         /\ \A r \in Searches \ {s} : goal'[r] = goal[r] /\ result'[r] = result[r]
         /\ goal'[s] = g /\ result'[s] = NoHost
BY DEF SearchInv, SearchShape, SearchOK, AllEnded, Running, CanStart, StartSearch

LEMMA CancelKeeps ==
  ASSUME SearchInv, NEW S \in SUBSET Searches, CancelSearches(S)
  PROVE  /\ SearchInv'
         /\ \A s \in Searches : goal'[s] \in {NoHost, goal[s]}
         /\ \A s \in Searches \ S : result'[s] = result[s]
         /\ \A s \in S : task'[s] \notin {"ports", "trying"}
<1> USE DEF SearchInv, SearchShape
<1>1. /\ attempt' \in [Searches -> [Hosts -> {"none", "queued"} \cup Active]]
      /\ \A r \in Searches : AllEnded(r) => AllEnded(r)'
  BY CancelAttemptsKeeps DEF CancelSearches
<1>2. /\ task' \in [Searches -> {"off", "over"} \cup Running]
      /\ \A s \in Searches : task'[s] = IF s \in S THEN CancelledTask(task[s]) ELSE task[s]
  BY DEF CancelSearches, CancelledTask, Running
<1>3. SearchShape'
  BY <1>1, <1>2 DEF CancelSearches
<1>4. \A s \in Searches : SearchOK(s)'
  BY <1>1, <1>2 DEF CancelSearches, CancelledTask, SearchOK, Running
<1>5. \A s \in S : task'[s] \notin {"ports", "trying"}
  BY <1>2 DEF CancelledTask, Running
<1> QED
  BY <1>3, <1>4, <1>5 DEF CancelSearches

-----------------------------------------------------------------------------
(* Home Assistant removes flows.                                           *)

LEMMA RemoveKeeps ==
  ASSUME SearchInv, FlowShape, NEW F \in SUBSET Flows, NEW f, NEW o \in Objects,
         Remove(F, f, o)
  PROVE  /\ SearchInv'
         /\ step' \in [Flows -> {"off"} \cup Forms \cup Progress]
         /\ flow' \in [Flows -> Objects]
         /\ \A g \in Flows : goal'[g] \in {NoHost, goal[g]}
         /\ \A g \in Flows : step'[g] # "off" => step'[g] = step[g] /\ result'[g] = result[g]
         /\ \A g \in Flows : step'[g] = "off" <=> step[g] = "off" \/ g \in F
         /\ \A g \in Flows \ {f} : step'[g] # "off" \/ handler[g] # "idle" => flow'[g] = flow[g]
         /\ f \in Flows /\ step'[f] # "off" => flow'[f] = o
         /\ \A g \in F \ {f} : flow[g].search = "running" => task'[g] \notin {"ports", "trying"}
<1> DEFINE S == {g \in F \ {f} : flow[g].search = "running"}
<1>1. S \in SUBSET Searches /\ CancelSearches(S)
  BY DEF Remove, Flows
<1>2. /\ SearchInv'
      /\ \A s \in Searches : goal'[s] \in {NoHost, goal[s]}
      /\ \A s \in Searches \ S : result'[s] = result[s]
      /\ \A s \in S : task'[s] \notin {"ports", "trying"}
  <2> HIDE DEF S
  <2> QED
    BY <1>1, CancelKeeps
<1>3. NoFlow \in Objects
  BY DEF NoFlow, Objects, Addresses
<1>4. /\ step' \in [Flows -> {"off"} \cup Forms \cup Progress]
      /\ \A g \in Flows : step'[g] = IF g \in F THEN "off" ELSE step[g]
  BY DEF Remove, FlowShape
<1>5. \A g \in Flows : flow'[g] = CASE g = f -> IF step'[f] = "off" THEN NoFlow ELSE o
                                   [] g \in F /\ handler[g] = "idle" -> NoFlow
                                   [] OTHER -> flow[g]
  BY DEF Remove
<1>6. flow' \in [Flows -> Objects]
  <2>1. flow' = [g \in Flows |-> flow'[g]]
    BY DEF Remove
  <2>2. \A g \in Flows : flow'[g] \in Objects
    BY <1>3, <1>5 DEF FlowShape
  <2> QED
    BY <2>1, <2>2
<1>7. \A g \in Flows : step'[g] # "off" => step'[g] = step[g] /\ result'[g] = result[g]
  BY <1>2, <1>4 DEF Flows
<1>8. \A g \in Flows \ {f} : step'[g] # "off" \/ handler[g] # "idle" => flow'[g] = flow[g]
  BY <1>4, <1>5
<1> QED
  BY <1>2, <1>4, <1>5, <1>6, <1>7, <1>8 DEF Flows

(* What no step may do, as a relation of two states.                       *)
Proven == \A d \in Ids : entry[d] = NoHost /\ entry'[d] # NoHost =>
             d \in Podiums /\ entry'[d] = At[d]

Kept == \A d \in Ids :
           Configured(d) /\ entry'[d] \notin {entry[d], NoHost} => step' = step

Stopped == \A f \in Flows : step[f] = "search" /\ step'[f] = "off" =>
              task'[f] \notin {"ports", "trying"}

Good == IInv' /\ Proven /\ Kept /\ Stopped

(* Flows that another flow's step removes, or leaves alone.                *)
LEMMA RemoveOthers ==
  ASSUME SearchInv, FlowInv, NEW F \in SUBSET Flows, NEW f, NEW o \in Objects,
         Remove(F, f, o), NEW g \in Flows \ {f}, handler'[g] = handler[g]
  PROVE  FlowOK(g)' /\ (step[g] = "search" /\ step'[g] = "off" =>
                          task'[g] \notin {"ports", "trying"})
<1>1. /\ goal'[g] \in {NoHost, goal[g]}
      /\ step'[g] # "off" => step'[g] = step[g] /\ result'[g] = result[g]
      /\ step'[g] = "off" <=> step[g] = "off" \/ g \in F
      /\ step'[g] # "off" \/ handler[g] # "idle" => flow'[g] = flow[g]
      /\ g \in F /\ flow[g].search = "running" => task'[g] \notin {"ports", "trying"}
  BY RemoveKeeps DEF FlowInv
<1>2. FlowOK(g)
  BY DEF FlowInv
<1>3. FlowOK(g)'
  BY <1>1, <1>2 DEF FlowOK, Asked, ForPodium, Aimed
<1>4. step[g] = "search" => flow[g].search = "running"
  BY <1>2 DEF FlowOK, Aimed
<1> QED
  BY <1>1, <1>3, <1>4

(* A flow ends and makes an entry, or is aborted, or was removed before.   *)
LEMMA CreateKeeps ==
  ASSUME IInv, NEW f \in Flows, NEW o \in Objects, NEW h,
         o.input.id \in Podiums, h = At[o.input.id], step[f] # "search",
         CreatePurifier(f, o, h), handler' = [handler EXCEPT ![f] = "idle"]
  PROVE  Good
<1> DEFINE d == o.input.id
           others == {g \in Flows : flow[g].uniqueId = d /\ step[g] # "off"}
<1>1. PICK F \in SUBSET Flows :
         /\ Remove(F, f, o)
         /\ step[f] = "off" \/ f \in F
  BY DEF CreatePurifier
<1>2. /\ entry' = entry \/ (~Configured(d) /\ entry' = [entry EXCEPT ![d] = h])
      /\ d \in Ids /\ h \in Hosts
  BY DEF CreatePurifier
<1> HIDE DEF d, others
<1> USE DEF IInv
<1>3. /\ SearchInv'
      /\ step' \in [Flows -> {"off"} \cup Forms \cup Progress]
      /\ flow' \in [Flows -> Objects]
      /\ step'[f] = "off"
  BY <1>1, RemoveKeeps DEF FlowInv
<1>4. handler' \in [Flows -> {"idle", "lookup", "check"}] /\ handler'[f] = "idle"
      /\ \A g \in Flows \ {f} : handler'[g] = handler[g]
  BY DEF FlowInv, FlowShape
<1>5. entry' \in [Ids -> Addresses]
  BY <1>2 DEF FlowInv, FlowShape, Addresses
<1>6. \A g \in Flows \ {f} :
         FlowOK(g)' /\ (step[g] = "search" /\ step'[g] = "off" =>
                          task'[g] \notin {"ports", "trying"})
  BY <1>1, <1>4, RemoveOthers
<1>7. FlowOK(f)'
  BY <1>3, <1>4 DEF FlowOK
<1>8. FlowInv'
  BY <1>3, <1>4, <1>5, <1>6, <1>7 DEF FlowInv, FlowShape
<1>9. Proven
  BY <1>2 DEF Proven, Configured, FlowInv, FlowShape, d
<1>10. Kept
  BY <1>2 DEF Kept, Configured, FlowInv, FlowShape
<1>11. Stopped
  BY <1>6 DEF Stopped
<1> QED
  BY <1>3, <1>8, <1>9, <1>10, <1>11 DEF Good

-----------------------------------------------------------------------------
(* Steps that remove no flow and leave the searches alone.                 *)

LEMMA SearchSame ==
  ASSUME SearchInv, UNCHANGED <<task, goal, result, attempt, accepted>>
  PROVE  SearchInv'
BY DEF SearchInv, SearchShape, SearchOK, AllEnded

(* One flow goes to another step or handler, with an object of its own.    *)
LEMMA LocalKeeps ==
  ASSUME IInv, NEW f \in Flows, NEW s \in Forms \cup Progress \cup {"off"},
         NEW h \in {"idle", "lookup", "check"}, NEW o \in Objects,
         UNCHANGED <<task, goal, result, attempt, accepted, entry>>,
         step' = [step EXCEPT ![f] = s], handler' = [handler EXCEPT ![f] = h],
         flow' = [flow EXCEPT ![f] = o],
         FlowOK(f)', s # "off" \/ step[f] = "off"
  PROVE  Good
<1> USE DEF IInv, FlowInv, FlowShape
<1>1. SearchInv'
  BY SearchSame
<1>2. FlowShape'
  OBVIOUS
<1>3. \A g \in Flows \ {f} :
         /\ step'[g] = step[g] /\ handler'[g] = handler[g] /\ flow'[g] = flow[g]
         /\ goal'[g] = goal[g] /\ result'[g] = result[g]
  OBVIOUS
<1>4. \A g \in Flows \ {f} : FlowOK(g)'
  <2> SUFFICES ASSUME NEW g \in Flows \ {f} PROVE FlowOK(g)'
    OBVIOUS
  <2>1. FlowOK(g)
    OBVIOUS
  <2> QED
    BY <1>3, <2>1 DEF FlowOK, Asked, ForPodium, Aimed
<1>5. Proven /\ Kept
  BY DEF Proven, Kept, Configured
<1>6. Stopped
  BY DEF Stopped
<1> QED
  BY <1>1, <1>2, <1>4, <1>5, <1>6 DEF Good

LEMMA Alone ==
  ASSUME IInv, NEW f \in Flows
  PROVE  /\ [step EXCEPT ![f] = step[f]] = step
         /\ [handler EXCEPT ![f] = handler[f]] = handler
         /\ [flow EXCEPT ![f] = flow[f]] = flow
         /\ step[f] \in Forms \cup Progress \cup {"off"}
         /\ handler[f] \in {"idle", "lookup", "check"}
         /\ flow[f] \in Objects /\ FlowOK(f)
BY DEF IInv, FlowInv, FlowShape

LEMMA UserBeginsKeeps ==
  ASSUME IInv, NEW f \in Flows, UserBegins(f)
  PROVE  Good
<1>1. FlowOK(f)'
  BY Alone DEF UserBegins, CanBegin, Show, searchVars, FlowOK, IInv, FlowInv, FlowShape
<1> QED
  BY <1>1, Alone, LocalKeeps DEF UserBegins, CanBegin, Show, searchVars, Progress

LEMMA ScanEndsKeeps ==
  ASSUME IInv, NEW f \in Flows, ScanEnds(f)
  PROVE  Good
<1> USE DEF IInv, FlowInv, FlowShape
<1>1. PICK heard \in [Podiums -> Addresses] :
         LET new == [d \in Podiums |-> IF Configured(d) THEN NoHost ELSE heard[d]]
         IN  /\ flow' = [flow EXCEPT ![f].devices = new]
             /\ Show(f, IF \E d \in Podiums : new[d] # NoHost THEN "pick" ELSE "manual")
  BY DEF ScanEnds
<1> DEFINE new == [d \in Podiums |-> IF Configured(d) THEN NoHost ELSE heard[d]]
           o == [flow[f] EXCEPT !.devices = new]
<1>2. PICK s \in {"pick", "manual"} : step' = [step EXCEPT ![f] = s]
  BY <1>1 DEF Show
<1>3. o \in Objects
  <2>1. new \in [Podiums -> Addresses]
    BY DEF Addresses
  <2>2. flow[f] \in Objects
    BY Alone
  <2> HIDE DEF new, IInv
  <2> QED
    BY <2>1, <2>2 DEF Objects
<1>4. flow' = [flow EXCEPT ![f] = o]
  BY <1>1
<1> HIDE DEF o
<1>5. handler[f] = "idle"
  BY Alone DEF ScanEnds, FlowOK
<1>6. FlowOK(f)'
  BY <1>2, <1>5 DEF ScanEnds, FlowOK
<1> QED
  BY <1>2, <1>3, <1>4, <1>6, Alone, LocalKeeps DEF ScanEnds, searchVars, Forms

(* The form for a key always knows a Podium.                               *)
LEMMA AskKeyKeeps ==
  ASSUME IInv, NEW f \in Flows, NEW d \in Podiums, NEW h \in Addresses,
         NEW o \in Objects, AskKey(f, d, h, o), handler[f] = "idle",
         UNCHANGED <<searchVars, handler, entry>>
  PROVE  Good
<1> DEFINE in == [id |-> d, key |-> "malformed", host |-> h]
           new == [o EXCEPT !.input = in, !.trusted = TRUE]
<1>1. in \in Inputs
  BY DEF Inputs, Keys
<1>2. new \in Objects /\ new.input = in /\ new.trusted = TRUE
  BY <1>1 DEF Objects
<1>3. step' = [step EXCEPT ![f] = "key"] /\ flow' = [flow EXCEPT ![f] = new]
  BY DEF AskKey, Show
<1>4. in.id = d
  OBVIOUS
<1> HIDE DEF in, new
<1>5. FlowOK(f)'
  BY <1>1, <1>2, <1>3, <1>4 DEF FlowOK, Asked, ForPodium, IInv, FlowInv, FlowShape
<1> QED
  BY <1>2, <1>3, <1>5, Alone, LocalKeeps DEF searchVars, Forms

LEMMA PickKeeps ==
  ASSUME IInv, NEW f \in Flows, Pick(f)
  PROVE  Good
<1>1. handler[f] = "idle" /\ flow[f].devices \in [Podiums -> Addresses]
  BY Alone DEF Pick, FlowOK, Objects
<1>2. CASE \E d \in Podiums : AskKey(f, d, flow[f].devices[d], flow[f])
  BY <1>1, <1>2, Alone, AskKeyKeeps DEF Pick
<1>3. CASE Show(f, "manual") /\ UNCHANGED flow
  <2>1. FlowOK(f)'
    BY <1>1, <1>3 DEF Pick, Show, FlowOK, IInv, FlowInv, FlowShape
  <2> QED
    BY <1>3, <2>1, Alone, LocalKeeps DEF Pick, Show, searchVars, Forms
<1> QED
  BY <1>2, <1>3 DEF Pick

LEMMA DiscoveredKeeps ==
  ASSUME IInv, NEW f \in Flows, Discovered(f)
  PROVE  Good
<1>1. PICK d \in Podiums, h \in Hosts :
         IF Configured(d)
         THEN entry' = [entry EXCEPT ![d] = h] /\ UNCHANGED <<step, flow>>
         ELSE AskKey(f, d, h, [flow[f] EXCEPT !.uniqueId = d]) /\ UNCHANGED entry
  BY DEF Discovered
<1>2. CASE Configured(d)
  <2>1. SearchInv'
    BY SearchSame DEF Discovered, searchVars, IInv
  <2>2. FlowInv'
    BY <1>1, <1>2 DEF Discovered, searchVars, IInv, FlowInv, FlowShape, FlowOK, Asked,
                      ForPodium, Aimed, Addresses
  <2>3. Proven /\ Kept /\ Stopped
    BY <1>1, <1>2 DEF Proven, Kept, Stopped, Configured, IInv, FlowInv, FlowShape
  <2> QED
    BY <2>1, <2>2, <2>3 DEF Good, IInv
<1>3. CASE ~Configured(d)
  <2>1. [flow[f] EXCEPT !.uniqueId = d] \in Objects
    BY Alone DEF Objects
  <2> QED
    BY <1>1, <1>3, <2>1, AskKeyKeeps DEF Discovered, CanBegin, Addresses
<1> QED
  BY <1>2, <1>3

(* A check begins for a device; if its product is not to be verified, it   *)
(* announced itself as a Podium.                                           *)
LEMMA BeginCheckKeeps ==
  ASSUME IInv, NEW f \in Flows, NEW o \in Objects, BeginCheck(f, o),
         step[f] \in {"off", "key", "manual"},
         o.input \in Inputs, o.input.id \in Ids,
         o.trusted \/ step[f] = "key" => o.input.id \in Podiums,
         UNCHANGED entry
  PROVE  Good
<1>1. flow' = [flow EXCEPT ![f] = o] /\ handler' = [handler EXCEPT ![f] = "check"]
  BY DEF BeginCheck, Suspend
<1>2. flow'[f] = o /\ handler'[f] = "check" /\ step' = step
  BY <1>1 DEF BeginCheck, IInv, FlowInv, FlowShape
<1>3. FlowOK(f)'
  BY <1>2 DEF FlowOK, Asked, ForPodium
<1> QED
  BY <1>1, <1>3, Alone, LocalKeeps DEF BeginCheck

LEMMA SubmitKeyKeeps ==
  ASSUME IInv, NEW f \in Flows, SubmitKey(f)
  PROVE  Good
<1>1. PICK key \in Keys :
         IF key = "malformed" THEN UNCHANGED <<searchVars, step, handler, flow>>
         ELSE BeginCheck(f, [flow[f] EXCEPT !.input.key = key])
  BY DEF SubmitKey
<1>2. step[f] = "key" /\ Asked(f) /\ ForPodium(f) /\ flow[f] \in Objects
  BY Alone DEF SubmitKey, FlowOK
<1>3. CASE key = "malformed"
  BY <1>1, <1>3, Alone, LocalKeeps DEF SubmitKey, searchVars, FlowOK, Asked, ForPodium, Aimed
<1>4. CASE key # "malformed"
  <2> DEFINE o == [flow[f] EXCEPT !.input.key = key]
  <2>1. /\ o.input \in Inputs /\ o.input.id = flow[f].input.id
        /\ o \in Objects
    BY <1>2 DEF Asked, Inputs, Objects
  <2> HIDE DEF o
  <2>2. BeginCheck(f, o)
    BY <1>1, <1>4 DEF o
  <2> QED
    BY <1>2, <2>1, <2>2, BeginCheckKeeps DEF SubmitKey, Asked, ForPodium
<1> QED
  BY <1>3, <1>4

LEMMA LookupHearsKeeps ==
  ASSUME IInv, NEW f \in Flows, LookupHears(f)
  PROVE  Good
<1>1. PICK h \in Hosts, known \in BOOLEAN :
         /\ known => flow[f].input.id \in Podiums
         /\ BeginCheck(f, [flow[f] EXCEPT !.input.host = h, !.trusted = known])
  BY DEF LookupHears
<1>2. /\ Asked(f) /\ flow[f] \in Objects
      /\ step[f] \in {"off", "key", "manual"} /\ (step[f] = "key" => ForPodium(f))
  BY Alone DEF LookupHears, FlowOK
<1> DEFINE o == [flow[f] EXCEPT !.input.host = h, !.trusted = known]
<1>3. /\ o.input \in Inputs /\ o.input.id = flow[f].input.id /\ o.trusted = known
      /\ o \in Objects
  BY <1>2 DEF Asked, Inputs, Objects, Addresses
<1> HIDE DEF o
<1>4. BeginCheck(f, o)
  BY <1>1 DEF o
<1> QED
  BY <1>1, <1>2, <1>3, <1>4, BeginCheckKeeps DEF LookupHears, Asked, ForPodium

(* What the handler of the manual form makes of a submission.              *)
LEMMA EvaluateKeeps ==
  ASSUME IInv, NEW f \in Flows, NEW in \in Inputs, Evaluate(f, in),
         step[f] = "manual", handler[f] = "idle", UNCHANGED entry
  PROVE  Good
<1> DEFINE o == [flow[f] EXCEPT !.search = "none"]
           asked == [o EXCEPT !.uniqueId = in.id, !.input = in]
           heard == IF in.id \in Podiums THEN o.devices[in.id] ELSE NoHost
<1>1. in.id \in Ids \cup {NoId} /\ in.key \in Keys /\ in.host \in Addresses
  BY DEF Inputs
<1>2. /\ o \in Objects /\ o.devices \in [Podiums -> Addresses]
      /\ asked \in Objects /\ asked.input = in
  BY <1>1, Alone DEF Objects
<1>3. ASSUME Configured(in.id), Remove({f}, f, o), UNCHANGED <<secrets, handler>>
      PROVE  Good
  <2>0. /\ {f} \in SUBSET Flows /\ f \in {f}
        /\ SearchInv /\ FlowInv /\ FlowShape
    BY DEF IInv, FlowInv
  <2> HIDE DEF o
  <2>1. /\ SearchInv' /\ step'[f] = "off"
        /\ step' \in [Flows -> {"off"} \cup Forms \cup Progress]
        /\ flow' \in [Flows -> Objects]
    <3>1. o \in Objects /\ Remove({f}, f, o)
      BY <1>2, <1>3
    <3> HIDE DEF asked, heard
    <3>2. /\ SearchInv'
          /\ step' \in [Flows -> {"off"} \cup Forms \cup Progress]
          /\ flow' \in [Flows -> Objects]
          /\ \A g \in Flows : step'[g] = "off" <=> step[g] = "off" \/ g \in {f}
      BY <2>0, <3>1, RemoveKeeps
    <3> QED
      BY <3>2
  <2>2. \A g \in Flows \ {f} :
           FlowOK(g)' /\ (step[g] = "search" /\ step'[g] = "off" =>
                            task'[g] \notin {"ports", "trying"})
    BY <1>2, <1>3, <2>0, RemoveOthers
  <2>3. FlowOK(f)'
    BY <1>3, <2>1 DEF FlowOK
  <2>4. FlowInv'
    BY <1>3, <2>0, <2>1, <2>2, <2>3 DEF FlowInv, FlowShape
  <2>5. Proven /\ Kept
    BY DEF Proven, Kept, Configured
  <2>6. Stopped
    BY <2>2 DEF Stopped
  <2> QED
    BY <2>1, <2>4, <2>5, <2>6 DEF Good, IInv
<1>4. ASSUME Show(f, "manual"), flow' = [flow EXCEPT ![f] = [o EXCEPT !.uniqueId = in.id]],
             UNCHANGED <<searchVars, handler>>
      PROVE  Good
  <2>1. [o EXCEPT !.uniqueId = in.id] \in Objects
    BY <1>1, <1>2 DEF Objects
  <2> HIDE DEF o
  <2>2. FlowOK(f)'
    BY <1>4, <2>1 DEF Show, FlowOK, IInv, FlowInv, FlowShape
  <2> QED
    BY <1>4, <2>1, <2>2, Alone, LocalKeeps DEF Show, searchVars, Forms
<1>5. ASSUME in.id \in Ids, NEW h \in Addresses, NEW t \in BOOLEAN, t => in.id \in Podiums,
             BeginCheck(f, [asked EXCEPT !.input.host = h, !.trusted = t])
      PROVE  Good
  <2> DEFINE new == [asked EXCEPT !.input.host = h, !.trusted = t]
  <2>1. /\ new \in Objects /\ new.input \in Inputs /\ new.input.id = in.id
        /\ new.trusted = t
    BY <1>1, <1>2 DEF Objects, Inputs
  <2> HIDE DEF new
  <2>2. BeginCheck(f, new)
    BY <1>5 DEF new
  <2> QED
    BY <1>5, <2>1, <2>2, BeginCheckKeeps
<1>6. ASSUME in.id \in Ids, BeginCheck(f, [asked EXCEPT !.trusted = FALSE])
      PROVE  Good
  <2> DEFINE new == [asked EXCEPT !.trusted = FALSE]
  <2>1. new \in Objects /\ new.input = in /\ new.trusted = FALSE
    BY <1>1, <1>2 DEF Objects
  <2> HIDE DEF new
  <2>2. BeginCheck(f, new)
    BY <1>6 DEF new
  <2> QED
    BY <1>6, <2>1, <2>2, BeginCheckKeeps
<1>7. ASSUME in.id \in Ids, Suspend(f, "lookup"), flow' = [flow EXCEPT ![f] = asked],
             UNCHANGED <<searchVars, step>>
      PROVE  Good
  <2> HIDE DEF asked
  <2>1. FlowOK(f)'
    BY <1>2, <1>7 DEF Suspend, FlowOK, Asked, IInv, FlowInv, FlowShape
  <2> QED
    BY <1>2, <1>7, <2>1, Alone, LocalKeeps DEF Suspend, searchVars
<1>8. ~Configured(in.id) /\ Valid(in) => in.id \in Ids
  BY <1>1 DEF Valid
<1>9. heard \in Addresses /\ (heard # NoHost => in.id \in Podiums)
  BY <1>2 DEF Addresses
<1> QED
  BY <1>3, <1>4, <1>5, <1>6, <1>7, <1>8, <1>9 DEF Evaluate

LEMMA ShowManualKeeps ==
  ASSUME IInv, NEW f \in Flows, ShowManual(f), handler[f] = "idle", UNCHANGED entry
  PROVE  Good
<1> DEFINE o == [flow[f] EXCEPT !.search = "none"]
<1>1. o \in Objects
  BY Alone DEF Objects
<1>2. flow' = [flow EXCEPT ![f] = o] /\ step' = [step EXCEPT ![f] = "manual"]
  BY DEF ShowManual, Show
<1> HIDE DEF o
<1>3. FlowOK(f)'
  BY <1>2 DEF ShowManual, searchVars, FlowOK, IInv, FlowInv, FlowShape
<1> QED
  BY <1>1, <1>2, <1>3, Alone, LocalKeeps DEF ShowManual, searchVars, Forms

LEMMA SubmitManualKeeps ==
  ASSUME IInv, NEW f \in Flows, SubmitManual(f)
  PROVE  Good
BY EvaluateKeeps, ShowManualKeeps DEF SubmitManual, Manual

(* Coming back from a search, the handler shows the form.                  *)
LEMMA AgainKeeps ==
  ASSUME IInv, NEW f \in Flows, Again(f)
  PROVE  Good
<1>1. flow[f].search # "none" /\ handler[f] = "idle"
  BY Alone DEF Again, FlowOK
<1> QED
  BY <1>1, ShowManualKeeps DEF Again, Manual

LEMMA LookupStartsSearchKeeps ==
  ASSUME IInv, NEW f \in Flows, LookupStartsSearch(f)
  PROVE  Good
<1> DEFINE at == At[flow[f].input.id]
           g == IF flow[f].input.key = "right" THEN at ELSE NoHost
<1>1. Asked(f) /\ at \in Hosts /\ g \in Hosts \cup {NoHost} /\ g \in {NoHost, at}
  BY Alone DEF LookupStartsSearch, FlowOK, Asked
<1>2. CanStart(f) /\ StartSearch(f, g)
  BY DEF LookupStartsSearch
<1>3. /\ SearchInv'
      /\ \A r \in Flows \ {f} : goal'[r] = goal[r] /\ result'[r] = result[r]
      /\ goal'[f] = g /\ result'[f] = NoHost
  <2> HIDE DEF g
  <2> QED
    BY <1>1, <1>2, StartKeeps DEF IInv, Flows
<1>4. /\ handler' = [handler EXCEPT ![f] = "idle"] /\ entry' = entry
      /\ \/ step[f] = "off" /\ flow' = [flow EXCEPT ![f] = NoFlow] /\ step' = step
         \/ /\ step[f] # "off"
            /\ flow' = [flow EXCEPT ![f].search = "running"]
            /\ step' = [step EXCEPT ![f] = "search"]
  BY DEF LookupStartsSearch, Suspend, Show
<1> HIDE DEF at, g
<1>5. NoFlow \in Objects
  BY DEF NoFlow, Objects, Addresses
<1>6. /\ flow[f] \in Objects /\ [flow[f] EXCEPT !.search = "running"] \in Objects
      /\ [flow[f] EXCEPT !.search = "running"].search = "running"
      /\ [flow[f] EXCEPT !.search = "running"].input = flow[f].input
  BY Alone DEF Objects
<1>7. FlowShape'
  BY <1>4, <1>5, <1>6 DEF IInv, FlowInv, FlowShape, Progress
<1>8. \A r \in Flows \ {f} :
         /\ step'[r] = step[r] /\ handler'[r] = handler[r] /\ flow'[r] = flow[r]
         /\ goal'[r] = goal[r] /\ result'[r] = result[r]
  BY <1>3, <1>4 DEF IInv, FlowInv, FlowShape
<1>9. \A r \in Flows \ {f} : FlowOK(r)'
  <2> SUFFICES ASSUME NEW r \in Flows \ {f} PROVE FlowOK(r)'
    OBVIOUS
  <2>1. FlowOK(r)
    BY Alone
  <2> QED
    BY <1>8, <2>1 DEF FlowOK, Asked, ForPodium, Aimed
<1>10. FlowOK(f)'
  <2>1. CASE step[f] = "off"
    BY <1>4, <2>1 DEF FlowOK, IInv, FlowInv, FlowShape
  <2>2. CASE step[f] # "off"
    <3>1. /\ step'[f] = "search" /\ handler'[f] = "idle"
          /\ flow'[f] = [flow[f] EXCEPT !.search = "running"]
      BY <1>4, <2>2 DEF IInv, FlowInv, FlowShape
    <3> QED
      BY <1>1, <1>3, <1>6, <3>1 DEF FlowOK, Asked, Aimed, at
  <2> QED
    BY <2>1, <2>2
<1>11. Proven /\ Kept
  BY <1>4 DEF Proven, Kept, Configured
<1>12. Stopped
  BY <1>4 DEF Stopped, IInv, FlowInv, FlowShape
<1> QED
  BY <1>3, <1>7, <1>9, <1>10, <1>11, <1>12 DEF Good, IInv, FlowInv

LEMMA SearchEndsKeeps ==
  ASSUME IInv, NEW f \in Flows, SearchEnds(f)
  PROVE  Good
<1>1. Aimed(f) /\ handler[f] = "idle"
  BY Alone DEF SearchEnds, FlowOK
<1>2. CASE result[f] = NoHost /\ Show(f, "again") /\ UNCHANGED flow
  <2>1. FlowOK(f)'
    BY <1>1, <1>2 DEF SearchEnds, Show, FlowOK, Aimed, IInv, FlowInv, FlowShape
  <2> QED
    BY <1>2, <2>1, Alone, LocalKeeps DEF SearchEnds, Show, searchVars, Progress
<1>3. CASE flow' = [flow EXCEPT ![f].search = "not_a_podium"] /\ Show(f, "again")
  <2> DEFINE o == [flow[f] EXCEPT !.search = "not_a_podium"]
  <2>1. o \in Objects /\ o.search = "not_a_podium"
    BY Alone DEF Objects
  <2>2. flow' = [flow EXCEPT ![f] = o]
    BY <1>3
  <2> HIDE DEF o
  <2>3. FlowOK(f)'
    BY <1>1, <1>3, <2>1, <2>2 DEF SearchEnds, Show, FlowOK, IInv, FlowInv, FlowShape
  <2>4. /\ step' = [step EXCEPT ![f] = "again"]
        /\ handler' = [handler EXCEPT ![f] = handler[f]]
        /\ handler[f] \in {"idle", "lookup", "check"}
        /\ UNCHANGED <<task, goal, result, attempt, accepted, entry>>
    BY <1>3, Alone DEF SearchEnds, Show, searchVars
  <2> QED
    BY <2>1, <2>2, <2>3, <2>4, LocalKeeps DEF Progress
<1>4. CASE /\ result[f] # NoHost /\ flow[f].input.id \in Podiums
           /\ Show(f, "found") /\ UNCHANGED flow
  <2>1. FlowOK(f)'
    BY <1>1, <1>4 DEF SearchEnds, Show, searchVars, FlowOK, Asked, ForPodium, Aimed,
                      IInv, FlowInv, FlowShape
  <2> QED
    BY <1>4, <2>1, Alone, LocalKeeps DEF SearchEnds, Show, searchVars, Progress
<1> QED
  BY <1>2, <1>3, <1>4 DEF SearchEnds

LEMMA SearchFoundKeeps ==
  ASSUME IInv, NEW f \in Flows, SearchFound(f)
  PROVE  Good
<1> DEFINE o == [flow[f] EXCEPT !.search = "none"]
<1>1. /\ step[f] = "found" /\ handler[f] = "idle"
      /\ result[f] = At[flow[f].input.id] /\ flow[f].input.id \in Podiums
  BY Alone DEF SearchFound, FlowOK, ForPodium, Aimed
<1>2. o \in Objects /\ o.input = flow[f].input
  BY Alone DEF Objects
<1>3. CreatePurifier(f, o, result[f]) /\ handler' = [handler EXCEPT ![f] = "idle"]
  BY <1>1, Alone DEF SearchFound
<1> HIDE DEF o
<1> QED
  BY <1>1, <1>2, <1>3, CreateKeeps

(* The check ends: nothing is proven, or the purifier accepted the key.    *)
LEMMA CheckEndsKeeps ==
  ASSUME IInv, NEW f \in Flows, CheckEnds(f)
  PROVE  Good
<1>1. /\ Asked(f) /\ flow[f] \in Objects
      /\ step[f] \in {"off", "key", "manual"}
      /\ flow[f].trusted => ForPodium(f)
      /\ step[f] = "key" => ForPodium(f)
  BY Alone DEF CheckEnds, FlowOK
<1>2. handler' = [handler EXCEPT ![f] = "idle"]
  BY DEF CheckEnds, Suspend
<1>3. CASE Remove({}, f, flow[f]) /\ UNCHANGED entry
  <2>0. {} \in SUBSET Flows /\ SearchInv /\ FlowInv /\ FlowShape
    BY DEF IInv, FlowInv
  <2>1. /\ SearchInv'
        /\ step' \in [Flows -> {"off"} \cup Forms \cup Progress]
        /\ flow' \in [Flows -> Objects]
        /\ step'[f] # "off" => step'[f] = step[f] /\ flow'[f] = flow[f]
    <3>1. PICK F \in SUBSET Flows, o \in Objects :
             F = {} /\ o = flow[f] /\ Remove(F, f, o)
      BY <1>1, <1>3
    <3>2. /\ SearchInv'
          /\ step' \in [Flows -> {"off"} \cup Forms \cup Progress]
          /\ flow' \in [Flows -> Objects]
          /\ step'[f] # "off" => step'[f] = step[f]
          /\ step'[f] # "off" => flow'[f] = o
      BY <2>0, <3>1, RemoveKeeps
    <3> QED
      BY <3>1, <3>2
  <2>2. handler' \in [Flows -> {"idle", "lookup", "check"}] /\ handler'[f] = "idle"
        /\ \A g \in Flows \ {f} : handler'[g] = handler[g]
    BY <1>2, <2>0 DEF FlowShape
  <2>3. \A g \in Flows \ {f} :
           FlowOK(g)' /\ (step[g] = "search" /\ step'[g] = "off" =>
                            task'[g] \notin {"ports", "trying"})
    BY <1>1, <1>3, <2>0, <2>2, RemoveOthers
  <2>4. FlowOK(f)'
    BY <1>1, <2>1, <2>2 DEF FlowOK, Asked, ForPodium
  <2>5. FlowInv'
    BY <1>3, <2>0, <2>1, <2>2, <2>3, <2>4 DEF FlowInv, FlowShape
  <2>6. Proven /\ Kept
    BY <1>3 DEF Proven, Kept, Configured
  <2>7. Stopped
    BY <1>1, <2>3 DEF Stopped
  <2> QED
    BY <2>1, <2>5, <2>6, <2>7 DEF Good, IInv
<1>4. CASE /\ Accepts(flow[f].input)
           /\ flow[f].trusted \/ flow[f].input.id \in Podiums
           /\ CreatePurifier(f, flow[f], flow[f].input.host)
  <2>1. flow[f].input.id \in Podiums /\ flow[f].input.host = At[flow[f].input.id]
    BY <1>1, <1>4 DEF Accepts, ForPodium
  <2> QED
    BY <1>1, <1>2, <1>4, <2>1, CreateKeeps
<1> QED
  BY <1>3, <1>4 DEF CheckEnds

LEMMA FlowRemovedKeeps ==
  ASSUME IInv, NEW f \in Flows, FlowRemoved(f)
  PROVE  Good
<1>1. /\ {f} \in SUBSET Flows /\ SearchInv /\ FlowInv /\ FlowShape
      /\ Remove({f}, None, NoFlow) /\ handler' = handler /\ entry' = entry
  BY DEF FlowRemoved, IInv, FlowInv
<1>2. NoFlow \in Objects
  BY DEF NoFlow, Objects, Addresses
<1>3. /\ SearchInv'
      /\ step' \in [Flows -> {"off"} \cup Forms \cup Progress]
      /\ flow' \in [Flows -> Objects]
  BY <1>1, <1>2, RemoveKeeps
<1>4. \A g \in Flows \ {None} : handler'[g] = handler[g]
  BY <1>1
<1>5. \A g \in Flows \ {None} :
         FlowOK(g)' /\ (step[g] = "search" /\ step'[g] = "off" =>
                          task'[g] \notin {"ports", "trying"})
  BY <1>1, <1>2, <1>4, RemoveOthers
<1>6. Flows \ {None} = Flows
  OBVIOUS
<1>7. FlowInv'
  BY <1>1, <1>3, <1>5, <1>6 DEF FlowInv, FlowShape
<1>8. Proven /\ Kept
  BY <1>1 DEF Proven, Kept, Configured
<1>9. Stopped
  BY <1>5, <1>6 DEF Stopped
<1> QED
  BY <1>3, <1>7, <1>8, <1>9 DEF Good, IInv

LEMMA EntryRemovedKeeps ==
  ASSUME IInv, EntryRemoved
  PROVE  Good
<1>1. SearchInv'
  BY SearchSame DEF EntryRemoved, searchVars, IInv
<1>2. PICK d \in Ids : entry' = [entry EXCEPT ![d] = NoHost]
  BY DEF EntryRemoved
<1>3. FlowInv'
  BY <1>2 DEF EntryRemoved, searchVars, IInv, FlowInv, FlowShape, FlowOK, Asked,
              ForPodium, Aimed, Addresses
<1>4. Proven /\ Kept /\ Stopped
  BY <1>2 DEF EntryRemoved, Proven, Kept, Stopped, IInv, FlowInv, FlowShape
<1> QED
  BY <1>1, <1>3, <1>4 DEF Good, IInv

(* What a search finds is at the address it looks for.                     *)
LEMMA NetworkKeeps ==
  ASSUME IInv, NEW f \in Flows, Network(f)
  PROVE  Good
<1>1. /\ SearchInv'
      /\ \A r \in Flows \ {f} : goal'[r] = goal[r] /\ result'[r] = result[r]
      /\ goal'[f] \in {NoHost, goal[f]}
      /\ \/ result'[f] = result[f]
         \/ result'[f] \in Hosts /\ result'[f] = goal[f]
  BY SearchStepKeeps DEF Network, IInv, Flows
<1>2. UNCHANGED <<step, handler, flow, entry>>
  BY DEF Network, flowVars
<1>3. \A r \in Flows : FlowOK(r)'
  <2> SUFFICES ASSUME NEW r \in Flows PROVE FlowOK(r)'
    OBVIOUS
  <2>1. FlowOK(r)
    BY Alone
  <2>2. Aimed(r) => Aimed(r)'
    BY <1>1, <1>2 DEF Aimed, Asked
  <2>3. Asked(r) <=> Asked(r)'
    BY <1>2 DEF Asked
  <2>4. ForPodium(r) <=> ForPodium(r)'
    BY <1>2 DEF ForPodium
  <2>5. result[r] # NoHost => result'[r] # NoHost
    BY <1>1
  <2> QED
    BY <1>2, <2>1, <2>2, <2>3, <2>4, <2>5 DEF FlowOK
<1>4. FlowInv'
  BY <1>2, <1>3 DEF IInv, FlowInv, FlowShape
<1>5. Proven /\ Kept /\ Stopped
  BY <1>2 DEF Proven, Kept, Stopped
<1> QED
  BY <1>1, <1>4, <1>5 DEF Good, IInv

-----------------------------------------------------------------------------
LEMMA Step == IInv /\ [Next]_vars => Good
<1> SUFFICES ASSUME IInv, [Next]_vars PROVE Good
  OBVIOUS
<1>1. CASE Next
  BY <1>1, UserBeginsKeeps, ScanEndsKeeps, PickKeeps, DiscoveredKeeps, SubmitKeyKeeps,
     CheckEndsKeeps, SubmitManualKeeps, LookupHearsKeeps, LookupStartsSearchKeeps,
     SearchEndsKeeps, AgainKeeps, SearchFoundKeeps, FlowRemovedKeeps, EntryRemovedKeeps,
     NetworkKeeps
  DEF Next, HandlerEnds, ProgressEnds
<1>2. CASE UNCHANGED vars
  <2>1. SearchInv'
    BY <1>2, SearchSame DEF vars, searchVars, IInv
  <2>2. FlowInv'
    BY <1>2 DEF vars, searchVars, flowVars, IInv, FlowInv, FlowShape, FlowOK, Asked,
                ForPodium, Aimed
  <2>3. Proven /\ Kept /\ Stopped
    BY <1>2 DEF vars, flowVars, Proven, Kept, Stopped
  <2> QED
    BY <2>1, <2>2, <2>3 DEF Good, IInv
<1> QED
  BY <1>1, <1>2

LEMMA IInvAlways == Spec => []IInv
<1>1. IInv /\ [Next]_vars => IInv'
  BY Step DEF Good
<1> QED
  BY <1>1, IInvInit, PTL DEF Spec

-----------------------------------------------------------------------------
(* async_find_device waits for its attempts, in whatever way it ends.      *)
THEOREM NoAttemptIsLeft == Spec => []OverIsOver
<1>1. IInv => OverIsOver
  BY DEF IInv, SearchInv, SearchOK, OverIsOver, Running
<1> QED
  BY <1>1, IInvAlways, PTL

(* The handlers find what they assert: the form for a key a device, the    *)
(* progress of a search its search, and the last step a result.            *)
THEOREM HandlersHaveTheirData == Spec => []StepsHaveTheirData
<1>1. IInv => StepsHaveTheirData
  BY DEF IInv, FlowInv, FlowOK, Asked, Aimed, StepsHaveTheirData
<1> QED
  BY <1>1, IInvAlways, PTL

(* An entry is made only for a purifier, with the address at which its key *)
(* was accepted.                                                           *)
THEOREM OnlyProvenAreAdded == Spec => OnlyProven
<1>1. IInv /\ [Next]_vars => [Proven]_vars
  BY Step DEF Good
<1> QED
  BY <1>1, IInvAlways, PTL DEF Spec, OnlyProven, Proven

(* No flow changes an entry that is there: only an announcement does, which *)
(* opens no form.                                                          *)
THEOREM EntriesAreNotReplaced == Spec => NeverReplaced
<1>1. IInv /\ [Next]_vars => [Kept]_vars
  BY Step DEF Good
<1> QED
  BY <1>1, IInvAlways, PTL DEF Spec, NeverReplaced, Kept

(* A flow that goes while it shows its search stops it.                    *)
THEOREM RemovedFlowsStopTheirSearch == Spec => RemovalStopsSearch
<1>1. IInv /\ [Next]_vars => [Stopped]_vars
  BY Step DEF Good
<1> QED
  BY <1>1, IInvAlways, PTL DEF Spec, RemovalStopsSearch, Stopped

-----------------------------------------------------------------------------
(* The second invariant: the worker threads and the count of their keys.   *)
(* Workers are a matter of their own: an attempt that is torn out of its   *)
(* close leaves one behind, after its search is over.                      *)

(* The keys that a worker or a check has registered.                       *)
Keyed == {p \in Flows \X Hosts : worker[p[1]][p[2]] \in Threads}
Checking == {f \in Flows : handler[f] = "check"}

(* The worker of an attempt's device goes with the attempt: there is none  *)
(* before it has its turn, and one that has connected waits to be closed.  *)
WorkerOK(s, h) ==
    /\ attempt[s][h] = "queued" => worker[s][h] = "none"
    /\ attempt[s][h] = "open" => worker[s][h] = "open"
    /\ attempt[s][h] = "drop" => worker[s][h] \in Threads
    /\ attempt[s][h] = "join" => worker[s][h] = "ready"
    /\ worker[s][h] = "ready" => attempt[s][h] \in Closing

(* A search that is looking for open ports has no worker of an earlier one. *)
WorkersOK(s) ==
    /\ \A h \in Hosts : WorkerOK(s, h)
    /\ task[s] = "ports" => \A h \in Hosts : worker[s][h] = "none"

WorkersInv ==
    /\ worker \in [Searches -> [Hosts -> {"none"} \cup Threads]]
    /\ \A s \in Searches : WorkersOK(s)

CountInv ==
    /\ secrets \in Nat
    /\ Cardinality(Keyed) + Cardinality(Checking) <= secrets

KInv == IInv /\ WorkersInv /\ CountInv /\ submissions \in 0..MaxSubmissions

LEMMA KeysFinite ==
  /\ IsFiniteSet(Keyed) /\ Cardinality(Keyed) \in Nat
  /\ IsFiniteSet(Checking) /\ Cardinality(Checking) \in Nat
<1>1. IsFiniteSet(Flows \X Hosts) /\ Keyed \in SUBSET (Flows \X Hosts)
  BY FiniteAssumption, FS_Product DEF Flows, Keyed
<1>2. IsFiniteSet(Flows) /\ Checking \in SUBSET Flows
  BY FiniteAssumption DEF Flows, Checking
<1>3. IsFiniteSet(Keyed) /\ IsFiniteSet(Checking)
  BY <1>1, <1>2, FS_Subset
<1> QED
  BY <1>3, FS_CardinalityType

LEMMA KeysFiniteNext ==
  /\ IsFiniteSet(Keyed') /\ Cardinality(Keyed') \in Nat
  /\ IsFiniteSet(Checking') /\ Cardinality(Checking') \in Nat
<1>1. IsFiniteSet(Flows \X Hosts) /\ Keyed' \in SUBSET (Flows \X Hosts)
  BY FiniteAssumption, FS_Product DEF Flows, Keyed
<1>2. IsFiniteSet(Flows) /\ Checking' \in SUBSET Flows
  BY FiniteAssumption DEF Flows, Checking
<1>3. IsFiniteSet(Keyed') /\ IsFiniteSet(Checking')
  BY <1>1, <1>2, FS_Subset
<1> QED
  BY <1>3, FS_CardinalityType

(* A subset of a finite set, perhaps with one element more or less.        *)
LEMMA FewerOf ==
  ASSUME NEW S, IsFiniteSet(S), NEW T \in SUBSET S
  PROVE  Cardinality(T) <= Cardinality(S)
BY FS_Subset

LEMMA OneMoreOf ==
  ASSUME NEW S, IsFiniteSet(S), NEW x, NEW T \in SUBSET (S \cup {x})
  PROVE  Cardinality(T) <= Cardinality(S) + 1
<1>1. /\ IsFiniteSet(S \cup {x}) /\ Cardinality(S) \in Nat
      /\ \/ Cardinality(S \cup {x}) = Cardinality(S)
         \/ Cardinality(S \cup {x}) = Cardinality(S) + 1
  BY FS_AddElement, FS_CardinalityType
<1>2. Cardinality(T) <= Cardinality(S \cup {x})
  BY <1>1, FS_Subset
<1>3. Cardinality(T) \in Nat
  BY <1>1, FS_Subset, FS_CardinalityType
<1> QED
  BY <1>1, <1>2, <1>3

LEMMA OneLessOf ==
  ASSUME NEW S, IsFiniteSet(S), NEW x \in S, NEW T \in SUBSET (S \ {x})
  PROVE  Cardinality(T) <= Cardinality(S) - 1
<1>1. IsFiniteSet(S \ {x}) /\ Cardinality(S \ {x}) = Cardinality(S) - 1
  BY FS_RemoveElement
<1> QED
  BY <1>1, FS_Subset

(* Keys come to be known with their count; one that goes was counted.      *)
LEMMA NoKeyComes ==
  ASSUME CountInv, secrets' = secrets,
         Keyed' \subseteq Keyed, Checking' \subseteq Checking
  PROVE  CountInv'
<1>1. Cardinality(Keyed') <= Cardinality(Keyed)
  BY KeysFinite, FewerOf
<1>2. Cardinality(Checking') <= Cardinality(Checking)
  BY KeysFinite, FewerOf
<1> QED
  BY <1>1, <1>2, KeysFinite, KeysFiniteNext DEF CountInv

LEMMA WorkerComes ==
  ASSUME CountInv, secrets' = secrets + 1, NEW p,
         Keyed' \subseteq Keyed \cup {p}, Checking' \subseteq Checking
  PROVE  CountInv'
<1>1. Cardinality(Keyed') <= Cardinality(Keyed) + 1
  BY KeysFinite, OneMoreOf
<1>2. Cardinality(Checking') <= Cardinality(Checking)
  BY KeysFinite, FewerOf
<1> QED
  BY <1>1, <1>2, KeysFinite, KeysFiniteNext DEF CountInv

LEMMA WorkerGoes ==
  ASSUME CountInv, secrets' = secrets - 1, NEW p \in Keyed,
         Keyed' \subseteq Keyed \ {p}, Checking' \subseteq Checking
  PROVE  CountInv'
<1>1. Cardinality(Keyed') <= Cardinality(Keyed) - 1
  BY KeysFinite, OneLessOf
<1>2. Cardinality(Checking') <= Cardinality(Checking)
  BY KeysFinite, FewerOf
<1> QED
  BY <1>1, <1>2, KeysFinite, KeysFiniteNext DEF CountInv

LEMMA CheckComes ==
  ASSUME CountInv, secrets' = secrets + 1, NEW f,
         Keyed' \subseteq Keyed, Checking' \subseteq Checking \cup {f}
  PROVE  CountInv'
<1>1. Cardinality(Keyed') <= Cardinality(Keyed)
  BY KeysFinite, FewerOf
<1>2. Cardinality(Checking') <= Cardinality(Checking) + 1
  BY KeysFinite, OneMoreOf
<1> QED
  BY <1>1, <1>2, KeysFinite, KeysFiniteNext DEF CountInv

LEMMA CheckGoes ==
  ASSUME CountInv, secrets' = secrets - 1, NEW f \in Checking,
         Keyed' \subseteq Keyed, Checking' \subseteq Checking \ {f}
  PROVE  CountInv'
<1>1. Cardinality(Keyed') <= Cardinality(Keyed)
  BY KeysFinite, FewerOf
<1>2. Cardinality(Checking') <= Cardinality(Checking) - 1
  BY KeysFinite, OneLessOf
<1> QED
  BY <1>1, <1>2, KeysFinite, KeysFiniteNext DEF CountInv

-----------------------------------------------------------------------------
LEMMA KInvInit == Init => KInv
<1> SUFFICES ASSUME Init PROVE KInv
  OBVIOUS
<1>1. WorkersInv
  BY DEF Init, SearchInit, WorkersInv, WorkersOK, WorkerOK, Threads
<1>2. Keyed = {} /\ Checking = {}
  BY DEF Init, SearchInit, Keyed, Checking, Threads, Flows
<1>3. CountInv
  BY <1>2, FS_EmptySet DEF Init, SearchInit, CountInv
<1>4. submissions \in 0..MaxSubmissions
  BY MaxSubmissionsAssumption DEF Init
<1> QED
  BY <1>1, <1>3, <1>4, IInvInit DEF KInv

(* A worker that connects or is gone was there before.                     *)
LEMMA NoWorkerComes ==
  ASSUME \A s \in Searches : \A h \in Hosts : worker'[s][h] \in Threads => worker[s][h] \in Threads
  PROVE  Keyed' \subseteq Keyed
BY DEF Keyed, Flows

LEMMA WorkersSame ==
  ASSUME WorkersInv, UNCHANGED <<task, attempt, worker>>
  PROVE  WorkersInv' /\ Keyed' \subseteq Keyed
BY DEF WorkersInv, WorkersOK, WorkerOK, Keyed

(* The attempts that are cancelled leave at most a worker that connects.   *)
LEMMA CancelledWorkers ==
  ASSUME SearchShape, WorkersInv, NEW S, CancelAttempts(S)
  PROVE  /\ worker' \in [Searches -> [Hosts -> {"none"} \cup Threads]]
         /\ \A s \in Searches : \A h \in Hosts :
               /\ WorkerOK(s, h)'
               /\ worker'[s][h] \in {"none", worker[s][h]}
<1>1. \A s \in Searches : \A h \in Hosts :
         /\ attempt'[s][h] = IF s \in S THEN CancelledAttempt(attempt[s][h]) ELSE attempt[s][h]
         /\ worker'[s][h] = IF s \in S THEN LeftBehind(attempt[s][h], worker[s][h])
                            ELSE worker[s][h]
  BY DEF CancelAttempts
<1>2. \A s \in Searches : \A h \in Hosts :
         /\ worker'[s][h] \in {"none", worker[s][h]}
         /\ worker[s][h] \in {"none"} \cup Threads
  BY <1>1 DEF LeftBehind, WorkersInv
<1>3. worker' \in [Searches -> [Hosts -> {"none"} \cup Threads]]
  <2>1. worker' = [s \in Searches |-> [h \in Hosts |-> worker'[s][h]]]
    BY DEF CancelAttempts
  <2>2. \A s \in Searches : \A h \in Hosts : worker'[s][h] \in {"none"} \cup Threads
    BY <1>2
  <2> QED
    BY <2>1, <2>2
<1>4. ASSUME NEW s \in Searches, NEW h \in Hosts PROVE WorkerOK(s, h)'
  <2>1. WorkerOK(s, h) /\ attempt[s][h] \in {"none", "queued"} \cup Active
    BY DEF WorkersInv, WorkersOK, SearchShape
  <2> QED
    BY <1>1, <2>1 DEF WorkerOK, CancelledAttempt, LeftBehind, Active, Closing, Threads
<1> QED
  BY <1>2, <1>3, <1>4

LEMMA CancelWorkers ==
  ASSUME SearchShape, WorkersInv, NEW S, CancelSearches(S)
  PROVE  WorkersInv' /\ Keyed' \subseteq Keyed
<1>1. /\ worker' \in [Searches -> [Hosts -> {"none"} \cup Threads]]
      /\ \A s \in Searches : \A h \in Hosts :
            WorkerOK(s, h)' /\ worker'[s][h] \in {"none", worker[s][h]}
  <2>1. PICK T : CancelAttempts(T)
    BY DEF CancelSearches
  <2> QED
    BY <2>1, CancelledWorkers
<1>2. \A s \in Searches : task'[s] = "ports" => task[s] = "ports"
  BY DEF CancelSearches, CancelledTask
<1>3. \A s \in Searches : task'[s] = "ports" => \A h \in Hosts : worker'[s][h] = "none"
  BY <1>1, <1>2 DEF WorkersInv, WorkersOK
<1>4. WorkersInv'
  BY <1>1, <1>3 DEF WorkersInv, WorkersOK
<1>5. Keyed' \subseteq Keyed
  BY <1>1, NoWorkerComes DEF Threads
<1> QED
  BY <1>4, <1>5

LEMMA RemoveWorkers ==
  ASSUME SearchShape, WorkersInv, NEW F, NEW f, NEW o, Remove(F, f, o)
  PROVE  WorkersInv' /\ Keyed' \subseteq Keyed
<1>1. PICK S : CancelSearches(S)
  BY DEF Remove
<1> QED
  BY <1>1, CancelWorkers

LEMMA CreateWorkers ==
  ASSUME SearchShape, WorkersInv, NEW f, NEW o, NEW h, CreatePurifier(f, o, h)
  PROVE  WorkersInv' /\ Keyed' \subseteq Keyed
<1>1. PICK F : Remove(F, f, o)
  BY DEF CreatePurifier
<1> QED
  BY <1>1, RemoveWorkers

-----------------------------------------------------------------------------
(* The steps of a search.  One attempt changes, or the search itself.      *)

LEMMA OneWorker ==
  ASSUME SearchShape, WorkersInv, NEW s \in Searches, NEW h \in Hosts,
         task' = task, NEW a, NEW w \in {"none"} \cup Threads,
         attempt' = [attempt EXCEPT ![s][h] = a], worker' = [worker EXCEPT ![s][h] = w],
         WorkerOK(s, h)', task[s] # "ports"
  PROVE  WorkersInv'
<1>1. worker' \in [Searches -> [Hosts -> {"none"} \cup Threads]]
  BY DEF WorkersInv
<1>2. \A r \in Searches : \A i \in Hosts : r # s \/ i # h =>
         attempt'[r][i] = attempt[r][i] /\ worker'[r][i] = worker[r][i]
  BY DEF WorkersInv, SearchShape
<1>3. \A r \in Searches : \A i \in Hosts : WorkerOK(r, i)'
  BY <1>2 DEF WorkersInv, WorkersOK, WorkerOK
<1>4. \A r \in Searches : task'[r] = "ports" => \A i \in Hosts : worker'[r][i] = "none"
  BY <1>2 DEF WorkersInv, WorkersOK
<1> QED
  BY <1>1, <1>3, <1>4 DEF WorkersInv, WorkersOK

LEMMA SearchWorkers ==
  ASSUME IInv, WorkersInv, CountInv, NEW s \in Searches, SearchStep(s), handler' = handler
  PROVE  WorkersInv' /\ CountInv'
<1> DEFINE Goal == WorkersInv' /\ CountInv'
<1>0. /\ SearchShape /\ SearchOK(s) /\ WorkersOK(s) /\ s \in Flows
      /\ Checking' = Checking
  BY DEF IInv, SearchInv, WorkersInv, Checking, Flows
<1>1. ASSUME NoCandidates(s) \/ NotFound(s) \/ CleanedUp(s) PROVE Goal
  <2>1. Over(s)
    BY <1>1 DEF NoCandidates, NotFound, CleanedUp
  <2>2. WorkersInv'
    BY <1>0, <2>1 DEF Over, WorkersInv, WorkersOK, WorkerOK, SearchShape
  <2>3. Keyed' = Keyed /\ secrets' = secrets
    BY <2>1 DEF Over, Keyed
  <2> QED
    BY <1>0, <2>2, <2>3, NoKeyComes
<1>2. ASSUME Candidates(s) PROVE Goal
  <2>1. PICK open \in SUBSET Hosts :
           attempt' = [attempt EXCEPT ![s] =
                         [h \in Hosts |-> IF h \in open THEN "queued" ELSE "none"]]
    BY <1>2 DEF Candidates
  <2>2. \A h \in Hosts : attempt'[s][h] \in {"queued", "none"} /\ worker[s][h] = "none"
    BY <1>0, <1>2, <2>1 DEF Candidates, SearchShape, WorkersOK
  <2>3. \A r \in Searches \ {s} : attempt'[r] = attempt[r]
    BY <1>0, <2>1 DEF SearchShape
  <2>4. /\ task' = [task EXCEPT ![s] = "trying"]
        /\ worker' = worker /\ secrets' = secrets
    BY <1>2 DEF Candidates
  <2>5. \A r \in Searches : WorkersOK(r)'
    BY <1>0, <2>2, <2>3, <2>4 DEF WorkersInv, WorkersOK, WorkerOK, SearchShape
  <2>6. WorkersInv' /\ Keyed' = Keyed
    BY <2>4, <2>5 DEF WorkersInv, Keyed
  <2> QED
    BY <1>0, <2>4, <2>6, NoKeyComes
<1>3. ASSUME NEW h \in Hosts, FoundAt(s, h) PROVE Goal
  <2>1. /\ worker' \in [Searches -> [Hosts -> {"none"} \cup Threads]]
        /\ \A r \in Searches : \A i \in Hosts :
              WorkerOK(r, i)' /\ worker'[r][i] \in {"none", worker[r][i]}
    BY <1>0, <1>3, CancelledWorkers DEF FoundAt
  <2>2. \A r \in Searches : task'[r] = "ports" => task[r] = "ports"
    BY <1>0, <1>3 DEF FoundAt, SearchShape
  <2>3. WorkersInv'
    BY <2>1, <2>2 DEF WorkersInv, WorkersOK
  <2>4. Keyed' \subseteq Keyed
    BY <2>1, NoWorkerComes DEF Threads
  <2> QED
    BY <1>0, <1>3, <2>3, <2>4, NoKeyComes DEF FoundAt
<1>4. ASSUME NEW h \in Hosts, attempt[s][h] # "none"
      PROVE  task[s] # "ports"
  BY <1>0, <1>4 DEF SearchOK, AllEnded
<1>5. ASSUME NEW h \in Hosts, TryHost(s, h) PROVE Goal
  <2>1. /\ attempt' = [attempt EXCEPT ![s][h] = "open"]
        /\ worker' = [worker EXCEPT ![s][h] = "open"]
        /\ secrets' = secrets + 1 /\ task' = task /\ attempt[s][h] = "queued"
    BY <1>5 DEF TryHost
  <2>2. WorkerOK(s, h)'
    BY <1>0, <2>1 DEF WorkerOK, SearchShape, WorkersInv, Threads
  <2>3. WorkersInv'
    BY <1>0, <1>4, <2>1, <2>2, OneWorker DEF Threads
  <2>4. Keyed' \subseteq Keyed \cup {<<s, h>>}
    BY <2>1 DEF Keyed, WorkersInv, Flows
  <2> QED
    BY <1>0, <2>1, <2>3, <2>4, WorkerComes
<1>6. ASSUME NEW h \in Hosts, WorkerConnected(s, h) PROVE Goal
  <2> DEFINE a == IF attempt[s][h] = "open" THEN "drop" ELSE attempt[s][h]
             w == IF attempt[s][h] = "none" THEN "none" ELSE "ready"
  <2>1. /\ attempt' = [attempt EXCEPT ![s][h] = a]
        /\ worker' = [worker EXCEPT ![s][h] = w]
        /\ secrets' = secrets /\ task' = task /\ worker[s][h] = "open"
    BY <1>6 DEF WorkerConnected
  <2>2. /\ attempt[s][h] \in {"none", "open", "drop"}
        /\ attempt'[s][h] = a /\ worker'[s][h] = w
    BY <1>0, <2>1 DEF WorkersOK, WorkerOK, SearchShape, WorkersInv, Active, Closing
  <2>3. WorkerOK(s, h)' /\ w \in {"none"} \cup Threads
    BY <2>2 DEF WorkerOK, Threads, Closing
  <2>4. WorkersInv'
    <3>1. CASE task[s] # "ports"
      <4> HIDE DEF a, w
      <4> QED
        BY <1>0, <2>1, <2>3, <3>1, OneWorker
    <3>2. CASE task[s] = "ports"
      BY <1>0, <2>1, <3>2 DEF WorkersOK
    <3> QED
      BY <3>1, <3>2
  <2>5. \A r \in Searches : \A i \in Hosts : worker'[r][i] \in Threads => worker[r][i] \in Threads
    BY <1>0, <2>1 DEF WorkersInv, Threads
  <2> QED
    BY <1>0, <2>1, <2>4, <2>5, NoWorkerComes, NoKeyComes
<1>7. ASSUME NEW h \in Hosts, CloseDrops(s, h) PROVE Goal
  <2>1. /\ attempt' = [attempt EXCEPT ![s][h] = "join"] /\ worker' = worker
        /\ secrets' = secrets /\ task' = task
        /\ attempt[s][h] = "drop" /\ worker[s][h] = "ready"
    BY <1>7 DEF CloseDrops
  <2>2. worker' = [worker EXCEPT ![s][h] = "ready"]
    BY <2>1 DEF WorkersInv
  <2>3. WorkerOK(s, h)'
    BY <1>0, <2>1 DEF WorkerOK, SearchShape, Closing
  <2>4. WorkersInv'
    BY <1>0, <1>4, <2>1, <2>2, <2>3, OneWorker DEF Threads
  <2>5. Keyed' = Keyed
    BY <2>1 DEF Keyed
  <2> QED
    BY <1>0, <2>1, <2>4, <2>5, NoKeyComes
<1>8. ASSUME NEW h \in Hosts, CloseEnds(s, h) PROVE Goal
  <2>1. /\ attempt' = [attempt EXCEPT ![s][h] = "none"]
        /\ worker' = [worker EXCEPT ![s][h] = "none"]
        /\ secrets' = secrets - 1 /\ task' = task /\ attempt[s][h] = "join"
    BY <1>8 DEF CloseEnds
  <2>2. WorkerOK(s, h)'
    BY <1>0, <2>1 DEF WorkerOK, SearchShape, WorkersInv
  <2>3. WorkersInv'
    BY <1>0, <1>4, <2>1, <2>2, OneWorker
  <2>4. <<s, h>> \in Keyed
    BY <1>0, <2>1 DEF Keyed, WorkersOK, WorkerOK, Threads
  <2>5. Keyed' \subseteq Keyed \ {<<s, h>>}
    BY <2>1 DEF Keyed, WorkersInv, Flows, Threads
  <2> QED
    BY <1>0, <2>1, <2>3, <2>4, <2>5, WorkerGoes
<1> HIDE DEF Goal
<1>9. Goal
  BY <1>1, <1>2, <1>3, <1>5, <1>6, <1>7, <1>8 DEF SearchStep, AttemptStep
<1> QED
  BY <1>9 DEF Goal

-----------------------------------------------------------------------------
(* The steps of the flows.  Only a check registers a key, or takes one     *)
(* away; what is left alone stays counted.                                 *)

LEMMA QuietKeeps ==
  ASSUME KInv, UNCHANGED searchVars, handler' = handler
  PROVE  WorkersInv' /\ CountInv'
<1>1. WorkersInv' /\ Keyed' \subseteq Keyed
  BY WorkersSame DEF KInv, searchVars
<1> QED
  BY <1>1, NoKeyComes DEF KInv, searchVars, Checking

LEMMA SuspendsToLookup ==
  ASSUME KInv, NEW f \in Flows, UNCHANGED searchVars, handler[f] = "idle", Suspend(f, "lookup")
  PROVE  WorkersInv' /\ CountInv'
<1>1. WorkersInv' /\ Keyed' \subseteq Keyed
  BY WorkersSame DEF KInv, searchVars
<1>2. Checking' \subseteq Checking
  BY DEF Suspend, Checking, KInv, IInv, FlowInv, FlowShape
<1> QED
  BY <1>1, <1>2, NoKeyComes DEF KInv, searchVars

LEMMA BeginsCheck ==
  ASSUME KInv, NEW f \in Flows, NEW o, BeginCheck(f, o)
  PROVE  WorkersInv' /\ CountInv'
<1>1. WorkersInv' /\ Keyed' \subseteq Keyed
  BY WorkersSame DEF KInv, BeginCheck
<1>2. Checking' \subseteq Checking \cup {f} /\ secrets' = secrets + 1
  BY DEF BeginCheck, Suspend, Checking, KInv, IInv, FlowInv, FlowShape
<1> QED
  BY <1>1, <1>2, CheckComes DEF KInv

LEMMA EndsCheck ==
  ASSUME KInv, NEW f \in Flows, CheckEnds(f)
  PROVE  WorkersInv' /\ CountInv'
<1>1. WorkersInv' /\ Keyed' \subseteq Keyed
  BY RemoveWorkers, CreateWorkers DEF CheckEnds, KInv, IInv, SearchInv
<1>2. /\ f \in Checking /\ Checking' \subseteq Checking \ {f}
      /\ secrets' = secrets - 1
  BY DEF CheckEnds, Suspend, Checking, KInv, IInv, FlowInv, FlowShape
<1> QED
  BY <1>1, <1>2, CheckGoes DEF KInv

LEMMA ManualWorkers ==
  ASSUME KInv, NEW f \in Flows, NEW in, Manual(f, in), handler[f] = "idle"
  PROVE  WorkersInv' /\ CountInv'
<1>1. CASE ShowManual(f)
  BY <1>1, QuietKeeps DEF ShowManual
<1>2. CASE Evaluate(f, in)
  <2>1. ASSUME NEW o, Remove({f}, f, o), UNCHANGED <<secrets, handler>>
        PROVE  WorkersInv' /\ CountInv'
    <3>1. WorkersInv' /\ Keyed' \subseteq Keyed
      BY <2>1, RemoveWorkers DEF KInv, IInv, SearchInv
    <3> QED
      BY <2>1, <3>1, NoKeyComes DEF KInv, Checking
  <2>2. \/ \E o : Remove({f}, f, o) /\ UNCHANGED <<secrets, handler>>
        \/ UNCHANGED <<searchVars, handler>>
        \/ \E o : BeginCheck(f, o)
        \/ Suspend(f, "lookup") /\ UNCHANGED searchVars
    BY <1>2 DEF Evaluate
  <2> QED
    BY <2>1, <2>2, QuietKeeps, BeginsCheck, SuspendsToLookup
<1> QED
  BY <1>1, <1>2 DEF Manual

LEMMA StartsSearch ==
  ASSUME KInv, NEW f \in Flows, LookupStartsSearch(f)
  PROVE  WorkersInv' /\ CountInv'
<1>1. /\ \A h \in Hosts : worker[f][h] = "none"
      /\ task' = [task EXCEPT ![f] = "ports"]
      /\ UNCHANGED <<attempt, worker, secrets>>
  BY DEF LookupStartsSearch, CanStart, StartSearch, KInv, WorkersInv, Flows
<1>2. WorkersInv' /\ Keyed' = Keyed
  BY <1>1 DEF KInv, IInv, SearchInv, SearchShape, WorkersInv, WorkersOK, WorkerOK, Keyed, Flows
<1>3. Checking' \subseteq Checking
  BY DEF LookupStartsSearch, Suspend, Checking, KInv, IInv, FlowInv, FlowShape
<1> QED
  BY <1>1, <1>2, <1>3, NoKeyComes DEF KInv

LEMMA Submits ==
  ASSUME submissions \in 0..MaxSubmissions, Submitted
  PROVE  submissions' \in 0..MaxSubmissions
BY MaxSubmissionsAssumption DEF Submitted

LEMMA KStep == KInv /\ [Next]_vars => KInv'
<1> SUFFICES ASSUME KInv, [Next]_vars PROVE KInv'
  OBVIOUS
<1>0. IInv' /\ submissions \in 0..MaxSubmissions
  BY Step DEF Good, KInv
<1> DEFINE Goal == WorkersInv' /\ CountInv' /\ submissions' \in 0..MaxSubmissions
<1>1. ASSUME UNCHANGED vars PROVE Goal
  BY <1>0, <1>1, QuietKeeps DEF vars, flowVars
<1>2. ASSUME NEW f \in Flows, UserBegins(f) \/ Pick(f) \/ Discovered(f) \/ ScanEnds(f)
                              \/ SearchEnds(f) \/ EntryRemoved
      PROVE  Goal
  <2>1. UNCHANGED searchVars /\ handler' = handler /\ submissions' = submissions
    BY <1>2 DEF UserBegins, Pick, Discovered, ScanEnds, SearchEnds, EntryRemoved
  <2> QED
    BY <1>0, <2>1, QuietKeeps
<1>3. ASSUME NEW f \in Flows, SubmitKey(f) PROVE Goal
  <2>1. \/ UNCHANGED <<searchVars, handler>>
        \/ \E o : BeginCheck(f, o)
    BY <1>3 DEF SubmitKey
  <2> QED
    BY <1>0, <1>3, <2>1, QuietKeeps, BeginsCheck, Submits DEF SubmitKey
<1>4. ASSUME NEW f \in Flows, SubmitManual(f) PROVE Goal
  BY <1>0, <1>4, ManualWorkers, Submits DEF SubmitManual
<1>5. ASSUME NEW f \in Flows, FlowRemoved(f) PROVE Goal
  <2>1. WorkersInv' /\ Keyed' \subseteq Keyed
    BY <1>5, RemoveWorkers DEF FlowRemoved, KInv, IInv, SearchInv
  <2> QED
    BY <1>0, <1>5, <2>1, NoKeyComes DEF FlowRemoved, KInv, Checking
<1>6. ASSUME NEW f \in Flows, CheckEnds(f) PROVE Goal
  BY <1>0, <1>6, EndsCheck DEF CheckEnds
<1>7. ASSUME NEW f \in Flows, LookupHears(f) PROVE Goal
  BY <1>0, <1>7, BeginsCheck DEF LookupHears
<1>8. ASSUME NEW f \in Flows, LookupStartsSearch(f) PROVE Goal
  BY <1>0, <1>8, StartsSearch DEF LookupStartsSearch
<1>9. ASSUME NEW f \in Flows, Again(f) PROVE Goal
  <2>1. handler[f] = "idle"
    BY <1>9, Alone DEF Again, FlowOK, KInv
  <2> QED
    BY <1>0, <1>9, <2>1, ManualWorkers DEF Again
<1>10. ASSUME NEW f \in Flows, SearchFound(f) PROVE Goal
  <2>1. WorkersInv' /\ Keyed' \subseteq Keyed
    BY <1>10, CreateWorkers DEF SearchFound, KInv, IInv, SearchInv
  <2> QED
    BY <1>0, <1>10, <2>1, NoKeyComes DEF SearchFound, KInv, Checking
<1>11. ASSUME NEW f \in Flows, Network(f) PROVE Goal
  BY <1>0, <1>11, SearchWorkers DEF Network, flowVars, KInv, Flows
<1>12. ASSUME EntryRemoved PROVE Goal
  BY <1>0, <1>12, QuietKeeps DEF EntryRemoved
<1> HIDE DEF Goal
<1>13. Goal
  BY <1>1, <1>2, <1>3, <1>4, <1>5, <1>6, <1>7, <1>8, <1>9, <1>10, <1>11, <1>12
  DEF Next, HandlerEnds, ProgressEnds
<1> QED
  BY <1>0, <1>13 DEF Goal, KInv

LEMMA KInvAlways == Spec => []KInv
BY KInvInit, KStep, PTL DEF Spec

(* Every key that a worker or a check may log is counted, also for the     *)
(* device of an attempt that was cancelled twice; none is uncounted early. *)
THEOREM KeysStayRegistered == Spec => []KeyRegistered
<1>1. KInv => KeyRegistered
  BY DEF KInv, CountInv, Keyed, Checking, KeyRegistered
<1> QED
  BY <1>1, KInvAlways, PTL

(* All variables keep their types: no count goes below zero.               *)
THEOREM TypeCorrect == Spec => []TypeOK
<1>1. KInv => TypeOK
  BY DEF KInv, IInv, SearchInv, SearchShape, FlowInv, FlowShape, WorkersInv, CountInv,
         TypeOK, SearchTypeOK
<1> QED
  BY <1>1, KInvAlways, PTL

=============================================================================
