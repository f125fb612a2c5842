----------------------------- MODULE ConfigFlow ----------------------------
(***************************************************************************)
(* Adding a purifier: the purifier steps of birdie/config_flow.py, with    *)
(* async_check_connection of birdie/purifier/flow.py, and the network      *)
(* search of LanSearch.tla, which a flow starts for a manual entry without *)
(* an address.  Reauthentication and reconfiguration change an entry that  *)
(* exists and are actions of PurifierSetup.tla.                            *)
(*                                                                         *)
(* Several flows are in progress at a time, also for the same device.  A   *)
(* flow that Home Assistant removes (the user closes the dialog, or        *)
(* another flow added the device) stays in the handler it is in: the       *)
(* handler goes on, and its result is dropped.                             *)
(*                                                                         *)
(* Flow f runs its network search in the task f of LanSearch.  A           *)
(* submission is a device ID, a key that is right, wrong or malformed, and *)
(* perhaps an address.                                                     *)
(***************************************************************************)
EXTENDS LanSearch

CONSTANTS
    Ids,            \* device IDs
    Podiums,        \* those of Birdie purifiers
    At,             \* where each device is
    NoId,           \* an empty device ID
    None,           \* no object
    MaxSubmissions  \* bound on the forms that are submitted in all

Flows == Searches

ASSUME PodiumsAssumption == Podiums \subseteq Ids
ASSUME AtAssumption == At \in [Ids -> Hosts]
ASSUME NoIdAssumption == NoId \notin Ids
ASSUME MaxSubmissionsAssumption == MaxSubmissions \in Nat

VARIABLES
    step,           \* what Home Assistant shows of each flow: a form or progress
    handler,        \* the handler that is suspended, if any
    flow,           \* the flow objects
    entry,          \* the configured purifiers' addresses
    submissions     \* the forms submitted so far

flowVars == <<step, handler, flow, entry, submissions>>
vars == <<searchVars, flowVars>>

Keys == {"right", "wrong", "malformed"}
Addresses == Hosts \cup {NoHost}
Inputs == [id : Ids \cup {NoId}, key : Keys, host : Addresses]

ASSUME NoneAssumption == None \notin Inputs /\ None \notin Flows

Forms == {"pick", "key", "manual"}
Progress == {"scan", "search", "again", "found"}

Objects == [
    uniqueId : Ids \cup {NoId, None},
    devices : [Podiums -> Addresses],   \* _lan_devices
    input : Inputs \cup {None},         \* what it looks into: _purifier or the form's
    trusted : BOOLEAN,                  \* its product key is one of a Podium
    search : {"none", "running", "not_a_podium"}]   \* _search

NoFlow == [uniqueId |-> None, devices |-> [d \in Podiums |-> NoHost],
           input |-> None, trusted |-> FALSE, search |-> "none"]

TypeOK ==
    /\ SearchTypeOK
    /\ step \in [Flows -> {"off"} \cup Forms \cup Progress]
    /\ handler \in [Flows -> {"idle", "lookup", "check"}]
    /\ flow \in [Flows -> Objects]
    /\ entry \in [Ids -> Addresses]
    /\ submissions \in 0..MaxSubmissions

Init ==
    /\ SearchInit
    /\ step = [f \in Flows |-> "off"]
    /\ handler = [f \in Flows |-> "idle"]
    /\ flow = [f \in Flows |-> NoFlow]
    /\ entry = [d \in Ids |-> NoHost]
    /\ submissions = 0

-----------------------------------------------------------------------------
(* Home Assistant.  A flow that ends in any way is removed, which runs     *)
(* async_remove.  The object is gone once no handler of it runs.           *)

CanBegin(f) == step[f] = "off" /\ handler[f] = "idle" /\ CanStart(f)

Configured(d) == d \in Ids /\ entry[d] # NoHost

Show(f, s) == step' = [step EXCEPT ![f] = s]
Suspend(f, h) == handler' = [handler EXCEPT ![f] = h]

(* The flows F are removed, after o is what the handler of f left behind.  *)
Remove_KeepsSearch(F, f, o) ==
    /\ step' = [g \in Flows |-> IF g \in F THEN "off" ELSE step[g]]
    /\ flow' = [g \in Flows |->
                  CASE g = f -> IF step'[f] = "off" THEN NoFlow ELSE o
                    [] g \in F /\ handler[g] = "idle" -> NoFlow
                    [] OTHER -> flow[g]]
    /\ UNCHANGED <<task, goal, result, attempt, accepted, worker>>

Remove(F, f, o) ==
    /\ step' = [g \in Flows |-> IF g \in F THEN "off" ELSE step[g]]
    /\ flow' = [g \in Flows |->
                  CASE g = f -> IF step'[f] = "off" THEN NoFlow ELSE o
                    [] g \in F /\ handler[g] = "idle" -> NoFlow
                    [] OTHER -> flow[g]]
    /\ CancelSearches({g \in F \ {f} : flow[g].search = "running"})

(* _abort_if_unique_id_configured, and Home Assistant adds the entry at    *)
(* once: it aborts the other flows for the device.  The result of a flow   *)
(* that was removed before is dropped.                                     *)
CreatePurifier_NoCheck(f, o, h) ==
    LET d == o.input.id
        others == {g \in Flows : flow[g].uniqueId = d /\ step[g] # "off"}
    IN  IF step[f] = "off" THEN Remove({}, f, o) /\ UNCHANGED entry
        ELSE Remove({f} \cup others, f, o) /\ entry' = [entry EXCEPT ![d] = h]

CreatePurifier(f, o, h) ==
    LET d == o.input.id
        others == {g \in Flows : flow[g].uniqueId = d /\ step[g] # "off"}
    IN  IF step[f] = "off" THEN Remove({}, f, o) /\ UNCHANGED entry
        ELSE IF Configured(d) THEN Remove({f}, f, o) /\ UNCHANGED entry
        ELSE Remove({f} \cup others, f, o) /\ entry' = [entry EXCEPT ![d] = h]

-----------------------------------------------------------------------------
(* Searching the network for announcements.                                *)

(* The user adds a purifier: a new flow object, whose scan starts.         *)
UserBegins(f) ==
    /\ CanBegin(f)
    /\ Show(f, "scan")
    /\ UNCHANGED <<searchVars, handler, flow, entry, submissions>>

(* The purifiers that were heard, at whatever address they announced, less *)
(* those that are configured by now.  The scan may have failed.            *)
ScanEnds(f) ==
    /\ step[f] = "scan"
    /\ \E heard \in [Podiums -> Addresses] :
          LET new == [d \in Podiums |-> IF Configured(d) THEN NoHost ELSE heard[d]]
          IN  /\ flow' = [flow EXCEPT ![f].devices = new]
              /\ Show(f, IF \E d \in Podiums : new[d] # NoHost THEN "pick" ELSE "manual")
    /\ UNCHANGED <<searchVars, handler, entry, submissions>>

(* The form for the key of an announced device.                            *)
AskKey(f, d, h, o) ==
    /\ flow' = [flow EXCEPT ![f] = [o EXCEPT
                  !.input = [id |-> d, key |-> "malformed", host |-> h], !.trusted = TRUE]]
    /\ Show(f, "key")

Pick(f) ==
    /\ step[f] = "pick"
    /\ \/ \E d \in Podiums :
             /\ flow[f].devices[d] # NoHost
             /\ AskKey(f, d, flow[f].devices[d], flow[f])
       \/ Show(f, "manual") /\ UNCHANGED flow
    /\ UNCHANGED <<searchVars, handler, entry, submissions>>

(* A purifier announced itself and is offered to the user, unless another  *)
(* flow is in progress for it.                                             *)
Discovered(f) ==
    /\ CanBegin(f)
    /\ \E d \in Podiums, h \in Hosts :
          /\ \A g \in Flows : step[g] # "off" => flow[g].uniqueId # d
          /\ IF Configured(d)
             THEN entry' = [entry EXCEPT ![d] = h] /\ UNCHANGED <<step, flow>>
             ELSE AskKey(f, d, h, [flow[f] EXCEPT !.uniqueId = d]) /\ UNCHANGED entry
    /\ UNCHANGED <<searchVars, handler, submissions>>

-----------------------------------------------------------------------------
(* The key of an announced purifier, and the check of a submission.        *)

Submitted ==
    /\ submissions < MaxSubmissions
    /\ submissions' = submissions + 1

(* The handler makes a LanDevice, which registers the key, and connects.   *)
BeginCheck(f, o) ==
    /\ Suspend(f, "check")
    /\ flow' = [flow EXCEPT ![f] = o]
    /\ secrets' = secrets + 1
    /\ UNCHANGED <<task, goal, result, attempt, accepted, worker, step>>

SubmitKey(f) ==
    /\ step[f] = "key" /\ handler[f] = "idle"
    /\ Submitted
    /\ \E key \in Keys :
          IF key = "malformed" THEN UNCHANGED <<searchVars, step, handler, flow>>
          ELSE BeginCheck(f, [flow[f] EXCEPT !.input.key = key])
    /\ UNCHANGED entry

Accepts(in) == in.key = "right" /\ in.host = At[in.id]

(* The device is closed.  It did not answer or accept, or it is no Podium, *)
(* and the form is shown again; or the entry is made.                      *)
CheckEnds_AnyDevice(f) ==
    /\ handler[f] = "check"
    /\ Suspend(f, "idle")
    /\ LET in == flow[f].input
       IN  \/ Remove({}, f, flow[f]) /\ UNCHANGED entry
           \/ /\ Accepts(in)
              /\ CreatePurifier(f, flow[f], in.host)
    /\ secrets' = secrets - 1
    /\ UNCHANGED submissions

CheckEnds(f) ==
    /\ handler[f] = "check"
    /\ Suspend(f, "idle")
    /\ LET in == flow[f].input
       IN  \/ Remove({}, f, flow[f]) /\ UNCHANGED entry
           \/ /\ Accepts(in)
              /\ flow[f].trusted \/ in.id \in Podiums
              /\ CreatePurifier(f, flow[f], in.host)
    /\ secrets' = secrets - 1
    /\ UNCHANGED submissions

-----------------------------------------------------------------------------
(* The manual form and its network search.                                 *)

(* The handler of the form.  What it makes of a submission:                *)
Valid(in) == in.id # NoId /\ in.key # "malformed"

Evaluate(f, in) ==
    LET o == [flow[f] EXCEPT !.search = "none"]
        asked == [o EXCEPT !.uniqueId = in.id, !.input = in]
        heard == IF in.id \in Podiums THEN o.devices[in.id] ELSE NoHost
    IN
    \/ /\ Configured(in.id)
       /\ Remove({f}, f, o)
       /\ UNCHANGED <<secrets, handler>>
    \/ /\ ~Configured(in.id) /\ ~Valid(in)
       /\ Show(f, "manual")
       /\ flow' = [flow EXCEPT ![f] = [o EXCEPT !.uniqueId = in.id]]
       /\ UNCHANGED <<searchVars, handler>>
    \/ /\ ~Configured(in.id) /\ Valid(in)
       /\ \/ in.host # NoHost /\ BeginCheck(f, [asked EXCEPT !.trusted = FALSE])
          \/ /\ in.host = NoHost /\ heard # NoHost
             /\ BeginCheck(f, [asked EXCEPT !.input.host = heard, !.trusted = TRUE])
          \/ /\ in.host = NoHost /\ heard = NoHost
             /\ Suspend(f, "lookup")
             /\ flow' = [flow EXCEPT ![f] = asked]
             /\ UNCHANGED <<searchVars, step>>

(* When it comes back from a search it shows the form, whatever input Home *)
(* Assistant passes on.                                                    *)
ShowManual(f) ==
    /\ Show(f, "manual")
    /\ flow' = [flow EXCEPT ![f].search = "none"]
    /\ UNCHANGED <<searchVars, handler>>

Manual_Evaluates(f, in) ==
    IF in = None THEN ShowManual(f) ELSE Evaluate(f, in)

Manual(f, in) ==
    IF flow[f].search # "none" \/ in = None THEN ShowManual(f) ELSE Evaluate(f, in)

SubmitManual(f) ==
    /\ step[f] = "manual" /\ handler[f] = "idle"
    /\ Submitted
    /\ \E in \in Inputs : Manual(f, in)
    /\ UNCHANGED entry

(* The device announced itself within the time of the scan.                *)
LookupHears(f) ==
    /\ handler[f] = "lookup"
    /\ \E h \in Hosts, known \in BOOLEAN :
          /\ known => flow[f].input.id \in Podiums
          /\ BeginCheck(f, [flow[f] EXCEPT !.input.host = h, !.trusted = known])
    /\ UNCHANGED <<entry, submissions>>

(* It did not.  The search starts even if the flow was removed meanwhile.  *)
LookupStartsSearch(f) ==
    /\ handler[f] = "lookup" /\ CanStart(f)
    /\ Suspend(f, "idle")
    /\ LET in == flow[f].input
       IN  StartSearch(f, IF in.key = "right" THEN At[in.id] ELSE NoHost)
    /\ IF step[f] = "off"
       THEN flow' = [flow EXCEPT ![f] = NoFlow] /\ UNCHANGED step
       ELSE flow' = [flow EXCEPT ![f].search = "running"] /\ Show(f, "search")
    /\ UNCHANGED <<entry, submissions>>

(* The progress of the search ends.  What was found may not report what a  *)
(* Podium reports.                                                         *)
SearchEnds_AnyResult(f) ==
    /\ step[f] = "search" /\ task[f] = "over"
    /\ \/ result[f] = NoHost /\ Show(f, "again") /\ UNCHANGED flow
       \/ /\ result[f] # NoHost
          /\ flow' = [flow EXCEPT ![f].search = "not_a_podium"] /\ Show(f, "again")
       \/ /\ flow[f].input.id \in Podiums
          /\ Show(f, "found") /\ UNCHANGED flow
    /\ UNCHANGED <<searchVars, handler, entry, submissions>>

SearchEnds(f) ==
    /\ step[f] = "search" /\ task[f] = "over"
    /\ \/ result[f] = NoHost /\ Show(f, "again") /\ UNCHANGED flow
       \/ /\ result[f] # NoHost
          /\ flow' = [flow EXCEPT ![f].search = "not_a_podium"] /\ Show(f, "again")
       \/ /\ result[f] # NoHost /\ flow[f].input.id \in Podiums
          /\ Show(f, "found") /\ UNCHANGED flow
    /\ UNCHANGED <<searchVars, handler, entry, submissions>>

(* Home Assistant goes on to the form, with the input that it was given    *)
(* before the search or without any.                                       *)
Again(f) ==
    /\ step[f] = "again"
    /\ \E in \in {flow[f].input, None} : Manual(f, in)
    /\ UNCHANGED <<entry, submissions>>

SearchFound(f) ==
    /\ step[f] = "found"
    /\ CreatePurifier(f, [flow[f] EXCEPT !.search = "none"], result[f])
    /\ UNCHANGED <<secrets, handler, submissions>>

-----------------------------------------------------------------------------
(* The user closes the dialog, or deletes a configured purifier.           *)
FlowRemoved(f) ==
    /\ step[f] # "off"
    /\ Remove({f}, None, NoFlow)
    /\ UNCHANGED <<secrets, handler, entry, submissions>>

EntryRemoved ==
    /\ \E d \in Ids : Configured(d) /\ entry' = [entry EXCEPT ![d] = NoHost]
    /\ UNCHANGED <<searchVars, step, handler, flow, submissions>>

HandlerEnds(f) == CheckEnds(f) \/ LookupHears(f) \/ LookupStartsSearch(f)

ProgressEnds(f) == ScanEnds(f) \/ SearchEnds(f) \/ Again(f) \/ SearchFound(f)

Network(f) == SearchStep(f) /\ UNCHANGED flowVars

Next ==
    \/ \E f \in Flows :
          \/ UserBegins(f) \/ Pick(f) \/ Discovered(f)
          \/ SubmitKey(f) \/ SubmitManual(f) \/ FlowRemoved(f)
          \/ HandlerEnds(f) \/ ProgressEnds(f) \/ Network(f)
    \/ EntryRemoved

(* Connections and searches end, and Home Assistant goes on after progress. *)
Fairness ==
    \A f \in Flows :
        /\ WF_vars(HandlerEnds(f)) /\ WF_vars(ProgressEnds(f))
        /\ WF_vars(Network(f))

Spec == Init /\ [][Next]_vars /\ Fairness

-----------------------------------------------------------------------------
(* Properties.                                                             *)

(* The key of every LanDevice is registered for redaction as long as its   *)
(* worker may log it, also of a device that an attempt, cancelled twice,   *)
(* left behind: the devices of all searches and checks share one Counter.  *)
KeyRegistered ==
    Cardinality({p \in Flows \X Hosts : worker[p[1]][p[2]] \in Threads})
        + Cardinality({f \in Flows : handler[f] = "check"}) <= secrets

(* The assertions of the handlers: the form for a key knows its device,    *)
(* the progress of a search has one, and the last step has a result.       *)
StepsHaveTheirData ==
    \A f \in Flows :
        /\ step[f] = "key" => flow[f].input # None
        /\ step[f] \in {"search", "found"} => flow[f].search = "running"
        /\ step[f] = "found" => result[f] # NoHost

(* Two flows for the same device pass the first check for a configured     *)
(* device; only one adds it.  The other does not replace the entry, whose  *)
(* address may have changed: only an announcement changes that.            *)
NeverReplaced ==
    [][\A d \in Ids : Configured(d) /\ entry'[d] \notin {entry[d], NoHost} => step' = step]_vars

(* "Only the device the key belongs to accepts it": an entry is made only  *)
(* for a purifier, with the address at which its key was accepted,         *)
(* whatever was announced, submitted or found before.                      *)
OnlyProven ==
    [][\A d \in Ids : entry[d] = NoHost /\ entry'[d] # NoHost =>
          d \in Podiums /\ entry'[d] = At[d]]_vars

(* "Stop a network search that is still running": a flow that is removed   *)
(* while it shows its search stops it, also if it is removed because       *)
(* another flow has added the device.                                      *)
RemovalStopsSearch ==
    [][\A f \in Flows : step[f] = "search" /\ step'[f] = "off" =>
          task'[f] \notin {"ports", "trying"}]_vars

(* Whatever is submitted, and whatever Home Assistant passes on after a    *)
(* progress step, the user gets a form or the flow ends; and a search ends *)
(* with its flow or after it, however often it is cancelled.               *)
Settled(f) ==
    handler[f] = "idle" /\ step[f] \notin Progress /\ task[f] \notin Running

Answered == \A f \in Flows : ~Settled(f) ~> Settled(f)

=============================================================================
