---------------------------- MODULE PurifierData ---------------------------
(***************************************************************************)
(* What Home Assistant shows of a loaded purifier and what it tells it:    *)
(* birdie/purifier/model.py (data points, states, commands), fan.py and    *)
(* entity.py, async_send_dps of purifier/coordinator.py, and the handling  *)
(* of reports in lan/device.py.                                            *)
(*                                                                         *)
(* A command shows its expected result at once; the purifier applies it    *)
(* later, or not at all, and reports changes, or not.  Reports that left   *)
(* the purifier before the command undo what is shown.  The two data       *)
(* points that commands write are kept, power and mode.                    *)
(*                                                                         *)
(* The worker thread executes jobs, and the loop handles their results, in *)
(* the order in which they were submitted; LanDevice.tla has the details   *)
(* of the connection.                                                      *)
(***************************************************************************)
EXTENDS Integers, Sequences

CONSTANTS
    Absent,         \* None: no value, or a data point that was not reported
    Used,           \* bound on the modes that occur
    Percentages,    \* bound on the speeds that are asked for
    MaxMessages     \* bound on what is under way from and to the purifier

ASSUME PercentagesAssumption == Percentages \subseteq 0..100
ASSUME MessagesAssumption == MaxMessages \in Nat

VARIABLES
    actual,         \* the purifier's data points
    reportsMode,    \* it reports its mode
    inbox,          \* commands it has not handled
    pushes,         \* its reports of changes, under way
    missed,         \* ghost: a change that no report tells, since the last read
    link,           \* the connection: up, broken, or dropped
    jobs,           \* the worker's queue
    done,           \* results that the loop has not handled
    running,        \* the background task waits for a job
    connected,      \* LanDevice._available
    cache,          \* LanDevice._dps
    shown,          \* coordinator.data.dps
    available,      \* coordinator.last_update_success
    command         \* the data points that the command in progress writes

purifier == <<actual, reportsMode, inbox, pushes, missed>>
queues == <<jobs, done, running>>
data == <<connected, cache, shown, available>>
vars == <<purifier, link, queues, data, command>>

-----------------------------------------------------------------------------
(* Data points.  The mode mixes presets and the speeds of manual mode.     *)

PresetModes == {"auto", "sleep"}
Manual == <<"manual1", "manual2", "manual3", "manual4">>
Modes == PresetModes \cup {Manual[i] : i \in 1..4}

ASSUME UsedAssumption == Used \subseteq Modes

Values == [switch |-> BOOLEAN, mode |-> Used]
Points == DOMAIN Values
Unknown == [k \in Points |-> Absent]

(* dict.update of Python: the new values, and what they leave alone.       *)
Updated(dps, new) ==
    [k \in DOMAIN dps \cup DOMAIN new |-> IF k \in DOMAIN new THEN new[k] ELSE dps[k]]

(* _decode_mode: mode and speed, each perhaps unknown.                     *)
DecodeMode(value) ==
    CASE value \in PresetModes -> <<value, Absent>>
      [] \E i \in 1..4 : Manual[i] = value ->
            <<"manual", CHOOSE i \in 1..4 : Manual[i] = value>>
      [] OTHER -> <<Absent, Absent>>

(* What from_dps makes of the filter's minutes.  Python rounds a half to   *)
(* the even number.                                                        *)
FilterRemaining(total, used) == IF used > total THEN 0 ELSE total - used

RoundedQuotient(n, d) ==
    LET q == n \div d
        r == 2 * (n % d)
    IN  IF r > d \/ (r = d /\ q % 2 = 1) THEN q + 1 ELSE q

FilterLife(total, used) ==
    LET percent == RoundedQuotient(100 * FilterRemaining(total, used), total)
    IN  IF total <= 0 THEN Absent ELSE IF percent > 100 THEN 100 ELSE percent

-----------------------------------------------------------------------------
(* The fan entity: what it shows, and the data points it writes.           *)

IsOn(dps) == dps.switch

(* Home Assistant's ranged_value_to_percentage for the speeds 1 to 4, and  *)
(* percentage_to_ranged_value rounded up.                                  *)
SpeedToPercentage(speed) == (speed * 100) \div 4
SpeedFor_Floor(percentage) == IF percentage < 25 THEN 1 ELSE (percentage * 4) \div 100
SpeedFor(percentage) == (percentage * 4 + 99) \div 100

Percentage(dps) ==
    LET mode == DecodeMode(dps.mode)
    IN  CASE dps.switch = FALSE -> 0
          [] dps.switch # FALSE /\ mode[1] = "manual" -> SpeedToPercentage(mode[2])
          [] OTHER -> Absent

PresetMode(dps) == LET mode == DecodeMode(dps.mode)[1]
                   IN  IF mode \in PresetModes THEN mode ELSE Absent

Power(on) == [switch |-> on]
Mode(value) == [mode |-> value]
Speed(percentage) == Mode(Manual[SpeedFor(percentage)])

TurnOn(percentage, preset) ==
    CASE preset # Absent -> Updated(Power(TRUE), Mode(preset))
      [] preset = Absent /\ percentage \notin {Absent, 0} -> Updated(Power(TRUE), Speed(percentage))
      [] OTHER -> Power(TRUE)

(* A purifier that is shown to be on is not turned on again.               *)
Waking(dps, dp) == IF IsOn(dps) = TRUE THEN dp ELSE Updated(Power(TRUE), dp)

SetPercentage(dps, percentage) ==
    IF percentage = 0 THEN Power(FALSE) ELSE Waking(dps, Speed(percentage))

SetPresetMode(dps, preset) == Waking(dps, Mode(preset))

ResetFilter == [reset |-> TRUE]

(* The service calls, given what is shown.  The modes that are asked for   *)
(* are among those that occur.                                             *)
ASSUME SpeedsAssumption ==
    \A p \in Percentages \ {0} : Manual[SpeedFor(p)] \in Used

Requests(dps) ==
    {TurnOn(p, m) : p \in Percentages \cup {Absent}, m \in (PresetModes \cap Used) \cup {Absent}}
        \cup {Power(FALSE), ResetFilter}
        \cup {SetPercentage(dps, p) : p \in Percentages}
        \cup {SetPresetMode(dps, m) : m \in PresetModes \cap Used}

(* apply_dps: the reset of the filter is a trigger and has no value.       *)
Applied(dps, written) ==
    [k \in DOMAIN dps |-> IF k \in DOMAIN written THEN written[k] ELSE dps[k]]

-----------------------------------------------------------------------------
Reported(dps) == [k \in {k \in Points : k = "mode" => reportsMode} |-> dps[k]]

IsData(dps) == \A k \in Points : dps[k] \in Values[k] \cup {Absent}

Jobs == {"status", "receive", "open", "drop", "set", "command drop"}

TypeOK ==
    /\ \A k \in Points : actual[k] \in Values[k]
    /\ reportsMode \in BOOLEAN /\ missed \in BOOLEAN
    /\ Len(inbox) <= MaxMessages /\ Len(pushes) <= MaxMessages + 1
    /\ link \in {"up", "broken", "dropped"}
    /\ \A i \in 1..Len(jobs) : jobs[i] \in Jobs
    /\ \A i \in 1..Len(done) : done[i].job \in Jobs
    /\ Len(jobs) + Len(done) <= 2
    /\ running \in BOOLEAN
    /\ connected \in BOOLEAN /\ available \in BOOLEAN
    /\ IsData(cache) /\ IsData(shown)

(* The entry is set up and its device connected.                           *)
Init ==
    /\ actual \in [switch : BOOLEAN, mode : Used]
    /\ reportsMode \in BOOLEAN
    /\ inbox = <<>> /\ pushes = <<>> /\ missed = FALSE
    /\ link = "up"
    /\ jobs = <<>> /\ done = <<>> /\ running = FALSE
    /\ connected = TRUE
    /\ cache = Updated(Unknown, Reported(actual))
    /\ shown = cache
    /\ available = TRUE
    /\ command = <<>>

-----------------------------------------------------------------------------
(* The purifier.  It may or may not report a change.                       *)

Change(new) ==
    /\ actual' = new
    /\ LET changed == {k \in DOMAIN Reported(new) : new[k] # actual[k]}
       IN  \/ missed' = (missed \/ changed # {}) /\ UNCHANGED pushes
           \/ /\ changed # {} /\ link = "up" /\ Len(pushes) < MaxMessages
              /\ pushes' = Append(pushes, [k \in changed |-> new[k]])
              /\ UNCHANGED missed

(* It handles a command; not every command has an effect.                  *)
Handle ==
    /\ inbox # <<>>
    /\ inbox' = Tail(inbox)
    /\ Change(Applied(actual, Head(inbox))) \/ Change(actual)
    /\ UNCHANGED <<reportsMode, link, queues, data, command>>

(* Somebody uses its buttons, or it measures another value.                *)
OwnChange ==
    /\ \E k \in Points : \E v \in Values[k] \ {actual[k]} : Change([actual EXCEPT ![k] = v])
    /\ UNCHANGED <<reportsMode, inbox, link, queues, data, command>>

(* The connection breaks; what is under way is lost.                       *)
Break ==
    /\ link = "up"
    /\ link' = "broken"
    /\ inbox' = <<>> /\ pushes' = <<>> /\ missed' = TRUE
    /\ UNCHANGED <<actual, reportsMode, queues, data, command>>

-----------------------------------------------------------------------------
(* The worker thread.  It drops a connection only when it is told to.      *)

Result(job, report) == Append(done, [job |-> job, lost |-> FALSE, report |-> report])
Lost(job) == Append(done, [job |-> job, lost |-> TRUE, report |-> <<>>])

WorkSend ==
    /\ Head(jobs) = "set" /\ link = "up"
    /\ Len(inbox) < MaxMessages
    /\ inbox' = Append(inbox, command)
    /\ done' = Result("set", <<>>)
    /\ UNCHANGED <<pushes, missed, link>>

(* Reports that arrive before the answer are dropped by the library, or    *)
(* the first one is taken for the answer.                                  *)
WorkRead ==
    /\ Head(jobs) = "status" /\ link = "up"
    /\ \/ /\ done' = Result("status", Reported(actual))
          /\ pushes' = <<>>
       \/ /\ pushes # <<>>
          /\ done' = Result("status", Head(pushes))
          /\ pushes' = Append(Tail(pushes), Reported(actual))
    /\ missed' = FALSE
    /\ UNCHANGED <<inbox, link>>

WorkReceive ==
    /\ Head(jobs) = "receive" /\ link = "up"
    /\ IF pushes = <<>>
       THEN done' = Result("receive", <<>>) /\ UNCHANGED pushes
       ELSE done' = Result("receive", Head(pushes)) /\ pushes' = Tail(pushes)
    /\ UNCHANGED <<inbox, missed, link>>

WorkFails ==
    /\ Head(jobs) \in {"set", "status", "receive"} /\ link # "up"
    /\ done' = Lost(Head(jobs))
    /\ UNCHANGED <<inbox, pushes, missed, link>>

WorkDrop ==
    /\ Head(jobs) \in {"drop", "command drop"}
    /\ link' = "dropped"
    /\ inbox' = <<>> /\ pushes' = <<>> /\ missed' = TRUE
    /\ done' = Result(Head(jobs), <<>>)

WorkOpen ==
    /\ Head(jobs) = "open"
    /\ link' = "up"
    /\ inbox' = <<>> /\ pushes' = <<>> /\ missed' = FALSE
    /\ done' = Result("open", Reported(actual))

Work ==
    /\ jobs # <<>>
    /\ jobs' = Tail(jobs)
    /\ WorkSend \/ WorkRead \/ WorkReceive \/ WorkFails \/ WorkDrop \/ WorkOpen
    /\ UNCHANGED <<actual, reportsMode, running, data, command>>

-----------------------------------------------------------------------------
(* The loop: the background task of the device, and the coordinator.       *)

(* The coordinator takes new data, which counts as a successful update.    *)
ShowData(dps) == shown' = dps /\ available' = TRUE

HandleDps_Replaces(report, full) ==
    /\ cache' = Updated(Unknown, report)
    /\ IF full \/ cache' # cache THEN ShowData(cache') ELSE UNCHANGED <<shown, available>>

HandleDps_OnlyChanges(report, full) ==
    /\ cache' = Applied(cache, report)
    /\ IF cache' # cache THEN ShowData(cache') ELSE UNCHANGED <<shown, available>>

HandleDps(report, full) ==
    /\ cache' = Applied(cache, report)
    /\ IF full \/ cache' # cache THEN ShowData(cache') ELSE UNCHANGED <<shown, available>>

SetUnavailable_NotTold ==
    /\ connected' = FALSE
    /\ UNCHANGED <<cache, shown, available>>

SetUnavailable ==
    /\ connected' = FALSE
    /\ available' = IF connected THEN FALSE ELSE available
    /\ UNCHANGED <<cache, shown>>

RunJob_NotAwaited(job) ==
    /\ running' = TRUE
    /\ jobs' = Append(jobs, job)
    /\ UNCHANGED <<purifier, link, done, data, command>>

RunJob(job) ==
    /\ ~running
    /\ running' = TRUE
    /\ jobs' = Append(jobs, job)
    /\ UNCHANGED <<purifier, link, done, data, command>>

(* A full read is due after a command, and from time to time.              *)
RunStatus == link # "dropped" /\ RunJob("status")

RunReceive == link # "dropped" /\ RunJob("receive")

RunOpen == link = "dropped" /\ RunJob("open")

RunResumes ==
    /\ done # <<>> /\ Head(done).job \notin {"set", "command drop"}
    /\ done' = Tail(done)
    /\ LET d == Head(done) IN
       CASE d.lost ->
              jobs' = Append(jobs, "drop") /\ UNCHANGED <<running, data>>
         [] d.job = "drop" ->
              SetUnavailable /\ running' = FALSE /\ UNCHANGED jobs
         [] OTHER ->
              /\ HandleDps(d.report, d.job # "receive")
              /\ connected' = (connected \/ d.job = "open")
              /\ running' = FALSE
              /\ UNCHANGED jobs
    /\ UNCHANGED <<purifier, link, command>>

-----------------------------------------------------------------------------
(* An entity is available when the data points it shows were reported.     *)
EntityAvailable(required) == available /\ \A k \in required : shown[k] # Absent

(* A service call.  A mode that was never reported is not supported, and   *)
(* without connection a command is refused.                                *)
Command ==
    /\ command = <<>> /\ link # "dropped"
    /\ \E dps \in Requests(shown) :
          /\ EntityAvailable(IF dps = ResetFilter THEN {} ELSE {"switch"})
          /\ "mode" \in DOMAIN dps => shown.mode # Absent
          /\ command' = dps
    /\ jobs' = Append(jobs, "set")
    /\ UNCHANGED <<purifier, link, done, running, data>>

(* The command was sent: a read-back is scheduled, and the expected result *)
(* is shown.                                                               *)
CommandSent ==
    /\ ShowData(Applied(shown, command))
    /\ command' = <<>>
    /\ UNCHANGED <<jobs, connected, cache>>

CommandResumes ==
    /\ done # <<>> /\ Head(done).job \in {"set", "command drop"}
    /\ done' = Tail(done)
    /\ LET d == Head(done) IN
       CASE d.lost ->
              jobs' = Append(jobs, "command drop") /\ UNCHANGED <<data, command>>
         [] d.job = "command drop" ->
              SetUnavailable /\ command' = <<>> /\ UNCHANGED jobs
         [] OTHER -> CommandSent
    /\ UNCHANGED <<purifier, link, running>>

Next ==
    \/ Handle \/ OwnChange \/ Break
    \/ Work
    \/ RunStatus \/ RunReceive \/ RunOpen
    \/ RunResumes \/ Command \/ CommandResumes

(* The status is read again and again; every other step is taken when it   *)
(* can be.                                                                 *)
Fairness ==
    /\ WF_vars(Handle) /\ WF_vars(Work)
    /\ WF_vars(RunResumes \/ CommandResumes)
    /\ WF_vars(RunReceive \/ RunOpen) /\ SF_vars(RunStatus)

Spec == Init /\ [][Next]_vars /\ Fairness

-----------------------------------------------------------------------------
(* Properties.                                                             *)

(* The purifier's values, as far as it reports them.                       *)
Known == Updated(Unknown, Reported(actual))

(* What entities show as available follows the connection, although every  *)
(* report and every command marks the coordinator's data as good: none of  *)
(* them is handled after the connection they came from was dropped.        *)
ShownMeansConnected == available <=> connected

(* When nothing is under way and no change went unreported since the last  *)
(* full read, the device knows the purifier's values: partial reports,     *)
(* full reads and answers that are taken for each other merge in order.    *)
CaughtUp ==
    ~missed /\ link = "up" /\ pushes = <<>> /\ done = <<>> =>
        cache = Known

(* "Show the expected result until the device confirms it": when commands  *)
(* and changes cease, what is shown becomes what the purifier does, also   *)
(* if it ignored the command or did not report it.                         *)
Converges ==
    <>[][~(OwnChange \/ Break \/ Command)]_vars =>
        <>[](available /\ shown = Known)

(* Whatever a purifier that is at rest shows, a percentage selects the     *)
(* slowest speed that is at least as much, and what is shown then selects  *)
(* the same speed again; a preset mode is shown in place of the speed; and *)
(* both wake a purifier that is off.                                       *)
SpeedsRoundUp ==
    jobs = <<>> /\ done = <<>> /\ pushes = <<>> /\ inbox = <<>> /\ shown.mode # Absent =>
        /\ \A p \in 1..100 :
              LET new == Applied(shown, SetPercentage(shown, p))
              IN  /\ IsOn(new) /\ PresetMode(new) = Absent
                  /\ Percentage(new) \in p..p + 24
                  /\ SetPercentage(new, Percentage(new)).mode = new.mode
        /\ \A m \in PresetModes :
              LET new == Applied(shown, SetPresetMode(shown, m))
              IN  IsOn(new) /\ PresetMode(new) = m /\ Percentage(new) = Absent

=============================================================================
