------------------------ MODULE PurifierDataProofs ------------------------
(***************************************************************************)
(* Safety of PurifierData for every number of messages and every set of    *)
(* modes and speeds that occur.                                            *)
(*                                                                         *)
(* Two facts carry the proof.  Results are handled in the order in which   *)
(* the worker produced them, so that a report of a connection is handled   *)
(* before its loss is.  And as long as no change went unreported, what is  *)
(* known, overridden by the reports in the results and then by those under *)
(* way, is what the purifier does.                                         *)
(*                                                                         *)
(* The conversions of the filter's minutes come last.                      *)
(***************************************************************************)
EXTENDS PurifierData, TLAPS

(* What is under way: parts of the data points, and what commands write.   *)
Parts(S) == UNION {[D -> BOOLEAN \cup Used] : D \in SUBSET S}
IsPart(r) == \A k \in Points \cap DOMAIN r : r[k] \in Values[k]

Reports == {r \in Parts(Points) : IsPart(r)}
Writings == {w \in Parts(Points \cup {"reset"}) : IsPart(w) /\ DOMAIN w # {}}
Results == [job : Jobs, lost : BOOLEAN, report : Reports]

Types ==
    /\ actual \in [Points -> BOOLEAN \cup Used] /\ IsPart(actual)
    /\ reportsMode \in BOOLEAN /\ missed \in BOOLEAN
    /\ inbox \in Seq(Writings) /\ Len(inbox) <= MaxMessages
    /\ pushes \in Seq(Reports) /\ Len(pushes) <= MaxMessages
    /\ link \in {"up", "broken", "dropped"}
    /\ jobs \in Seq(Jobs) /\ done \in Seq(Results)
    /\ running \in BOOLEAN
    /\ connected \in BOOLEAN /\ available \in BOOLEAN
    /\ cache \in [Points -> BOOLEAN \cup Used \cup {Absent}] /\ IsData(cache)
    /\ shown \in [Points -> BOOLEAN \cup Used \cup {Absent}] /\ IsData(shown)
    /\ command \in Writings \cup {<<>>}

(* The background task and the command have one job or result each, or     *)
(* none.  A result that was lost has no report.                            *)
CommandJobs == {"set", "command drop"}

Owned(job) == IF job \in CommandJobs THEN command # <<>> ELSE running

Differ(one, other) == one \in CommandJobs <=> other \notin CommandJobs

JobsShape ==
    /\ \A i \in 1..Len(jobs) : Owned(jobs[i])
    /\ \A i \in 1..Len(done) : Owned(done[i].job)
    /\ \A i, j \in 1..Len(jobs) : i # j => Differ(jobs[i], jobs[j])
    /\ \A i, j \in 1..Len(done) : i # j => Differ(done[i].job, done[j].job)
    /\ \A i \in 1..Len(jobs), j \in 1..Len(done) : Differ(jobs[i], done[j].job)

ResultsShape ==
    \A i \in 1..Len(done) :
        /\ done[i].lost => done[i].job \in {"set", "status", "receive"}
        /\ done[i].lost \/ done[i].job \in CommandJobs \cup {"drop"} =>
              DOMAIN done[i].report = {}

(* Whether the device counts as connected once n results are handled.      *)
Switches == {"open", "drop", "command drop"}

Linked(n) ==
    \/ connected /\ \A i \in 1..n : done[i].job \notin Switches
    \/ \E i \in 1..n : done[i].job = "open" /\ \A j \in (i + 1)..n : done[j].job \notin Switches

(* A result of a connection is handled while that counts as connected.     *)
LinkShape ==
    /\ available <=> connected
    /\ link # "dropped" <=> Linked(Len(done))
    /\ \A i \in 1..Len(done) :
          done[i].job \notin Switches /\ ~done[i].lost => Linked(i - 1)

(* What a sequence of reports says last of a data point.                   *)
Silent(s, k) == \A i \in 1..Len(s) : k \notin DOMAIN s[i]

Says(s, k, v) ==
    \E i \in 1..Len(s) :
        /\ k \in DOMAIN s[i] /\ s[i][k] = v
        /\ \A j \in (i + 1)..Len(s) : k \notin DOMAIN s[j]

Handed == [i \in 1..Len(done) |-> done[i].report]

Told(k) ==
    \/ Says(pushes, k, Known[k])
    \/ Silent(pushes, k) /\ Says(Handed, k, Known[k])
    \/ Silent(pushes, k) /\ Silent(Handed, k) /\ cache[k] = Known[k]

NothingForgotten == ~missed /\ link = "up" => \A k \in Points : Told(k)

ModeSecret ==
    ~reportsMode =>
        Silent(pushes, "mode") /\ Silent(Handed, "mode") /\ cache.mode = Absent

Shapes == Types /\ JobsShape /\ ResultsShape

Telling == NothingForgotten /\ ModeSecret

IInv == Shapes /\ LinkShape /\ Telling

USE UsedAssumption, PercentagesAssumption, SpeedsAssumption, MessagesAssumption

-----------------------------------------------------------------------------
(* Data points and their parts.                                            *)

LEMMA PointsAre ==
  /\ Points = {"switch", "mode"}
  /\ Values["switch"] = BOOLEAN /\ Values["mode"] = Used
BY DEF Points, Values

LEMMA PartsAre ==
  ASSUME NEW S, NEW r
  PROVE  r \in Parts(S) <=> \E D \in SUBSET S : r \in [D -> BOOLEAN \cup Used]
BY DEF Parts

LEMMA NothingIsAReport == <<>> \in Reports /\ DOMAIN <<>> = {}
<1>1. <<>> \in [{} -> BOOLEAN \cup Used] /\ DOMAIN <<>> = {}
  OBVIOUS
<1> QED
  BY <1>1, PartsAre DEF Reports, IsPart

(* What a service call writes: at least one data point, with its values.   *)
LEMMA PowerWrites ==
  ASSUME NEW on \in BOOLEAN
  PROVE  Power(on) \in Writings
<1>1. Power(on) \in [{"switch"} -> BOOLEAN \cup Used]
  BY DEF Power
<1>2. DOMAIN Power(on) = {"switch"} /\ Power(on)["switch"] = on
  BY DEF Power
<1> QED
  BY <1>1, <1>2, PartsAre, PointsAre DEF Writings, IsPart

LEMMA ModeWrites ==
  ASSUME NEW m \in Used
  PROVE  Mode(m) \in Writings
<1>1. Mode(m) \in [{"mode"} -> BOOLEAN \cup Used]
  BY DEF Mode
<1>2. DOMAIN Mode(m) = {"mode"} /\ Mode(m)["mode"] = m
  BY DEF Mode
<1> QED
  BY <1>1, <1>2, PartsAre, PointsAre DEF Writings, IsPart

LEMMA ResetWrites == ResetFilter \in Writings
<1>1. \A on \in BOOLEAN :
         /\ [reset |-> on] \in [{"reset"} -> BOOLEAN \cup Used]
         /\ DOMAIN [reset |-> on] = {"reset"}
  OBVIOUS
<1>2. ResetFilter \in [{"reset"} -> BOOLEAN \cup Used] /\ DOMAIN ResetFilter = {"reset"}
  BY <1>1, Zenon DEF ResetFilter
<1> QED
  BY <1>2, PartsAre, PointsAre DEF Writings, IsPart

LEMMA BothWrite ==
  ASSUME NEW w \in Writings, NEW x \in Writings
  PROVE  Updated(w, x) \in Writings
<1>1. PICK D \in SUBSET (Points \cup {"reset"}) : w \in [D -> BOOLEAN \cup Used]
  BY PartsAre DEF Writings
<1>2. PICK E \in SUBSET (Points \cup {"reset"}) : x \in [E -> BOOLEAN \cup Used]
  BY PartsAre DEF Writings
<1>3. Updated(w, x) = [k \in D \cup E |-> IF k \in E THEN x[k] ELSE w[k]]
  BY <1>1, <1>2 DEF Updated
<1>4. Updated(w, x) \in [D \cup E -> BOOLEAN \cup Used]
  BY <1>1, <1>2, <1>3
<1>5. Updated(w, x) \in Parts(Points \cup {"reset"})
  BY <1>4, PartsAre
<1>6. IsPart(Updated(w, x)) /\ DOMAIN Updated(w, x) # {}
  BY <1>1, <1>2, <1>3 DEF Writings, IsPart
<1> QED
  BY <1>5, <1>6 DEF Writings

LEMMA RequestsWrite ==
  ASSUME NEW dps, NEW w \in Requests(dps)
  PROVE  w \in Writings
<1>1. \A p \in Percentages \ {0} : Speed(p) \in Writings
  BY ModeWrites DEF Speed
<1>2. Power(TRUE) \in Writings /\ Power(FALSE) \in Writings
  BY PowerWrites
<1>3. \A m \in Used : Mode(m) \in Writings
  BY ModeWrites
<1>4. ASSUME NEW x \in Writings PROVE Waking(dps, x) \in Writings
  BY <1>2, <1>4, BothWrite DEF Waking
<1>5. ASSUME NEW p \in Percentages \cup {Absent}, NEW m \in (PresetModes \cap Used) \cup {Absent}
      PROVE  TurnOn(p, m) \in Writings
  <2>1. CASE m # Absent
    BY <1>2, <1>3, <1>5, <2>1, BothWrite DEF TurnOn
  <2>2. CASE m = Absent /\ p \notin {Absent, 0}
    BY <1>1, <1>2, <1>5, <2>2, BothWrite DEF TurnOn
  <2>3. CASE m = Absent /\ p \in {Absent, 0}
    BY <1>2, <2>3 DEF TurnOn
  <2> QED
    BY <2>1, <2>2, <2>3
<1>6. ASSUME NEW p \in Percentages PROVE SetPercentage(dps, p) \in Writings
  BY <1>1, <1>2, <1>4, <1>6 DEF SetPercentage
<1>7. ASSUME NEW m \in PresetModes \cap Used PROVE SetPresetMode(dps, m) \in Writings
  BY <1>3, <1>4, <1>7 DEF SetPresetMode
<1>8. ResetFilter \in Writings
  BY ResetWrites
<1> DEFINE Ons == {TurnOn(p, m) : p \in Percentages \cup {Absent},
                                  m \in (PresetModes \cap Used) \cup {Absent}}
           Rest == {Power(FALSE), ResetFilter}
           Speeds == {SetPercentage(dps, p) : p \in Percentages}
           Presets == {SetPresetMode(dps, m) : m \in PresetModes \cap Used}
<1>9. w \in Ons \/ w \in Rest \/ w \in Speeds \/ w \in Presets
  <2>1. Requests(dps) = Ons \cup Rest \cup Speeds \cup Presets
    BY DEF Requests
  <2> HIDE DEF Ons, Rest, Speeds, Presets
  <2> QED
    BY <2>1
<1>10. CASE w \in Ons
  <2>1. PICK p \in Percentages \cup {Absent}, m \in (PresetModes \cap Used) \cup {Absent} :
           w = TurnOn(p, m)
    BY <1>10
  <2> QED
    BY <1>5, <2>1
<1>11. CASE w \in Rest
  BY <1>2, <1>8, <1>11
<1>12. CASE w \in Speeds
  BY <1>6, <1>12
<1>13. CASE w \in Presets
  BY <1>7, <1>13
<1> HIDE DEF Ons, Rest, Speeds, Presets
<1> QED
  BY <1>9, <1>10, <1>11, <1>12, <1>13

Data == [Points -> BOOLEAN \cup Used \cup {Absent}]

(* Parts are merged into what is known, and into what is the case.         *)
LEMMA AppliedIsData ==
  ASSUME NEW dps \in Data, IsData(dps), NEW w, IsPart(w)
  PROVE  Applied(dps, w) \in Data /\ IsData(Applied(dps, w))
<1>1. Applied(dps, w) = [k \in Points |-> IF k \in DOMAIN w THEN w[k] ELSE dps[k]]
  BY DEF Applied, Data
<1>2. \A k \in Points : Applied(dps, w)[k] \in Values[k] \cup {Absent}
  BY <1>1 DEF IsPart, IsData
<1> QED
  BY <1>1, <1>2, PointsAre DEF Data, IsData

LEMMA AppliedIsActual ==
  ASSUME actual \in [Points -> BOOLEAN \cup Used], IsPart(actual), NEW w, IsPart(w)
  PROVE  /\ Applied(actual, w) \in [Points -> BOOLEAN \cup Used]
         /\ IsPart(Applied(actual, w))
<1>1. Applied(actual, w) = [k \in Points |-> IF k \in DOMAIN w THEN w[k] ELSE actual[k]]
  BY DEF Applied
<1>2. \A k \in Points : Applied(actual, w)[k] \in Values[k]
  BY <1>1 DEF IsPart
<1> QED
  BY <1>1, <1>2, PointsAre DEF IsPart

(* The purifier reports the mode or not, and everything else.              *)
LEMMA ReportedIs ==
  ASSUME NEW dps
  PROVE  /\ DOMAIN Reported(dps) = {k \in Points : k = "mode" => reportsMode}
         /\ \A k \in DOMAIN Reported(dps) : Reported(dps)[k] = dps[k]
BY DEF Reported

LEMMA PartsAreReports ==
  ASSUME NEW dps \in [Points -> BOOLEAN \cup Used], IsPart(dps), NEW D \in SUBSET Points
  PROVE  [k \in D |-> dps[k]] \in Reports
<1>1. [k \in D |-> dps[k]] \in [D -> BOOLEAN \cup Used]
  OBVIOUS
<1> QED
  BY <1>1, PartsAre DEF Reports, IsPart

LEMMA ReportedIsAReport ==
  ASSUME Types
  PROVE  Reported(actual) \in Reports
BY PartsAreReports DEF Types, Reported

LEMMA KnownIs ==
  ASSUME NEW k \in Points
  PROVE  Known[k] = IF k = "mode" /\ ~reportsMode THEN Absent ELSE actual[k]
BY ReportedIs DEF Known, Updated, Unknown

-----------------------------------------------------------------------------
(* What a sequence of reports says, when one arrives or is taken.          *)

LEMMA ReportArrives ==
  ASSUME NEW s \in Seq(Reports), NEW r \in Reports, NEW k
  PROVE  /\ k \in DOMAIN r => Says(Append(s, r), k, r[k])
         /\ k \notin DOMAIN r =>
               /\ Silent(s, k) => Silent(Append(s, r), k)
               /\ \A v : Says(s, k, v) => Says(Append(s, r), k, v)
<1> DEFINE t == Append(s, r)
<1>1. /\ Len(t) = Len(s) + 1 /\ t[Len(t)] = r
      /\ \A i \in 1..Len(s) : t[i] = s[i]
      /\ Len(s) \in Nat
  OBVIOUS
<1> HIDE DEF t
<1>2. ASSUME k \in DOMAIN r PROVE Says(t, k, r[k])
  <2>1. Len(t) \in 1..Len(t) /\ \A j \in (Len(t) + 1)..Len(t) : FALSE
    BY <1>1
  <2> QED
    BY <1>1, <1>2, <2>1 DEF Says
<1>3. ASSUME k \notin DOMAIN r, Silent(s, k) PROVE Silent(t, k)
  BY <1>1, <1>3 DEF Silent
<1>4. ASSUME k \notin DOMAIN r, NEW v, Says(s, k, v) PROVE Says(t, k, v)
  <2>1. PICK i \in 1..Len(s) :
           k \in DOMAIN s[i] /\ s[i][k] = v /\ \A j \in (i + 1)..Len(s) : k \notin DOMAIN s[j]
    BY <1>4 DEF Says
  <2>2. i \in 1..Len(t) /\ k \in DOMAIN t[i] /\ t[i][k] = v
    BY <1>1, <2>1
  <2>3. \A j \in (i + 1)..Len(t) : k \notin DOMAIN t[j]
    BY <1>1, <1>4, <2>1
  <2> QED
    BY <2>2, <2>3 DEF Says
<1> QED
  BY <1>2, <1>3, <1>4 DEF t

LEMMA ReportTaken ==
  ASSUME NEW s \in Seq(Reports), s # <<>>, NEW k
  PROVE  /\ Silent(s, k) => Silent(Tail(s), k) /\ k \notin DOMAIN Head(s)
         /\ \A v : Says(s, k, v) =>
               \/ Says(Tail(s), k, v)
               \/ Silent(Tail(s), k) /\ k \in DOMAIN Head(s) /\ Head(s)[k] = v
<1> DEFINE t == Tail(s)
<1>1. /\ Len(s) \in Nat \ {0} /\ Len(t) = Len(s) - 1 /\ Head(s) = s[1]
      /\ \A i \in 1..Len(t) : t[i] = s[i + 1]
  OBVIOUS
<1> HIDE DEF t
<1>2. ASSUME Silent(s, k) PROVE Silent(t, k) /\ k \notin DOMAIN Head(s)
  BY <1>1, <1>2 DEF Silent
<1>3. ASSUME NEW v, Says(s, k, v)
      PROVE  \/ Says(t, k, v)
             \/ Silent(t, k) /\ k \in DOMAIN Head(s) /\ Head(s)[k] = v
  <2>1. PICK i \in 1..Len(s) :
           k \in DOMAIN s[i] /\ s[i][k] = v /\ \A j \in (i + 1)..Len(s) : k \notin DOMAIN s[j]
    BY <1>3 DEF Says
  <2>2. CASE i = 1
    BY <1>1, <2>1, <2>2 DEF Silent
  <2>3. CASE i # 1
    <3>1. i - 1 \in 1..Len(t) /\ t[i - 1] = s[i]
      BY <1>1, <2>3
    <3>2. \A j \in ((i - 1) + 1)..Len(t) : k \notin DOMAIN t[j]
      BY <1>1, <2>1
    <3> QED
      BY <2>1, <3>1, <3>2 DEF Says
  <2> QED
    BY <2>2, <2>3
<1> QED
  BY <1>2, <1>3 DEF t

(* The reports in the results.                                             *)
LEMMA HandedAre ==
  ASSUME Types
  PROVE  Handed \in Seq(Reports) /\ Len(Handed) = Len(done)
<1>1. done \in Seq(Results)
  BY DEF Types
<1>2. \A d \in Results : d.report \in Reports
  BY DEF Results
<1>3. \A i \in 1..Len(done) : done[i].report \in Reports
  BY <1>1, <1>2
<1> QED
  BY <1>1, <1>3 DEF Handed

LEMMA HandedGrows ==
  ASSUME Types, NEW d \in Results, done' = Append(done, d)
  PROVE  Handed' = Append(Handed, d.report)
<1>1. done \in Seq(Results)
  BY DEF Types
<1>2. /\ Len(done') = Len(done) + 1 /\ done'[Len(done) + 1] = d
      /\ \A i \in 1..Len(done) : done'[i] = done[i]
  BY <1>1
<1>3. Len(done) \in Nat
  BY <1>1
<1>4. Handed' = [i \in 1..Len(done) + 1 |-> IF i = Len(done) + 1 THEN d.report ELSE done[i].report]
  BY <1>2, <1>3 DEF Handed
<1>5. Append(Handed, d.report) = [i \in 1..Len(done) + 1 |-> IF i = Len(done) + 1 THEN d.report ELSE Handed[i]]
  BY HandedAre, <1>3
<1>6. \A i \in 1..Len(done) : Handed[i] = done[i].report
  BY DEF Handed
<1> QED
  BY <1>3, <1>4, <1>5, <1>6

LEMMA HandedShrinks ==
  ASSUME Types, done # <<>>, done' = Tail(done)
  PROVE  /\ Handed # <<>> /\ Handed' = Tail(Handed)
         /\ Head(Handed) = Head(done).report
<1>1. done \in Seq(Results)
  BY DEF Types
<1>2. /\ Len(done) \in Nat \ {0} /\ Len(done') = Len(done) - 1
      /\ \A i \in 1..Len(done) - 1 : done'[i] = done[i + 1]
  BY <1>1
<1>3. Len(Handed') = Len(Handed) - 1 /\ Handed' \in Seq(Reports)
  <2>1. done' \in Seq(Results)
    BY <1>1
  <2>2. \A d \in Results : d.report \in Reports
    BY DEF Results
  <2>3. \A i \in 1..Len(done') : done'[i].report \in Reports
    BY <2>1, <2>2
  <2> QED
    BY HandedAre, <1>2, <2>1, <2>3 DEF Handed
<1>4. \A i \in 1..Len(Handed') : Handed'[i] = Handed[i + 1]
  <2>1. \A i \in 1..Len(done) - 1 : Handed'[i] = done[i + 1].report
    BY <1>2 DEF Handed
  <2>2. \A i \in 1..Len(done) : Handed[i] = done[i].report
    BY DEF Handed
  <2> QED
    BY HandedAre, <1>2, <1>3, <2>1, <2>2
<1>5. Handed # <<>> /\ Head(Handed) = Head(done).report
  <2>1. \A i \in 1..Len(done) : Handed[i] = done[i].report
    BY DEF Handed
  <2> QED
    BY HandedAre, <1>1, <1>2, <2>1
<1> QED
  BY HandedAre, <1>3, <1>4, <1>5

-----------------------------------------------------------------------------
(* What each step does to the types.                                       *)

LEMMA WorkFirst ==
  ASSUME Types, JobsShape, Work
  PROVE  Len(jobs) \in Nat \ {0} /\ Head(jobs) = jobs[1] /\ Owned(jobs[1])
<1>1. Len(jobs) \in Nat \ {0} /\ Head(jobs) = jobs[1]
  BY DEF Work, Types
<1> QED
  BY <1>1 DEF JobsShape

LEMMA DoneGrows ==
  ASSUME Types, Work
  PROVE  \E d \in Results :
            /\ done' = Append(done, d)
            /\ d.job = Head(jobs)
            /\ d.lost => d.job \in {"set", "status", "receive"} /\ link # "up"
            /\ ~d.lost /\ d.job \notin Switches => link = "up"
            /\ d.lost \/ d.job \in CommandJobs \cup {"drop"} => DOMAIN d.report = {}
<1> DEFINE Answer(report) == [job |-> Head(jobs), lost |-> FALSE, report |-> report]
           Failed == [job |-> Head(jobs), lost |-> TRUE, report |-> <<>>]
<1>1. Head(jobs) \in Jobs
  BY DEF Work, Types
<1>2. \A r \in Reports : Answer(r) \in Results
  BY <1>1 DEF Results
<1>3. Failed \in Results /\ <<>> \in Reports /\ DOMAIN <<>> = {}
  BY <1>1, NothingIsAReport DEF Results
<1>4. Reported(actual) \in Reports
  BY ReportedIsAReport
<1>5. pushes # <<>> => Head(pushes) \in Reports
  BY DEF Types
<1>6. CASE WorkSend
  <2>1. done' = Append(done, Answer(<<>>)) /\ link = "up" /\ Head(jobs) = "set"
    BY <1>6 DEF WorkSend, Result
  <2> QED
    BY <1>2, <1>3, <2>1 DEF Switches
<1>7. CASE WorkRead
  <2>1. PICK r \in Reports : done' = Append(done, Answer(r))
    BY <1>4, <1>5, <1>7 DEF WorkRead, Result
  <2>2. link = "up" /\ Head(jobs) = "status"
    BY <1>7 DEF WorkRead
  <2> QED
    BY <1>2, <2>1, <2>2 DEF Switches, CommandJobs
<1>8. CASE WorkReceive
  <2>1. PICK r \in Reports : done' = Append(done, Answer(r))
    BY <1>3, <1>5, <1>8 DEF WorkReceive, Result
  <2>2. link = "up" /\ Head(jobs) = "receive"
    BY <1>8 DEF WorkReceive
  <2> QED
    BY <1>2, <2>1, <2>2 DEF Switches, CommandJobs
<1>9. CASE WorkFails
  <2>1. done' = Append(done, Failed) /\ link # "up" /\ Head(jobs) \in {"set", "status", "receive"}
    BY <1>9 DEF WorkFails, Lost
  <2> QED
    BY <1>3, <2>1
<1>10. CASE WorkDrop
  <2>1. done' = Append(done, Answer(<<>>)) /\ Head(jobs) \in {"drop", "command drop"}
    BY <1>10 DEF WorkDrop, Result
  <2> QED
    BY <1>2, <1>3, <2>1 DEF Switches
<1>11. CASE WorkOpen
  <2>1. done' = Append(done, Answer(Reported(actual))) /\ Head(jobs) = "open"
    BY <1>11 DEF WorkOpen, Result
  <2> QED
    BY <1>2, <1>4, <2>1 DEF Switches, CommandJobs
<1> QED
  BY <1>6, <1>7, <1>8, <1>9, <1>10, <1>11 DEF Work

(* The purifier's steps.                                                   *)
LEMMA ChangeKeeps ==
  ASSUME Types, NEW new \in [Points -> BOOLEAN \cup Used], IsPart(new), Change(new)
  PROVE  /\ actual' = new /\ missed' \in BOOLEAN
         /\ pushes' \in Seq(Reports) /\ Len(pushes') <= MaxMessages
<1>1. ASSUME NEW C \in SUBSET DOMAIN Reported(new) PROVE [k \in C |-> new[k]] \in Reports
  BY PartsAreReports, ReportedIs
<1> DEFINE C == {k \in DOMAIN Reported(new) : new[k] # actual[k]}
<1>2. CASE missed' = (missed \/ C # {}) /\ UNCHANGED pushes
  BY <1>2 DEF Change, Types
<1>3. CASE Len(pushes) < MaxMessages /\ pushes' = Append(pushes, [k \in C |-> new[k]])
           /\ UNCHANGED missed
  <2>1. [k \in C |-> new[k]] \in Reports
    BY <1>1
  <2>2. pushes \in Seq(Reports) /\ missed \in BOOLEAN
    BY DEF Types
  <2> HIDE DEF C
  <2>3. actual' = new
    BY DEF Change
  <2> QED
    BY <1>3, <2>1, <2>2, <2>3
<1>4. actual' = new
  BY DEF Change
<1> QED
  BY <1>2, <1>3, <1>4 DEF Change

LEMMA PurifierTypes ==
  ASSUME Types, Handle \/ OwnChange \/ Break
  PROVE  Types'
<1>1. CASE Handle
  <2>1. inbox # <<>> /\ inbox \in Seq(Writings) /\ Head(inbox) \in Writings
    BY <1>1 DEF Handle, Types
  <2>2. IsPart(Head(inbox))
    BY <2>1 DEF Writings
  <2>3. PICK new \in [Points -> BOOLEAN \cup Used] : IsPart(new) /\ Change(new)
    BY <1>1, <2>2, AppliedIsActual DEF Handle, Types
  <2>4. inbox' \in Seq(Writings) /\ Len(inbox') <= MaxMessages
    BY <1>1, <2>1 DEF Handle, Types
  <2> QED
    BY <1>1, <2>3, <2>4, ChangeKeeps DEF Handle, Types, IsPart, IsData, queues, data
<1>2. CASE OwnChange
  <2>1. PICK k \in Points : \E v \in Values[k] : Change([actual EXCEPT ![k] = v])
    BY <1>2 DEF OwnChange
  <2>2. PICK v \in Values[k] : Change([actual EXCEPT ![k] = v])
    BY <2>1
  <2>3. /\ [actual EXCEPT ![k] = v] \in [Points -> BOOLEAN \cup Used]
        /\ IsPart([actual EXCEPT ![k] = v])
    BY PointsAre DEF Types, IsPart
  <2> QED
    BY <1>2, <2>2, <2>3, ChangeKeeps DEF OwnChange, Types, IsPart, IsData, queues, data
<1>3. CASE Break
  BY <1>3 DEF Break, Types, IsPart, IsData, queues, data
<1> QED
  BY <1>1, <1>2, <1>3

LEMMA WorkTypes ==
  ASSUME Types, JobsShape, Work
  PROVE  Types'
<1>1. PICK d \in Results : done' = Append(done, d)
  BY DoneGrows
<1>2. done' \in Seq(Results) /\ jobs' \in Seq(Jobs)
  BY <1>1 DEF Types, Work
<1>3. /\ inbox' \in Seq(Writings) /\ Len(inbox') <= MaxMessages
      /\ link' \in {"up", "broken", "dropped"} /\ missed' \in BOOLEAN
  <2>1. CASE WorkSend
    <3>1. Head(jobs) = "set" /\ inbox' = Append(inbox, command) /\ Len(inbox) < MaxMessages
      BY <2>1 DEF WorkSend
    <3>2. command \in Writings
      <4>1. Owned(jobs[1]) /\ jobs[1] = "set"
        BY <3>1, WorkFirst
      <4> QED
        BY <4>1 DEF Owned, CommandJobs, Types
    <3> QED
      BY <2>1, <3>1, <3>2 DEF WorkSend, Types
  <2>2. CASE WorkRead \/ WorkReceive \/ WorkFails
    BY <2>2 DEF WorkRead, WorkReceive, WorkFails, Types
  <2>3. CASE WorkDrop \/ WorkOpen
    <3>1. inbox' = <<>> /\ link' \in {"dropped", "up"} /\ missed' \in BOOLEAN
      BY <2>3 DEF WorkDrop, WorkOpen
    <3> QED
      BY <3>1
  <2> QED
    BY <2>1, <2>2, <2>3 DEF Work
<1>4. pushes' \in Seq(Reports) /\ Len(pushes') <= MaxMessages
  <2>0. pushes \in Seq(Reports) /\ Len(pushes) <= MaxMessages
    BY DEF Types
  <2>1. CASE pushes' = pushes \/ pushes' = <<>>
    <3>1. CASE pushes' = <<>>
      BY <3>1
    <3> QED
      BY <2>0, <2>1, <3>1
  <2>2. CASE pushes # <<>> /\ pushes' = Append(Tail(pushes), Reported(actual))
    <3>1. Tail(pushes) \in Seq(Reports) /\ Len(Tail(pushes)) = Len(pushes) - 1
      BY <2>0, <2>2
    <3> QED
      BY <2>0, <2>2, <3>1, ReportedIsAReport
  <2>3. CASE pushes # <<>> /\ pushes' = Tail(pushes)
    BY <2>3 DEF Types
  <2>4. \/ pushes' = pushes \/ pushes' = <<>>
        \/ pushes # <<>> /\ pushes' = Append(Tail(pushes), Reported(actual))
        \/ pushes # <<>> /\ pushes' = Tail(pushes)
    <3>1. CASE WorkRead \/ WorkReceive
      BY <3>1 DEF WorkRead, WorkReceive
    <3>2. CASE WorkSend \/ WorkFails \/ WorkDrop \/ WorkOpen
      BY <3>2 DEF WorkSend, WorkFails, WorkDrop, WorkOpen
    <3> QED
      BY <3>1, <3>2 DEF Work
  <2> QED
    BY <2>1, <2>2, <2>3, <2>4
<1> QED
  BY <1>2, <1>3, <1>4 DEF Work, Types, IsPart, IsData, data

LEMMA HeadShape ==
  ASSUME Types, ResultsShape, done # <<>>
  PROVE  /\ Len(done) \in Nat \ {0} /\ Head(done) = done[1] /\ Head(done) \in Results
         /\ Head(done).lost => Head(done).job \in {"set", "status", "receive"}
         /\ Head(done).lost \/ Head(done).job \in CommandJobs \cup {"drop"} =>
               DOMAIN Head(done).report = {}
<1>1. Len(done) \in Nat \ {0} /\ Head(done) = done[1] /\ Head(done) \in Results
  BY DEF Types
<1> QED
  BY <1>1 DEF ResultsShape

LEMMA LoopTypes ==
  ASSUME Types, ResultsShape, RunStatus \/ RunReceive \/ RunOpen \/ RunResumes \/ Command \/ CommandResumes
  PROVE  Types'
<1>1. CASE RunStatus \/ RunReceive \/ RunOpen
  <2>1. PICK job \in Jobs : RunJob(job)
    BY <1>1 DEF RunStatus, RunReceive, RunOpen, Jobs
  <2> QED
    BY <2>1 DEF RunJob, Types, IsPart, IsData, purifier, data
<1>2. CASE RunResumes
  <2>1. done \in Seq(Results) /\ done # <<>> /\ done' = Tail(done)
    BY <1>2 DEF RunResumes, Types
  <2>2. Head(done) \in Results /\ done' \in Seq(Results)
    BY <2>1
  <2>3. Head(done).report \in Reports /\ IsPart(Head(done).report)
    BY <2>2 DEF Results, Reports
  <2>4. CASE Head(done).lost
    <3>1. Head(done).job \in {"set", "status", "receive"}
      BY <2>1, <2>4, HeadShape
    <3>2. jobs' = Append(jobs, "drop")
      BY <1>2, <2>4, <3>1 DEF RunResumes
    <3>3. UNCHANGED <<purifier, link, running, data, command>>
      BY <1>2, <2>4, <3>1 DEF RunResumes
    <3>4. jobs' \in Seq(Jobs)
      <4>1. PICK job \in Jobs : jobs' = Append(jobs, job)
        BY <3>2 DEF Jobs
      <4> QED
        BY <4>1 DEF Types
    <3> QED
      BY <2>2, <3>3, <3>4 DEF Types, IsPart, IsData, purifier, data
  <2>5. CASE ~Head(done).lost /\ Head(done).job = "drop"
    BY <1>2, <2>2, <2>5 DEF RunResumes, SetUnavailable, Types, IsPart, IsData, purifier
  <2>6. CASE ~Head(done).lost /\ Head(done).job # "drop"
    <3>1. /\ HandleDps(Head(done).report, Head(done).job # "receive")
          /\ connected' = (connected \/ Head(done).job = "open")
          /\ running' = FALSE /\ UNCHANGED <<jobs, purifier, link, command>>
      BY <1>2, <2>6 DEF RunResumes
    <3>2. cache' \in Data /\ IsData(cache') /\ IsData(cache)'
      BY <2>3, <3>1, AppliedIsData DEF HandleDps, Types, Data, IsData
    <3>3. shown' \in Data /\ IsData(shown)' /\ available' \in BOOLEAN
      BY <3>1, <3>2 DEF HandleDps, ShowData, Types, Data, IsData
    <3> QED
      BY <2>2, <3>1, <3>2, <3>3 DEF Types, IsPart, Data, purifier
  <2> QED
    BY <2>4, <2>5, <2>6
<1>3. CASE Command
  <2>1. command' \in Writings
    BY <1>3, RequestsWrite DEF Command
  <2>2. jobs' \in Seq(Jobs)
    <3>1. "set" \in Jobs /\ jobs \in Seq(Jobs) /\ jobs' = Append(jobs, "set")
      BY <1>3 DEF Command, Types, Jobs
    <3> QED
      BY <3>1
  <2> QED
    BY <1>3, <2>1, <2>2 DEF Command, Types, IsPart, IsData, purifier, data
<1>4. CASE CommandResumes
  <2>1. done \in Seq(Results) /\ done # <<>> /\ done' = Tail(done)
    BY <1>4 DEF CommandResumes, Types
  <2>2. Head(done) \in Results /\ done' \in Seq(Results)
    BY <2>1
  <2>4. CASE Head(done).lost
    <3>1. Head(done).job \in {"set", "status", "receive"}
      BY <2>1, <2>4, HeadShape
    <3>2. jobs' = Append(jobs, "command drop")
      BY <1>4, <2>4, <3>1 DEF CommandResumes
    <3>3. UNCHANGED <<purifier, link, running, data, command>>
      BY <1>4, <2>4, <3>1 DEF CommandResumes
    <3>4. jobs' \in Seq(Jobs)
      <4>1. PICK job \in Jobs : jobs' = Append(jobs, job)
        BY <3>2 DEF Jobs
      <4> QED
        BY <4>1 DEF Types
    <3> QED
      BY <2>2, <3>3, <3>4 DEF Types, IsPart, IsData, purifier, data
  <2>5. CASE ~Head(done).lost /\ Head(done).job = "command drop"
    BY <1>4, <2>2, <2>5 DEF CommandResumes, SetUnavailable, Types, IsPart, IsData, purifier
  <2>6. CASE ~Head(done).lost /\ Head(done).job # "command drop"
    <3>1. CommandSent /\ UNCHANGED <<purifier, link, running>>
      BY <1>4, <2>6 DEF CommandResumes
    <3>2. IsPart(command)
      BY NothingIsAReport DEF Types, Writings, IsPart
    <3>3. shown' \in Data /\ IsData(shown)'
      BY <3>1, <3>2, AppliedIsData DEF CommandSent, ShowData, Types, Data, IsData
    <3> QED
      BY <2>2, <3>1, <3>3 DEF CommandSent, ShowData, Types, IsPart, IsData, Data, purifier
  <2> QED
    BY <2>4, <2>5, <2>6
<1> QED
  BY <1>1, <1>2, <1>3, <1>4

-----------------------------------------------------------------------------
(* One job or result each.                                                 *)

LEMMA DoneTaken ==
  ASSUME Types, done # <<>>, done' = Tail(done)
  PROVE  /\ Len(done) \in Nat \ {0} /\ Head(done) = done[1] /\ Len(done') = Len(done) - 1
         /\ \A i \in 1..Len(done') : done'[i] = done[i + 1]
<1>1. done \in Seq(Results)
  BY DEF Types
<1> QED
  BY <1>1

LEMMA DoneAdded ==
  ASSUME Types, NEW d \in Results, done' = Append(done, d)
  PROVE  /\ Len(done) \in Nat /\ Len(done') = Len(done) + 1 /\ done'[Len(done')] = d
         /\ \A i \in 1..Len(done) : done'[i] = done[i]
<1>1. done \in Seq(Results)
  BY DEF Types
<1> QED
  BY <1>1

LEMMA JobAdded ==
  ASSUME Types, NEW job \in Jobs, jobs' = Append(jobs, job)
  PROVE  /\ Len(jobs) \in Nat /\ Len(jobs') = Len(jobs) + 1 /\ jobs'[Len(jobs')] = job
         /\ \A i \in 1..Len(jobs) : jobs'[i] = jobs[i]
<1>1. jobs \in Seq(Jobs)
  BY DEF Types
<1> QED
  BY <1>1

LEMMA JobTaken ==
  ASSUME Types, jobs # <<>>, jobs' = Tail(jobs)
  PROVE  /\ Len(jobs) \in Nat \ {0} /\ Head(jobs) = jobs[1] /\ Len(jobs') = Len(jobs) - 1
         /\ \A i \in 1..Len(jobs') : jobs'[i] = jobs[i + 1]
<1>1. jobs \in Seq(Jobs)
  BY DEF Types
<1> QED
  BY <1>1

(* A task that has none submits a job.                                     *)
LEMMA NewJob ==
  ASSUME Types, JobsShape, NEW job \in Jobs, ~Owned(job), Owned(job)',
         jobs' = Append(jobs, job), UNCHANGED done,
         IF job \in CommandJobs THEN UNCHANGED running ELSE UNCHANGED command
  PROVE  JobsShape'
<1>1. /\ \A i \in 1..Len(jobs) : Owned(jobs[i])' /\ Differ(job, jobs[i])
      /\ \A i \in 1..Len(done) : Owned(done[i].job)' /\ Differ(job, done[i].job)
  BY DEF JobsShape, Owned, Differ
<1> QED
  BY <1>1, JobAdded DEF JobsShape, Differ

(* The task whose job is done goes on with another.                        *)
LEMMA NextJob ==
  ASSUME Types, JobsShape, done # <<>>, done' = Tail(done), NEW job \in Jobs,
         job \in CommandJobs <=> Head(done).job \in CommandJobs,
         jobs' = Append(jobs, job), UNCHANGED <<running, command>>
  PROVE  JobsShape'
<1>1. Owned(job) /\ \A other : Differ(job, other) <=> Differ(Head(done).job, other)
  BY DoneTaken DEF JobsShape, Owned, Differ
<1>2. /\ \A i \in 1..Len(jobs) : Differ(job, jobs[i])
      /\ \A i \in 1..Len(done') : Differ(job, done'[i].job)
  BY <1>1, DoneTaken DEF JobsShape, Differ
<1>3. \A x : Owned(x)' <=> Owned(x)
  BY DEF Owned
<1> QED
  BY <1>1, <1>2, <1>3, DoneTaken, JobAdded DEF JobsShape, Differ

(* The task whose job is done has no other.                                *)
LEMMA LastJob ==
  ASSUME Types, JobsShape, done # <<>>, done' = Tail(done), UNCHANGED jobs,
         IF Head(done).job \in CommandJobs THEN UNCHANGED running ELSE UNCHANGED command
  PROVE  JobsShape'
<1>1. /\ \A i \in 1..Len(jobs) : Differ(Head(done).job, jobs[i])
      /\ \A i \in 1..Len(done') : Differ(Head(done).job, done'[i].job)
  BY DoneTaken DEF JobsShape, Differ
<1>2. \A x : Owned(x) /\ Differ(Head(done).job, x) => Owned(x)'
  BY DEF Owned, Differ
<1>3. /\ \A i \in 1..Len(jobs) : Owned(jobs[i])
      /\ \A i \in 1..Len(done') : Owned(done'[i].job)
  BY DoneTaken DEF JobsShape
<1>4. /\ \A i \in 1..Len(jobs) : Owned(jobs[i])'
      /\ \A i \in 1..Len(done') : Owned(done[i].job)'
  BY <1>1, <1>2, <1>3
<1>5. /\ \A i, j \in 1..Len(done') : i # j => Differ(done'[i].job, done'[j].job)
      /\ \A i \in 1..Len(jobs), j \in 1..Len(done') : Differ(jobs[i], done'[j].job)
  BY DoneTaken DEF JobsShape, Differ
<1> QED
  BY <1>4, <1>5 DEF JobsShape

LEMMA WorkJobs ==
  ASSUME Types, JobsShape, ResultsShape, Work
  PROVE  JobsShape' /\ ResultsShape'
<1>1. PICK d \in Results :
         /\ done' = Append(done, d) /\ d.job = Head(jobs)
         /\ d.lost => d.job \in {"set", "status", "receive"}
         /\ d.lost \/ d.job \in CommandJobs \cup {"drop"} => DOMAIN d.report = {}
  BY DoneGrows
<1>2. jobs # <<>> /\ jobs' = Tail(jobs) /\ UNCHANGED <<running, command>>
  BY DEF Work, data
<1>3. \A x : Owned(x)' <=> Owned(x)
  BY <1>2 DEF Owned
<1>4. ResultsShape'
  BY <1>1, DoneAdded DEF ResultsShape
<1>5. /\ \A i \in 1..Len(jobs') : Owned(jobs'[i])
      /\ \A i, j \in 1..Len(jobs') : i # j => Differ(jobs'[i], jobs'[j])
  BY <1>2, JobTaken DEF JobsShape
<1>6. /\ \A i \in 1..Len(done') : Owned(done'[i].job)
      /\ \A i, j \in 1..Len(done') : i # j => Differ(done'[i].job, done'[j].job)
  BY <1>1, <1>2, DoneAdded, JobTaken DEF JobsShape, Differ
<1>7. \A i \in 1..Len(jobs'), j \in 1..Len(done') : Differ(jobs'[i], done'[j].job)
  BY <1>1, <1>2, DoneAdded, JobTaken DEF JobsShape, Differ
<1> QED
  BY <1>3, <1>4, <1>5, <1>6, <1>7 DEF JobsShape

LEMMA ResultsTaken ==
  ASSUME Types, ResultsShape, done # <<>>, done' = Tail(done)
  PROVE  ResultsShape'
BY DoneTaken DEF ResultsShape

LEMMA LoopJobs ==
  ASSUME Types, JobsShape, ResultsShape,
         RunStatus \/ RunReceive \/ RunOpen \/ RunResumes \/ Command \/ CommandResumes
  PROVE  JobsShape' /\ ResultsShape'
<1>1. CASE RunStatus \/ RunReceive \/ RunOpen
  <2>1. PICK job \in {"status", "receive", "open"} : RunJob(job)
    BY <1>1 DEF RunStatus, RunReceive, RunOpen
  <2>2. job \in Jobs \ CommandJobs
    BY DEF Jobs, CommandJobs
  <2>3. /\ ~Owned(job) /\ Owned(job)' /\ jobs' = Append(jobs, job) /\ UNCHANGED <<done, command>>
    BY <2>1, <2>2 DEF RunJob, Owned
  <2> QED
    BY <2>2, <2>3, NewJob DEF ResultsShape
<1>2. CASE RunResumes
  <2>1. /\ done # <<>> /\ done' = Tail(done) /\ Head(done).job \notin CommandJobs
        /\ UNCHANGED command
    BY <1>2 DEF RunResumes, CommandJobs
  <2>2. CASE Head(done).lost
    <3>1. jobs' = Append(jobs, "drop") /\ UNCHANGED running
      BY <1>2, <2>1, <2>2, HeadShape DEF RunResumes
    <3>2. "drop" \in Jobs \ CommandJobs
      BY DEF Jobs, CommandJobs
    <3> QED
      BY <2>1, <3>1, <3>2, NextJob, ResultsTaken
  <2>3. CASE ~Head(done).lost
    <3>1. UNCHANGED jobs
      BY <1>2, <2>3 DEF RunResumes
    <3> QED
      BY <2>1, <3>1, LastJob, ResultsTaken
  <2> QED
    BY <2>2, <2>3
<1>3. CASE Command
  <2>1. command = <<>> /\ command' \in Writings
    BY <1>3, RequestsWrite DEF Command
  <2>2. command' # <<>>
    BY <2>1, NothingIsAReport DEF Writings
  <2>3. "set" \in Jobs \cap CommandJobs
    BY DEF Jobs, CommandJobs
  <2>4. ~Owned("set") /\ Owned("set")' /\ jobs' = Append(jobs, "set") /\ UNCHANGED <<done, running>>
    BY <1>3, <2>1, <2>2, <2>3 DEF Command, Owned
  <2> QED
    BY <2>3, <2>4, NewJob DEF ResultsShape
<1>4. CASE CommandResumes
  <2>1. /\ done # <<>> /\ done' = Tail(done) /\ Head(done).job \in CommandJobs
        /\ UNCHANGED running
    BY <1>4 DEF CommandResumes, CommandJobs
  <2>2. CASE Head(done).lost
    <3>1. PICK job \in Jobs \cap CommandJobs : jobs' = Append(jobs, job) /\ UNCHANGED command
      BY <1>4, <2>1, <2>2, HeadShape DEF CommandResumes, Jobs, CommandJobs
    <3> QED
      BY <2>1, <3>1, NextJob, ResultsTaken
  <2>3. CASE ~Head(done).lost
    <3>1. UNCHANGED jobs
      BY <1>4, <2>3 DEF CommandResumes, CommandSent
    <3> QED
      BY <2>1, <3>1, LastJob, ResultsTaken
  <2> QED
    BY <2>2, <2>3
<1> QED
  BY <1>1, <1>2, <1>3, <1>4

LEMMA PurifierJobs ==
  ASSUME JobsShape, ResultsShape, UNCHANGED <<jobs, done, running, command>>
  PROVE  JobsShape' /\ ResultsShape'
BY DEF JobsShape, ResultsShape, Owned

-----------------------------------------------------------------------------
(* The connection, and what the loop makes of it.                          *)

LEMMA LinkedAtFirst == Types => (Linked(0) <=> connected)
BY DEF Linked, Types

LEMMA LinkedGrows ==
  ASSUME Types, NEW d \in Results, done' = Append(done, d), UNCHANGED connected
  PROVE  /\ \A n \in 0..Len(done) : Linked(n)' <=> Linked(n)
         /\ Linked(Len(done))' <=>
               IF d.job \in Switches THEN d.job = "open" ELSE Linked(Len(done))
<1>1. ASSUME NEW n \in 0..Len(done) PROVE Linked(n)' <=> Linked(n)
  BY DoneAdded DEF Linked
<1>2. ASSUME d.job \in Switches PROVE Linked(Len(done))' <=> d.job = "open"
  <2>2. ASSUME d.job = "open" PROVE Linked(Len(done))'
    <3>1. Len(done') \in 1..Len(done') /\ done'[Len(done')].job = "open"
      BY <2>2, DoneAdded
    <3>2. \A j \in (Len(done') + 1)..Len(done') : FALSE
      BY DoneAdded
    <3> QED
      BY <3>1, <3>2 DEF Linked
  <2>3. ASSUME d.job # "open" PROVE ~Linked(Len(done))'
    BY <1>2, <2>3, DoneAdded DEF Linked
  <2> QED
    BY <1>2, <2>2, <2>3
<1>3. ASSUME d.job \notin Switches PROVE Linked(Len(done))' <=> Linked(Len(done))
  <2>1. \A i \in 1..Len(done') : done'[i].job \in Switches => i \in 1..Len(done)
    BY <1>3, DoneAdded
  <2>2. ASSUME Linked(Len(done)) PROVE Linked(Len(done))'
    <3>1. CASE connected /\ \A i \in 1..Len(done) : done[i].job \notin Switches
      BY <2>1, <3>1, DoneAdded DEF Linked
    <3>2. ASSUME NEW i \in 1..Len(done), done[i].job = "open",
                 \A j \in (i + 1)..Len(done) : done[j].job \notin Switches
          PROVE  Linked(Len(done))'
      <4>1. i \in 1..Len(done') /\ done'[i].job = "open"
        BY <3>2, DoneAdded
      <4>2. \A j \in (i + 1)..Len(done') : done'[j].job \notin Switches
        BY <2>1, <3>2, DoneAdded
      <4> QED
        BY <4>1, <4>2 DEF Linked
    <3> QED
      BY <2>2, <3>1, <3>2 DEF Linked
  <2>3. ASSUME Linked(Len(done))' PROVE Linked(Len(done))
    <3>1. CASE connected' /\ \A i \in 1..Len(done') : done'[i].job \notin Switches
      BY <3>1, DoneAdded DEF Linked
    <3>2. ASSUME NEW i \in 1..Len(done'), done'[i].job = "open",
                 \A j \in (i + 1)..Len(done') : done'[j].job \notin Switches
          PROVE  Linked(Len(done))
      <4>1. i \in 1..Len(done) /\ done[i].job = "open"
        BY <2>1, <3>2, DoneAdded DEF Switches
      <4>2. \A j \in (i + 1)..Len(done) : done[j].job \notin Switches
        BY <3>2, <4>1, DoneAdded
      <4> QED
        BY <4>1, <4>2 DEF Linked
    <3> QED
      BY <2>3, <3>1, <3>2 DEF Linked
  <2> QED
    BY <2>2, <2>3
<1> QED
  BY <1>1, <1>2, <1>3

LEMMA LinkedShrinks ==
  ASSUME Types, done # <<>>, done' = Tail(done),
         connected' = IF Head(done).job \in Switches THEN Head(done).job = "open" ELSE connected
  PROVE  \A n \in 0..Len(done') : Linked(n)' <=> Linked(n + 1)
<1> SUFFICES ASSUME NEW n \in 0..Len(done') PROVE Linked(n)' <=> Linked(n + 1)
  OBVIOUS
<1>0. connected \in BOOLEAN
  BY DEF Types
<1>1. ASSUME Linked(n + 1) PROVE Linked(n)'
  <2>1. CASE connected /\ \A i \in 1..n + 1 : done[i].job \notin Switches
    BY <1>0, <2>1, DoneTaken DEF Linked
  <2>2. ASSUME NEW i \in 1..n + 1, done[i].job = "open",
               \A j \in (i + 1)..n + 1 : done[j].job \notin Switches
        PROVE  Linked(n)'
    <3>1. CASE i = 1
      <4>1. connected'
        BY <2>2, <3>1, DoneTaken DEF Switches
      <4>2. \A j \in 1..n : done'[j].job \notin Switches
        <5> TAKE j \in 1..n
        <5>1. j + 1 \in (i + 1)..n + 1 /\ done'[j] = done[j + 1]
          BY <3>1, DoneTaken
        <5> QED
          BY <2>2, <5>1
      <4> QED
        BY <4>1, <4>2 DEF Linked
    <3>2. CASE i # 1
      <4>1. i - 1 \in 1..n /\ done'[i - 1] = done[i]
        BY <3>2, DoneTaken
      <4>2. \A j \in ((i - 1) + 1)..n : done'[j].job \notin Switches
        BY <2>2, DoneTaken
      <4> QED
        BY <2>2, <4>1, <4>2 DEF Linked
    <3> QED
      BY <3>1, <3>2
  <2> QED
    BY <1>1, <2>1, <2>2 DEF Linked
<1>2. ASSUME Linked(n)' PROVE Linked(n + 1)
  <2>1. CASE connected' /\ \A i \in 1..n : done'[i].job \notin Switches
    <3>1. \A j \in 2..n + 1 : done[j].job \notin Switches
      <4> TAKE j \in 2..n + 1
      <4>1. j - 1 \in 1..n /\ done'[j - 1] = done[j]
        BY DoneTaken
      <4> QED
        BY <2>1, <4>1
    <3>2. CASE Head(done).job \in Switches
      <4>1. 1 \in 1..n + 1 /\ done[1].job = "open"
        <5>1. connected' = (Head(done).job = "open")
          BY <3>2
        <5>2. Head(done).job = "open"
          BY <2>1, <5>1
        <5> QED
          BY <5>2, DoneTaken
      <4>2. \A j \in (1 + 1)..n + 1 : done[j].job \notin Switches
        BY <3>1
      <4> QED
        BY <4>1, <4>2 DEF Linked
    <3>3. CASE Head(done).job \notin Switches
      BY <1>0, <2>1, <3>1, <3>3, DoneTaken DEF Linked
    <3> QED
      BY <3>2, <3>3
  <2>2. ASSUME NEW i \in 1..n, done'[i].job = "open",
               \A j \in (i + 1)..n : done'[j].job \notin Switches
        PROVE  Linked(n + 1)
    <3>1. i + 1 \in 1..n + 1 /\ done[i + 1].job = "open"
      BY <2>2, DoneTaken
    <3>2. \A j \in ((i + 1) + 1)..n + 1 : done[j].job \notin Switches
      <4> TAKE j \in ((i + 1) + 1)..n + 1
      <4>1. j - 1 \in (i + 1)..n /\ done'[j - 1] = done[j]
        BY DoneTaken
      <4> QED
        BY <2>2, <4>1
    <3> QED
      BY <3>1, <3>2 DEF Linked
  <2> QED
    BY <1>2, <2>1, <2>2 DEF Linked
<1> QED
  BY <1>1, <1>2

LEMMA WorkLink ==
  ASSUME Types, LinkShape, Work
  PROVE  LinkShape'
<1>1. PICK d \in Results :
         /\ done' = Append(done, d) /\ d.job = Head(jobs)
         /\ d.lost => d.job \in {"set", "status", "receive"} /\ link # "up"
         /\ ~d.lost /\ d.job \notin Switches => link = "up"
  BY DoneGrows
<1>2. UNCHANGED <<connected, available>>
  BY DEF Work, data
<1>3. IF d.job \in Switches THEN link' # "dropped" <=> d.job = "open" ELSE UNCHANGED link
  <2>1. CASE WorkSend \/ WorkRead \/ WorkReceive \/ WorkFails
    BY <1>1, <2>1 DEF WorkSend, WorkRead, WorkReceive, WorkFails, Switches
  <2>2. CASE WorkDrop \/ WorkOpen
    BY <1>1, <2>2 DEF WorkDrop, WorkOpen, Switches
  <2> QED
    BY <2>1, <2>2 DEF Work
<1>4. link' # "dropped" <=> Linked(Len(done))'
  BY <1>1, <1>2, <1>3, LinkedGrows DEF LinkShape
<1>5. ASSUME NEW i \in 1..Len(done'), done'[i].job \notin Switches, ~done'[i].lost
      PROVE  Linked(i - 1)'
  <2>1. i - 1 \in 0..Len(done)
    BY <1>1, DoneAdded
  <2>2. Linked(i - 1)' <=> Linked(i - 1)
    BY <1>1, <1>2, <2>1, LinkedGrows
  <2>3. CASE i \in 1..Len(done)
    BY <1>1, <1>5, <2>2, <2>3, DoneAdded DEF LinkShape
  <2>4. CASE i = Len(done) + 1
    BY <1>1, <1>5, <2>2, <2>4, DoneAdded DEF LinkShape
  <2> QED
    BY <1>1, <2>3, <2>4, DoneAdded
<1> QED
  BY <1>2, <1>4, <1>5 DEF LinkShape

LEMMA LinkTaken ==
  ASSUME Types, LinkShape, done # <<>>, done' = Tail(done), UNCHANGED link,
         connected' = IF Head(done).job \in Switches THEN Head(done).job = "open" ELSE connected,
         available' <=> connected'
  PROVE  LinkShape'
<1>1. \A n \in 0..Len(done') : Linked(n)' <=> Linked(n + 1)
  BY LinkedShrinks
<1>2. link' # "dropped" <=> Linked(Len(done))'
  BY <1>1, DoneTaken DEF LinkShape
<1>3. ASSUME NEW i \in 1..Len(done'), done'[i].job \notin Switches, ~done'[i].lost
      PROVE  Linked(i - 1)'
  <2>1. Linked(i)
    <3>1. i + 1 \in 1..Len(done) /\ done'[i] = done[i + 1]
      BY DoneTaken
    <3>2. Linked((i + 1) - 1)
      BY <1>3, <3>1 DEF LinkShape
    <3> QED
      BY <3>2
  <2>2. i - 1 \in 0..Len(done') /\ (i - 1) + 1 = i
    BY DoneTaken
  <2> QED
    BY <1>1, <2>1, <2>2
<1> QED
  BY <1>2, <1>3 DEF LinkShape

LEMMA HeadLinked ==
  ASSUME Types, LinkShape, done # <<>>, Head(done).job \notin Switches, ~Head(done).lost
  PROVE  connected /\ available
<1>1. 1 \in 1..Len(done) /\ Head(done) = done[1]
  BY DEF Types
<1>2. Linked(1 - 1)
  BY <1>1 DEF LinkShape
<1> QED
  BY <1>2, LinkedAtFirst DEF LinkShape

LEMMA LoopLink ==
  ASSUME Types, ResultsShape, LinkShape,
         RunStatus \/ RunReceive \/ RunOpen \/ RunResumes \/ Command \/ CommandResumes
  PROVE  LinkShape'
<1>1. CASE RunStatus \/ RunReceive \/ RunOpen \/ Command
  <2>1. UNCHANGED <<done, link, connected, available>>
    BY <1>1 DEF RunStatus, RunReceive, RunOpen, RunJob, Command, data
  <2> QED
    BY <2>1 DEF LinkShape, Linked
<1>2. CASE RunResumes
  <2>1. /\ done # <<>> /\ done' = Tail(done) /\ Head(done).job \notin CommandJobs
        /\ UNCHANGED link
    BY <1>2 DEF RunResumes, CommandJobs
  <2>2. CASE Head(done).lost
    <3>1. UNCHANGED <<connected, available>> /\ Head(done).job \notin Switches
      BY <1>2, <2>1, <2>2, HeadShape DEF RunResumes, data, Switches
    <3> QED
      BY <2>1, <3>1, LinkTaken DEF LinkShape
  <2>3. CASE ~Head(done).lost /\ Head(done).job = "drop"
    <3>1. SetUnavailable
      BY <1>2, <2>3 DEF RunResumes
    <3>2. connected' = FALSE /\ ~available'
      BY <3>1 DEF SetUnavailable, LinkShape, Types
    <3> QED
      BY <2>1, <2>3, <3>2, LinkTaken DEF Switches
  <2>4. CASE ~Head(done).lost /\ Head(done).job # "drop"
    <3>1. /\ HandleDps(Head(done).report, Head(done).job # "receive")
          /\ connected' = (connected \/ Head(done).job = "open")
      BY <1>2, <2>4 DEF RunResumes
    <3>2. CASE Head(done).job = "open"
      <4>1. available' = TRUE /\ connected' = TRUE
        BY <3>1, <3>2 DEF HandleDps, ShowData
      <4> QED
        BY <2>1, <3>2, <4>1, LinkTaken DEF Switches
    <3>3. CASE Head(done).job # "open"
      <4>1. Head(done).job \notin Switches
        BY <2>1, <2>4, <3>3 DEF Switches, CommandJobs
      <4>2. connected /\ available
        BY <2>1, <2>4, <4>1, HeadLinked
      <4>3. available' /\ connected' = connected
        BY <3>1, <3>3, <4>2 DEF HandleDps, ShowData, Types
      <4> QED
        BY <2>1, <4>1, <4>2, <4>3, LinkTaken
    <3> QED
      BY <3>2, <3>3
  <2> QED
    BY <2>2, <2>3, <2>4
<1>3. CASE CommandResumes
  <2>1. /\ done # <<>> /\ done' = Tail(done) /\ Head(done).job \in CommandJobs
        /\ UNCHANGED link
    BY <1>3 DEF CommandResumes, CommandJobs
  <2>2. CASE Head(done).lost
    <3>1. UNCHANGED <<connected, available>> /\ Head(done).job \notin Switches
      BY <1>3, <2>1, <2>2, HeadShape DEF CommandResumes, data, Switches
    <3> QED
      BY <2>1, <3>1, LinkTaken DEF LinkShape
  <2>3. CASE ~Head(done).lost /\ Head(done).job = "command drop"
    <3>1. SetUnavailable
      BY <1>3, <2>3 DEF CommandResumes
    <3>2. connected' = FALSE /\ ~available'
      BY <3>1 DEF SetUnavailable, LinkShape, Types
    <3> QED
      BY <2>1, <2>3, <3>2, LinkTaken DEF Switches
  <2>4. CASE ~Head(done).lost /\ Head(done).job # "command drop"
    <3>1. CommandSent
      BY <1>3, <2>4 DEF CommandResumes
    <3>2. Head(done).job \notin Switches
      BY <2>1, <2>4 DEF Switches, CommandJobs
    <3>3. connected /\ available
      BY <2>1, <2>4, <3>2, HeadLinked
    <3>4. available' /\ connected' = connected
      BY <3>1 DEF CommandSent, ShowData
    <3> QED
      BY <2>1, <3>2, <3>3, <3>4, LinkTaken
  <2> QED
    BY <2>2, <2>3, <2>4
<1> QED
  BY <1>1, <1>2, <1>3

LEMMA PurifierLink ==
  ASSUME LinkShape, Handle \/ OwnChange \/ Break
  PROVE  LinkShape'
<1>1. UNCHANGED <<done, connected, available>> /\ (link' # "dropped" <=> link # "dropped")
  BY DEF Handle, OwnChange, Break, queues, data
<1> QED
  BY <1>1 DEF LinkShape, Linked

-----------------------------------------------------------------------------
(* What the reports under way tell.                                        *)

LEMMA KnownNext ==
  ASSUME NEW k \in Points
  PROVE  Known'[k] = IF k = "mode" /\ ~reportsMode' THEN Absent ELSE actual'[k]
BY DEF Known, Updated, Unknown, Reported

LEMMA ChangeTells ==
  ASSUME Types, Telling, NEW new \in [Points -> BOOLEAN \cup Used], IsPart(new), Change(new),
         UNCHANGED <<reportsMode, link, done, cache>>
  PROVE  Telling'
<1> DEFINE C == {k \in DOMAIN Reported(new) : new[k] # actual[k]}
<1>1. actual' = new /\ UNCHANGED Handed /\ pushes \in Seq(Reports) /\ missed \in BOOLEAN
  BY DEF Change, Handed, Types
<1>2. \A k \in Points : k \notin C => Known'[k] = Known[k]
  BY <1>1, KnownIs, KnownNext, ReportedIs
<1>3. \A k \in C : k \in Points /\ Known'[k] = new[k] /\ (k = "mode" => reportsMode)
  BY <1>1, KnownNext, ReportedIs
<1>4. CASE missed' = (missed \/ C # {}) /\ UNCHANGED pushes
  <2>1. ASSUME ~missed', link' = "up", NEW k \in Points PROVE Told(k)'
    <3>1. ~missed /\ k \notin C
      BY <1>4, <2>1
    <3>2. Told(k)
      BY <2>1, <3>1 DEF Telling, NothingForgotten
    <3>3. Known'[k] = Known[k]
      BY <1>2, <3>1
    <3> QED
      BY <1>1, <1>4, <3>2, <3>3 DEF Told
  <2>2. ModeSecret'
    BY <1>1, <1>4 DEF Telling, ModeSecret
  <2> QED
    BY <2>1, <2>2 DEF Telling, NothingForgotten
<1>5. CASE pushes' = Append(pushes, [k \in C |-> new[k]]) /\ UNCHANGED missed
  <2>1. [k \in C |-> new[k]] \in Reports /\ DOMAIN [k \in C |-> new[k]] = C
        /\ \A k \in C : [l \in C |-> new[l]][k] = new[k]
    BY PartsAreReports, ReportedIs
  <2>2. ASSUME ~missed', link' = "up", NEW k \in Points PROVE Told(k)'
    <3>1. CASE k \in C
      <4>1. Says(pushes', k, Known'[k])
        BY <1>1, <1>3, <1>5, <2>1, <3>1, ReportArrives
      <4> QED
        BY <4>1 DEF Told
    <3>2. CASE k \notin C
      <4>1. Told(k) /\ Known'[k] = Known[k]
        BY <1>2, <1>5, <2>2, <3>2 DEF Telling, NothingForgotten
      <4>2. /\ Silent(pushes, k) => Silent(pushes', k)
            /\ \A v : Says(pushes, k, v) => Says(pushes', k, v)
        BY <1>1, <1>5, <2>1, <3>2, ReportArrives
      <4> QED
        BY <1>1, <4>1, <4>2 DEF Told
    <3> QED
      BY <3>1, <3>2
  <2>3. ModeSecret'
    <3>1. ASSUME ~reportsMode' PROVE Silent(pushes, "mode")'
      <4>1. "mode" \notin C /\ Silent(pushes, "mode")
        BY <1>3, <3>1 DEF Telling, ModeSecret
      <4> QED
        BY <1>1, <1>5, <2>1, <4>1, ReportArrives
    <3> QED
      BY <1>1, <3>1 DEF Telling, ModeSecret
  <2> QED
    BY <2>2, <2>3 DEF Telling, NothingForgotten
<1> QED
  BY <1>4, <1>5 DEF Change

LEMMA PurifierTells ==
  ASSUME Types, Telling, Handle \/ OwnChange \/ Break
  PROVE  Telling'
<1>1. CASE Handle
  <2>1. Head(inbox) \in Writings
    BY <1>1 DEF Handle, Types
  <2>2. PICK new \in [Points -> BOOLEAN \cup Used] : IsPart(new) /\ Change(new)
    BY <1>1, <2>1, AppliedIsActual DEF Handle, Types, Writings
  <2> QED
    BY <1>1, <2>2, ChangeTells DEF Handle, queues, data
<1>2. CASE OwnChange
  <2>1. PICK k \in Points : \E v \in Values[k] : Change([actual EXCEPT ![k] = v])
    BY <1>2 DEF OwnChange
  <2>2. PICK v \in Values[k] : Change([actual EXCEPT ![k] = v])
    BY <2>1
  <2>3. /\ [actual EXCEPT ![k] = v] \in [Points -> BOOLEAN \cup Used]
        /\ IsPart([actual EXCEPT ![k] = v])
    BY PointsAre DEF Types, IsPart
  <2> QED
    BY <1>2, <2>2, <2>3, ChangeTells DEF OwnChange, queues, data
<1>3. CASE Break
  <2>1. /\ missed' /\ pushes' = <<>> /\ Silent(pushes', "mode")
        /\ UNCHANGED <<reportsMode, done, cache>>
    BY <1>3 DEF Break, queues, data, Silent
  <2> QED
    BY <2>1 DEF Telling, NothingForgotten, ModeSecret, Handed
<1> QED
  BY <1>1, <1>2, <1>3

(* The worker hands on nothing, or the first report, or a full read.       *)
LEMMA WorkHands ==
  ASSUME Types, Work
  PROVE  \E r \in Reports :
            /\ Handed' = Append(Handed, r)
            /\ \/ DOMAIN r = {} /\ UNCHANGED <<pushes, missed, link>>
               \/ DOMAIN r = {} /\ pushes' = <<>> /\ missed'
               \/ /\ pushes # <<>> /\ r = Head(pushes) /\ pushes' = Tail(pushes)
                  /\ UNCHANGED <<missed, link>>
               \/ r = Reported(actual) /\ pushes' = <<>>
               \/ /\ pushes # <<>> /\ r = Head(pushes)
                  /\ pushes' = Append(Tail(pushes), Reported(actual))
<1> DEFINE Answer(report) == [job |-> Head(jobs), lost |-> FALSE, report |-> report]
           Failed == [job |-> Head(jobs), lost |-> TRUE, report |-> <<>>]
<1>1. Head(jobs) \in Jobs
  BY DEF Work, Types
<1>2. ASSUME NEW r \in Reports, done' = Append(done, Answer(r)) PROVE Handed' = Append(Handed, r)
  <2>1. Answer(r) \in Results /\ Answer(r).report = r
    BY <1>1 DEF Results
  <2> HIDE DEF Answer
  <2> QED
    BY <1>2, <2>1, HandedGrows
<1>3. ASSUME done' = Append(done, Failed) PROVE Handed' = Append(Handed, <<>>)
  <2>1. Failed \in Results /\ Failed.report = <<>>
    BY <1>1, NothingIsAReport DEF Results
  <2> HIDE DEF Failed
  <2> QED
    BY <1>3, <2>1, HandedGrows
<1>4. <<>> \in Reports /\ DOMAIN <<>> = {}
  BY NothingIsAReport
<1>5. Reported(actual) \in Reports
  BY ReportedIsAReport
<1>6. pushes # <<>> => Head(pushes) \in Reports
  BY DEF Types
<1>7. CASE WorkSend
  <2>1. done' = Append(done, Answer(<<>>)) /\ UNCHANGED <<pushes, missed, link>>
    BY <1>7 DEF WorkSend, Result
  <2> QED
    BY <1>2, <1>4, <2>1
<1>8. CASE WorkRead
  <2>1. \/ done' = Append(done, Answer(Reported(actual))) /\ pushes' = <<>>
        \/ /\ pushes # <<>> /\ done' = Append(done, Answer(Head(pushes)))
           /\ pushes' = Append(Tail(pushes), Reported(actual))
    BY <1>8 DEF WorkRead, Result
  <2> HIDE DEF Answer
  <2> QED
    BY <1>2, <1>5, <1>6, <2>1
<1>9. CASE WorkReceive
  <2>1. /\ UNCHANGED <<missed, link>>
        /\ \/ done' = Append(done, Answer(<<>>)) /\ UNCHANGED pushes
           \/ /\ pushes # <<>> /\ done' = Append(done, Answer(Head(pushes)))
              /\ pushes' = Tail(pushes)
    BY <1>9 DEF WorkReceive, Result
  <2> HIDE DEF Answer
  <2> QED
    BY <1>2, <1>4, <1>6, <2>1
<1>10. CASE WorkFails
  <2>1. done' = Append(done, Failed) /\ UNCHANGED <<pushes, missed, link>>
    BY <1>10 DEF WorkFails, Lost
  <2> HIDE DEF Failed
  <2> QED
    BY <1>3, <1>4, <2>1
<1>11. CASE WorkDrop
  <2>1. done' = Append(done, Answer(<<>>)) /\ pushes' = <<>> /\ missed'
    BY <1>11 DEF WorkDrop, Result
  <2> HIDE DEF Answer
  <2> QED
    BY <1>2, <1>4, <2>1
<1>12. CASE WorkOpen
  <2>1. done' = Append(done, Answer(Reported(actual))) /\ pushes' = <<>>
    BY <1>12 DEF WorkOpen, Result
  <2> HIDE DEF Answer
  <2> QED
    BY <1>2, <1>5, <2>1
<1> QED
  BY <1>7, <1>8, <1>9, <1>10, <1>11, <1>12 DEF Work

LEMMA WorkTells ==
  ASSUME Types, Telling, Work
  PROVE  Telling'
<1>1. /\ pushes \in Seq(Reports) /\ Handed \in Seq(Reports) /\ Reported(actual) \in Reports
      /\ pushes # <<>> => Tail(pushes) \in Seq(Reports)
  BY HandedAre, ReportedIsAReport DEF Types
<1>2. UNCHANGED <<actual, reportsMode, cache>> /\ \A k \in Points : Known'[k] = Known[k]
  BY KnownIs, KnownNext DEF Work, data
<1>3. PICK r \in Reports :
         /\ Handed' = Append(Handed, r)
         /\ \/ DOMAIN r = {} /\ UNCHANGED <<pushes, missed, link>>
            \/ DOMAIN r = {} /\ pushes' = <<>> /\ missed'
            \/ /\ pushes # <<>> /\ r = Head(pushes) /\ pushes' = Tail(pushes)
               /\ UNCHANGED <<missed, link>>
            \/ r = Reported(actual) /\ pushes' = <<>>
            \/ /\ pushes # <<>> /\ r = Head(pushes)
               /\ pushes' = Append(Tail(pushes), Reported(actual))
  BY WorkHands
<1>4. \A k : /\ k \in DOMAIN r => Says(Handed', k, r[k])
             /\ k \notin DOMAIN r =>
                   /\ Silent(Handed, k) => Silent(Handed', k)
                   /\ \A v : Says(Handed, k, v) => Says(Handed', k, v)
  BY <1>1, <1>3, ReportArrives
<1>5. \A k : pushes # <<>> =>
         /\ Silent(pushes, k) => Silent(Tail(pushes), k) /\ k \notin DOMAIN Head(pushes)
         /\ \A v : Says(pushes, k, v) =>
               \/ Says(Tail(pushes), k, v)
               \/ Silent(Tail(pushes), k) /\ k \in DOMAIN Head(pushes) /\ Head(pushes)[k] = v
  BY <1>1, ReportTaken
<1>6. \A k : pushes # <<>> =>
         /\ k \in DOMAIN Reported(actual) =>
               Says(Append(Tail(pushes), Reported(actual)), k, Reported(actual)[k])
         /\ k \notin DOMAIN Reported(actual) =>
               (Silent(Tail(pushes), k) => Silent(Append(Tail(pushes), Reported(actual)), k))
  BY <1>1, ReportArrives
<1>7. \A k : Silent(<<>>, k)
  BY DEF Silent
<1>8. \A k \in Points :
         /\ k \in DOMAIN Reported(actual) => Reported(actual)[k] = Known[k]
         /\ k \notin DOMAIN Reported(actual) =>
               k = "mode" /\ ~reportsMode /\ Known[k] = Absent
  BY KnownIs, ReportedIs
<1>9. ModeSecret'
  <2> SUFFICES ASSUME ~reportsMode'
               PROVE  Silent(pushes', "mode") /\ Silent(Handed', "mode") /\ cache'.mode = Absent
    BY DEF ModeSecret
  <2>1. Silent(pushes, "mode") /\ Silent(Handed, "mode") /\ cache'.mode = Absent
    BY <1>2 DEF Telling, ModeSecret
  <2>2. "mode" \notin DOMAIN Reported(actual)
    BY <1>2, ReportedIs
  <2>3. "mode" \notin DOMAIN r
    BY <1>3, <1>5, <2>1, <2>2
  <2>4. Silent(pushes', "mode")
    BY <1>3, <1>5, <1>6, <1>7, <2>1, <2>2
  <2> QED
    BY <1>4, <2>1, <2>3, <2>4
<1>10. ASSUME ~missed', link' = "up", NEW k \in Points PROVE Told(k)'
  <2>1. CASE r = Reported(actual) /\ pushes' = <<>>
    <3>1. CASE k \in DOMAIN r
      BY <1>2, <1>4, <1>7, <1>8, <2>1, <3>1 DEF Told
    <3>2. CASE k \notin DOMAIN r
      <4>1. Silent(Handed', k) /\ cache'[k] = Known'[k]
        BY <1>2, <1>4, <1>8, <2>1, <3>2 DEF Telling, ModeSecret
      <4> QED
        BY <1>7, <2>1, <4>1 DEF Told
    <3> QED
      BY <3>1, <3>2
  <2>2. CASE pushes # <<>> /\ r = Head(pushes) /\ pushes' = Append(Tail(pushes), Reported(actual))
    <3>1. CASE k \in DOMAIN Reported(actual)
      BY <1>2, <1>6, <1>8, <2>2, <3>1 DEF Told
    <3>2. CASE k \notin DOMAIN Reported(actual)
      <4>1. k = "mode" /\ ~reportsMode' /\ Known'[k] = Absent
        BY <1>2, <1>8, <3>2
      <4>2. Silent(pushes', k) /\ Silent(Handed', k) /\ cache'[k] = Absent
        BY <1>9, <4>1 DEF ModeSecret
      <4> QED
        BY <4>1, <4>2 DEF Told
    <3> QED
      BY <3>1, <3>2
  <2>3. CASE UNCHANGED <<missed, link>>
    <3>1. Told(k)
      BY <1>10, <2>3 DEF Telling, NothingForgotten
    <3>2. CASE DOMAIN r = {} /\ UNCHANGED pushes
      BY <1>2, <1>4, <3>1, <3>2 DEF Told
    <3>3. CASE pushes # <<>> /\ r = Head(pushes) /\ pushes' = Tail(pushes)
      BY <1>2, <1>4, <1>5, <3>1, <3>3 DEF Told
    <3> QED
      BY <1>3, <1>10, <2>1, <2>2, <3>2, <3>3
  <2> QED
    BY <1>3, <1>10, <2>1, <2>2, <2>3
<1> QED
  BY <1>9, <1>10 DEF Telling, NothingForgotten

(* The loop merges the report of a result.                                 *)
LEMMA LoopMerges ==
  ASSUME Types, Telling, done # <<>>, done' = Tail(done), UNCHANGED <<purifier, link>>,
         \A k \in Points : cache'[k] = IF k \in DOMAIN Head(done).report
                                       THEN Head(done).report[k] ELSE cache[k]
  PROVE  Telling'
<1> DEFINE r == Head(done).report
<1>1. Handed \in Seq(Reports) /\ Handed # <<>> /\ Handed' = Tail(Handed) /\ Head(Handed) = r
  BY HandedAre, HandedShrinks
<1>2. \A k \in Points : cache'[k] = IF k \in DOMAIN r THEN r[k] ELSE cache[k]
  OBVIOUS
<1> HIDE DEF r
<1>3. \A k : /\ Silent(Handed, k) => Silent(Handed', k) /\ k \notin DOMAIN r
             /\ \A v : Says(Handed, k, v) =>
                   \/ Says(Handed', k, v)
                   \/ Silent(Handed', k) /\ k \in DOMAIN r /\ r[k] = v
  BY <1>1, ReportTaken
<1>4. /\ UNCHANGED <<reportsMode, pushes, missed, link>>
      /\ \A k \in Points : Known'[k] = Known[k]
  BY KnownIs, KnownNext DEF purifier
<1>5. ASSUME ~missed', link' = "up", NEW k \in Points PROVE Told(k)'
  <2>1. Told(k)
    BY <1>4, <1>5 DEF Telling, NothingForgotten
  <2> QED
    BY <1>2, <1>3, <1>4, <2>1 DEF Told
<1>6. ModeSecret'
  BY <1>2, <1>3, <1>4, PointsAre DEF Telling, ModeSecret
<1> QED
  BY <1>5, <1>6 DEF Telling, NothingForgotten

LEMMA LoopTells ==
  ASSUME Types, ResultsShape, Telling,
         RunStatus \/ RunReceive \/ RunOpen \/ RunResumes \/ Command \/ CommandResumes
  PROVE  Telling'
<1>1. CASE RunStatus \/ RunReceive \/ RunOpen \/ Command
  <2>1. UNCHANGED <<done, link, cache, purifier>>
    BY <1>1 DEF RunStatus, RunReceive, RunOpen, RunJob, Command, data
  <2>2. UNCHANGED <<actual, reportsMode, pushes, missed>>
    BY <2>1 DEF purifier
  <2>3. UNCHANGED Handed /\ \A k \in Points : Known'[k] = Known[k]
    BY <2>1, <2>2, KnownIs, KnownNext DEF Handed
  <2> QED
    BY <2>1, <2>2, <2>3 DEF Telling, NothingForgotten, ModeSecret, Told
<1>2. CASE RunResumes
  <2>1. done # <<>> /\ done' = Tail(done) /\ UNCHANGED <<purifier, link>>
    BY <1>2 DEF RunResumes
  <2>2. CASE Head(done).lost \/ Head(done).job = "drop"
    <3>1. UNCHANGED cache /\ DOMAIN Head(done).report = {}
      BY <1>2, <2>1, <2>2, HeadShape DEF RunResumes, data, SetUnavailable
    <3> QED
      BY <2>1, <3>1, LoopMerges
  <2>3. CASE ~Head(done).lost /\ Head(done).job # "drop"
    <3>1. cache' = Applied(cache, Head(done).report)
      BY <1>2, <2>3 DEF RunResumes, HandleDps
    <3>2. DOMAIN cache = Points
      BY DEF Types
    <3> QED
      BY <2>1, <3>1, <3>2, LoopMerges DEF Applied
  <2> QED
    BY <2>2, <2>3
<1>3. CASE CommandResumes
  <2>1. /\ done # <<>> /\ done' = Tail(done) /\ UNCHANGED <<purifier, link>>
        /\ Head(done).job \in CommandJobs
    BY <1>3 DEF CommandResumes, CommandJobs
  <2>2. UNCHANGED cache
    BY <1>3, <2>1, HeadShape DEF CommandResumes, data, SetUnavailable, CommandSent
  <2>3. DOMAIN Head(done).report = {}
    BY <2>1, HeadShape
  <2> QED
    BY <2>1, <2>2, <2>3, LoopMerges
<1> QED
  BY <1>1, <1>2, <1>3

-----------------------------------------------------------------------------
LEMMA IInvInit == Init => IInv
<1> SUFFICES ASSUME Init PROVE IInv
  OBVIOUS
<1>1. actual \in [switch : BOOLEAN, mode : Used] /\ reportsMode \in BOOLEAN
  BY DEF Init
<1>2. actual \in [Points -> BOOLEAN \cup Used] /\ IsPart(actual)
  BY <1>1, PointsAre DEF IsPart
<1>3. /\ inbox = <<>> /\ pushes = <<>> /\ jobs = <<>> /\ done = <<>> /\ command = <<>>
      /\ missed = FALSE /\ link = "up" /\ running = FALSE /\ connected = TRUE /\ available = TRUE
      /\ cache = Known /\ shown = Known
  BY DEF Init, Known
<1>4. Known = [k \in Points |-> IF k = "mode" /\ ~reportsMode THEN Absent ELSE actual[k]]
  <2>1. DOMAIN Known = Points
    BY ReportedIs DEF Known, Updated, Unknown
  <2>2. Known = [k \in DOMAIN Known |-> Known[k]]
    BY DEF Known, Updated
  <2> QED
    BY <2>1, <2>2, KnownIs
<1>5. Known \in Data /\ IsData(Known)
  BY <1>2, <1>4, PointsAre DEF Data, IsData, IsPart
<1>6. Types
  <2>1. /\ <<>> \in Seq(Writings) /\ <<>> \in Seq(Reports) /\ Len(<<>>) <= MaxMessages
        /\ <<>> \in Seq(Jobs) /\ <<>> \in Seq(Results)
    OBVIOUS
  <2>2. /\ inbox \in Seq(Writings) /\ Len(inbox) <= MaxMessages
        /\ pushes \in Seq(Reports) /\ Len(pushes) <= MaxMessages
        /\ jobs \in Seq(Jobs) /\ done \in Seq(Results)
    BY <1>3, <2>1
  <2>3. cache \in Data /\ IsData(cache) /\ shown \in Data /\ IsData(shown)
    BY <1>3, <1>5
  <2> QED
    BY <1>1, <1>2, <1>3, <2>2, <2>3 DEF Types, Data
<1>7. Handed = <<>> /\ \A k : Silent(<<>>, k)
  BY <1>3 DEF Handed, Silent
<1>8. JobsShape /\ ResultsShape
  BY <1>3 DEF JobsShape, ResultsShape
<1>9. LinkShape
  BY <1>3 DEF LinkShape, Linked
<1>10. Telling
  BY <1>3, <1>4, <1>7, PointsAre DEF Telling, NothingForgotten, ModeSecret, Told
<1> QED
  BY <1>6, <1>8, <1>9, <1>10 DEF IInv, Shapes

LEMMA IInvStep == IInv /\ [Next]_vars => IInv'
<1> SUFFICES ASSUME IInv, [Next]_vars PROVE IInv'
  OBVIOUS
<1>1. Types /\ JobsShape /\ ResultsShape /\ LinkShape /\ Telling
  BY DEF IInv, Shapes
<1>2. CASE Handle \/ OwnChange \/ Break
  <2>1. UNCHANGED <<jobs, done, running, command>>
    BY <1>2 DEF Handle, OwnChange, Break, queues
  <2> QED
    BY <1>1, <1>2, <2>1, PurifierTypes, PurifierJobs, PurifierLink, PurifierTells DEF IInv, Shapes
<1>3. CASE Work
  BY <1>1, <1>3, WorkTypes, WorkJobs, WorkLink, WorkTells DEF IInv, Shapes
<1>4. CASE RunStatus \/ RunReceive \/ RunOpen \/ RunResumes \/ Command \/ CommandResumes
  BY <1>1, <1>4, LoopTypes, LoopJobs, LoopLink, LoopTells DEF IInv, Shapes
<1>5. CASE UNCHANGED vars
  <2>1. /\ UNCHANGED purifier /\ UNCHANGED queues /\ UNCHANGED data
        /\ UNCHANGED <<link, command>>
    BY <1>5 DEF vars
  <2>2. Types'
    BY <1>1, <2>1 DEF Types, IsPart, IsData, purifier, queues, data
  <2>3. JobsShape' /\ ResultsShape' /\ LinkShape'
    BY <1>1, <2>1 DEF JobsShape, ResultsShape, LinkShape, Owned, Linked, queues, data
  <2>4. UNCHANGED Handed /\ \A k \in Points : Known'[k] = Known[k]
    BY <2>1, KnownIs, KnownNext DEF Handed, purifier, queues
  <2>5. Telling'
    BY <1>1, <2>1, <2>4
      DEF Telling, NothingForgotten, ModeSecret, Told, purifier, queues, data
  <2> QED
    BY <2>2, <2>3, <2>5 DEF IInv, Shapes
<1> QED
  BY <1>2, <1>3, <1>4, <1>5 DEF Next

LEMMA IInvAlways == Spec => []IInv
BY IInvInit, IInvStep, PTL DEF Spec

(* Every variable keeps its type, and the background task and the command  *)
(* have one job or result at most: _run and async_set_dps of device.py     *)
(* await each before the next.                                             *)
THEOREM TypeCorrect == Spec => []TypeOK
<1>1. ASSUME IInv PROVE TypeOK
  <2>1. Types /\ JobsShape
    BY <1>1 DEF IInv, Shapes
  <2>2. Len(jobs) \in Nat /\ Len(done) \in Nat
    BY <2>1 DEF Types
  <2>3. Len(jobs) + Len(done) <= 2
    <3>1. Len(jobs) <= 2
      <4> SUFFICES ASSUME Len(jobs) >= 3 PROVE FALSE
        BY <2>2
      <4>1. 1 \in 1..Len(jobs) /\ 2 \in 1..Len(jobs) /\ 3 \in 1..Len(jobs)
        BY <2>2
      <4> QED
        BY <2>1, <4>1 DEF JobsShape, Differ
    <3>2. Len(done) <= 2
      <4> SUFFICES ASSUME Len(done) >= 3 PROVE FALSE
        BY <2>2
      <4>1. 1 \in 1..Len(done) /\ 2 \in 1..Len(done) /\ 3 \in 1..Len(done)
        BY <2>2
      <4> QED
        BY <2>1, <4>1 DEF JobsShape, Differ
    <3>3. ASSUME Len(jobs) >= 1, Len(done) >= 2 PROVE FALSE
      <4>1. 1 \in 1..Len(jobs) /\ 1 \in 1..Len(done) /\ 2 \in 1..Len(done)
        BY <2>2, <3>3
      <4> QED
        BY <2>1, <4>1 DEF JobsShape, Differ
    <3>4. ASSUME Len(jobs) >= 2, Len(done) >= 1 PROVE FALSE
      <4>1. 1 \in 1..Len(jobs) /\ 2 \in 1..Len(jobs) /\ 1 \in 1..Len(done)
        BY <2>2, <3>4
      <4> QED
        BY <2>1, <4>1 DEF JobsShape, Differ
    <3> QED
      BY <2>2, <3>1, <3>2, <3>3, <3>4
  <2>4. /\ \A i \in 1..Len(jobs) : jobs[i] \in Jobs
        /\ \A i \in 1..Len(done) : done[i].job \in Jobs
    <3>1. \A d \in Results : d.job \in Jobs
      BY DEF Results
    <3> QED
      BY <2>1, <3>1 DEF Types
  <2>5. Len(pushes) <= MaxMessages + 1
    BY <2>1 DEF Types
  <2> QED
    BY <2>1, <2>3, <2>4, <2>5 DEF Types, TypeOK, IsPart
<1> QED
  BY <1>1, IInvAlways, PTL

(* What the entities show as available follows the connection: although    *)
(* async_set_updated_data marks the data as good, _on_status is not called *)
(* with a report of a connection that was dropped.                         *)
THEOREM AvailableIsConnected == Spec => []ShownMeansConnected
<1>1. IInv => ShownMeansConnected
  BY DEF IInv, LinkShape, ShownMeansConnected
<1> QED
  BY <1>1, IInvAlways, PTL

(* _handle_dps merges partial reports, full reads and answers that the     *)
(* library takes for each other, until they say what the purifier does.    *)
THEOREM MergesInOrder == Spec => []CaughtUp
<1>1. ASSUME IInv, ~missed, link = "up", pushes = <<>>, done = <<>> PROVE cache = Known
  <2>1. Types /\ \A k \in Points : Told(k)
    BY <1>1 DEF IInv, Shapes, Telling, NothingForgotten
  <2>2. \A k \in Points : cache[k] = Known[k]
    BY <1>1, <2>1 DEF Told, Says, Handed
  <2>3. DOMAIN Known = Points /\ Known = [k \in DOMAIN Known |-> Known[k]]
    BY ReportedIs DEF Known, Updated, Unknown
  <2>4. cache = [k \in Points |-> cache[k]]
    BY <2>1 DEF Types
  <2> QED
    BY <2>2, <2>3, <2>4
<1>2. IInv => CaughtUp
  BY <1>1 DEF CaughtUp
<1> QED
  BY <1>2, IInvAlways, PTL

-----------------------------------------------------------------------------
(* The speeds of the fan.                                                  *)

LEMMA SpeedOfPercentage ==
  ASSUME NEW p \in 1..100
  PROVE  SpeedFor(p) \in 1..4 /\ 25 * SpeedFor(p) \in p..p + 24
BY DEF SpeedFor

LEMMA PercentageOfSpeed ==
  ASSUME NEW i \in 1..4
  PROVE  SpeedToPercentage(i) = 25 * i /\ SpeedFor(25 * i) = i
BY DEF SpeedFor, SpeedToPercentage

LEMMA ManualDecoded ==
  ASSUME NEW i \in 1..4
  PROVE  DecodeMode(Manual[i]) = <<"manual", i>>
<1>1. Manual[i] \notin PresetModes
  BY DEF Manual, PresetModes
<1>2. \A j \in 1..4 : Manual[j] = Manual[i] => i = j
  BY DEF Manual
<1> QED
  BY <1>1, <1>2 DEF DecodeMode

LEMMA PresetDecoded ==
  ASSUME NEW m \in PresetModes
  PROVE  DecodeMode(m) = <<m, Absent>>
<1>1. \A j \in 1..4 : Manual[j] # m
  BY DEF Manual, PresetModes
<1> QED
  BY <1>1 DEF DecodeMode

(* A purifier that is shown to be off, or of which it is not known, is     *)
(* turned on with the same request.                                        *)
LEMMA Wakes ==
  ASSUME Types, NEW m, NEW new, new = Applied(shown, Waking(shown, Mode(m)))
  PROVE  new.switch = TRUE /\ new.mode = m
<1>1. DOMAIN shown = {"switch", "mode"}
  BY PointsAre DEF Types
<1>2. CASE IsOn(shown) = TRUE
  <2>1. new = Applied(shown, Mode(m))
    BY <1>2 DEF Waking
  <2>2. DOMAIN Mode(m) = {"mode"} /\ Mode(m)["mode"] = m
    BY DEF Mode
  <2> QED
    BY <1>1, <1>2, <2>1, <2>2 DEF Applied, IsOn
<1>3. CASE IsOn(shown) # TRUE
  <2>1. PICK w : w = Updated(Power(TRUE), Mode(m)) /\ new = Applied(shown, w)
    BY <1>3 DEF Waking
  <2>2. "switch" \in DOMAIN w /\ w["switch"] = TRUE /\ "mode" \in DOMAIN w /\ w["mode"] = m
    BY <2>1 DEF Updated, Power, Mode
  <2> QED
    BY <1>1, <2>1, <2>2 DEF Applied
<1> QED
  BY <1>2, <1>3

(* The entity rounds a percentage up to a speed and shows that speed, and  *)
(* a preset mode in place of it; both wake the purifier: the properties of *)
(* fan.py, async_set_percentage and async_set_preset_mode.                 *)
THEOREM SpeedsAreShown == Spec => []SpeedsRoundUp
<1>1. ASSUME Types, NEW p \in 1..100, NEW new, new = Applied(shown, SetPercentage(shown, p))
      PROVE  /\ IsOn(new) /\ PresetMode(new) = Absent
             /\ Percentage(new) \in p..p + 24
             /\ SetPercentage(new, Percentage(new)).mode = new.mode
  <2>1. PICK i \in 1..4 : i = SpeedFor(p) /\ 25 * i \in p..p + 24
    BY SpeedOfPercentage
  <2>2. SetPercentage(shown, p) = Waking(shown, Mode(Manual[i]))
    <3>1. p # 0
      OBVIOUS
    <3> QED
      BY <2>1, <3>1 DEF SetPercentage, Speed
  <2>3. new.switch = TRUE /\ new.mode = Manual[i]
    BY <1>1, <2>2, Wakes
  <2>4. DecodeMode(new.mode)[1] = "manual" /\ DecodeMode(new.mode)[2] = i
    BY <2>3, ManualDecoded
  <2>5. PresetMode(new) = Absent
    BY <2>4 DEF PresetMode, PresetModes
  <2>6. Percentage(new) = 25 * i
    <3>1. new.switch # FALSE
      BY <2>3
    <3>2. Percentage(new) = SpeedToPercentage(DecodeMode(new.mode)[2])
      BY <2>4, <3>1 DEF Percentage
    <3> QED
      BY <2>4, <3>2, PercentageOfSpeed
  <2>7. SetPercentage(new, 25 * i) = Mode(Manual[i])
    <3>1. 25 * i # 0 /\ SpeedFor(25 * i) = i
      BY PercentageOfSpeed
    <3> QED
      BY <2>3, <3>1 DEF SetPercentage, Waking, IsOn, Speed
  <2> QED
    BY <2>1, <2>3, <2>5, <2>6, <2>7 DEF IsOn, Mode
<1>2. ASSUME Types, NEW m \in PresetModes, NEW new, new = Applied(shown, SetPresetMode(shown, m))
      PROVE  IsOn(new) /\ PresetMode(new) = m /\ Percentage(new) = Absent
  <2>1. new.switch = TRUE /\ new.mode = m
    BY <1>2, Wakes DEF SetPresetMode
  <2>2. DecodeMode(new.mode)[1] = m /\ m # "manual"
    BY <2>1, PresetDecoded DEF PresetModes
  <2>3. PresetMode(new) = m
    BY <2>2 DEF PresetMode
  <2>4. new.switch # FALSE
    BY <2>1
  <2>5. Percentage(new) = Absent
    BY <2>2, <2>4 DEF Percentage
  <2> QED
    BY <2>1, <2>3, <2>5 DEF IsOn
<1>3. IInv => SpeedsRoundUp
  BY <1>1, <1>2 DEF IInv, Shapes, SpeedsRoundUp
<1> QED
  BY <1>3, IInvAlways, PTL

-----------------------------------------------------------------------------
(* The filter.                                                             *)

(* What PurifierState.from_dps makes of the filter's minutes is the share  *)
(* that remains, within half a percent; it is between 0 and 100 whatever   *)
(* the purifier reports, and 0 when the filter is overdue.                 *)
FilterLifeIsShare ==
    \A total \in Nat \ {0}, used \in Int :
        LET life == FilterLife(total, used)
        IN  /\ life \in 0..100
            /\ used \in 0..total =>
                  2 * (life * total - 100 * (total - used)) \in -total..total
            /\ used >= total => life = 0

(* Division with remainder.                                                *)
LEMMA Division ==
  ASSUME NEW n \in Nat, NEW d \in Nat \ {0}
  PROVE  /\ n \div d \in Nat
         /\ n % d = n - d * (n \div d)
         /\ n % d \in 0..(d - 1)
OBVIOUS

(* Rounding is off by half the divisor at most.                            *)
LEMMA Rounding ==
  ASSUME NEW n \in Nat, NEW d \in Nat \ {0}
  PROVE  /\ RoundedQuotient(n, d) \in Nat
         /\ 2 * (RoundedQuotient(n, d) * d - n) \in -d..d
<1> DEFINE q == n \div d
           r == n % d
<1>1. q \in Nat /\ r \in 0..(d - 1) /\ n = q * d + r
  <2>1. q \in Nat /\ r \in 0..(d - 1) /\ r = n - d * q
    BY Division
  <2> HIDE DEF q, r
  <2> QED
    BY <2>1
<1>2. \/ RoundedQuotient(n, d) = q /\ 2 * r <= d
      \/ RoundedQuotient(n, d) = q + 1 /\ 2 * r >= d
  BY <1>1 DEF RoundedQuotient
<1> HIDE DEF q, r
<1>3. q * d \in Nat /\ (q + 1) * d = q * d + d
  BY <1>1
<1>4. CASE RoundedQuotient(n, d) = q /\ 2 * r <= d
  BY <1>1, <1>3, <1>4
<1>5. CASE RoundedQuotient(n, d) = q + 1 /\ 2 * r >= d
  BY <1>1, <1>3, <1>5
<1> QED
  BY <1>2, <1>4, <1>5

(* The sensor of the filter's life.                                        *)
THEOREM FilterLifeIsTheShare == FilterLifeIsShare
<1> SUFFICES ASSUME NEW total \in Nat \ {0}, NEW used \in Int
             PROVE  LET life == FilterLife(total, used)
                    IN  /\ life \in 0..100
                        /\ used \in 0..total =>
                              2 * (life * total - 100 * (total - used)) \in -total..total
                        /\ used >= total => life = 0
  BY DEF FilterLifeIsShare
<1> DEFINE rest == FilterRemaining(total, used)
           percent == RoundedQuotient(100 * rest, total)
           life == FilterLife(total, used)
<1>1. rest \in Nat /\ rest = IF used > total THEN 0 ELSE total - used
  BY DEF FilterRemaining
<1>2. life = IF percent > 100 THEN 100 ELSE percent
  BY DEF FilterLife
<1> HIDE DEF rest, percent, life
<1>3. percent \in Nat /\ 2 * (percent * total - 100 * rest) \in -total..total
  BY <1>1, Rounding DEF percent
<1>4. life \in 0..100
  BY <1>2, <1>3
<1>5. ASSUME used \in 0..total PROVE 2 * (life * total - 100 * (total - used)) \in -total..total
  <2>1. rest = total - used /\ 100 * rest <= 100 * total
    BY <1>1, <1>5
  <2>2. percent <= 100
    <3> SUFFICES ASSUME percent >= 101 PROVE FALSE
      BY <1>3
    <3>1. percent * total >= 101 * total
      BY <1>3
    <3> QED
      BY <1>1, <1>3, <2>1, <3>1
  <2> QED
    BY <1>2, <1>3, <2>1, <2>2
<1>6. ASSUME used >= total PROVE life = 0
  <2>1. rest = 0
    BY <1>1, <1>6
  <2>2. 2 * (percent * total) <= total
    BY <1>3, <2>1
  <2>3. percent = 0
    <3> SUFFICES ASSUME percent >= 1 PROVE FALSE
      BY <1>3
    <3>1. percent * total >= total
      BY <1>3
    <3> QED
      BY <1>3, <2>2, <3>1
  <2> QED
    BY <1>2, <2>3
<1> QED
  BY <1>4, <1>5, <1>6 DEF life

=============================================================================
