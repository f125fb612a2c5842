----------------------- MODULE PurifierSetupProofs -----------------------
(***************************************************************************)
(* Safety of PurifierSetup for every set of addresses, every number of     *)
(* rejections and every longest interval.                                  *)
(***************************************************************************)
EXTENDS PurifierSetup, TLAPS

(* A device is available only from its first connection until it is        *)
(* unloaded or lost.                                                       *)
UpShape == up => pc \in Running \cup {"refresh"}

(* The rejections that a running device has counted were in a row.  It     *)
(* starts with none, wherever the setup's own streak was.                  *)
CountShape ==
    /\ pc = "refresh" => failures = 0
    /\ pc \in Running => Lesser(failures, Limit) <= streak

(* Everything but the ranges of the flags.                                 *)
States ==
    /\ CountersOK /\ PlacesOK /\ SearchOK
    /\ UpShape /\ CountShape /\ NoNeedlessReauth /\ OutageFromScratch

IInv == FlagsOK /\ States

USE NowhereAssumption, LimitAssumption, IntervalAssumption

-----------------------------------------------------------------------------
LEMMA IInvInit == Init => IInv
<1> SUFFICES ASSUME Init PROVE IInv
  OBVIOUS
<1>1. FlagsOK
  BY Zenon DEF Init, FlagsOK
<1>2. States
  BY DEF Init, States, CountersOK, PlacesOK, SearchOK, UpShape, CountShape,
         NoNeedlessReauth, OutageFromScratch, Attempt, Running, Idle, HostOrNone, Lesser,
         entryData, device, outage, searching
<1> QED
  BY <1>1, <1>2 DEF IInv

-----------------------------------------------------------------------------
(* The flags.                                                              *)

LEMMA FlagsNext ==
  ASSUME FlagsOK, Next
  PROVE  FlagsOK'
<1> USE DEF FlagsOK, entryData, device, outage, searching
<1>1. CASE Setup
  <2>1. CASE SetupBegin
    BY <2>1, Zenon DEF SetupBegin
  <2>2. CASE SetupConnected
    BY <2>2, Zenon DEF SetupConnected, OnAvailable
  <2>3. CASE SetupRejected
    BY <2>3, Zenon DEF SetupRejected
  <2>4. CASE SetupUnreachable
    BY <2>4, Zenon DEF SetupUnreachable
  <2>5. CASE SetupFollows
    BY <2>5, Zenon DEF SetupFollows
  <2>6. CASE SetupNotAnnounced
    BY <2>6, Zenon DEF SetupNotAnnounced, GiveUp, NoteUnreachable
  <2>7. CASE SetupMissed
    BY <2>7, Zenon DEF SetupMissed, GiveUp, NoteUnreachable
  <2>8. CASE SetupRefreshed
    BY <2>8, Zenon DEF SetupRefreshed
  <2>9. CASE SetupLost
    BY <2>9, Zenon DEF SetupLost, GiveUp, NoteUnreachable
  <2>10. CASE SetupDone
    BY <2>10, Zenon DEF SetupDone
  <2>11. CASE SetupFailed
    BY <2>11, Zenon DEF SetupFailed
  <2> QED
    BY <1>1, <2>1, <2>2, <2>3, <2>4, <2>5, <2>6, <2>7, <2>8, <2>9, <2>10, <2>11
        DEF Setup
<1>2. CASE Run
  <2>1. CASE RunConnected
    BY <2>1, Zenon DEF RunConnected, OnAvailable
  <2>2. CASE RunLost
    BY <2>2, Zenon DEF RunLost, NoteUnreachable
  <2>3. CASE RunUnreachable
    BY <2>3, Zenon DEF RunUnreachable, NoteUnreachable
  <2>4. CASE RunRejected
    BY <2>4, Zenon DEF RunRejected
  <2> QED
    BY <1>2, <2>1, <2>2, <2>3, <2>4 DEF Run
<1>3. CASE Search
  <2>1. CASE SearchAnswers
    BY <2>1, Zenon DEF SearchAnswers
  <2>2. CASE SearchFails
    BY <2>2, Zenon DEF SearchFails, SearchEnd
  <2>3. CASE SearchApplies
    BY <2>3, Zenon DEF SearchApplies, SearchEnd, Reloads, MoveHost
  <2>4. CASE SearchMoved
    BY <2>4, Zenon DEF SearchMoved, SearchEnd, Reloads
  <2> QED
    BY <1>3, <2>1, <2>2, <2>3, <2>4 DEF Search
<1>4. CASE \/ Announce \/ Forget \/ UnloadBegin \/ Unloaded \/ Reauthenticate
          \/ UserReconfigures \/ Remove \/ SinceTimer \/ HourPasses \/ Environment
  <2>1. CASE Announce
    BY <2>1, Zenon DEF Announce, MoveHost
  <2>2. CASE Forget
    BY <2>2, Zenon DEF Forget
  <2>3. CASE UnloadBegin
    BY <2>3, Zenon DEF UnloadBegin
  <2>4. CASE Unloaded
    BY <2>4, Zenon DEF Unloaded
  <2>5. CASE Reauthenticate
    BY <2>5, Zenon DEF Reauthenticate
  <2>6. CASE UserReconfigures
    BY <2>6, Zenon DEF UserReconfigures
  <2>7. CASE Remove
    BY <2>7, Zenon DEF Remove
  <2>8. CASE SinceTimer
    BY <2>8, Zenon DEF SinceTimer
  <2>9. CASE HourPasses
    BY <2>9, Zenon DEF HourPasses
  <2>10. CASE Environment
    BY <2>10, Zenon DEF Environment
  <2> QED
    BY <1>4, <2>1, <2>2, <2>3, <2>4, <2>5, <2>6, <2>7, <2>8, <2>9, <2>10
<1> QED
  BY <1>1, <1>2, <1>3, <1>4 DEF Next

-----------------------------------------------------------------------------
(* The rest, action by action.                                             *)

LEMMA SetupKeeps ==
  ASSUME IInv, Setup
  PROVE  States'
<1> USE DEF IInv, FlagsOK, States, CountersOK, PlacesOK, SearchOK, UpShape, CountShape,
      NoNeedlessReauth, OutageFromScratch, Attempt, Running, Idle, HostOrNone, Lesser,
      entryData, device, outage, searching
<1>1. CASE SetupBegin
  BY <1>1, SMT DEF SetupBegin
<1>2. CASE SetupConnected
  BY <1>2, SMT DEF SetupConnected, OnAvailable, NoteReachable, NotRejected
<1>3. CASE SetupRejected
  BY <1>3, SMT DEF SetupRejected, Rejected
<1>4. CASE SetupUnreachable
  BY <1>4, SMT DEF SetupUnreachable, NotRejected
<1>5. CASE SetupFollows
  BY <1>5, SMT DEF SetupFollows, CanHear
<1>6. CASE SetupNotAnnounced
  BY <1>6, SMT DEF SetupNotAnnounced, GiveUp, NoteUnreachable, SearchIsDue
<1>7. CASE SetupMissed
  BY <1>7, SMT DEF SetupMissed, GiveUp, NoteUnreachable, SearchIsDue,
      NotRejected
<1>8. CASE SetupRefreshed
  BY <1>8, SMT DEF SetupRefreshed
<1>9. CASE SetupLost
  BY <1>9, SMT DEF SetupLost, GiveUp, NoteUnreachable, SearchIsDue,
      NotRejected
<1>10. CASE SetupDone
  BY <1>10, SMT DEF SetupDone
<1>11. CASE SetupFailed
  BY <1>11, SMT DEF SetupFailed
<1> QED
  BY <1>1, <1>2, <1>3, <1>4, <1>5, <1>6, <1>7, <1>8, <1>9, <1>10, <1>11
      DEF Setup

LEMMA RunKeeps ==
  ASSUME IInv, Run
  PROVE  States'
<1> USE DEF IInv, FlagsOK, States, CountersOK, PlacesOK, SearchOK, UpShape, CountShape,
      NoNeedlessReauth, OutageFromScratch, Attempt, Running, Idle, HostOrNone, Lesser,
      entryData, device, outage, searching
<1>1. CASE RunConnected
  BY <1>1, SMT DEF RunConnected, OnAvailable, NoteReachable, NotRejected
<1>2. CASE RunLost
  BY <1>2, SMT DEF RunLost, NoteUnreachable, SearchIsDue
<1>3. CASE RunUnreachable
  BY <1>3, SMT DEF RunUnreachable, NoteUnreachable, SearchIsDue, NotRejected
<1>4. CASE RunRejected
  BY <1>4, SMT DEF RunRejected, Rejected
<1> QED
  BY <1>1, <1>2, <1>3, <1>4 DEF Run

LEMMA SearchKeeps ==
  ASSUME IInv, Search
  PROVE  States'
<1> USE DEF IInv, FlagsOK, States, CountersOK, PlacesOK, SearchOK, UpShape, CountShape,
      NoNeedlessReauth, OutageFromScratch, Attempt, Running, Idle, HostOrNone, Lesser,
      entryData, device, outage, searching
<1>1. CASE SearchAnswers
  BY <1>1, SMT DEF SearchAnswers
<1>2. CASE SearchFails
  BY <1>2, SMT DEF SearchFails, SearchEnd
<1>3. CASE SearchApplies
  BY <1>3, SMT DEF SearchApplies, MoveHost, SearchEnd, SearcherOpen,
      SearcherHost
<1>4. CASE SearchMoved
  BY <1>4, SMT DEF SearchMoved, SearchEnd
<1> QED
  BY <1>1, <1>2, <1>3, <1>4 DEF Search

LEMMA RestKeeps ==
  ASSUME IInv,
         \/ Announce \/ Forget \/ UnloadBegin \/ Unloaded \/ Reauthenticate
         \/ UserReconfigures \/ Remove \/ SinceTimer \/ HourPasses \/ Environment
  PROVE  States'
<1> USE DEF IInv, FlagsOK, States, CountersOK, PlacesOK, SearchOK, UpShape, CountShape,
      NoNeedlessReauth, OutageFromScratch, Attempt, Running, Idle, HostOrNone, Lesser,
      entryData, device, outage, searching
<1>1. CASE Announce
  BY <1>1, SMT DEF Announce, MoveHost
<1>2. CASE Forget
  BY <1>2, SMT DEF Forget
<1>3. CASE UnloadBegin
  BY <1>3, SMT DEF UnloadBegin
<1>4. CASE Unloaded
  BY <1>4, SMT DEF Unloaded
<1>5. CASE Reauthenticate
  BY <1>5, SMT DEF Reauthenticate
<1>6. CASE UserReconfigures
  BY <1>6, SMT DEF UserReconfigures
<1>7. CASE Remove
  BY <1>7, SMT DEF Remove
<1>8. CASE SinceTimer
  BY <1>8, SMT DEF SinceTimer
<1>9. CASE HourPasses
  BY <1>9, SMT DEF HourPasses
<1>10. CASE Environment
  BY <1>10, SMT DEF Environment
<1> QED
  BY <1>1, <1>2, <1>3, <1>4, <1>5, <1>6, <1>7, <1>8, <1>9, <1>10

LEMMA IInvNext == IInv /\ [Next]_vars => IInv'
<1> SUFFICES ASSUME IInv, [Next]_vars PROVE IInv'
  OBVIOUS
<1>1. CASE UNCHANGED vars
  BY <1>1 DEF vars, IInv, FlagsOK, States, CountersOK, PlacesOK, SearchOK, UpShape,
         CountShape, NoNeedlessReauth, OutageFromScratch, Attempt, Running, Idle, HostOrNone, Lesser,
         entryData, device, outage, searching
<1>2. CASE Next
  BY <1>2, FlagsNext, SetupKeeps, RunKeeps, SearchKeeps, RestKeeps DEF Next, IInv
<1> QED
  BY <1>1, <1>2

LEMMA Invariance == Spec => []IInv
  BY IInvInit, IInvNext, PTL DEF Spec

-----------------------------------------------------------------------------
(* What follows.                                                           *)

(* Every variable stays in its range: no counter, interval or state of a   *)
(* search leaves what the code's tests and bounds allow.                   *)
THEOREM TypeCorrect == Spec => []TypeOK
<1>1. IInv => TypeOK
  BY DEF IInv, States, TypeOK
<1> QED
  BY <1>1, Invariance, PTL

(* While the purifier is connected nobody is asked for its key.            *)
THEOREM NobodyAskedInVain == Spec => []NoNeedlessReauth
<1>1. IInv => NoNeedlessReauth
  BY DEF IInv, States
<1> QED
  BY <1>1, Invariance, PTL

(* While the purifier is connected the search's clock and backoff are as   *)
(* they were at first, whichever coordinator started a search before.      *)
THEOREM OutagesStartAfresh == Spec => []OutageFromScratch
<1>1. IInv => OutageFromScratch
  BY DEF IInv, States
<1> QED
  BY <1>1, Invariance, PTL

(* A running device asks for a key only after as many rejections in a row  *)
(* as the code says, whatever reconnects, searches and reloads came        *)
(* between.                                                                *)
THEOREM RunningAsksInARow == Spec => RunningReauthIsConsecutive
<1>1. IInv /\ [Next]_vars => [~reauth /\ reauth' /\ pc \in Running => streak' = Limit]_vars
  <2> SUFFICES ASSUME IInv, Next, ~reauth, reauth', pc \in Running
               PROVE  streak' = Limit
    BY DEF vars
  <2>1. RunRejected
    BY DEF Next, Setup, Run, Search, SetupBegin, SetupConnected, SetupRejected,
           SetupUnreachable, SetupFollows, SetupNotAnnounced, SetupMissed,
           SetupRefreshed, SetupLost, SetupDone, SetupFailed, RunConnected, RunLost,
           RunUnreachable, SearchAnswers, SearchFails, SearchApplies, SearchMoved,
           Announce, Forget, UnloadBegin, Unloaded, Reauthenticate, UserReconfigures,
           Remove, SinceTimer, HourPasses, Environment, OnAvailable, Running
  <2>2. failures + 1 = Limit
    BY <2>1 DEF RunRejected
  <2> QED
    BY <2>1, <2>2 DEF RunRejected, Rejected, Lesser, IInv, States, CountersOK, CountShape
<1> QED
  BY <1>1, Invariance, PTL DEF Spec, RunningReauthIsConsecutive
=============================================================================
