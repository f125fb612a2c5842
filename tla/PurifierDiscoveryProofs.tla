---------------------- MODULE PurifierDiscoveryProofs ----------------------
(***************************************************************************)
(* Safety of PurifierDiscovery for every set of entries, scans and         *)
(* listeners and any number of ports.                                      *)
(***************************************************************************)
EXTENDS PurifierDiscovery, FiniteSetTheorems, TLAPS

Present == {e \in Entries : pc[e] # "out"}

(* A task that binds has ports left, and room for their sockets: nobody    *)
(* else binds the same listener.                                           *)
BindersShape ==
    /\ \A t \in Tasks : pc[t] = "bind" =>
          left[t] > 0 /\ bound[mine[t]] + left[t] <= Ports
    /\ \A t, u \in Tasks :
          pc[t] = "bind" /\ pc[u] = "bind" /\ mine[t] = mine[u] => t = u

(* The shared listener is the one that the next release stops, and it      *)
(* exists as long as an entry binds it or relies on it.                    *)
SharedShape ==
    /\ shared = remover
    /\ \A e \in Entries : pc[e] \in {"bind", "in"} => shared # None

CallbackShape == shared # None => callback[shared]

(* A listener that a scan made never becomes the shared one.               *)
ScansApart ==
    \A s \in Scans :
        /\ pc[s] # "in"
        /\ pc[s] \in {"bind", "own"} => mine[s] # shared

(* TypeOK without the flags.                                               *)
PlacesOK ==
    /\ users \in Nat
    /\ shared \in Listeners \cup {None} /\ remover \in Listeners \cup {None}
    /\ bound \in [Listeners -> 0..Ports]
    /\ mine \in [Tasks -> Listeners \cup {None}]
    /\ left \in [Tasks -> 0..Ports]
    /\ pc \in [Tasks -> {"out", "create", "bind", "in", "own", "borrow"}]
    /\ \A t \in Tasks : pc[t] \in {"bind", "own", "borrow"} => mine[t] # None

FlagsOK == callback \in [Listeners -> BOOLEAN]

Places == PlacesOK /\ BindersShape /\ SharedShape /\ ScansApart
Flags == FlagsOK /\ CallbackShape

IInv == Places /\ NeverUndercounted /\ Flags

USE TasksAssumption, NoneAssumption, PortsAssumption

-----------------------------------------------------------------------------
LEMMA IInvInit == Init => IInv
<1> SUFFICES ASSUME Init PROVE IInv
  OBVIOUS
<1>1. Places
  BY DEF Init, Places, PlacesOK, BindersShape, SharedShape, ScansApart, Tasks
<1>2. NeverUndercounted
  <2>1. {e \in Entries : pc[e] # "out"} = {}
    BY DEF Init, Tasks
  <2> QED
    BY <2>1, FS_EmptySet DEF Init, NeverUndercounted
<1>3. Flags
  BY DEF Init, Flags, FlagsOK, CallbackShape
<1> QED
  BY <1>1, <1>2, <1>3 DEF IInv

-----------------------------------------------------------------------------
(* Counting the entries that are present.                                  *)

LEMMA PresentFinite == IsFiniteSet(Present) /\ Cardinality(Present) \in Nat
BY EntriesFinite, FS_Subset, FS_CardinalityType DEF Present

(* Nobody comes: the count of those who are present does not grow.         *)
LEMMA NobodyComes ==
  ASSUME NeverUndercounted, users \in Nat, users' \in Nat, users' >= users,
         \A e \in Entries : pc'[e] # "out" => pc[e] # "out"
  PROVE  NeverUndercounted'
<1>1. Present' \in SUBSET Present
  BY DEF Present
<1>2. IsFiniteSet(Present') /\ Cardinality(Present') <= Cardinality(Present)
  BY <1>1, PresentFinite, FS_Subset
<1>3. Cardinality(Present') \in Nat
  BY <1>2, FS_CardinalityType
<1>4. users >= Cardinality(Present)
  BY DEF NeverUndercounted, Present
<1> QED
  BY <1>2, <1>3, <1>4, PresentFinite DEF NeverUndercounted, Present

(* An entry comes and is counted.                                          *)
LEMMA OneComes ==
  ASSUME NeverUndercounted, users \in Nat, users' = users + 1,
         NEW e \in Entries, pc[e] = "out", pc'[e] # "out",
         \A d \in Entries \ {e} : pc'[d] = pc[d]
  PROVE  NeverUndercounted'
<1>1. Present' = Present \cup {e}
  BY DEF Present
<1>2. Cardinality(Present') = Cardinality(Present) + 1
  BY <1>1, PresentFinite, FS_AddElement DEF Present
<1>3. users >= Cardinality(Present)
  BY DEF NeverUndercounted, Present
<1> QED
  BY <1>2, <1>3, PresentFinite DEF NeverUndercounted, Present

(* An entry goes; if it leaves the count at zero, it was the last.         *)
LEMMA OneGoes ==
  ASSUME NeverUndercounted, users \in Nat,
         users' = IF users = 0 THEN 0 ELSE users - 1,
         NEW e \in Entries, pc[e] # "out", pc'[e] = "out",
         \A d \in Entries \ {e} : pc'[d] = pc[d]
  PROVE  /\ NeverUndercounted'
         /\ users' = 0 => \A d \in Entries : pc'[d] = "out"
<1>1. e \in Present /\ Present' = Present \ {e}
  BY DEF Present
<1>2. /\ IsFiniteSet(Present')
      /\ Cardinality(Present') = Cardinality(Present) - 1
  BY <1>1, PresentFinite, FS_RemoveElement
<1>3. users >= Cardinality(Present)
  BY DEF NeverUndercounted, Present
<1>4. Cardinality(Present') \in Nat
  BY <1>2, FS_CardinalityType
<1>5. NeverUndercounted'
  BY <1>2, <1>3, <1>4, PresentFinite DEF NeverUndercounted, Present
<1>6. ASSUME users' = 0 PROVE Present' = {}
  <2>1. Cardinality(Present') = 0
    BY <1>2, <1>3, <1>4, <1>6, PresentFinite
  <2> QED
    BY <1>2, <2>1, FS_EmptySet
<1> QED
  BY <1>5, <1>6 DEF Present

-----------------------------------------------------------------------------
LEMMA LeaveTypes ==
  ASSUME PlacesOK, NEW t, Leave(t)
  PROVE  /\ mine' \in [Tasks -> Listeners \cup {None}]
         /\ left' \in [Tasks -> 0..Ports]
         /\ pc' \in [Tasks -> {"out", "create", "bind", "in", "own", "borrow"}]
<1>1. 0 \in 0..Ports
  OBVIOUS
<1>2. mine' \in [Tasks -> Listeners \cup {None}]
  BY DEF PlacesOK, Leave
<1>3. left' \in [Tasks -> 0..Ports]
  BY <1>1 DEF PlacesOK, Leave
<1>4. pc' \in [Tasks -> {"out", "create", "bind", "in", "own", "borrow"}]
  BY DEF PlacesOK, Leave, Goto
<1> QED
  BY <1>2, <1>3, <1>4

LEMMA BindKeeps ==
  ASSUME IInv, NEW t \in Tasks, Bind(t)
  PROVE  IInv'
<1> USE DEF IInv, Places, PlacesOK
<1>1. mine[t] \in Listeners /\ bound[mine[t]] + left[t] <= Ports /\ left[t] > 0
  BY DEF Bind, BindersShape
<1>2. PlacesOK'
  BY <1>1 DEF Bind, Goto
<1>3. BindersShape'
  BY <1>1 DEF Bind, Goto, BindersShape
<1>4. SharedShape'
  BY DEF Bind, Goto, SharedShape, Tasks
<1>5. ScansApart'
  BY DEF Bind, Goto, ScansApart, Tasks
<1>6. NeverUndercounted'
  BY NobodyComes DEF Bind, Goto, Tasks
<1>7. Flags'
  BY DEF Bind, Flags, FlagsOK, CallbackShape
<1> QED
  BY <1>2, <1>3, <1>4, <1>5, <1>6, <1>7

LEMMA AcquireKeeps ==
  ASSUME IInv, NEW e \in Entries, Acquire(e)
  PROVE  IInv'
<1> USE DEF IInv, Places, PlacesOK
<1>1. Places'
  BY DEF Acquire, Goto, BindersShape, SharedShape, ScansApart, Tasks
<1>2. NeverUndercounted'
  BY OneComes DEF Acquire, Goto, Tasks
<1>3. Flags'
  BY DEF Acquire, Flags, FlagsOK, CallbackShape
<1> QED
  BY <1>1, <1>2, <1>3

(* Setups and scans make a listener that nobody refers to.                 *)
LEMMA CreateKeeps ==
  ASSUME IInv, NEW e \in Entries, NEW l \in Listeners, Create(e, l)
  PROVE  IInv'
<1> USE DEF IInv, Places, PlacesOK
<1>1. PlacesOK'
  BY DEF Create, Goto, Tasks
<1>2. BindersShape'
  BY DEF Create, Goto, Unused, BindersShape, Tasks
<1>3. SharedShape' /\ ScansApart'
  BY DEF Create, Goto, Unused, SharedShape, ScansApart, Tasks
<1>4. NeverUndercounted'
  BY NobodyComes DEF Create, Goto, Tasks
<1>5. FlagsOK'
  BY Zenon DEF Create, Flags, FlagsOK
<1>6. CallbackShape'
  BY DEF Create, Flags, FlagsOK, CallbackShape
<1> QED
  BY <1>1, <1>2, <1>3, <1>4, <1>5, <1>6 DEF Flags

LEMMA ScanCreateKeeps ==
  ASSUME IInv, NEW s \in Scans, NEW l \in Listeners, ScanCreate(s, l)
  PROVE  IInv'
<1> USE DEF IInv, Places, PlacesOK
<1>1. PlacesOK'
  BY DEF ScanCreate, Goto, Tasks
<1>2. BindersShape'
  BY DEF ScanCreate, Goto, Unused, BindersShape, Tasks
<1>3. SharedShape' /\ ScansApart'
  BY DEF ScanCreate, Goto, Unused, SharedShape, ScansApart, Tasks
<1>4. NeverUndercounted'
  BY NobodyComes DEF ScanCreate, Goto, Tasks
<1>5. FlagsOK'
  BY Zenon DEF ScanCreate, Flags, FlagsOK
<1>6. CallbackShape'
  BY DEF ScanCreate, Unused, Flags, FlagsOK, CallbackShape
<1> QED
  BY <1>1, <1>2, <1>3, <1>4, <1>5, <1>6 DEF Flags

LEMMA AcquireFailsKeeps ==
  ASSUME IInv, NEW e \in Entries, AcquireFails(e)
  PROVE  IInv'
<1> USE DEF IInv, Places, PlacesOK
<1>1. Places'
  BY DEF AcquireFails, Leave, Goto, BindersShape, SharedShape, ScansApart, Tasks
<1>2. NeverUndercounted'
  BY NobodyComes DEF AcquireFails, Leave, Goto, Tasks
<1>3. Flags'
  BY DEF AcquireFails, Flags, FlagsOK, CallbackShape
<1> QED
  BY <1>1, <1>2, <1>3

LEMMA ReleaseKeeps ==
  ASSUME IInv, NEW e \in Entries, Release(e)
  PROVE  IInv'
<1> USE DEF IInv, Places, PlacesOK
<1>1. /\ NeverUndercounted'
      /\ users' = 0 => \A d \in Entries : pc'[d] = "out"
  BY OneGoes DEF Release, Leave, Goto, Tasks
<1>2. CASE users' > 0 \/ shared = None
  <2>1. Places'
    BY <1>2 DEF Release, Leave, Goto, BindersShape, SharedShape, ScansApart, Tasks
  <2>2. Flags'
    BY <1>2 DEF Release, Flags, FlagsOK, CallbackShape
  <2> QED
    BY <1>1, <2>1, <2>2
<1>3. CASE ~(users' > 0 \/ shared = None)
  <2>1. users' = 0 /\ shared' = None /\ remover' = None
    BY <1>3 DEF Release
  <2>2. PlacesOK'
    <3>1. bound' = [bound EXCEPT ![shared] = 0] /\ bound' \in [Listeners -> 0..Ports]
      BY <1>3 DEF Release
    <3>2. Leave(e)
      BY DEF Release
    <3>3. /\ mine' \in [Tasks -> Listeners \cup {None}]
          /\ left' \in [Tasks -> 0..Ports]
          /\ pc' \in [Tasks -> {"out", "create", "bind", "in", "own", "borrow"}]
      <4> HIDE DEF IInv, Places, PlacesOK
      <4> QED
        BY <3>2, LeaveTypes DEF IInv, Places
    <3>4. \A t \in Tasks : pc'[t] \in {"bind", "own", "borrow"} => mine'[t] # None
      BY <3>2 DEF Leave, Goto
    <3> QED
      BY <2>1, <3>1, <3>3, <3>4
  <2>3. BindersShape'
    BY <1>3 DEF Release, Leave, Goto, BindersShape
  <2>4. SharedShape'
    BY <1>1, <2>1 DEF SharedShape
  <2>5. ScansApart'
    BY <1>3, <2>1, <2>2 DEF Release, Leave, Goto, ScansApart, Tasks
  <2>6. FlagsOK'
    BY <1>3 DEF Release, FlagsOK
  <2>7. CallbackShape'
    BY <2>1 DEF CallbackShape
  <2> QED
    BY <1>1, <2>2, <2>3, <2>4, <2>5, <2>6, <2>7 DEF Flags
<1> QED
  BY <1>2, <1>3

LEMMA ScanKeeps ==
  ASSUME IInv, NEW s \in Scans, Scan(s) \/ ScanFails(s) \/ ScanEnds(s)
  PROVE  IInv'
<1> USE DEF IInv, Places, PlacesOK
<1>1. CASE Scan(s)
  <2>1. Places'
    BY <1>1 DEF Scan, Goto, BindersShape, SharedShape, ScansApart, Tasks
  <2>2. NeverUndercounted'
    BY <1>1, NobodyComes DEF Scan, Goto, Tasks
  <2>3. Flags'
    BY <1>1 DEF Scan, Flags, FlagsOK, CallbackShape
  <2> QED
    BY <2>1, <2>2, <2>3
<1>2. CASE ScanFails(s)
  <2>1. Places'
    BY <1>2 DEF ScanFails, Leave, Goto, BindersShape, SharedShape, ScansApart, Tasks
  <2>2. NeverUndercounted'
    BY <1>2, NobodyComes DEF ScanFails, Leave, Goto, Tasks
  <2>3. Flags'
    BY <1>2 DEF ScanFails, Flags, FlagsOK, CallbackShape
  <2> QED
    BY <2>1, <2>2, <2>3
<1>3. CASE ScanEnds(s)
  <2>1. Places'
    BY <1>3 DEF ScanEnds, Leave, Goto, BindersShape, SharedShape, ScansApart, Tasks
  <2>2. NeverUndercounted'
    BY <1>3, NobodyComes DEF ScanEnds, Leave, Goto, Tasks
  <2>3. Flags'
    BY <1>3 DEF ScanEnds, Flags, FlagsOK, CallbackShape
  <2> QED
    BY <2>1, <2>2, <2>3
<1> QED
  BY <1>1, <1>2, <1>3

LEMMA IInvStep == IInv /\ [Next]_vars => IInv'
<1> SUFFICES ASSUME IInv, [Next]_vars PROVE IInv'
  OBVIOUS
<1>1. CASE Next
  BY <1>1, BindKeeps, AcquireKeeps, CreateKeeps, ScanCreateKeeps,
     AcquireFailsKeeps, ReleaseKeeps, ScanKeeps DEF Next
<1>2. CASE UNCHANGED vars
  BY <1>2 DEF vars, IInv, Places, PlacesOK, BindersShape, SharedShape, ScansApart,
              NeverUndercounted, Flags, FlagsOK, CallbackShape, Tasks
<1> QED
  BY <1>1, <1>2

LEMMA IInvAlways == Spec => []IInv
BY IInvInit, IInvStep, PTL DEF Spec

-----------------------------------------------------------------------------
(* Every variable keeps its type; a listener never holds more sockets than *)
(* it has ports.                                                           *)
THEOREM TypeCorrect == Spec => []TypeOK
<1>1. IInv => TypeOK
  BY DEF IInv, Places, PlacesOK, Flags, FlagsOK, TypeOK
<1> QED
  BY <1>1, IInvAlways, PTL

(* Whatever fails or is cancelled between two awaits of async_acquire, the *)
(* count is never lower than the number of entries that are set up.        *)
THEOREM CountIsNeverTooLow == Spec => []NeverUndercounted
BY IInvAlways, PTL DEF IInv

(* An entry that is set up has the shared listener, with its callback.     *)
THEOREM EntriesAreServed == Spec => []Served
<1>1. IInv => Served
  BY DEF IInv, Places, SharedShape, Flags, CallbackShape, Served
<1> QED
  BY <1>1, IInvAlways, PTL

(* No scan, no failed setup and no unload takes a socket from a listener   *)
(* that stays the shared one.                                              *)
THEOREM ScansSpareTheShared == Spec => SharedKeepsListening
<1> DEFINE A == shared # None /\ shared' = shared => bound'[shared] >= bound[shared]
<1>1. ASSUME IInv, [Next]_vars PROVE [A]_vars
  <2>0. shared \in Listeners \cup {None} /\ bound \in [Listeners -> 0..Ports]
    BY <1>1 DEF IInv, Places, PlacesOK
  <2> SUFFICES ASSUME shared # None, shared' = shared
               PROVE  bound'[shared] >= bound[shared]
    OBVIOUS
  <2>1. shared \in Listeners /\ bound[shared] \in Nat
    BY <2>0
  <2>2. ASSUME NEW t \in Tasks, Bind(t) PROVE bound'[shared] >= bound[shared]
    BY <2>0, <2>1, <2>2, <1>1 DEF Bind, IInv, Places, PlacesOK
  <2>3. ASSUME NEW e \in Entries, Release(e) PROVE bound' = bound
    BY <2>3 DEF Release
  <2>4. ASSUME NEW s \in Scans, ScanEnds(s) PROVE bound'[shared] = bound[shared]
    <3>1. pc[s] = "own" => mine[s] # shared
      BY <1>1, <2>4 DEF IInv, Places, ScansApart
    <3> QED
      BY <2>0, <2>1, <2>4, <3>1 DEF ScanEnds
  <2> QED
    BY <1>1, <2>1, <2>2, <2>3, <2>4
    DEF Next, vars, Acquire, AcquireFails, Scan, ScanFails, Create, ScanCreate
<1> QED
  BY <1>1, IInvAlways, PTL DEF Spec, SharedKeepsListening

=============================================================================
