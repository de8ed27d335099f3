--------------------------- MODULE CheckpointProofs ---------------------------
(***************************************************************************)
(* The safety of CheckpointedScan for every set of units, every worker     *)
(* count and any number of crashes and faults. Each property is read off   *)
(* one inductive invariant, IInv: what a unit's stage says about its rows  *)
(* (Progress), that the saving unit owns the mutex and path.tmp (Saving),  *)
(* and what the file may name (Durable).                                   *)
(***************************************************************************)
EXTENDS CheckpointedScan, FiniteSetTheorems, TLAPS

\* What the stage of a unit says about its rows, its failure and its scan.
Progress ==
    \A u \in Units :
        /\ u \in selected <=> unit[u] # "out"
        /\ rows[u] <= 1
        /\ unit[u] = "waiting" => rows[u] = (IF u \in completed THEN 1 ELSE 0)
        /\ unit[u] = "scanning" => rows[u] = 0
        /\ unit[u] \in {"merged", "writing", "renaming"} => rows[u] = 1 /\ u \in clean
        /\ unit[u] \in {"leaving", "done"} => rows[u] = 1 \/ u \in failed

\* Nobody is left when the scan function is past wg.Wait.
Joined == phase \in {"cleaned", "returned"} => \A u \in selected : unit[u] = "done"

\* A unit that writes holds the mutex, so path.tmp is its own file.
Saving ==
    \A u \in Units :
        /\ unit[u] \in {"writing", "renaming"} => holder = u /\ u \in mem
        /\ unit[u] = "renaming" => tmp = Naming(mem)

\* What the file, the accumulator and the acknowledged units may name.
Durable ==
    /\ file.kind # "torn"
    /\ file.units \subseteq clean
    /\ mem \subseteq clean
    /\ acked \subseteq mem
    /\ phase = "running" => acked \subseteq file.units

IInv ==
    /\ TypeOK
    /\ SlotsAccounted
    /\ Progress
    /\ Joined
    /\ Saving
    /\ Durable
-----------------------------------------------------------------------------
(* The semaphore                                                           *)

LEMMA FlightFinite == IsFiniteSet(InFlight) /\ Cardinality(InFlight) \in Nat
<1>1. InFlight \subseteq Units
  BY DEF InFlight
<1>2. IsFiniteSet(InFlight)
  BY <1>1, CheckpointAssumption, FS_Subset DEF CheckpointAssumption
<1> QED
  BY <1>2, FS_CardinalityType

\* A unit that passes Acquire adds one to the units in flight.
LEMMA Entering ==
    ASSUME TypeOK, NEW u \in Units, NEW stage \in Inside, unit[u] \notin Inside,
           unit' = [unit EXCEPT ![u] = stage]
    PROVE  Cardinality(InFlight') = Cardinality(InFlight) + 1
<1>1. InFlight' = InFlight \cup {u}
  BY DEF InFlight, TypeOK
<1>2. u \notin InFlight
  BY DEF InFlight
<1> QED
  BY <1>1, <1>2, FlightFinite, FS_AddElement

\* A unit that gives its slot back was one of the units in flight.
LEMMA Leaving ==
    ASSUME TypeOK, NEW u \in Units, NEW stage, stage \notin Inside, unit[u] \in Inside,
           unit' = [unit EXCEPT ![u] = stage]
    PROVE  /\ Cardinality(InFlight) > 0
           /\ Cardinality(InFlight') = Cardinality(InFlight) - 1
<1>1. InFlight' = InFlight \ {u}
  BY DEF InFlight, TypeOK
<1>2. u \in InFlight
  BY DEF InFlight
<1>3. Cardinality(InFlight) # 0
  BY <1>2, FlightFinite, FS_EmptySet
<1>4. Cardinality(InFlight') = Cardinality(InFlight) - 1
  BY <1>1, <1>2, FlightFinite, FS_RemoveElement
<1> QED
  BY <1>3, <1>4, FlightFinite

\* A unit that stays inside, or outside, leaves the units in flight alone.
LEMMA Staying ==
    ASSUME TypeOK, NEW u \in Units, NEW stage, stage \in Inside <=> unit[u] \in Inside,
           unit' = [unit EXCEPT ![u] = stage]
    PROVE  InFlight' = InFlight
BY DEF InFlight, TypeOK

\* When no unit is in flight the semaphore is empty.
LEMMA NobodyInside ==
    ASSUME unit' \in [Units -> {"out", "waiting"}]
    PROVE  Cardinality(InFlight') = 0
<1>1. InFlight' = {}
  BY DEF InFlight, Inside
<1> QED
  BY <1>1, FS_EmptySet

LEMMA SlotsStep == IInv /\ [Next]_vars => SlotsAccounted'
<1> SUFFICES ASSUME IInv, [Next]_vars
             PROVE  SlotsAccounted'
  OBVIOUS
<1> USE DEF IInv, SlotsAccounted
<1>1. ASSUME NEW sel \in Selections, Begin(sel) \/ BeginAfterLoadError(sel)
      PROVE  SlotsAccounted'
  <2>1. unit' \in [Units -> {"out", "waiting"}] /\ slots' = 0
    BY <1>1 DEF Begin, BeginAfterLoadError, Launch
  <2> QED
    BY <2>1, NobodyInside
<1>2. ASSUME NEW u \in Units, Admit(u)
      PROVE  SlotsAccounted'
  BY <1>2, Entering DEF Admit, Inside
<1>3. ASSUME NEW u \in Units, Skip(u)
      PROVE  SlotsAccounted'
  BY <1>3, Staying DEF Skip, Inside
<1>4. ASSUME NEW u \in Units, ScanSucceeds(u) \/ ScanFails(u)
      PROVE  SlotsAccounted'
  BY <1>4, Staying DEF ScanSucceeds, ScanFails, AfterScan, Inside
<1>5. ASSUME NEW u \in Units, OpenTmp(u) \/ WriteTmp(u) \/ RenameTmp(u) \/ SaveFails(u)
      PROVE  SlotsAccounted'
  BY <1>5, Staying DEF OpenTmp, WriteTmp, RenameTmp, SaveFails, TmpWritten, Inside
<1>6. ASSUME NEW u \in Units, Leave(u)
      PROVE  SlotsAccounted'
  BY <1>6, Leaving DEF Leave, Inside
<1>7. CASE Cleanup \/ CleanupFails \/ Return
  BY <1>7 DEF Cleanup, CleanupFails, Return, InFlight
<1>8. CASE Crash
  <2>1. unit' \in [Units -> {"out", "waiting"}] /\ slots' = 0
    BY <1>8 DEF Crash
  <2> QED
    BY <2>1, NobodyInside
<1>9. CASE UNCHANGED vars
  BY <1>9 DEF vars, volatile, InFlight
<1> QED
  BY <1>1, <1>2, <1>3, <1>4, <1>5, <1>6, <1>7, <1>8, <1>9 DEF Next, UnitStep
-----------------------------------------------------------------------------
(* The other parts of the invariant, one action at a time                  *)

LEMMA InitIInv == Init => IInv
<1> SUFFICES ASSUME Init
             PROVE  IInv
  OBVIOUS
<1>1. InFlight = {}
  BY DEF Init, InFlight, Inside
<1>2. SlotsAccounted
  BY <1>1, FS_EmptySet DEF Init, SlotsAccounted
<1>3. TypeOK
  <2>1. persistent \in BOOLEAN
    BY DEF Init
  <2>2. slots \in 0..Workers /\ crashes \in 0..MaxCrashes /\ faults \in 0..MaxFaults
    BY CheckpointAssumption DEF CheckpointAssumption, Init
  <2>3. unit \in [Units -> UnitStages] /\ rows \in [Units -> Nat]
    BY DEF Init, UnitStages
  <2>4. tmp \in FileState /\ file \in FileState
    BY DEF Init, FileState, NoFile
  <2> QED
    BY <2>1, <2>2, <2>3, <2>4 DEF Init, TypeOK
<1>4. Progress /\ Joined
  BY DEF Init, Progress, Joined
<1>5. Saving /\ Durable
  BY DEF Init, Saving, Durable, NoFile
<1> QED
  BY <1>2, <1>3, <1>4, <1>5 DEF IInv

\* The parts of IInv but the semaphore's account.
Core == TypeOK /\ Progress /\ Joined /\ Saving /\ Durable

LEMMA LaunchStep ==
    ASSUME IInv, NEW sel \in Selections, Begin(sel) \/ BeginAfterLoadError(sel)
    PROVE  Core'
<1> USE CheckpointAssumption DEF CheckpointAssumption, IInv
<1>1. PICK loaded \in {{}, file.units} : Launch(sel, loaded)
  BY DEF Begin, BeginAfterLoadError
<1>2. /\ tmp' = tmp /\ file' = file /\ clean' = clean
      /\ saved' \in SUBSET Units /\ crashes' = crashes /\ faults' \in 0..MaxFaults
  BY DEF Begin, BeginAfterLoadError, disk, ghost, bounds, Fault, TypeOK
<1>3. file.units \in SUBSET Units
  BY DEF TypeOK, FileState
<1>4. TypeOK'
  BY <1>1, <1>2, <1>3 DEF Launch, TypeOK, UnitStages
<1>5. Progress' /\ Joined'
  BY <1>1, <1>3 DEF Launch, Progress, Joined
<1>6. Saving' /\ Durable'
  BY <1>1, <1>2 DEF Launch, Saving, Durable
<1> QED
  BY <1>4, <1>5, <1>6 DEF Core

LEMMA UnitStepCore ==
    ASSUME IInv, NEW u \in Units, UnitStep(u)
    PROVE  Core'
<1> USE DEF IInv
<1>1. CASE Admit(u)
  <2>1. TypeOK'
    BY <1>1, CheckpointAssumption DEF CheckpointAssumption, Admit, HasSlot, TypeOK, UnitStages, disk, ghost, bounds
  <2> QED
    BY <1>1, <2>1 DEF Admit, Completed, TypeOK, Progress, Joined, Saving, Durable, Core, disk, ghost
<1>2. CASE Skip(u)
  <2>1. TypeOK'
    BY <1>2 DEF Skip, TypeOK, UnitStages, disk, ghost, bounds
  <2> QED
    BY <1>2, <2>1 DEF Skip, Completed, TypeOK, Progress, Joined, Saving, Durable, Core, disk, ghost
<1>3. CASE ScanSucceeds(u)
  <2>1. TypeOK'
    BY <1>3 DEF ScanSucceeds, AfterScan, TypeOK, UnitStages, disk, bounds
  <2> QED
    BY <1>3, <2>1 DEF ScanSucceeds, AfterScan, TypeOK, Progress, Joined, Saving, Durable, Core, disk
<1>4. CASE ScanFails(u)
  <2>1. TypeOK'
    BY <1>4 DEF ScanFails, AfterScan, TypeOK, UnitStages, disk, ghost, bounds
  <2> QED
    BY <1>4, <2>1 DEF ScanFails, AfterScan, TypeOK, Progress, Joined, Saving, Durable, Core, disk, ghost
<1>5. CASE OpenTmp(u)
  <2>1. TypeOK'
    BY <1>5 DEF OpenTmp, Appended, TypeOK, UnitStages, FileState, Torn, ghost, bounds
  <2>2. \A v \in Units : unit[v] \notin {"writing", "renaming"}
    BY <1>5, CheckpointAssumption DEF CheckpointAssumption, OpenTmp, Saving
  <2> QED
    BY <1>5, <2>1, <2>2 DEF OpenTmp, Appended, TypeOK, Progress, Joined, Saving, Durable, Core, ghost
<1>6. CASE WriteTmp(u)
  <2>1. TypeOK'
    BY <1>6 DEF WriteTmp, TypeOK, UnitStages, FileState, Naming, ghost, bounds
  <2> QED
    BY <1>6, <2>1 DEF WriteTmp, TypeOK, Progress, Joined, Saving, Durable, Core, ghost
<1>7. CASE RenameTmp(u)
  <2>1. TypeOK'
    BY <1>7 DEF RenameTmp, TmpWritten, TypeOK, UnitStages, FileState, NoFile, bounds
  <2>2. /\ file' = Naming(mem) /\ u \in mem
        /\ \A v \in Units \ {u} : unit[v] \notin {"writing", "renaming"}
    BY <1>7 DEF RenameTmp, TmpWritten, Saving
  <2> QED
    BY <1>7, <2>1, <2>2 DEF RenameTmp, TmpWritten, Naming, TypeOK, Progress, Joined, Saving, Durable, Core
<1>8. CASE SaveFails(u)
  <2>1. TypeOK'
    BY <1>8, CheckpointAssumption DEF CheckpointAssumption, SaveFails, Fault, TypeOK, UnitStages, disk, ghost
  <2>2. \A v \in Units \ {u} : unit[v] \notin {"writing", "renaming"}
    BY <1>8 DEF SaveFails, Saving
  <2> QED
    BY <1>8, <2>1, <2>2 DEF SaveFails, TypeOK, Progress, Joined, Saving, Durable, Core, disk, ghost
<1>9. CASE Leave(u)
  <2>1. unit[u] \in Inside /\ "done" \notin Inside /\ unit' = [unit EXCEPT ![u] = "done"]
    BY <1>9 DEF Leave, Inside
  <2>2. slots > 0
    BY <2>1, Leaving DEF SlotsAccounted
  <2>3. TypeOK'
    BY <1>9, <2>2, CheckpointAssumption DEF CheckpointAssumption, Leave, TypeOK, UnitStages, disk, ghost, bounds
  <2> QED
    BY <1>9, <2>3 DEF Leave, TypeOK, Progress, Joined, Saving, Durable, Core, disk, ghost
<1> QED
  BY <1>1, <1>2, <1>3, <1>4, <1>5, <1>6, <1>7, <1>8, <1>9 DEF UnitStep

LEMMA AttemptStepCore ==
    ASSUME IInv, Cleanup \/ CleanupFails \/ Return \/ Crash
    PROVE  Core'
<1> USE CheckpointAssumption DEF CheckpointAssumption, IInv
<1>1. CASE Cleanup
  <2>1. TypeOK'
    BY <1>1 DEF Cleanup, TypeOK, FileState, NoFile, bounds
  <2> QED
    BY <1>1, <2>1 DEF Cleanup, AllDone, NoFile, TypeOK, Progress, Joined, Saving, Durable, Core, bounds
<1>2. CASE CleanupFails
  <2>1. TypeOK'
    BY <1>2 DEF CleanupFails, Fault, TypeOK, disk
  <2> QED
    BY <1>2, <2>1 DEF CleanupFails, AllDone, TypeOK, Progress, Joined, Saving, Durable, Core, disk
<1>3. CASE Return
  <2>1. TypeOK'
    BY <1>3 DEF Return, TypeOK, disk, ghost, bounds
  <2> QED
    BY <1>3, <2>1 DEF Return, TypeOK, Progress, Joined, Saving, Durable, Core, disk, ghost
<1>4. CASE Crash
  <2>1. TypeOK'
    <3>1. persistent' \in BOOLEAN
      BY <1>4 DEF Crash
    <3>2. slots' \in 0..Workers /\ crashes' \in 0..MaxCrashes
      BY <1>4 DEF Crash, TypeOK
    <3>3. unit' \in [Units -> UnitStages] /\ rows' \in [Units -> Nat]
      BY <1>4 DEF Crash, UnitStages
    <3> QED
      BY <1>4, <3>1, <3>2, <3>3 DEF Crash, TypeOK, disk, ghost
  <2> QED
    BY <1>4, <2>1 DEF Crash, TypeOK, Progress, Joined, Saving, Durable, Core, disk, ghost
<1> QED
  BY <1>1, <1>2, <1>3, <1>4

LEMMA StepIInv == IInv /\ [Next]_vars => IInv'
<1> SUFFICES ASSUME IInv, [Next]_vars
             PROVE  IInv'
  OBVIOUS
<1>1. Core'
  <2>1. CASE Next
    BY <2>1, LaunchStep, UnitStepCore, AttemptStepCore DEF Next
  <2>2. CASE UNCHANGED vars
    BY <2>2 DEF vars, volatile, disk, ghost, bounds, IInv, Core, TypeOK, Progress, Joined, Saving, Durable
  <2> QED
    BY <2>1, <2>2
<1>2. SlotsAccounted'
  BY SlotsStep
<1> QED
  BY <1>1, <1>2 DEF Core, IInv

THEOREM Invariance == Spec => []IInv
BY InitIInv, StepIInv, PTL DEF Spec
-----------------------------------------------------------------------------
(* The properties                                                          *)

(* Type correctness of every state the fan-out reaches; in particular the
   semaphore never holds more than Workers units nor gives a slot back that
   nobody took.                                                             *)
THEOREM TypeCorrect == Spec => []TypeOK
<1>1. IInv => TypeOK
  BY DEF IInv
<1> QED
  BY <1>1, Invariance, PTL

(* The semaphore's slots are exactly the units in flight, on every path
   through a unit's goroutine.                                              *)
THEOREM SlotAccounting == Spec => []SlotsAccounted
<1>1. IInv => SlotsAccounted
  BY DEF IInv
<1> QED
  BY <1>1, Invariance, PTL

(* No unit is ever counted twice, and a scan that returns counts every unit
   that did not fail, through any number of crashes and failing saves.      *)
THEOREM RowsCountedOnce == Spec => []CountedOnce
<1>1. IInv => CountedOnce
  BY DEF IInv, TypeOK, Progress, Joined, CountedOnce
<1> QED
  BY <1>1, Invariance, PTL

(* Whatever moment the process dies at, the checkpoint file is whole and
   names only units that were scanned without error.                        *)
THEOREM TrustworthyCheckpoint == Spec => []CheckpointTrustworthy
<1>1. IInv => CheckpointTrustworthy
  BY DEF IInv, Durable, CheckpointTrustworthy
<1> QED
  BY <1>1, Invariance, PTL

(* A unit whose AddUnit returned nil stays in the file for the rest of the
   attempt, whatever the other units' saves do.                             *)
THEOREM DurableAcknowledgement == Spec => []AcknowledgedIsDurable
<1>1. IInv => AcknowledgedIsDurable
  BY DEF IInv, Durable, AcknowledgedIsDurable
<1> QED
  BY <1>1, Invariance, PTL
=============================================================================
