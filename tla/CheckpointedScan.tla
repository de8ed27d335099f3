--------------------------- MODULE CheckpointedScan ---------------------------
(***************************************************************************)
(* The multi-unit fan-out of the cloud scanners with its checkpoint file:  *)
(* scanOrg (AWS accounts), scanAllSubscriptions (Azure) and                *)
(* scanAllProjects (GCP) are the same program over different units. One    *)
(* goroutine per unit passes a semaphore, scans, appends its rows under a  *)
(* mutex and, when it succeeded, saves itself with Checkpoint.AddUnit,     *)
(* which writes path.tmp and renames it over path. A crash of the process  *)
(* loses everything but the two files; the next attempt loads path, skips  *)
(* the units it names and prepends their rows.                             *)
(*                                                                         *)
(* Sources: internal/scanner/{aws,azure,gcp}/scanner.go,                   *)
(* internal/checkpoint/checkpoint.go, internal/cloudutil/semaphore.go.     *)
(*                                                                         *)
(* A unit's rows are abstracted to how often they were appended. GCP is    *)
(* the special case in which ScanFails never happens.                      *)
(***************************************************************************)
EXTENDS Naturals, FiniteSets

CONSTANTS
    Units,       \* accounts, subscriptions or projects
    Selections,  \* the sets of units an attempt can be asked to scan
    Workers,     \* capacity of the semaphore
    MaxCrashes,  \* bound on crashes
    MaxFaults,   \* bound on failing file operations
    NoUnit       \* nobody holds the checkpoint's mutex

ASSUME CheckpointAssumption ==
    /\ IsFiniteSet(Units)
    /\ Selections \subseteq SUBSET Units
    /\ Workers \in Nat \ {0}
    /\ MaxCrashes \in Nat
    /\ MaxFaults \in Nat
    /\ NoUnit \notin Units

VARIABLES
    phase,      \* down, running, cleaned (file deleted), returned
    selected,   \* the units of this attempt
    persistent, \* cp # nil
    completed,  \* ids loaded from the file
    unit,       \* where each unit's goroutine stands
    slots,      \* occupied slots of the semaphore
    rows,       \* how often each unit's rows are in findings
    failed,     \* units of this attempt whose scan returned an error
    holder,     \* the unit inside AddUnit
    mem,        \* cp.state.CompletedUnits
    tmp, file,  \* path.tmp and path
    acked,      \* units of this attempt whose AddUnit returned nil
    clean,      \* ghost: units ever scanned without error
    saved,      \* ghost: units the file has named since the job began
    crashes, faults

volatile == <<phase, selected, persistent, completed, unit, slots, rows, failed, holder, mem, acked>>
disk == <<tmp, file>>
ghost == <<clean, saved>>
bounds == <<crashes, faults>>
vars == <<volatile, disk, ghost, bounds>>

UnitStages == {"out", "waiting", "scanning", "merged", "writing", "renaming", "leaving", "done"}
Inside == {"scanning", "merged", "writing", "renaming", "leaving"}

\* A checkpoint file: missing, partly written, or the ids it names.
FileState == [kind: {"missing", "torn", "whole"}, units: SUBSET Units]
NoFile == [kind |-> "missing", units |-> {}]
Torn == [kind |-> "torn", units |-> {}]
Naming(S) == [kind |-> "whole", units |-> S]

\* sem.Acquire finds a free slot.
HasSlotOrOneMore == slots <= Workers
HasSlot == slots < Workers

\* The skip-set built from the loaded file.
NeverCompleted(u) == FALSE
Completed(u) == u \in completed

\* Where a unit's goroutine goes after its scan: saved only when it succeeded.
AfterScanLeaking(ok) == IF ~ok THEN "done" ELSE IF persistent THEN "merged" ELSE "leaving"
AfterScan(ok) == IF ok /\ persistent THEN "merged" ELSE "leaving"

\* cp.state.CompletedUnits after AddUnit's append.
OnlyThis(u) == {u}
Appended(u) == mem \cup {u}

\* path.tmp is renamed after it was written.
TmpOpened(u) == unit[u] \in {"writing", "renaming"}
TmpWritten(u) == unit[u] = "renaming"
-----------------------------------------------------------------------------
Init ==
    /\ phase = "down"
    /\ selected = {}
    /\ persistent = FALSE
    /\ completed = {}
    /\ unit = [u \in Units |-> "out"]
    /\ slots = 0
    /\ rows = [u \in Units |-> 0]
    /\ failed = {}
    /\ holder = NoUnit
    /\ mem = {}
    /\ tmp = NoFile
    /\ file = NoFile
    /\ acked = {}
    /\ clean = {}
    /\ saved = {}
    /\ crashes = 0
    /\ faults = 0
-----------------------------------------------------------------------------
\* A file operation that fails, at most MaxFaults times.
Fault == faults < MaxFaults /\ faults' = faults + 1

\* The scan function up to its fan-out, with the ids that Load delivered
\* (none when the file is missing, unreadable, or the scan has one unit).
Launch(sel, loaded) ==
    /\ phase' = "running"
    /\ selected' = sel
    /\ persistent' = (Cardinality(sel) > 1)
    /\ completed' = loaded
    /\ rows' = [u \in Units |-> IF u \in loaded THEN 1 ELSE 0]
    /\ unit' = [u \in Units |-> IF u \in sel THEN "waiting" ELSE "out"]
    /\ slots' = 0
    /\ failed' = {}
    /\ holder' = NoUnit
    /\ mem' = {}
    /\ acked' = {}

Begin(sel) ==
    /\ phase \in {"down", "returned"}
    /\ Launch(sel, IF Cardinality(sel) > 1 THEN file.units ELSE {})
    /\ UNCHANGED <<disk, ghost, bounds>>

\* Load fails: checkpoint_error, "starting fresh".
BeginAfterLoadError(sel) ==
    /\ phase \in {"down", "returned"}
    /\ Cardinality(sel) > 1 /\ file # NoFile
    /\ Fault
    /\ Launch(sel, {})
    /\ saved' = {}
    /\ UNCHANGED <<disk, clean, crashes>>

\* sem.Acquire, then the completed test: a completed unit gives its slot back.
Admit(u) ==
    /\ phase = "running"
    /\ unit[u] = "waiting"
    /\ HasSlot
    /\ ~Completed(u)
    /\ unit' = [unit EXCEPT ![u] = "scanning"]
    /\ slots' = slots + 1
    /\ UNCHANGED <<phase, selected, persistent, completed, rows, failed, holder, mem, acked,
                   disk, ghost, bounds>>

Skip(u) ==
    /\ phase = "running"
    /\ unit[u] = "waiting"
    /\ HasSlot
    /\ Completed(u)
    /\ unit' = [unit EXCEPT ![u] = "done"]
    /\ UNCHANGED <<phase, selected, persistent, completed, slots, rows, failed, holder, mem, acked,
                   disk, ghost, bounds>>

\* The unit's scan returned without error; its rows are appended under mu.
ScanSucceeds(u) ==
    /\ phase = "running"
    /\ unit[u] = "scanning"
    /\ rows' = [rows EXCEPT ![u] = @ + 1]
    /\ unit' = [unit EXCEPT ![u] = AfterScan(TRUE)]
    /\ clean' = clean \cup {u}
    /\ UNCHANGED <<phase, selected, persistent, completed, slots, failed, holder, mem, acked,
                   disk, saved, bounds>>

\* The unit's scan returned an error: the rows it had found are appended all
\* the same, and it is not saved. It gives no rows when its credentials could
\* not be assumed (AWS).
ScanFails(u) ==
    /\ phase = "running"
    /\ unit[u] = "scanning"
    /\ rows' \in {rows, [rows EXCEPT ![u] = @ + 1]}
    /\ unit' = [unit EXCEPT ![u] = AfterScan(FALSE)]
    /\ failed' = failed \cup {u}
    /\ UNCHANGED <<phase, selected, persistent, completed, slots, holder, mem, acked,
                   disk, ghost, bounds>>

\* AddUnit takes the mutex and appends; os.WriteFile truncates path.tmp.
OpenTmp(u) ==
    /\ phase = "running"
    /\ unit[u] = "merged"
    /\ holder = NoUnit
    /\ holder' = u
    /\ mem' = Appended(u)
    /\ tmp' = Torn
    /\ unit' = [unit EXCEPT ![u] = "writing"]
    /\ UNCHANGED <<phase, selected, persistent, completed, slots, rows, failed, acked,
                   file, ghost, bounds>>

\* os.WriteFile completes.
WriteTmp(u) ==
    /\ phase = "running"
    /\ unit[u] = "writing"
    /\ tmp' = Naming(mem)
    /\ unit' = [unit EXCEPT ![u] = "renaming"]
    /\ UNCHANGED <<phase, selected, persistent, completed, slots, rows, failed, holder, mem, acked,
                   file, ghost, bounds>>

\* os.Rename, AddUnit returns nil and releases the mutex.
RenameTmp(u) ==
    /\ phase = "running"
    /\ TmpWritten(u)
    /\ file' = tmp
    /\ tmp' = NoFile
    /\ saved' = saved \cup mem
    /\ acked' = acked \cup {u}
    /\ holder' = NoUnit
    /\ unit' = [unit EXCEPT ![u] = "leaving"]
    /\ UNCHANGED <<phase, selected, persistent, completed, slots, rows, failed, mem,
                   clean, bounds>>

\* WriteFile or Rename fails: AddUnit returns the error, the unit stays in
\* cp.state and reaches the file with the next successful save. The mutated
\* form returns without releasing the mutex.
SaveFailsLocked(u) ==
    /\ phase = "running"
    /\ unit[u] \in {"writing", "renaming"}
    /\ Fault
    /\ unit' = [unit EXCEPT ![u] = "leaving"]
    /\ UNCHANGED <<phase, selected, persistent, completed, slots, rows, failed, holder, mem, acked,
                   disk, ghost, crashes>>

SaveFails(u) ==
    /\ phase = "running"
    /\ unit[u] \in {"writing", "renaming"}
    /\ Fault
    /\ holder' = NoUnit
    /\ unit' = [unit EXCEPT ![u] = "leaving"]
    /\ UNCHANGED <<phase, selected, persistent, completed, slots, rows, failed, mem, acked,
                   disk, ghost, crashes>>

\* The deferred sem.Release and wg.Done.
Leave(u) ==
    /\ phase = "running"
    /\ unit[u] = "leaving"
    /\ unit' = [unit EXCEPT ![u] = "done"]
    /\ slots' = slots - 1
    /\ UNCHANGED <<phase, selected, persistent, completed, rows, failed, holder, mem, acked,
                   disk, ghost, bounds>>

AllDone == \A u \in selected : unit[u] = "done"

\* wg.Wait returns; the file is deleted, whatever the units' outcomes.
Cleanup ==
    /\ phase = "running"
    /\ AllDone
    /\ phase' = "cleaned"
    /\ file' = IF persistent THEN NoFile ELSE file
    /\ saved' = IF persistent THEN {} ELSE saved
    /\ UNCHANGED <<selected, persistent, completed, unit, slots, rows, failed, holder, mem, acked,
                   tmp, clean, bounds>>

\* os.Remove fails and the error is ignored.
CleanupFails ==
    /\ phase = "running"
    /\ AllDone
    /\ persistent
    /\ Fault
    /\ phase' = "cleaned"
    /\ saved' = {}
    /\ UNCHANGED <<selected, persistent, completed, unit, slots, rows, failed, holder, mem, acked,
                   disk, clean, crashes>>

Return ==
    /\ phase = "cleaned"
    /\ phase' = "returned"
    /\ UNCHANGED <<selected, persistent, completed, unit, slots, rows, failed, holder, mem, acked,
                   disk, ghost, bounds>>

\* The process dies; only the files survive.
Crash ==
    /\ phase \in {"running", "cleaned"}
    /\ crashes < MaxCrashes
    /\ crashes' = crashes + 1
    /\ phase' = "down"
    /\ selected' = {}
    /\ persistent' = FALSE
    /\ completed' = {}
    /\ unit' = [u \in Units |-> "out"]
    /\ slots' = 0
    /\ rows' = [u \in Units |-> 0]
    /\ failed' = {}
    /\ holder' = NoUnit
    /\ mem' = {}
    /\ acked' = {}
    /\ UNCHANGED <<disk, ghost, faults>>
-----------------------------------------------------------------------------
UnitStep(u) ==
    \/ Admit(u)
    \/ Skip(u)
    \/ ScanSucceeds(u)
    \/ ScanFails(u)
    \/ OpenTmp(u)
    \/ WriteTmp(u)
    \/ RenameTmp(u)
    \/ SaveFails(u)
    \/ Leave(u)

Next ==
    \/ \E sel \in Selections : Begin(sel) \/ BeginAfterLoadError(sel)
    \/ \E u \in Units : UnitStep(u)
    \/ Cleanup
    \/ CleanupFails
    \/ Return
    \/ Crash

\* Each unit's goroutine, and the one that waits for them all, is run by the
\* Go scheduler whenever it can continue; a unit's Scan returns in the end (the
\* SDK clients have timeouts and bounded retries). Weak fairness is enough at
\* the semaphore and the mutex: a unit competes with finitely many others, and
\* each of those passes once.
Fairness ==
    /\ \A u \in Units : WF_vars(UnitStep(u))
    /\ WF_vars(Cleanup \/ CleanupFails \/ Return)

Spec == Init /\ [][Next]_vars
FairSpec == Spec /\ Fairness
-----------------------------------------------------------------------------
(* Properties                                                              *)

TypeOK ==
    /\ phase \in {"down", "running", "cleaned", "returned"}
    /\ selected \in SUBSET Units
    /\ persistent \in BOOLEAN
    /\ completed \in SUBSET Units
    /\ unit \in [Units -> UnitStages]
    /\ slots \in 0..Workers
    /\ rows \in [Units -> Nat]
    /\ failed \in SUBSET Units
    /\ holder \in Units \cup {NoUnit}
    /\ mem \in SUBSET Units
    /\ tmp \in FileState
    /\ file \in FileState
    /\ acked \in SUBSET Units
    /\ clean \in SUBSET Units
    /\ saved \in SUBSET Units
    /\ crashes \in 0..MaxCrashes
    /\ faults \in 0..MaxFaults

(* The findings a scan returns hold the rows of every selected unit that did
   not fail exactly once, whatever mixture of loaded, rescanned and failed
   units it had, and no unit is ever counted twice: not when it is resumed,
   not when its save failed, not when the process died around the save.     *)
CountedOnce ==
    /\ \A u \in Units : rows[u] <= 1
    /\ phase \in {"cleaned", "returned"} => \A u \in selected \ failed : rows[u] = 1

(* Whenever the process dies, the file left behind can be loaded, and names
   only units that were really scanned without error.                       *)
CheckpointTrustworthy ==
    /\ file.kind # "torn"
    /\ file.units \subseteq clean

(* A unit whose AddUnit returned nil is in the file until the scan is over,
   although other units save and fail to save concurrently: a crash at any
   later moment of the attempt does not lose it.                            *)
AcknowledgedIsDurable ==
    phase = "running" => acked \subseteq file.units

InFlight == {u \in Units : unit[u] \in Inside}

(* The semaphore bounds the units in flight, and no path through a unit's
   goroutine leaks a slot or gives one back twice.                          *)
SlotsAccounted == slots = Cardinality(InFlight)

(* The package's promise that "interrupted multi-unit scans can resume
   without re-scanning completed units": a unit that has been in the file of
   the interrupted job is not scanned again.                                *)
NoRescan == \A u \in Units : unit[u] = "scanning" => u \notin saved

(* Every attempt returns unless the process dies first: the semaphore and
   the checkpoint's mutex never leave the units waiting for each other.     *)
AttemptEnds == phase = "running" ~> phase \in {"returned", "down"}
=============================================================================
