------------------------------ MODULE BackupTokens ------------------------------
(***************************************************************************)
(* Uploaded backups between the upload handlers, the start handler, the    *)
(* scanner that reads the temp file, and the goroutine that sweeps expired *)
(* tokens every 15 minutes. A token names a temp file; a start consumes it *)
(* with LoadAndDelete, the NIOS scanner opens the file twice (two passes)  *)
(* and removes it by defer; the sweeper removes the file first and the     *)
(* token afterwards, with everybody else running in between.               *)
(*                                                                         *)
(* EfficientIP tokens have no TTL, and the start handler that consumes one *)
(* does not set the request's Mode, so the orchestrator runs the live      *)
(* EfficientIP scanner, without the path: nobody opens or removes the file.*)
(*                                                                         *)
(* Sources: server/scan.go, internal/orchestrator/orchestrator.go,         *)
(* internal/scanner/nios/scanner.go.                                       *)
(*                                                                         *)
(* Time is abstracted to whether a token's two hours are over; tokens are  *)
(* taken to be distinct (NIOS tokens are nanosecond timestamps).           *)
(***************************************************************************)
EXTENDS Naturals

CONSTANTS
    Uploads,   \* backup uploads
    Nios,      \* those of NIOS backups: the rest are EfficientIP's
    Scans,     \* providers of start requests that carry a backup token
    NoUpload   \* no upload

ASSUME TokenAssumption ==
    /\ Nios \subseteq Uploads
    /\ NoUpload \notin Uploads

VARIABLES
    file,     \* none, present, removed: the temp file of each upload
    token,    \* none, stored, gone: its entry in the token map
    expired,  \* uploads whose two hours are over
    stage,    \* where each provider's scan stands
    got,      \* the upload whose path it resolved
    late,     \* ghost: the token was expired when it was resolved
    due,      \* tokens expired at the sweeper's now; {} between sweeps
    visiting, \* the entry Range handed to the sweeper's function
    removing  \* its file is removed, its token not yet deleted

uploadVars == <<file, token, expired>>
scanVars == <<stage, got, late>>
sweepVars == <<due, visiting, removing>>
vars == <<uploadVars, scanVars, sweepVars>>

ScanStages == {"idle", "denied", "resolved", "parsing", "counting", "lost", "done"}
Reading == {"resolved", "parsing", "counting"}

\* selectScannerKey: the scan of a consumed token that runs the scanner of
\* backups. Only NIOS requests reach it, whose default mode is the backup.
DispatchedToBackup(c) == got[c] \in Nios

\* The sweeper's test of an entry: now.After(entry.expires).
EveryToken == {u \in Uploads : token[u] = "stored"}
EveryNiosToken == {u \in Nios : token[u] = "stored"}
ExpiredTokens == {u \in Nios : token[u] = "stored"} \cap expired

\* What LoadAndDelete, at the start handler, leaves of the entry.
KeptEntry(u) == token
WithoutEntry(u) == [token EXCEPT ![u] = "gone"]

\* The scanner's deferred os.Remove of the path it was given.
KeepFile(c) == file
DeferredRemove(c) == [file EXCEPT ![got[c]] = "removed"]

\* The sweeper's os.Remove of the file it is visiting.
UnsweptFile == file
SweptFile == [file EXCEPT ![visiting] = "removed"]
-----------------------------------------------------------------------------
Init ==
    /\ file = [u \in Uploads |-> "none"]
    /\ token = [u \in Uploads |-> "none"]
    /\ expired = {}
    /\ stage = [c \in Scans |-> "idle"]
    /\ got = [c \in Scans |-> NoUpload]
    /\ late = [c \in Scans |-> FALSE]
    /\ due = {}
    /\ visiting = NoUpload
    /\ removing = FALSE

(* The upload handlers                                                     *)

\* os.CreateTemp; the body is streamed into the file.
ReceiveUpload(u) ==
    /\ file[u] = "none"
    /\ file' = [file EXCEPT ![u] = "present"]
    /\ UNCHANGED <<token, expired, scanVars, sweepVars>>

Receiving(u) == file[u] = "present" /\ token[u] = "none"

\* Every error branch removes the file and answers without a token.
RejectUpload(u) ==
    /\ Receiving(u)
    /\ file' = [file EXCEPT ![u] = "removed"]
    /\ UNCHANGED <<token, expired, scanVars, sweepVars>>

\* The token is stored and answered to the browser.
RegisterToken(u) ==
    /\ Receiving(u)
    /\ token' = [token EXCEPT ![u] = "stored"]
    /\ UNCHANGED <<file, expired, scanVars, sweepVars>>

\* Two hours pass.
Expire(u) ==
    /\ u \in Nios \ expired
    /\ token[u] # "none"
    /\ expired' = expired \cup {u}
    /\ UNCHANGED <<file, token, scanVars, sweepVars>>

(* The start handler and the scanner                                       *)

\* toOrchestratorProviders: the expiry is not looked at.
Resolve(c, u) ==
    /\ stage[c] = "idle"
    /\ token[u] # "none"
    /\ IF token[u] = "stored"
          THEN /\ stage' = [stage EXCEPT ![c] = "resolved"]
               /\ got' = [got EXCEPT ![c] = u]
               /\ late' = [late EXCEPT ![c] = u \in expired]
               /\ token' = WithoutEntry(u)
          ELSE /\ stage' = [stage EXCEPT ![c] = "denied"]
               /\ UNCHANGED <<got, late, token>>
    /\ UNCHANGED <<file, expired, sweepVars>>

\* The scanner opens the file, for the first pass or the second.
OpenBackup(c) ==
    /\ stage[c] \in {"resolved", "parsing"}
    /\ DispatchedToBackup(c)
    /\ stage' = [stage EXCEPT ![c] = IF file[got[c]] # "present" THEN "lost"
                                     ELSE IF @ = "resolved" THEN "parsing"
                                     ELSE "counting"]
    /\ UNCHANGED <<got, late, uploadVars, sweepVars>>

\* The scan ends, well or with a parse error.
FinishScan(c) ==
    /\ stage[c] \in {"parsing", "counting"}
    /\ stage' = [stage EXCEPT ![c] = "done"]
    /\ file' = DeferredRemove(c)
    /\ UNCHANGED <<got, late, token, expired, sweepVars>>

\* The live EfficientIP scanner runs in place of the backup's, and ends.
ScanLive(c) ==
    /\ stage[c] = "resolved"
    /\ ~DispatchedToBackup(c)
    /\ stage' = [stage EXCEPT ![c] = "done"]
    /\ UNCHANGED <<got, late, uploadVars, sweepVars>>

(* The sweeper                                                             *)

\* The ticker fires: now is read, and Range visits what is expired by then.
Tick ==
    /\ due = {}
    /\ due' = ExpiredTokens
    /\ UNCHANGED <<uploadVars, scanVars, visiting, removing>>

\* Range hands out an entry, or finds that it has been deleted meanwhile.
VisitEntry(u) ==
    /\ visiting = NoUpload
    /\ u \in due
    /\ IF token[u] = "stored"
          THEN visiting' = u /\ UNCHANGED due
          ELSE due' = due \ {u} /\ UNCHANGED visiting
    /\ UNCHANGED <<uploadVars, scanVars, removing>>

SweepFile ==
    /\ visiting # NoUpload /\ ~removing
    /\ removing' = TRUE
    /\ file' = SweptFile
    /\ UNCHANGED <<token, expired, scanVars, due, visiting>>

SweepToken ==
    /\ removing
    /\ removing' = FALSE
    /\ visiting' = NoUpload
    /\ due' = due \ {visiting}
    /\ token' = [token EXCEPT ![visiting] = "gone"]
    /\ UNCHANGED <<file, expired, scanVars>>
-----------------------------------------------------------------------------
HandleUpload(u) == RejectUpload(u) \/ RegisterToken(u)
ScanStep(c) == OpenBackup(c) \/ FinishScan(c) \/ ScanLive(c)
Sweep == Tick \/ (\E u \in Uploads : VisitEntry(u)) \/ SweepFile \/ SweepToken

Next ==
    \/ \E u \in Uploads : ReceiveUpload(u) \/ HandleUpload(u) \/ Expire(u)
    \/ \E c \in Scans, u \in Uploads : Resolve(c, u)
    \/ \E c \in Scans : ScanStep(c)
    \/ Sweep

\* Handlers and scans end, time passes, the ticker fires. Nothing obliges a
\* browser to upload or to start a scan.
Fairness ==
    /\ \A u \in Uploads : WF_vars(HandleUpload(u)) /\ WF_vars(Expire(u))
    /\ \A c \in Scans : WF_vars(ScanStep(c))
    /\ WF_vars(Sweep)

Spec == Init /\ [][Next]_vars
FairSpec == Spec /\ Fairness
-----------------------------------------------------------------------------
(* Properties                                                              *)

TypeOK ==
    /\ file \in [Uploads -> {"none", "present", "removed"}]
    /\ token \in [Uploads -> {"none", "stored", "gone"}]
    /\ expired \in SUBSET Nios
    /\ stage \in [Scans -> ScanStages]
    /\ got \in [Scans -> Uploads \cup {NoUpload}]
    /\ late \in [Scans -> BOOLEAN]
    /\ due \in SUBSET Nios
    /\ visiting \in due \cup {NoUpload}
    /\ removing \in BOOLEAN

(* A scan that resolved its token within the two hours finds its file at
   both opens: a sweep that runs meanwhile, even one that began before the
   token was consumed, never takes the file away under it.                  *)
InTimeFileKept ==
    \A c \in Scans :
        /\ stage[c] = "lost" => late[c]
        /\ stage[c] \in Reading /\ ~late[c] => file[got[c]] = "present"

(* No backup is scanned by two scans, although any number of starts may
   carry the same token at the same time.                                   *)
OneScanPerBackup ==
    \A c, d \in Scans : got[c] = got[d] /\ got[c] # NoUpload => c = d

(* The temp file of a NIOS backup on disk always has somebody who will
   remove it: the handler receiving it, the token map, or the one scan that
   consumed its token.                                                      *)
NoOrphanedFile ==
    \A u \in Nios : file[u] = "present" =>
        \/ token[u] \in {"none", "stored"}
        \/ \E c \in Scans : got[c] = u /\ stage[c] \in Reading

(* What orchestrator.go:157 and backup_scanner.go:22 say: a request in backup
   mode is dispatched to the scanner of backups, which removes the file. So
   no file is left behind a scan that consumed its token.                   *)
ScannedFileRemoved ==
    \A c \in Scans : stage[c] = "done" => file[got[c]] = "removed"

(* A NIOS backup does not stay on disk forever, whether its upload fails, it
   is scanned, its scan fails, or nobody ever starts a scan.                *)
NiosFileReclaimed ==
    \A u \in Nios : file[u] = "present" ~> file[u] = "removed"
=============================================================================
