-------------------------- MODULE BackupTokensProofs --------------------------
(***************************************************************************)
(* The safety of BackupTokens for any number of uploads and scans. The     *)
(* inductive invariant ties each file to its token and its scan: while the *)
(* token is stored the file is there or the sweeper is between its two     *)
(* steps; a token is consumed at most once; a NIOS file whose token is     *)
(* gone belongs to a reading scan; and the sweeper only ever holds entries *)
(* that were expired.                                                      *)
(***************************************************************************)
EXTENDS BackupTokens, TLAPS

\* What the upload's token says about its file, and who may have consumed it.
FileInv ==
    /\ \A u \in Uploads :
          /\ file[u] = "none" => token[u] = "none"
          /\ token[u] = "stored" => \/ file[u] = "present"
                                    \/ visiting = u /\ removing
          /\ token[u] \in {"none", "stored"} => \A c \in Scans : got[c] # u
          /\ u \in Nios /\ token[u] = "gone" /\ file[u] = "present" =>
                \E c \in Scans : got[c] = u /\ stage[c] \in Reading
    /\ \A c \in Scans :
          /\ stage[c] \in {"idle", "denied"} <=> got[c] = NoUpload
          /\ got[c] # NoUpload => token[got[c]] = "gone"

\* The sweeper holds expired entries only, so a scan in time keeps its file.
SweepInv ==
    /\ due \subseteq expired
    /\ removing => visiting # NoUpload
    /\ visiting # NoUpload /\ removing => file[visiting] = "removed"
    /\ \A c \in Scans :
          /\ stage[c] \in Reading /\ ~late[c] => file[got[c]] = "present"
          /\ stage[c] \in Reading /\ ~late[c] => got[c] \notin due
          /\ stage[c] = "lost" => late[c]

TInv == TypeOK /\ FileInv /\ SweepInv /\ OneScanPerBackup
-----------------------------------------------------------------------------
LEMMA InitTInv == Init => TInv
<1> SUFFICES ASSUME Init
             PROVE  TInv
  OBVIOUS
<1>1. late \in [Scans -> BOOLEAN] /\ removing \in BOOLEAN
  BY DEF Init
<1>2. TypeOK
  BY <1>1 DEF Init, TypeOK, ScanStages
<1>3. FileInv /\ OneScanPerBackup
  BY TokenAssumption DEF Init, TokenAssumption, FileInv, OneScanPerBackup, Reading
<1>4. SweepInv
  BY TokenAssumption DEF Init, TokenAssumption, SweepInv, Reading
<1> QED
  BY <1>2, <1>3, <1>4 DEF TInv

LEMMA UploadStep ==
    ASSUME TInv, NEW u \in Uploads, ReceiveUpload(u) \/ HandleUpload(u) \/ Expire(u)
    PROVE  TInv'
<1> USE TokenAssumption DEF TokenAssumption, TInv, TypeOK, FileInv, SweepInv, OneScanPerBackup
<1>1. CASE ReceiveUpload(u)
  BY <1>1 DEF ReceiveUpload, scanVars, sweepVars, Reading
<1>2. CASE RejectUpload(u)
  BY <1>2 DEF RejectUpload, Receiving, scanVars, sweepVars, Reading
<1>3. CASE RegisterToken(u)
  BY <1>3 DEF RegisterToken, Receiving, scanVars, sweepVars, Reading
<1>4. CASE Expire(u)
  BY <1>4 DEF Expire, scanVars, sweepVars, Reading
<1> QED
  BY <1>1, <1>2, <1>3, <1>4 DEF HandleUpload

LEMMA ResolveStep ==
    ASSUME TInv, NEW c \in Scans, NEW u \in Uploads, Resolve(c, u)
    PROVE  TInv'
<1> USE TokenAssumption DEF TokenAssumption, TInv
<1>1. CASE token[u] = "stored"
  <2>1. /\ stage[c] = "idle" /\ got[c] = NoUpload /\ \A d \in Scans : got[d] # u
        /\ stage' = [stage EXCEPT ![c] = "resolved"]
        /\ got' = [got EXCEPT ![c] = u]
        /\ token' = [token EXCEPT ![u] = "gone"]
        /\ UNCHANGED <<file, expired, due, visiting, removing>>
    BY <1>1 DEF Resolve, WithoutEntry, sweepVars, FileInv
  <2>2. late' = [late EXCEPT ![c] = u \in expired]
    BY <1>1 DEF Resolve
  <2>3. late \in [Scans -> BOOLEAN] /\ (u \in expired) \in BOOLEAN
    BY DEF TypeOK
  <2>3a. late' \in [Scans -> BOOLEAN]
    BY ONLY <2>2, <2>3
  <2>3b. \A d \in Scans : d # c => late'[d] = late[d]
    BY ONLY <2>2, <2>3
  <2>3c. late'[c] = (u \in expired)
    BY ONLY <2>2, <2>3, c \in Scans
  <2>4. TypeOK'
    BY <2>1, <2>3a DEF TypeOK, ScanStages
  <2>5. OneScanPerBackup'
    BY <2>1 DEF OneScanPerBackup, TypeOK
  <2>6. FileInv'
    <3>1. got'[c] = u /\ stage'[c] = "resolved" /\ token'[u] = "gone"
      BY <2>1 DEF TypeOK
    <3>2. \A d \in Scans : d # c => got'[d] = got[d] /\ stage'[d] = stage[d]
      BY <2>1 DEF TypeOK
    <3>3. \A v \in Uploads : v # u => token'[v] = token[v]
      BY <2>1 DEF TypeOK
    <3>4. file[u] # "none"
      BY <1>1 DEF FileInv
    <3>5. ASSUME NEW v \in Uploads
          PROVE  /\ file'[v] = "none" => token'[v] = "none"
                 /\ token'[v] = "stored" => \/ file'[v] = "present"
                                            \/ visiting' = v /\ removing'
                 /\ token'[v] \in {"none", "stored"} => \A d \in Scans : got'[d] # v
      <4>1. CASE v = u
        BY <2>1, <3>1, <3>4, <4>1
      <4>2. CASE v # u
        BY <2>1, <3>1, <3>2, <3>3, <4>2 DEF FileInv
      <4> QED
        BY <4>1, <4>2
    <3>6. ASSUME NEW v \in Nios, token'[v] = "gone", file'[v] = "present"
          PROVE  \E d \in Scans : got'[d] = v /\ stage'[d] \in Reading
      <4>1. CASE v = u
        BY <3>1, <4>1 DEF Reading
      <4>2. CASE v # u
        <5>1. PICK d \in Scans : got[d] = v /\ stage[d] \in Reading
          BY <2>1, <3>3, <3>6, <4>2 DEF FileInv
        <5>2. d # c
          BY <2>1, <5>1 DEF Reading
        <5> QED
          BY <3>2, <5>1, <5>2
      <4> QED
        BY <4>1, <4>2
    <3>7. ASSUME NEW d \in Scans
          PROVE  /\ stage'[d] \in {"idle", "denied"} <=> got'[d] = NoUpload
                 /\ got'[d] # NoUpload => token'[got'[d]] = "gone"
      <4>1. CASE d = c
        BY <3>1, <4>1
      <4>2. CASE d # c
        BY <2>1, <3>1, <3>2, <3>3, <4>2 DEF FileInv, TypeOK
      <4> QED
        BY <4>1, <4>2
    <3> QED
      BY <3>5, <3>6, <3>7 DEF FileInv
  <2>7. u \notin expired => file[u] = "present"
    BY <1>1 DEF FileInv, SweepInv, TypeOK
  <2>8. SweepInv'
    BY <2>1, <2>3b, <2>3c, <2>7 DEF SweepInv, TypeOK, Reading
  <2> QED
    BY <2>4, <2>5, <2>6, <2>8
<1>2. CASE token[u] # "stored"
  <2>1. /\ stage[c] = "idle" /\ stage' = [stage EXCEPT ![c] = "denied"]
        /\ UNCHANGED <<got, late, token, file, expired, due, visiting, removing>>
    BY <1>2 DEF Resolve, sweepVars
  <2> QED
    BY <2>1 DEF TypeOK, ScanStages, FileInv, SweepInv, OneScanPerBackup, Reading
<1> QED
  BY <1>1, <1>2

LEMMA ScanningStep ==
    ASSUME TInv, NEW c \in Scans, ScanStep(c)
    PROVE  TInv'
<1> USE TokenAssumption DEF TokenAssumption, TInv
<1>0. got[c] \in Uploads /\ stage[c] \in Reading
  BY DEF ScanStep, OpenBackup, FinishScan, ScanLive, FileInv, TypeOK, Reading
<1>1. CASE OpenBackup(c)
  <2>1. UNCHANGED <<got, late, file, token, expired, due, visiting, removing>>
    BY <1>1 DEF OpenBackup, uploadVars, sweepVars
  <2>2. \/ file[got[c]] # "present" /\ stage' = [stage EXCEPT ![c] = "lost"]
        \/ /\ file[got[c]] = "present"
           /\ \E next \in {"parsing", "counting"} : stage' = [stage EXCEPT ![c] = next]
    BY <1>1 DEF OpenBackup, TypeOK
  <2>3. TypeOK'
    BY <2>1, <2>2 DEF TypeOK, ScanStages
  <2>4. FileInv'
    BY <1>0, <2>1, <2>2 DEF FileInv, OneScanPerBackup, TypeOK, Reading
  <2>5. SweepInv'
    BY <1>0, <2>1, <2>2 DEF SweepInv, TypeOK, Reading
  <2> QED
    BY <2>1, <2>3, <2>4, <2>5 DEF OneScanPerBackup
<1>2. CASE FinishScan(c)
  <2>1. /\ UNCHANGED <<got, late, token, expired, due, visiting, removing>>
        /\ stage' = [stage EXCEPT ![c] = "done"]
        /\ file' = [file EXCEPT ![got[c]] = "removed"]
    BY <1>2 DEF FinishScan, DeferredRemove, sweepVars
  <2>2. TypeOK'
    BY <1>0, <2>1 DEF TypeOK, ScanStages
  <2>3. FileInv'
    BY <1>0, <2>1 DEF FileInv, OneScanPerBackup, TypeOK, Reading
  <2>4. SweepInv'
    BY <1>0, <2>1 DEF SweepInv, OneScanPerBackup, FileInv, TypeOK, Reading
  <2> QED
    BY <2>1, <2>2, <2>3, <2>4 DEF OneScanPerBackup
<1>3. CASE ScanLive(c)
  <2>1. /\ UNCHANGED <<got, late, file, token, expired, due, visiting, removing>>
        /\ got[c] \notin Nios
        /\ stage' = [stage EXCEPT ![c] = "done"]
    BY <1>3 DEF ScanLive, DispatchedToBackup, uploadVars, sweepVars
  <2>2. TypeOK'
    BY <2>1 DEF TypeOK, ScanStages
  <2>3. FileInv'
    BY <1>0, <2>1 DEF FileInv, TypeOK, Reading
  <2>4. SweepInv'
    BY <1>0, <2>1 DEF SweepInv, TypeOK, Reading
  <2> QED
    BY <2>1, <2>2, <2>3, <2>4 DEF OneScanPerBackup
<1> QED
  BY <1>1, <1>2, <1>3 DEF ScanStep

LEMMA SweepStep ==
    ASSUME TInv, Sweep
    PROVE  TInv'
<1> USE TokenAssumption DEF TokenAssumption, TInv, TypeOK
<1>1. CASE Tick
  <2>1. visiting = NoUpload
    BY <1>1 DEF Tick
  <2> QED
    BY <1>1, <2>1 DEF Tick, ExpiredTokens, uploadVars, scanVars, FileInv, SweepInv, OneScanPerBackup, Reading
<1>2. ASSUME NEW u \in Uploads, VisitEntry(u)
      PROVE  TInv'
  BY <1>2 DEF VisitEntry, uploadVars, scanVars, FileInv, SweepInv, OneScanPerBackup, Reading
<1>3. CASE SweepFile
  BY <1>3 DEF SweepFile, SweptFile, scanVars, FileInv, SweepInv, OneScanPerBackup, Reading
<1>4. CASE SweepToken
  <2>1. /\ visiting \in Uploads /\ file[visiting] = "removed"
        /\ visiting' = NoUpload /\ due' = due \ {visiting}
        /\ token' = [token EXCEPT ![visiting] = "gone"]
        /\ UNCHANGED <<file, expired, stage, got, late>>
    BY <1>4 DEF SweepToken, scanVars, SweepInv
  <2>2. removing' = FALSE
    BY <1>4 DEF SweepToken
  <2>3. TypeOK'
    BY <2>1, <2>2
  <2>4. FileInv'
    BY <2>1, <2>2 DEF FileInv, Reading
  <2>5. SweepInv'
    BY <2>1, <2>2 DEF SweepInv, Reading
  <2> QED
    BY <2>1, <2>3, <2>4, <2>5 DEF OneScanPerBackup
<1> QED
  BY <1>1, <1>2, <1>3, <1>4 DEF Sweep

LEMMA StepTInv == TInv /\ [Next]_vars => TInv'
<1>1. ASSUME TInv, UNCHANGED vars
      PROVE  TInv'
  BY <1>1 DEF vars, uploadVars, scanVars, sweepVars, TInv, TypeOK, FileInv, SweepInv, OneScanPerBackup
<1> QED
  BY <1>1, UploadStep, ResolveStep, ScanningStep, SweepStep DEF Next

THEOREM TInvariance == Spec => []TInv
BY InitTInv, StepTInv, PTL DEF Spec

(* Type correctness: the sweeper is never inside an entry that is not due,
   and only NIOS tokens ever expire.                                        *)
THEOREM TypeCorrect == Spec => []TypeOK
<1>1. TInv => TypeOK
  BY DEF TInv
<1> QED
  BY <1>1, TInvariance, PTL

(* For any number of uploads and scans, a scan that resolved its token in
   time finds its file at every open.                                       *)
THEOREM InTimeScanKeepsFile == Spec => []InTimeFileKept
<1>1. TInv => InTimeFileKept
  BY DEF TInv, SweepInv, InTimeFileKept
<1> QED
  BY <1>1, TInvariance, PTL

(* For any number of starts that carry the same token, one of them scans the
   backup.                                                                  *)
THEOREM BackupScannedOnce == Spec => []OneScanPerBackup
<1>1. TInv => OneScanPerBackup
  BY DEF TInv
<1> QED
  BY <1>1, TInvariance, PTL

(* The temp file of a NIOS backup on disk has an owner that will remove it,
   whatever scans of other backups, of EfficientIP too, are under way.      *)
THEOREM NiosFileOwned == Spec => []NoOrphanedFile
<1>1. TInv => NoOrphanedFile
  BY TokenAssumption DEF TokenAssumption, TInv, TypeOK, FileInv, NoOrphanedFile
<1> QED
  BY <1>1, TInvariance, PTL
=============================================================================
