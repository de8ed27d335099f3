----------------------------- MODULE MCScanWizard -----------------------------
(* Instances of the scan wizard for TLC. *)
EXTENDS ScanWizard

MCProviders == {"aws", "microsoft", "nios", "efficientip", "estimator"}

MCMethods(p) == CASE p = "aws" -> {"sso", "org"} [] p = "microsoft" -> {"ntlm", "kerberos"}
                  [] p = "nios" -> {"backup-upload", "wapi"}
                  [] p = "efficientip" -> {"credentials", "backup-upload"} [] OTHER -> {"manual"}
MCFirstMethod(p) == CASE p = "aws" -> "sso" [] p = "microsoft" -> "ntlm"
                      [] p = "nios" -> "backup-upload" [] p = "efficientip" -> "credentials"
                      [] OTHER -> "manual"
MCSources(p) == CASE p = "aws" -> {"acct1"} [] p = "microsoft" -> {"dc1"}
                  [] p = "nios" -> {"gm", "m2"}
                  [] p = "efficientip" -> {"backup"} [] OTHER -> {}

Nothing == [tiles |-> {}, moves |-> 0, forms |-> 0, forests |-> 0, picks |-> 0, maxScans |-> 0,
            losses |-> 0, pings |-> 0, batches |-> 0]

(* Two additional forests, edited, removed and validated.                  *)
ForestBudget == [Nothing EXCEPT !.tiles = {"microsoft"}, !.moves = 1, !.forms = 4, !.forests = 2,
                                !.picks = 1, !.maxScans = 1, !.pings = 1]
(* Backups, query rates and methods of NIOS, and the sources page.         *)
NiosBudget == [Nothing EXCEPT !.tiles = {"nios"}, !.moves = 1, !.forms = 3, !.picks = 2,
                              !.maxScans = 1, !.pings = 1]
(* Backups and methods of EfficientIP.                                     *)
EfficientBudget == [Nothing EXCEPT !.tiles = {"efficientip"}, !.moves = 1, !.forms = 5,
                                   !.maxScans = 1, !.pings = 2]
(* Two scans: left, retried, cut off.                                      *)
ScanBudget == [Nothing EXCEPT !.tiles = {"aws"}, !.moves = 2, !.forms = 1, !.picks = 1,
                              !.maxScans = 2, !.losses = 1, !.pings = 1]
(* Two providers at once, in the demo and with the backend.                *)
PairBudget == [Nothing EXCEPT !.tiles = {"aws", "nios"}, !.moves = 2, !.forms = 2,
                              !.maxScans = 1, !.pings = 1]
(* The Sizer, alone, with a provider, and after a scan.                    *)
SizerBudget == [Nothing EXCEPT !.tiles = {"aws", "estimator"}, !.moves = 4, !.forms = 1,
                               !.picks = 1, !.maxScans = 1, !.pings = 1]
(* Session files in two batches, and one batch around a scan.              *)
FileBudget == [Nothing EXCEPT !.tiles = {"aws"}, !.moves = 2, !.batches = 2]
FileScanBudget == [Nothing EXCEPT !.tiles = {"aws"}, !.moves = 4, !.forms = 1, !.picks = 1,
                                  !.maxScans = 1, !.pings = 1, !.batches = 1]

MCBudgets == {ForestBudget, NiosBudget, EfficientBudget, ScanBudget, PairBudget, SizerBudget, FileBudget, FileScanBudget}

Settings == [growth |-> "20%", serverGrowth |-> "20%", destEnabled |-> "all", destEvents |-> "none"]
File(n, provs, rows, errs) ==
  [name |-> n, exportedAt |-> 1, version |-> 3, wellFormed |-> TRUE, providers |-> provs,
   rows |-> rows, errors |-> errs, counts |-> <<>>, settings |-> Settings]

(* A cloud file; one of AD with errors and rows of a provider it does not  *)
(* list; an empty one; one of a later version.                             *)
MCFiles == {File("cloud", <<"aws">>, <<"aws">>, <<>>),
            [File("ad", <<"microsoft", "aws">>, <<"microsoft", "aws", "nios">>, <<"ad", "aws">>)
               EXCEPT !.settings.serverGrowth = Absent, !.counts = [dns |-> 5]],
            [File("empty", <<"aws">>, <<>>, <<>>) EXCEPT !.settings.growth = "30%"],
            [File("newer", <<"nios">>, <<"nios">>, <<>>) EXCEPT !.version = 4]}
=============================================================================
