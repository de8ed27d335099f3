----------------------------- MODULE WizardForms -----------------------------
(***************************************************************************)
(* The credentials and sources pages of the wizard (wizard.tsx) as         *)
(* operators on the state of one provider,                                 *)
(*   status   idle, validating, valid or error                             *)
(*   method   the authentication method chosen                             *)
(*   how      "backup" or "api"; only NIOS and EfficientIP read backups    *)
(*   file     the backup shown, token the backup the server has parsed     *)
(*   listed   the sources the validation listed, checked the ticked ones   *)
(*   mode     whether the ticked ones are included or excluded             *)
(* and of the list of additional AD forests.                               *)
(***************************************************************************)
EXTENDS Integers, Sequences, FiniteSets, SequencesExt

CONSTANTS None,
          Providers,      \* the tiles the user touches
          Methods(_),     \* the methods offered for a provider
          FirstMethod(_), \* the one chosen at first
          Backups,        \* backup files
          Sources(_),     \* what a validation of a provider lists
          Discoverable    \* servers a forest probe can find

Parsers == {"nios", "efficientip"}

How(p, m) == IF p \in Parsers /\ m = "backup-upload" THEN "backup" ELSE "api"

(* BlankForm is the first state, and what restart() leaves of a form: the  *)
(* method chosen stays, and the way NIOS is read goes back to backups.     *)
BlankForm(p, m) ==
  [status |-> "idle", method |-> m, how |-> IF p = "nios" THEN "backup" ELSE "api",
   file |-> None, token |-> None, listed |-> {}, checked |-> {}, mode |-> "include"]

CleanForm(p, f) == BlankForm(p, f.method)

(* A tile switched on or off. *)
ToggledForm(f) == [f EXCEPT !.status = "idle", !.listed = {}, !.checked = {}]

(* A bug: switching the method of a parser leaves the file. *)
SwitchedMethodOnly(p, f, m) == [f EXCEPT !.method = m, !.how = How(p, m), !.status = "idle"]

SwitchedMethod(p, f, m) ==
  IF p \in Parsers
  THEN [f EXCEPT !.method = m, !.how = How(p, m), !.token = None, !.file = None,
                 !.listed = {}, !.checked = {}, !.status = "idle"]
  ELSE [f EXCEPT !.method = m,
                 !.status = IF @ \in {"valid", "error"} THEN "idle" ELSE @]

(* A file picked or dropped.  The effect that parses it does nothing while *)
(* another is being parsed or is valid.                                    *)
ParsesAtOnce(f) == f.status \notin {"validating", "valid"}

PickedFile(f, b) == [f EXCEPT !.file = b, !.status = IF ParsesAtOnce(f) THEN "validating" ELSE @]

RemovedFile(p, f) ==
  LET kept == p = "efficientip" /\ f.status = "error"
  IN [f EXCEPT !.file = None, !.status = "idle",
               !.listed = IF kept THEN @ ELSE {}, !.checked = IF kept THEN @ ELSE {},
               !.token = IF p = "nios" THEN @ ELSE None]

(* The validate button is disabled while validating and once valid, and    *)
(* for a NIOS backup it opens the file dialog instead.  An EfficientIP     *)
(* backup that was not picked yet is validated like an API.                *)
CanValidate(p, f) == f.status \in {"idle", "error"} /\ ~(p = "nios" /\ f.how = "backup")

(* Whether the sources of an answer come ticked. *)
AutoSelect(p, m) ==
  p \in {"nios", "bluecat", "efficientip", "azure", "microsoft"} \/ (p \in {"aws", "gcp"} /\ m = "org")

(* The answer to a call made when the form was as "call" says. *)
Validated(p, f, call) ==
  [f EXCEPT !.status = "valid", !.listed = Sources(p),
            !.checked = IF ~call.demo /\ AutoSelect(p, call.method) THEN Sources(p) ELSE {},
            !.token = IF ~call.demo /\ call.file # None THEN call.file ELSE @]

Refused(f) == [f EXCEPT !.status = "error"]

-----------------------------------------------------------------------------
(* The sources page. *)

(* A bug: the ticked sources whatever the mode. *)
EffectiveIsChecked(f) == f.checked

EffectiveSelected(f) == IF f.mode = "include" THEN f.checked ELSE f.listed \ f.checked

Toggled(S, x) == IF x \in S THEN S \ {x} ELSE S \cup {x}

(* One button ticks all sources the search leaves visible, or unticks them *)
(* when they all are.                                                      *)
ToggledVisible(f, visible) ==
  [f EXCEPT !.checked = IF visible \subseteq @ THEN @ \ visible ELSE @ \cup visible]

SwitchedMode(f, m) == IF f.mode = m THEN f ELSE [f EXCEPT !.mode = m, !.checked = {}]

(* A server the probe of the forest found, added to what is scanned. *)
AddedServers(f, S) ==
  [f EXCEPT !.listed = @ \cup S, !.checked = @ \cup (S \ f.listed)]

-----------------------------------------------------------------------------
(* Additional AD forests.  An answer is applied by place in the list.      *)

NewForest(id) == [id |-> id, status |-> "idle", listed |-> {}, checked |-> {}]

EditedForest(g) == [g EXCEPT !.status = "idle"]

SwitchedForest(g) == [g EXCEPT !.status = "idle", !.listed = {}, !.checked = {}]

AnsweredForest(forests, i, ok) ==
  IF i \notin DOMAIN forests THEN forests
  ELSE IF ok THEN [forests EXCEPT ![i] = [@ EXCEPT !.status = "valid",
                     !.listed = Sources("microsoft"), !.checked = Sources("microsoft")]]
       ELSE [forests EXCEPT ![i] = [@ EXCEPT !.status = "error"]]

(* The tick boxes of the n-th valid forest change the n-th forest. *)
ToggledForestSource(forests, n, s) == [forests EXCEPT ![n].checked = Toggled(@, s)]

-----------------------------------------------------------------------------
(* What a scan asks for (the request built in startScan). *)

ForestIndices(forests) == [i \in DOMAIN forests |-> i]

RequestEntry(p, f, forests, qps) ==
  [subscriptions |-> EffectiveSelected(f),
   members       |-> IF p = "nios" THEN f.checked ELSE {},
   mode          |-> f.mode,
   backup        |-> IF p \in Parsers /\ f.how = "backup" THEN f.token ELSE None,
   qps           |-> IF p = "nios" THEN qps ELSE None,
   forests       |-> IF p = "microsoft" /\ forests # <<>>
                     THEN [i \in DOMAIN forests |-> [index |-> ForestIndices(forests)[i], of |-> forests[i].id,
                                                     subscriptions |-> forests[i].checked]]
                     ELSE <<>>]

Request(selected, form, forests, qps) ==
  [p \in selected |-> RequestEntry(p, form[p], forests, qps)]

=============================================================================
