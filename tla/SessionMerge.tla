----------------------------- MODULE SessionMerge -----------------------------
(***************************************************************************)
(* Session files (session-io.ts): which are accepted, and how several are  *)
(* folded into one snapshot.  A file is a record                           *)
(*   name, exportedAt   its identity,                                      *)
(*   version, wellFormed                                                   *)
(*   providers          the sequence selectedProviders,                    *)
(*   rows, errors       the sequences of the provider of each finding and  *)
(*                      of each scan error (errors use the backend's name),*)
(*   counts             the keys of countOverrides with their values,      *)
(*   settings           the four settings of a whole session, as strings.  *)
(* In a merged snapshot a row also carries the name of its file.           *)
(***************************************************************************)
EXTENDS Integers, Sequences, SequencesExt

(* What a snapshot does not have.                                          *)
Absent == "absent"

SessionFormatVersion == 3

(* Settings of a whole session: percentages, and the destinations.         *)
SessionWide == {"growth", "serverGrowth", "destEnabled", "destEvents"}

(* A scan error carries the name the backend has for the provider.         *)
ToFrontendProvider(p) == IF p = "ad" THEN "microsoft" ELSE p

(* Old files have no growth of the server tokens, read as 20 percent.      *)
Normalize(field, value) == IF field = "serverGrowth" /\ value = Absent THEN "20%" ELSE value

ValidateSessionSchema(file) == file.wellFormed /\ file.version <= SessionFormatVersion

(* Two files are the same file when both name and export time match.       *)
IsDuplicate(list, file) ==
  \E f \in Range(list) : f.name = file.name /\ f.exportedAt = file.exportedAt

(* What is left of a list when a file is taken out of it.                  *)
Without(list, file) ==
  LET left[n \in 0..Len(list)] ==
        IF n = 0 THEN <<>>
        ELSE IF list[n].name = file.name /\ list[n].exportedAt = file.exportedAt
             THEN left[n - 1] ELSE Append(left[n - 1], list[n])
  IN left[Len(list)]

(* The least of a set of places, 0 when there is none.                     *)
FirstOf(S) == IF S = {} THEN 0 ELSE Min(S)

Listing(files, p) == {i \in DOMAIN files : Contains(files[i].providers, p)}
Holding(files, p) == {i \in DOMAIN files : Contains(files[i].rows, p)}

(* A bug: ownership only of what a file lists. *)
OwnerOfListed(files, p) == FirstOf(Listing(files, p))

(* The first file that lists a provider owns all that belongs to it; a     *)
(* provider that no file lists goes to the first file with a row for it.   *)
(* 0 when there is neither.                                                *)
OwnerOf(files, p) ==
  FirstOf(IF Listing(files, p) # {} THEN Listing(files, p) ELSE Holding(files, p))

OwnedRows(files, i) ==
  {[provider |-> p, from |-> files[i].name] :
     p \in {q \in Range(files[i].rows) : OwnerOf(files, q) = i}}

MergedRows(files) == UNION {OwnedRows(files, i) : i \in DOMAIN files}

OwnedErrors(files, i) ==
  {[provider |-> e, from |-> files[i].name] :
     e \in {x \in Range(files[i].errors) : OwnerOf(files, ToFrontendProvider(x)) = i}}

MergedErrors(files) == UNION {OwnedErrors(files, i) : i \in DOMAIN files}

MergedProviders(files) == UNION {Range(files[i].providers) : i \in DOMAIN files}

(* Keyed maps merge key by key, the first file wins.                       *)
MergedCounts(files) ==
  [key \in UNION {DOMAIN files[i].counts : i \in DOMAIN files} |->
     files[Min({i \in DOMAIN files : key \in DOMAIN files[i].counts})].counts[key]]

(* A collection of one provider comes whole from the provider's owner.     *)
ScopedTo(files, p) == IF OwnerOf(files, p) = 0 THEN Absent ELSE files[OwnerOf(files, p)].name

(* A later file that lists an owned provider again, or differs from the    *)
(* first file in a setting, is reported.                                   *)
ProviderConflicts(files) ==
  {[kind |-> "provider", field |-> x[1], loser |-> files[x[2]].name] :
     x \in {y \in MergedProviders(files) \X DOMAIN files :
              /\ Contains(files[y[2]].providers, y[1])
              /\ OwnerOf(files, y[1]) # y[2]}}

SettingConflicts(files) ==
  {[kind |-> "setting", field |-> x[1], loser |-> files[x[2]].name] :
     x \in {y \in SessionWide \X DOMAIN files :
              Normalize(y[1], files[y[2]].settings[y[1]])
                # Normalize(y[1], files[1].settings[y[1]])}}

(* mergeSnapshots: everything else comes from the first file. *)
MergeSnapshots(files) ==
  [providers |-> MergedProviders(files),
   rows      |-> MergedRows(files),
   errors    |-> MergedErrors(files),
   counts    |-> MergedCounts(files),
   settings  |-> files[1].settings,
   nios      |-> ScopedTo(files, "nios"),
   ad        |-> ScopedTo(files, "microsoft"),
   conflicts |-> ProviderConflicts(files) \cup SettingConflicts(files)]

=============================================================================
