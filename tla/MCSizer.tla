---------------------------- MODULE MCSizer ----------------------------
(* Instances of SizerTree: a grid backup with two members in one city, a   *)
(* cloud scan with a directory, and what an earlier run may have stored.   *)
EXTENDS SizerSites

MCISO2 == {"de", "us"}

MCFolded == "DE-FRA-1" :> "de-fra-1"

GridMember(id, name, parts, ips) ==
  [id |-> id, name |-> name, parts |-> parts, activeIPCount |-> ips, managedIPCount |-> 0,
   hosts |-> 2, objectCount |-> 4, qps |-> 0, lps |-> 3]

GridScan ==
  [findings |-> <<>>,
   members |-> <<GridMember("1", "de-fra-1", <<"de", "fra", "1">>, 7),
                 GridMember("2", "de-fra-2", <<"de", "fra", "2">>, 0),
                 GridMember("3", "grid-master", <<"gridmaster">>, 0)>>]

Finding(provider, category, userItem, count) ==
  [provider |-> provider, source |-> "123456789", region |-> "r1", category |-> category,
   userItem |-> userItem, count |-> count]

CloudScan ==
  [findings |-> <<Finding("aws", "Active IP", FALSE, 5), Finding("aws", "Asset", FALSE, 1),
                  Finding("microsoft", "Active IP", FALSE, 6),
                  Finding("microsoft", "Asset", TRUE, -1)>>,
   members |-> <<GridMember("1", "de-fra-1", <<"de", "fra", "1">>, 7),
                 GridMember("2", "DE-FRA-1", <<"de", "fra", "1">>, 0)>>]

(* A scan of other systems brings nothing to the Sizer. *)
EmptyScan == [findings |-> <<>>, members |-> <<>>]

MCScans == {GridScan, CloudScan, EmptyScan}

(* A region with a site two levels down, an empty region, and one system   *)
(* that took the name the numbering would give next.                       *)
Started ==
  LET t == AddNiosx(AddRegion(AddSiteToRegion(AddRegion(InitialSizerState, 1), 1, 2), 5), 6)
  IN UpdateNiosx(t, 6, [name |-> Named("de-fra-1", 0)])

(* An imported grid whose first row was deleted, and whose last was        *)
(* retyped, on step 3, with two dismissed codes.                           *)
Imported3 ==
  LET t == ImportScan(InitialSizerState, ImportFromScan(GridScan, 20), 60)
      u == UpdateNiosx(DeleteNiosx(t, 24), 26,
                       [name |-> [Named("grid-master", 0) EXCEPT !.sp = "case"]])
  IN DismissIssue(SetActiveStep(u, 3), "site/unassigned-to-xaas-and-niosx")

(* An imported site with two members on it and no users, beside a site of  *)
(* 8 users, in two regions.                                                *)
Placed ==
  LET t0 == AddSiteToRegion(AddRegion(AddSiteToRegion(AddRegion(InitialSizerState, 1), 1, 2), 5), 5, 6)
      t == UpdateSite(t0, 6, [users |-> 8])
      scanned == UpdateSite(t, 2, [users |-> Undef, activeIPs |-> 30, dnsRecords |-> 40,
                                   qps |-> 6, lps |-> 3])
      one == UpdateNiosx(AddNiosx(scanned, 10), 10, [siteId |-> 2])
      two == UpdateNiosx(AddNiosx(one, 11), 11, [siteId |-> 2, tierManual |-> TRUE])
  IN AddXaas(two, 1, 12)

(* The members of that site, all regions deleted. *)
Orphaned == SetSelectedPath(DeleteRegion(DeleteRegion(Placed, 1), 5), NoSelection)

(* Two sites of 40 and of 70 tokens: what grows by 10 percent to 44 and to *)
(* 77 one by one grows to 122 together.                                    *)
Priced ==
  LET t == AddSiteToRegion(AddRegion(AddSiteToRegion(AddRegion(InitialSizerState, 1), 1, 2), 5), 5, 6)
      Records(u, id, n) == UpdateSite(u, id, [users |-> Undef, dnsRecords |-> n])
  IN Records(Records(t, 2, 1000), 6, 1750)

(* What is stored, and the dispatches, refused writes and openings left.   *)
Opening(blob, dispatches, refusals, openings) ==
  [blob |-> blob, edits |-> MaxEdits - dispatches, failures |-> MaxFailures - refusals,
   runs |-> MaxRuns + 1 - openings]

(* Nothing, or what cannot be read: the tree, from the start.  A tree and  *)
(* an imported grid: the import, the rows, deletions.  The next two:       *)
(* forms.  Then: two sites, their growth and the report.  The last: an     *)
(* import that lands on the third step.                                    *)
MCOpenings ==
  {Opening(Absent, 2, 1, 2), Opening([kind |-> "junk"], 2, 0, 2),
   Opening(Blob([Started EXCEPT !.ui.activeStep = 5]), 1, 1, 2),
   Opening(Blob(Started), 2, 0, 1), Opening(Blob(Imported3), 2, 0, 1),
   Opening(Blob([Placed EXCEPT !.ui.activeStep = 2]), 2, 0, 1),
   Opening(Blob([Placed EXCEPT !.ui.activeStep = 4]), 2, 0, 1),
   Opening(Blob([Priced EXCEPT !.ui.activeStep = 4]), 2, 0, 1),
   Opening(Blob(Orphaned), 1, 0, 1)}

MCNames == {[Named("Imported NIOS Grid", 0) EXCEPT !.sp = "case"]}

MCValues == {0, 6}

MCPercents == {10, 50}
=============================================================================
