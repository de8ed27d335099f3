--------------------------- MODULE MCScanRefinement ---------------------------
(* Two sessions, the second one possibly a clone of the first, scanned       *)
(* concurrently.                                                             *)
EXTENDS ScanRefinement

CONSTANTS ad

MCProviders == {ad}
MCRequests == {{ad}}
=============================================================================
