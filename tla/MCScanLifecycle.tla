--------------------------- MODULE MCScanLifecycle ---------------------------
(* Instance of ScanLifecycle for TLC: a cloud provider, AD, which an extra   *)
(* forest gives a second goroutine on the same progress entry, and a         *)
(* provider no scanner is registered for.                                    *)
EXTENDS ScanLifecycle

CONSTANTS aws, ad, other

MCProviders == {aws, ad, other}
MCRegistered == {aws, ad}
MCRequests == {{aws, ad}, {ad, other}}
MCSameRequest == {{ad, other}}
=============================================================================
