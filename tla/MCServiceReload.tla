--------------------------- MODULE MCServiceReload ---------------------------
(* Small instances of ServiceReload.                                         *)
EXTENDS ServiceReload

CONSTANTS k1, k2
=============================================================================
