---------------------------- MODULE MCSourceGuard ----------------------------
(* Small instances of SourceGuard: process 1 of app a and process 2 of app b *)
(* run at the start, thread ids from 3 on are free.                          *)
EXTENDS SourceGuard, TLC

CONSTANTS a, b, noApp

MCInitial == 1 :> a @@ 2 :> b
MCInitialA == 1 :> a
=============================================================================
