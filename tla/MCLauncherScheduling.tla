------------------------ MODULE MCLauncherScheduling ------------------------
(* Small instances of LauncherScheduling: two packages, one restart.         *)
EXTENDS LauncherScheduling

CONSTANTS a, b, noApp
=============================================================================
