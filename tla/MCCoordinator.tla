---------------------------- MODULE MCCoordinator ----------------------------
(* Small instances of Coordinator: two packages, every kind of log line.     *)
EXTENDS Coordinator

CONSTANTS a, b, noApp
=============================================================================
