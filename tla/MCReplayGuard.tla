---------------------------- MODULE MCReplayGuard ----------------------------
(* ReplayGuard for TLC.                                                     *)
EXTENDS ReplayGuard

\* Clock readings below, inside and beyond one window of each other.
Clock == -1..3
=============================================================================
