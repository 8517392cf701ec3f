-------------------------- MODULE MCSessionMonitor --------------------------
(* SessionMonitor for TLC: one unit of time is five seconds.                *)
EXTENDS SessionMonitor
=============================================================================
