-------------------------- MODULE MCMonitorSemaphore -------------------------
(* Three threads share the semaphore of SharpSpotConnection.User(), which  *)
(* is built with 0 permits of at most 2.                                   *)
EXTENDS MonitorSemaphore
=============================================================================
