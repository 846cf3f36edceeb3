--------------------------- MODULE MCSensorSession ---------------------------
(* Two threads, each running any job for either user, again and again.      *)
EXTENDS SensorSession
=============================================================================
