------------------------------- MODULE MCSpdp -------------------------------
(* Two participants that start, announce, miss each other and stop.          *)
EXTENDS Spdp
=============================================================================
