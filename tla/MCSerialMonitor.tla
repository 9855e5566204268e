--------------------------- MODULE MCSerialMonitor ---------------------------
(* A monitor with a buffer of three characters, and a two-character warning. *)
EXTENDS SerialMonitor

CONSTANTS a, warn

MCWarning == <<warn, warn>>
=============================================================================
