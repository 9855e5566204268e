---------------------------- MODULE MCAssertReport ----------------------------
(* A buffer of three characters, a warning of two and a message of two.      *)
EXTENDS AssertReport

CONSTANTS a, warn

MCWarning == <<warn, warn>>
MCMessage == <<a, warn>>
=============================================================================
