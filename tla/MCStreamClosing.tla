--------------------------- MODULE MCStreamClosing ---------------------------
(* Instances of StreamClosing for TLC. *)
EXTENDS StreamClosing, MCStreamTransport

MCWithReset == StreamFrame \cup ResetFrame
=============================================================================
