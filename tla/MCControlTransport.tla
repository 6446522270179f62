------------------------- MODULE MCControlTransport -------------------------
(* Small instances of ControlTransport for TLC.                            *)
EXTENDS ControlTransport

=============================================================================
