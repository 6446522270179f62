---------------------------- MODULE MCEdgeLink ----------------------------
(* Small instances of EdgeLink for TLC.                                    *)
EXTENDS EdgeLink

=============================================================================
