--------------------------- MODULE MCHostedServer ---------------------------
(* Instances of HostedServer for TLC. *)
EXTENDS HostedServer, TLC

CONSTANTS s1, s2

=============================================================================
