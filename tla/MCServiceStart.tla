--------------------------- MODULE MCServiceStart ---------------------------
(* ServiceStart for TLC: two hosts of the main service, one of a user center. *)
EXTENDS ServiceStart

CONSTANTS h1, h2, h3

MCHosts == {h1, h2, h3}
MCService == [h \in MCHosts |-> IF h = h3 THEN "user" ELSE "root"]

=============================================================================
