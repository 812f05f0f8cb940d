--------------------------- MODULE MCConfigReload ---------------------------
(* A small instance of ConfigReload for TLC. *)
EXTENDS ConfigReload

CONSTANTS h1, h2

=============================================================================
