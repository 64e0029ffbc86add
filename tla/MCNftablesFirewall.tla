------------------------- MODULE MCNftablesFirewall -------------------------
(* NftablesFirewall instantiated for TLC with the constants of MCFirewall. *)
EXTENDS NftablesFirewall, MCFirewall

=============================================================================
