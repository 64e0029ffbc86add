------------------------- MODULE MCIptablesFirewall -------------------------
(* IptablesFirewall instantiated for TLC with the constants of MCFirewall. *)
EXTENDS IptablesFirewall, MCFirewall

=============================================================================
