-------------------------- MODULE MCProviderSnapshots --------------------------
(* Small instances of ProviderSnapshots for TLC. *)
EXTENDS ProviderSnapshots

=============================================================================
