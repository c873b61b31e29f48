----------------------------- MODULE MCWallets ------------------------------
(* Wallets on small instances: two users, two or three calls of the service. *)
EXTENDS Wallets, TLC

=============================================================================
