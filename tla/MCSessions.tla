----------------------------- MODULE MCSessions -----------------------------
(* Two clients, interchangeable where no liveness is checked.              *)
EXTENDS Sessions, TLC

MCClients == Permutations(Clients)

=============================================================================
