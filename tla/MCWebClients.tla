---------------------------- MODULE MCWebClients ----------------------------
(* Instances of WebClients. *)
EXTENDS WebClients, TLC

CONSTANTS a, b, c1, c2

\* The device that is loaded has fewer systems than the one that comes: a
\* request for the other's second system, which names the first device, fails.
MCLoaded == {<<a>>}
MCSystemCount == a :> 1 @@ b :> 2

Symmetry == Permutations(Clients)
=============================================================================
