----------------------------- MODULE MCTimeSync -----------------------------
(* Instances of TimeSync for TLC. *)
EXTENDS TimeSync

CONSTANTS s1, s2, a1, a2

\* Two synchronizers at different addresses.
TwoDevices == s1 :> a1 @@ s2 :> a2

\* Nothing tells the two apart: one may stand for the other, with its address.
Swap ==
  {f \in Permutations(Syncs \cup Addresses) :
     \A s \in Syncs : f[s] \in Syncs /\ AddressOf[f[s]] = f[AddressOf[s]]}
=============================================================================
