-------------------------- MODULE MCDeviceRegistry --------------------------
(* Instances of DeviceRegistry for TLC. *)
EXTENDS DeviceRegistry

CONSTANTS s1, s2, s3, d1, d2, n1, n2

\* s1 and s2 are connections of one device, s3 of another.
MCDescOf == [s \in Sessions |-> IF s = s3 THEN d2 ELSE d1]

MCNameOf == d1 :> n1 @@ d2 :> n2

\* Rows of one device are enough: tables do not depend on each other.
MCMaxRows == n1 :> 2 @@ n2 :> 0

\* Nothing tells the two connections of one device apart.
Twins == Permutations({s1, s2})
=============================================================================
