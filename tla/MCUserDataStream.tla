-------------------------- MODULE MCUserDataStream --------------------------
(* The instance of UserDataStream that TLC explores. *)
EXTENDS UserDataStream

CONSTANTS k1, k2, p1, p2
=============================================================================
