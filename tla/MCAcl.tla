------------------------------- MODULE MCAcl -------------------------------
(***************************************************************************)
(* Two users: the first has a session on each of two seats, the second a   *)
(* local and a remote one on the first seat.                               *)
(***************************************************************************)
EXTENDS CkAcl, TLC

CONSTANTS a, b, e, c, u1, u2, s0, s1

TheSeats == a :> s0 @@ b :> s0 @@ e :> s0 @@ c :> s1
TheUsers == a :> u1 @@ b :> u2 @@ e :> u2 @@ c :> u1
=============================================================================
