------------------------------- MODULE MCSeat -------------------------------
(* Small instances of CkSeat: which session has which VT.                  *)
EXTENDS CkSeat

CONSTANTS s1, s2, s3

\* s1 and s2 are logged in on VT 1; s3 was started there and draws on VT 2.
SharedX11 == [s \in Sessions |-> IF s = s3 THEN 2 ELSE 0]
SharedDisplay == [s \in Sessions |-> 1]

=============================================================================
