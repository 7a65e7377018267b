-------------------------- MODULE MCCaptureDelivery --------------------------
(* A small instance of CaptureDelivery: one repository, one or two         *)
(* Session sources per device, one family, minted by d1.                   *)
EXTENDS CaptureDelivery, TLC

CONSTANTS p1, rt1, rt2, space1, d1, f1, c1, ca1, ca2, s1, s2

MCSpaceOf == [rt \in Routes |-> space1]
MCRetryDelays == <<1>>
MCHome == f1 :> p1
MCRouteHeads == p1 :> {Routes}
MCBoundaries == Devices \X Freezes
MCScope == [r \in Requests |-> Sources]
MCSingleSource == {<<p1, ca1>>}
MCOrigin == f1 :> <<d1, space1>>
MCSliceOrder == [rt \in Routes |-> IF rt = rt1 THEN 0 ELSE 1]

(* Nothing, or the final head of f1.                                       *)
MCBatches ==
  {{}} \cup {{[family |-> f1, revision |-> n, content |-> c1]} : n \in 1..4}
=============================================================================
