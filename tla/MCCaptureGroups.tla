-------------------------- MODULE MCCaptureGroups --------------------------
(* A small instance of CaptureGroups for TLC: constants with structure.    *)
EXTENDS CaptureGroups, TLC

CONSTANTS p1, rt1, rt2, space1, space2, f1, ca1, ca2, c1, c2

MCSpaceOf == rt1 :> space1 @@ rt2 :> space2
MCRetryDelays == <<1>>

Rev(family, revision, content) ==
  [family |-> family, revision |-> revision, content |-> content]

(* Nothing, a first revision, its successor, and a competing first one.    *)
MCBatches == {{Rev(f1, 1, c1)}, {Rev(f1, 2, c1)}, {Rev(f1, 1, c2)}}
MCHome == f1 :> p1
MCRouteHeads == p1 :> {{rt1, rt2}, {rt2}}
MCToggled == {}

Symmetric == Permutations(Devices)
=============================================================================
