------------------------ MODULE MCIncidentWorkflow -------------------------
(***************************************************************************)
(* Small fleets for TLC.  r1 and r2 are the ends of peering p1, whose span *)
(* carries interface e1 of each.                                           *)
(***************************************************************************)
EXTENDS IncidentWorkflow

CONSTANTS r1, r2, e1, p1

OnePeeringSideA == [p \in {p1} |-> r1]
OnePeeringSideB == [p \in {p1} |-> r2]
OnePeeringSpan  == [p \in {p1} |-> {<<r1, e1>>, <<r2, e1>>}]

NoPort    == {}
R1E1      == {<<r1, e1>>}
R2E1      == {<<r2, e1>>}
R2Chassis == {<<r2, NoIface>>}

NoAlarm  == {}
BgpAlarm == {<<"BGP_STATE_CHANGE", r2, NoIface>>}
CpuAndBgp == {<<"HIGH_CPU", r2, NoIface>>} \cup BgpAlarm
IsisRule == {<<"ISIS_NBR_DOWN", r2, e1>>}
LinkRule == {<<"LINK_DOWN", r1, e1>>}

=============================================================================
