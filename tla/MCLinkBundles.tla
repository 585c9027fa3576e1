--------------------------- MODULE MCLinkBundles ----------------------------
(***************************************************************************)
(* LinkBundles on one peering, with every way to lose one member and both: *)
(* side A loses its members in turn and has its session reset, the other   *)
(* member of side B blips, and a fiber fault takes one member of each.     *)
(***************************************************************************)
EXTENDS LinkBundles

CONSTANTS r1, r2, p1

OneSideA == [p \in {p1} |-> r1]
OneSideB == [p \in {p1} |-> r2]
EndA == {<<p1, r1>>}
OtherMemberB == {<<<<p1, r2>>, 2>>}
EvenSpan == {<<p1, 2>>}
=============================================================================
