----------------------------- MODULE MCPathTwins -----------------------------
(***************************************************************************)
(* The networks of MCPathTrace with the devices in reverse order, so that  *)
(* every pair of them changes places.                                      *)
(***************************************************************************)
EXTENDS PathTwins, MCPathTrace

MCOrder == << 4, 3, 2, 1 >>

\* the places of the second device's ACL and the third's policies in their lists
Rules == { <<1, 1>>, <<2, 1>>, <<4, 2>>, <<3, 3>>, <<1, 4>> }

TwinInventories == [c \in RouteLists(1) \X RouteLists(2) \X RouteLists(3) \X Rules |->
  << Device(1, c[1], << >>, << >>, << >>), Device(2, c[2], AclLists[c[4][1]], << >>, << >>),
     Device(3, c[3], << >>, Zoned, PolicyLists[c[4][2]]), Device(4, << >>, << >>, Zoned, LastPolicies) >>]
=============================================================================
