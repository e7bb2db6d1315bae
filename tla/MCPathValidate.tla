--------------------------- MODULE MCPathValidate ---------------------------
(***************************************************************************)
(* The LAN of MCPathTrace with a choice of routes on the first device      *)
(* and of ACLs on the second, which in some inventories has no name.       *)
(***************************************************************************)
EXTENDS PathValidate, MCPathTrace

Unnamed(device) == [device EXCEPT !.host = NoName]

MCNetwork(routes, second) ==
  << Device(1, routes, << >>, << >>, << >>), second,
     Device(3, << Route1(24, 0, "c2", NoName) >>, << >>, << >>, << >>),
     Device(4, << >>, << >>, << >>, << >>) >>

Second(acls) == Device(2, << Route1(24, 0, "c4", NoName) >>, acls, << >>, << >>)

FirstRoutes ==
  << << >>, << Route1(24, 0, "c2", NoName) >>, << Route1(24, 0, "c3", NoName) >>,
     << Route1(24, 0, "c9", NoName) >>, << Route1(24, 0, Unset, Lan) >>,
     << Route1(16, 0, "c2", NoName), Route1(24, 5, "c4", NoName) >> >>

SecondAcls == << << >>, << Entry("ip", {}, TRUE) >>,
                 << Entry("tcp", {443}, FALSE), Entry("ip", {}, TRUE) >> >>

ValidateInventories ==
  [c \in (DOMAIN FirstRoutes) \X (DOMAIN SecondAcls) \X BOOLEAN |->
     LET second == Second(SecondAcls[c[2]])
     IN  MCNetwork(FirstRoutes[c[1]], IF c[3] THEN second ELSE Unnamed(second))]
=============================================================================
