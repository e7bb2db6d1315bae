----------------------------- MODULE MCCollectRun -----------------------------
(***************************************************************************)
(* Two plans over two devices. The first plan asks one device at two       *)
(* addresses, has a target without a device id and a rejected one; the     *)
(* second has two commands that share an output file, as "show a-b" and    *)
(* "show a b" do.                                                          *)
(***************************************************************************)
EXTENDS CollectRun

MCFileOf == << "running-config", "a-b", "a-b" >>

Allow(c)  == [command |-> c, allowed |-> TRUE]
Reject(c) == [command |-> c, allowed |-> FALSE]

Decide(device, ip, allowed, commands) ==
  [device |-> device, ip |-> ip, allowed |-> allowed, commands |-> commands]

MCPlans == <<
  << Decide(0, 1, TRUE, << Allow(1) >>), Decide(2, 2, FALSE, << Reject(3), Allow(1) >>),
     Decide(1, 4, TRUE, << Allow(1) >>), Decide(1, 3, TRUE, << Allow(2) >>) >>,
  << Decide(1, 3, TRUE, << Allow(1), Allow(2) >>) >> >>
=============================================================================
