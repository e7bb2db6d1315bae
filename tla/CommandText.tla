----------------------------- MODULE CommandText -----------------------------
(***************************************************************************)
(* The parsers of RouterOS (internal/parser/routeros/routeros.go) and of   *)
(* SR OS (internal/parser/sros/sros.go): one whole command on each line,   *)
(* which adds to the objects it names as the lines of SetText do.          *)
(***************************************************************************)
EXTENDS SetText

\* appendUniqueInts, of parseVLANIDs: a range is no number
OnlyNumbers(ids)   == {ids[n][1] : n \in {n \in DOMAIN ids : IsNumber(<<ids[n]>>)}}
WithVLANs(old, ids) == Ascending(ToSet(old) \cup OnlyNumbers(ids))

\* sortedInterfaces: those first seen on one line come in any order
FirstSeenOrders(items) ==
  {[n \in DOMAIN order |-> Built(order[n])] :
     order \in Sorted(items, LAMBDA i, j : items[i].evidence[1] <= items[j].evidence[1])}

Numbered(vlans) == SortSeq(vlans, LAMBDA v, w : v.id < w.id)

\* a VLAN as the last line that has it shows it
KeepVLAN(s, id, name, i) ==
  [s EXCEPT !.dev.vlans = Append(SelectSeq(@, LAMBDA v : v.id # id), [id |-> id, name |-> name, evidence |-> <<i>>])]

\* Mutant of RouterOSTagged: the VLANs of the last line replace those before
RouterOSTaggedLast(s, ln, i) ==
  FoldLeft(LAMBDA t, name : LET item == Grown(t, "interface", name, i) IN
             Keep(t, "interface", [item EXCEPT !.mode = "trunk", !.trunk = WithVLANs(<< >>, ln.ids)]), s, ln.args)

RouterOSTagged(s, ln, i) ==
  FoldLeft(LAMBDA t, name : LET item == Grown(t, "interface", name, i) IN
             Keep(t, "interface", [item EXCEPT !.mode = "trunk", !.trunk = WithVLANs(@, ln.ids)]), s, ln.args)

\* one line of the RouterOS parser's loop: args are an interface and what is said of it
RouterOSStep(s, ln, i) ==
  LET item     == Grown(s, "interface", ln.args[1], i)
      comment  == Field(ln.args, 3)
      id       == NumberIn(ln.ids)
      AddAll(field) == FoldLeft(LAMBDA dev, value : Adding(dev, field, Target(value, <<i>>)), s.dev, ln.args)
  IN CASE ln.word = "/system identity set"       -> [s EXCEPT !.dev.hostname = ln.args[1], !.dev.evidence = <<i>>]
       [] ln.word = "/system ntp client set"     -> [s EXCEPT !.dev = AddAll("ntp")]
       [] ln.word = "/system logging action add" -> [s EXCEPT !.dev = AddAll("syslog")]
       [] ln.word = "/snmp community add"        -> [s EXCEPT !.dev = AddAll("communities")]
       [] ln.word = "/interface bridge add"      -> Keep(s, "interface", [item EXCEPT !.mode = "bridge"])
       [] ln.word = "/interface vlan add"        ->
            Keep(IF id = 0 THEN s ELSE KeepVLAN(s, id, None, i), "interface",
                 [item EXCEPT !.mode = "routed", !.access = id])
       [] ln.word = "/interface bridge port add" ->
            Keep(s, "interface", [item EXCEPT !.mode = "access", !.description = Field(ln.args, 2), !.access = id])
       [] ln.word = "/interface bridge vlan add" -> RouterOSTagged(s, ln, i)
       [] ln.word = "/interface disable"         -> Keep(s, "interface", [item EXCEPT !.shutdown = TRUE])
       [] ln.word = "/ip address add"            ->
            Keep(s, "interface", [item EXCEPT !.mode = "routed", !.ipv4 = ln.args[2],
                                              !.description = IF comment = None THEN @ ELSE comment])
       [] ln.word = "/ip route add"              ->
            [s EXCEPT !.dev.routes = Append(@, [NewRoute(ln.ids, <<i>>) EXCEPT !.nexthop = ln.args[1]])]
       [] OTHER -> s

RouterOSDevices(text) ==
  LET end == FoldLeft(LAMBDA s, i : RouterOSStep(s, text[i], i), SetStart, Lines(1, Len(text)))
  IN {[end.dev EXCEPT !.vlans = Numbered(@), !.interfaces = order] : order \in FirstSeenOrders(end.items["interface"])}

-----------------------------------------------------------------------------
\* parsePort; the values of "ethernet mode" are the modes they stand for
SROSPort(s, ln, i) ==
  LET item == Grown(s, "interface", ln.args[1], i) IN
  Keep(s, "interface",
    CASE ln.word = "configure port description" -> [item EXCEPT !.description = ln.args[2]]
      [] ln.word = "configure port mode" /\ ln.args[2] \in {"access", "trunk"} -> [item EXCEPT !.mode = ln.args[2]]
      [] ln.word = "configure port shutdown"    -> [item EXCEPT !.shutdown = TRUE]
      [] OTHER                                  -> item)

\* parseRouterInterface: the VLAN is the number after the ":" of its port
SROSRouterInterface(s, ln, i) ==
  LET item == [Grown(s, "interface", ln.args[1], i) EXCEPT !.mode = "routed"] IN
  Keep(s, "interface",
    CASE ln.word = "configure router interface address" -> [item EXCEPT !.ipv4 = ln.args[2]]
      [] ln.word = "configure router interface port" /\ NumberIn(ln.ids) # 0 -> [item EXCEPT !.access = NumberIn(ln.ids)]
      [] OTHER -> item)

\* parseVPLS: a line without a description keeps the one before
SROSVpls(s, ln, i) ==
  LET id  == NumberIn(ln.ids)
      old == SelectSeq(s.dev.vlans, LAMBDA v : v.id = id)
  IN IF ~IsNumber(ln.ids) THEN s
     ELSE KeepVLAN(s, id, IF ln.args # << >> THEN ln.args[1] ELSE IF old = << >> THEN None ELSE old[1].name, i)

SROSStep(s, ln, i) ==
  CASE ln.word = "configure system name" -> [s EXCEPT !.dev.hostname = ln.args[1], !.dev.evidence = <<i>>]
    [] ln.word = "configure system snmp community" -> [s EXCEPT !.dev = Adding(@, "communities", Target(ln.args[1], <<i>>))]
    [] ln.word = "configure system time ntp server" -> [s EXCEPT !.dev = Adding(@, "ntp", Target(ln.args[1], <<i>>))]
    [] ln.word \in {"configure port", "configure port description", "configure port mode", "configure port shutdown"} ->
         SROSPort(s, ln, i)
    [] ln.word \in {"configure router interface", "configure router interface address",
                    "configure router interface port"} -> SROSRouterInterface(s, ln, i)
    [] ln.word = "configure service vpls" -> SROSVpls(s, ln, i)
    [] ln.word = "configure router static-route-entry" /\ ln.args # << >> ->
         [s EXCEPT !.dev.routes = Append(@, [NewRoute(ln.ids, <<i>>) EXCEPT !.nexthop = ln.args[1]])]
    [] OTHER -> s

SROSDevice(text) ==
  LET end == FoldLeft(LAMBDA s, i : SROSStep(s, text[i], i), SetStart, Lines(1, Len(text)))
  IN [end.dev EXCEPT !.vlans = Numbered(@),
                     !.interfaces = [n \in DOMAIN end.items["interface"] |-> Built(end.items["interface"][n])]]
=============================================================================
