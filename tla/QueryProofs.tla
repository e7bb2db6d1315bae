----------------------------- MODULE QueryProofs -----------------------------
(***************************************************************************)
(* Proofs about "query", for any Cisco configuration and any question: a   *)
(* question is understood as the one pattern it is written in, and its     *)
(* answer for a route or a VLAN is what the lines of the file say.         *)
(***************************************************************************)
EXTENDS NetcProofs, SequenceTheorems

-----------------------------------------------------------------------------
(***************************************************************************)
(* A question has one reading: no two patterns match it, so that the order *)
(* in which ParseQuery tries them decides nothing but the way to say it.   *)
(***************************************************************************)
\* the patterns that match a question, by their place in ParseQuery
Matching(q) ==
  {n \in 1..13 :
     \/ n = 1 /\ q \in HelpWords
     \/ n = 2 /\ AccessPlaces(q) # {}
     \/ n = 3 /\ IsNaturalVLAN(q)
     \/ n = 4 /\ AccessPlaces(q) = {} /\ q # << >> /\ Head(q) = "vlan"
     \/ n = 5 /\ q \in DefaultRouteWords
     \/ n = 6 /\ IsRouteDst(q)
     \/ n = 7 /\ q \in TrunkWords
     \/ n = 8 /\ Len(q) = 2 /\ Head(q) \in DOMAIN Nouns
     \/ n = 9 /\ q \in NTPWords
     \/ n = 10 /\ q \in SyslogWords
     \/ n = 11 /\ q \in SNMPWords
     \/ n = 12 /\ q \in ZoneWords
     \/ n = 13 /\ q \in PolicyWords}

\* what a question that one of them matches is understood as
Taken(q, n) ==
  CASE n = 1  -> Understood("help")
    [] n = 2  -> AccessIntent(q)
    [] n = 3  -> VLANIntent(<<"vlan", q[4]>>)
    [] n = 4  -> VLANIntent(q)
    [] n = 5  -> Understood("default_route")
    [] n = 6  -> [Understood("route_dst") EXCEPT !.name = q[3]]
    [] n = 7  -> Understood("trunks")
    [] n = 8  -> [Understood(Nouns[Head(q)]) EXCEPT !.name = q[2]]
    [] n = 9  -> Understood("ntp")
    [] n = 10 -> Understood("syslog")
    [] n = 11 -> Understood("snmp")
    [] n = 12 -> Understood("zones")
    [] n = 13 -> Understood("policies")

\* A question one pattern matches is understood as that pattern says, whatever their order.
LEMMA OneMatches ==
  ASSUME NEW question, NEW q, Asked(question) = q, NEW n \in 1..13, Matching(q) = {n}
  PROVE  ParseQuery(question) = Taken(q, n)
<1> DEFINE m1 == q \in HelpWords
           m2 == AccessPlaces(q) # {}
           m3 == IsNaturalVLAN(q)
           m4 == AccessPlaces(q) = {} /\ q # << >> /\ Head(q) = "vlan"
           m5 == q \in DefaultRouteWords
           m6 == IsRouteDst(q)
           m7 == q \in TrunkWords
           m8 == Len(q) = 2 /\ Head(q) \in DOMAIN Nouns
           m9 == q \in NTPWords
           m10 == q \in SyslogWords
           m11 == q \in SNMPWords
           m12 == q \in ZoneWords
           m13 == q \in PolicyWords
           t1 == Understood("help")
           t2 == AccessIntent(q)
           t3 == VLANIntent(<<"vlan", q[4]>>)
           t4 == VLANIntent(q)
           t5 == Understood("default_route")
           t6 == [Understood("route_dst") EXCEPT !.name = q[3]]
           t7 == Understood("trunks")
           t8 == [Understood(Nouns[Head(q)]) EXCEPT !.name = q[2]]
           t9 == Understood("ntp")
           t10 == Understood("syslog")
           t11 == Understood("snmp")
           t12 == Understood("zones")
           t13 == Understood("policies")
           none == NotUnderstood
<1>1. ParseQuery(question) =
        CASE m1 -> t1 [] m2 -> t2 [] m3 -> t3 [] m4 -> t4 [] m5 -> t5 [] m6 -> t6 [] m7 -> t7 [] m8 -> t8
          [] m9 -> t9 [] m10 -> t10 [] m11 -> t11 [] m12 -> t12 [] m13 -> t13 [] OTHER -> none
  BY Zenon DEF ParseQuery
<1>2. Taken(q, n) =
        CASE n = 1 -> t1 [] n = 2 -> t2 [] n = 3 -> t3 [] n = 4 -> t4 [] n = 5 -> t5 [] n = 6 -> t6 [] n = 7 -> t7
          [] n = 8 -> t8 [] n = 9 -> t9 [] n = 10 -> t10 [] n = 11 -> t11 [] n = 12 -> t12 [] n = 13 -> t13
  BY Zenon DEF Taken
<1>3. \A k \in 1..13 : k \in Matching(q) <=> k = n
  OBVIOUS
<1>4. 1 \in Matching(q) <=> m1
  BY DEF Matching
<1>5. 2 \in Matching(q) <=> m2
  BY DEF Matching
<1>6. 3 \in Matching(q) <=> m3
  BY DEF Matching
<1>7. 4 \in Matching(q) <=> m4
  BY DEF Matching
<1>8. 5 \in Matching(q) <=> m5
  BY DEF Matching
<1>9. 6 \in Matching(q) <=> m6
  BY DEF Matching
<1>10. 7 \in Matching(q) <=> m7
  BY DEF Matching
<1>11. 8 \in Matching(q) <=> m8
  BY DEF Matching
<1>12. 9 \in Matching(q) <=> m9
  BY DEF Matching
<1>13. 10 \in Matching(q) <=> m10
  BY DEF Matching
<1>14. 11 \in Matching(q) <=> m11
  BY DEF Matching
<1>15. 12 \in Matching(q) <=> m12
  BY DEF Matching
<1>16. 13 \in Matching(q) <=> m13
  BY DEF Matching
<1>17. /\ 1 \in 1..13 /\ 2 \in 1..13 /\ 3 \in 1..13 /\ 4 \in 1..13 /\ 5 \in 1..13 /\ 6 \in 1..13 /\ 7 \in 1..13
       /\ 8 \in 1..13 /\ 9 \in 1..13 /\ 10 \in 1..13 /\ 11 \in 1..13 /\ 12 \in 1..13 /\ 13 \in 1..13
  OBVIOUS
<1> HIDE DEF m1, m2, m3, m4, m5, m6, m7, m8, m9, m10, m11, m12, m13
<1> HIDE DEF t1, t2, t3, t4, t5, t6, t7, t8, t9, t10, t11, t12, t13, none
<1>18. QED
  BY <1>1, <1>2, <1>3, <1>4, <1>5, <1>6, <1>7, <1>8, <1>9, <1>10, <1>11, <1>12, <1>13, <1>14, <1>15, <1>16, <1>17

\* The questions of fixed words, by their first words.
LEMMA FixedWords ==
  ASSUME NEW q, IsList(q)
  PROVE  /\ q \in HelpWords => Len(q) = 1 /\ q[1] \in {"help", "?", "aide", "commands"}
         /\ q \in DefaultRouteWords =>
              \/ Len(q) = 2 /\ q[1] \in {"default", "route"} /\ q[2] \in {"route", "gateway", "0/0", "0.0.0.0/0"}
              \/ Len(q) = 3 /\ q[1] \in {"route", "passerelle"} /\ q[2] = "par"
         /\ q \in TrunkWords =>
              \/ Len(q) = 1 /\ q[1] = "trunks"
              \/ Len(q) = 2 /\ q[1] \in {"trunk", "ports", "interfaces"}
              \/ Len(q) = 3 /\ q[1] = "interfaces" /\ q[2] = "en"
         /\ q \in NTPWords =>
              \/ Len(q) = 1 /\ q[1] = "ntp"
              \/ Len(q) = 2 /\ (q[1] = "ntp" \/ (q[1] = "serveurs" /\ q[2] = "ntp"))
         /\ q \in SyslogWords =>
              \/ Len(q) = 1 /\ q[1] \in {"syslog", "logging"}
              \/ Len(q) = 2 /\ (q[1] = "syslog" \/ (q[1] = "serveurs" /\ q[2] = "syslog"))
         /\ q \in SNMPWords => Len(q) \in 1..2 /\ q[1] \in {"snmp", "communautes"}
         /\ q \in ZoneWords => Len(q) \in 1..2 /\ q[1] \in {"zones", "firewall"}
         /\ q \in PolicyWords => Len(q) \in 1..2 /\ q[1] \in {"policies", "security", "politiques"}
<1>1. q \in HelpWords => Len(q) = 1 /\ q[1] \in {"help", "?", "aide", "commands"}
  BY DEF HelpWords
<1>2. q \in DefaultRouteWords =>
              \/ Len(q) = 2 /\ q[1] \in {"default", "route"} /\ q[2] \in {"route", "gateway", "0/0", "0.0.0.0/0"}
              \/ Len(q) = 3 /\ q[1] \in {"route", "passerelle"} /\ q[2] = "par"
  BY DEF DefaultRouteWords
<1>3. q \in TrunkWords =>
              \/ Len(q) = 1 /\ q[1] = "trunks"
              \/ Len(q) = 2 /\ q[1] \in {"trunk", "ports", "interfaces"}
              \/ Len(q) = 3 /\ q[1] = "interfaces" /\ q[2] = "en"
  BY DEF TrunkWords
<1>4. q \in NTPWords =>
              \/ Len(q) = 1 /\ q[1] = "ntp"
              \/ Len(q) = 2 /\ (q[1] = "ntp" \/ (q[1] = "serveurs" /\ q[2] = "ntp"))
  BY DEF NTPWords
<1>5. q \in SyslogWords =>
              \/ Len(q) = 1 /\ q[1] \in {"syslog", "logging"}
              \/ Len(q) = 2 /\ (q[1] = "syslog" \/ (q[1] = "serveurs" /\ q[2] = "syslog"))
  BY DEF SyslogWords
<1>6. q \in SNMPWords => Len(q) \in 1..2 /\ q[1] \in {"snmp", "communautes"}
  BY DEF SNMPWords
<1>7. q \in ZoneWords => Len(q) \in 1..2 /\ q[1] \in {"zones", "firewall"}
  BY SMT DEF ZoneWords
<1>8. q \in PolicyWords => Len(q) \in 1..2 /\ q[1] \in {"policies", "security", "politiques"}
  BY DEF PolicyWords
<1>9. QED
  BY <1>1, <1>2, <1>3, <1>4, <1>5, <1>6, <1>7, <1>8

\* Lists of the same places have the same length.
LEMMA OneLength ==
  ASSUME NEW m \in Nat, NEW n \in Nat, 1..m = 1..n
  PROVE  m = n
<1>1. (m # 0 => m \in 1..m) /\ (n # 0 => n \in 1..n)
  OBVIOUS
<1>2. (m # 0 => m \in 1..n) /\ (n # 0 => n \in 1..m)
  BY <1>1
<1>3. QED
  BY <1>2

\* The place of the number in a question for the access ports of a VLAN.
LEMMA AccessPlace ==
  ASSUME NEW q, IsList(q), NEW n \in AccessPlaces(q)
  PROVE  \/ Len(q) = 3 /\ q[1] = "access" /\ q[2] = "vlan" /\ n = 3
         \/ Len(q) = 4 /\ q[1] = "vlan" /\ q[3] = "access" /\ q[4] = "ports" /\ n = 2
         \/ Len(q) = 4 /\ q[1] \in {"ports", "interfaces"} /\ q[2] = "access" /\ q[3] = "vlan" /\ n = 4
<1> DEFINE r == [q EXCEPT ![n] = "n"]
<1>1. n \in DOMAIN q
  BY DEF AccessPlaces
<1>2. r \in {<<"access", "vlan", "n">>, <<"vlan", "n", "access", "ports">>, <<"ports", "access", "vlan", "n">>,
             <<"interfaces", "access", "vlan", "n">>}
  BY DEF AccessPlaces
<1>3. /\ DOMAIN q = 1..Len(q) /\ Len(q) \in Nat
      /\ DOMAIN r = DOMAIN q /\ r[n] = "n" /\ \A m \in DOMAIN q : m # n => r[m] = q[m]
  BY <1>1, ListLength
<1> HIDE DEF r
<1>4. CASE r = <<"access", "vlan", "n">>
  <2>1. DOMAIN r = 1..3 /\ r[1] = "access" /\ r[2] = "vlan" /\ r[3] = "n"
    BY <1>4
  <2>2. Len(q) = 3
    BY <1>3, <2>1, OneLength
  <2>3. n # 1 /\ n # 2
    BY <1>3, <2>1
  <2>4. DOMAIN q = DOMAIN r /\ 1 \in DOMAIN q /\ 2 \in DOMAIN q /\ 3 \in DOMAIN q
    BY <1>3, <2>1
  <2>5. q[1] = r[1] /\ q[2] = r[2]
    BY <1>3, <2>1, <2>3, <2>4
  <2>6. QED
    BY <1>1, <2>1, <2>2, <2>3, <2>4, <2>5
<1>5. CASE r = <<"vlan", "n", "access", "ports">>
  <2>1. DOMAIN r = 1..4 /\ r[1] = "vlan" /\ r[2] = "n" /\ r[3] = "access" /\ r[4] = "ports"
    BY <1>5
  <2>2. Len(q) = 4
    BY <1>3, <2>1, OneLength
  <2>3. n # 1 /\ n # 3 /\ n # 4
    BY <1>3, <2>1
  <2>4. DOMAIN q = DOMAIN r /\ 1 \in DOMAIN q /\ 3 \in DOMAIN q /\ 4 \in DOMAIN q
    BY <1>3, <2>1
  <2>5. q[1] = r[1] /\ q[3] = r[3] /\ q[4] = r[4]
    BY <1>3, <2>1, <2>3, <2>4
  <2>6. QED
    BY <1>1, <2>1, <2>2, <2>3, <2>4, <2>5
<1>6. CASE r = <<"ports", "access", "vlan", "n">> \/ r = <<"interfaces", "access", "vlan", "n">>
  <2>1. DOMAIN r = 1..4 /\ r[1] \in {"ports", "interfaces"} /\ r[2] = "access" /\ r[3] = "vlan" /\ r[4] = "n"
    BY <1>6
  <2>2. Len(q) = 4
    BY <1>3, <2>1, OneLength
  <2>3. n # 1 /\ n # 2 /\ n # 3
    BY <1>3, <2>1
  <2>4. DOMAIN q = DOMAIN r /\ 1 \in DOMAIN q /\ 2 \in DOMAIN q /\ 3 \in DOMAIN q
    BY <1>3, <2>1
  <2>5. q[1] = r[1] /\ q[2] = r[2] /\ q[3] = r[3]
    BY <1>3, <2>1, <2>3, <2>4
  <2>6. QED
    BY <1>1, <2>1, <2>2, <2>3, <2>4, <2>5
<1>7. QED
  BY <1>2, <1>4, <1>5, <1>6

\* And where such a question has it, it is one.
LEMMA PlaceOfAccess ==
  ASSUME NEW q, IsList(q)
  PROVE  /\ Len(q) = 3 /\ q[1] = "access" /\ q[2] = "vlan" => AccessPlaces(q) = {3}
         /\ Len(q) = 4 /\ q[1] = "vlan" /\ q[3] = "access" /\ q[4] = "ports" => AccessPlaces(q) = {2}
         /\ Len(q) = 4 /\ q[1] = "interfaces" /\ q[2] = "access" /\ q[3] = "vlan" => AccessPlaces(q) = {4}
<1>1. DOMAIN q = 1..Len(q)
  BY ListLength
<1>2. CASE Len(q) = 3 /\ q[1] = "access" /\ q[2] = "vlan"
  <2>1. [q EXCEPT ![3] = "n"] = <<"access", "vlan", "n">>
    BY <1>1, <1>2
  <2>2. 3 \in AccessPlaces(q)
    BY <1>1, <1>2, <2>1 DEF AccessPlaces
  <2>3. QED
    BY <1>2, <2>2, AccessPlace
<1>3. CASE Len(q) = 4 /\ q[1] = "vlan" /\ q[3] = "access" /\ q[4] = "ports"
  <2>1. [q EXCEPT ![2] = "n"] = <<"vlan", "n", "access", "ports">>
    BY <1>1, <1>3
  <2>2. 2 \in AccessPlaces(q)
    BY <1>1, <1>3, <2>1 DEF AccessPlaces
  <2>3. QED
    BY <1>3, <2>2, AccessPlace
<1>4. CASE Len(q) = 4 /\ q[1] = "interfaces" /\ q[2] = "access" /\ q[3] = "vlan"
  <2>1. [q EXCEPT ![4] = "n"] = <<"interfaces", "access", "vlan", "n">>
    BY <1>1, <1>4
  <2>2. 4 \in AccessPlaces(q)
    BY <1>1, <1>4, <2>1 DEF AccessPlaces
  <2>3. QED
    BY <1>4, <2>2, AccessPlace
<1>5. QED
  BY <1>2, <1>3, <1>4

\* the first words of the questions each pattern matches
Shape(q, n) ==
  \/ n = 1 /\ Len(q) = 1 /\ q[1] \in {"help", "?", "aide", "commands"}
  \/ n = 2 /\ Len(q) \in 3..4 /\ \/ q[1] = "access"
                                 \/ q[1] = "vlan" /\ Len(q) = 4
                                 \/ q[1] \in {"ports", "interfaces"} /\ Len(q) = 4
  \/ n = 3 /\ Len(q) = 4 /\ q[1] \in {"where", "who", "ou"}
  \/ n = 4 /\ AccessPlaces(q) = {} /\ q[1] = "vlan"
  \/ n = 5 /\ \/ Len(q) = 2 /\ q[1] \in {"default", "route"}
              \/ Len(q) = 3 /\ q[1] \in {"route", "passerelle"} /\ q[2] = "par"
  \/ n = 6 /\ Len(q) = 3 /\ q[1] \in {"route", "routes"} /\ q[2] \in {"to", "for", "vers"}
  \/ n = 7 /\ \/ Len(q) = 1 /\ q[1] = "trunks"
              \/ Len(q) \in 2..3 /\ q[1] \in {"trunk", "ports", "interfaces"}
  \/ n = 8 /\ Len(q) = 2 /\ q[1] \in DOMAIN Nouns
  \/ n = 9 /\ Len(q) \in 1..2 /\ (q[1] = "ntp" \/ (q[1] = "serveurs" /\ q[2] = "ntp"))
  \/ n = 10 /\ Len(q) \in 1..2 /\ (q[1] \in {"syslog", "logging"} \/ (q[1] = "serveurs" /\ q[2] = "syslog"))
  \/ n = 11 /\ Len(q) \in 1..2 /\ q[1] \in {"snmp", "communautes"}
  \/ n = 12 /\ Len(q) \in 1..2 /\ q[1] \in {"zones", "firewall"}
  \/ n = 13 /\ Len(q) \in 1..2 /\ q[1] \in {"policies", "security", "politiques"}

\* The first three words of a question of four.
LEMMA NaturalWords ==
  ASSUME NEW q, IsList(q), Len(q) = 4
  PROVE  SubSeq(q, 1, 3) = <<q[1], q[2], q[3]>>
<1>1. q \in Seq(ToSet(q))
  BY DEF IsList
<1>2. Len(q) \in Nat /\ DOMAIN q = 1..4
  BY ListLength
<1>3. \A i \in 1..3 : q[i] \in ToSet(q)
  BY <1>1, <1>2 DEF ToSet
<1>4. /\ SubSeq(q, 1, 3) \in Seq(ToSet(q)) /\ Len(SubSeq(q, 1, 3)) = 3
      /\ \A i \in 1..3 : SubSeq(q, 1, 3)[i] = q[i]
  BY <1>3, SubSeqProperties
<1>5. SubSeq(q, 1, 3) = [i \in 1..3 |-> SubSeq(q, 1, 3)[i]]
  BY <1>4
<1>6. SubSeq(q, 1, 3)[1] = q[1] /\ SubSeq(q, 1, 3)[2] = q[2] /\ SubSeq(q, 1, 3)[3] = q[3]
  BY <1>4
<1> DEFINE t == SubSeq(q, 1, 3)
<1> HIDE DEF t
<1>7. t = [i \in 1..3 |-> t[i]] /\ t[1] = q[1] /\ t[2] = q[2] /\ t[3] = q[3]
  BY <1>5, <1>6 DEF t
<1>8. t = <<q[1], q[2], q[3]>>
  BY <1>7
<1>9. QED
  BY <1>8 DEF t

\* A pattern matches no question of another shape.
LEMMA MatchingShaped ==
  ASSUME NEW q, IsList(q), NEW n \in Matching(q)
  PROVE  Shape(q, n)
<1>0. q # << >> => Head(q) = q[1]
  BY DEF IsList
<1>1. CASE n = 1
  BY <1>1, FixedWords DEF Matching, Shape
<1>2. CASE n = 2
  <2>1. PICK m : m \in AccessPlaces(q)
    BY <1>2 DEF Matching
  <2>2. QED
    BY <1>2, <2>1, AccessPlace DEF Shape
<1>3. CASE n = 3
  <2>1. IsNaturalVLAN(q)
    BY <1>3 DEF Matching
  <2>2. Len(q) = 4 /\ SubSeq(q, 1, 3) = <<q[1], q[2], q[3]>>
    BY <2>1, NaturalWords DEF IsNaturalVLAN
  <2>3. q[1] \in {"where", "who", "ou"}
    BY <2>1, <2>2 DEF IsNaturalVLAN
  <2>4. QED
    BY <1>3, <2>2, <2>3 DEF Shape
<1>4. CASE n = 4
  BY <1>0, <1>4 DEF Matching, Shape
<1>5. CASE n = 5
  BY <1>5, FixedWords DEF Matching, Shape
<1>6. CASE n = 6
  BY <1>6 DEF Matching, Shape, IsRouteDst
<1>7. CASE n = 7
  BY <1>7, FixedWords DEF Matching, Shape
<1>8. CASE n = 8
  <2>1. Len(q) = 2 /\ Head(q) \in DOMAIN Nouns
    BY <1>8 DEF Matching
  <2>2. q # << >>
    BY <2>1
  <2>3. QED
    BY <1>0, <1>8, <2>1, <2>2 DEF Shape
<1>9. CASE n = 9
  BY <1>9, FixedWords DEF Matching, Shape
<1>10. CASE n = 10
  BY <1>10, FixedWords DEF Matching, Shape
<1>11. CASE n = 11
  BY <1>11, FixedWords DEF Matching, Shape
<1>12. CASE n = 12
  BY <1>12, FixedWords DEF Matching, Shape
<1>13. CASE n = 13
  BY <1>13, FixedWords DEF Matching, Shape
<1>14. n \in 1..13
  BY DEF Matching
<1>15. QED
  BY <1>1, <1>2, <1>3, <1>4, <1>5, <1>6, <1>7, <1>8, <1>9, <1>10, <1>11, <1>12, <1>13, <1>14

\* A pattern without a number or a name fits itself.
LEMMA WordsFit ==
  ASSUME NEW q, IsList(q), NEW words, IsList(words), Fits(words, q),
         \A n \in DOMAIN words : words[n] \notin {"<id>", "<name>"}
  PROVE  q = words
<1>1. /\ Len(q) \in Nat /\ q = [n \in 1..Len(q) |-> q[n]]
      /\ Len(words) \in Nat /\ words = [n \in 1..Len(words) |-> words[n]] /\ DOMAIN words = 1..Len(words)
  BY DEF IsList
<1>2. Len(words) = Len(q) /\ \A n \in 1..Len(words) : words[n] = q[n]
  BY <1>1 DEF Fits
<1>3. QED
  BY <1>1, <1>2

\* What is written with a few entries is a list.
LEMMA ShortLists ==
  ASSUME NEW a, NEW b, NEW c, NEW d
  PROVE  IsList(<<a>>) /\ IsList(<<a, b>>) /\ IsList(<<a, b, c>>) /\ IsList(<<a, b, c, d>>)
<1> DEFINE S == {a, b, c, d}
<1>1. <<a>> \in Seq(S) /\ <<a, b>> \in Seq(S) /\ <<a, b, c>> \in Seq(S) /\ <<a, b, c, d>> \in Seq(S)
  OBVIOUS
<1>2. QED
  BY <1>1, SequenceIsList

\* A question of one pattern's shape is not matched by another.
LEMMA OnlyOne ==
  ASSUME NEW q, IsList(q), NEW n \in Matching(q), \A m \in 1..13 : Shape(q, m) => m = n
  PROVE  Matching(q) = {n}
<1>1. Matching(q) \subseteq 1..13
  BY DEF Matching
<1>2. QED
  BY <1>1, MatchingShaped

\* The questions of fixed words are matched by one pattern each.
LEMMA HelpAsked ==
  ASSUME NEW q, IsList(q), NEW words, Fits(words, q),
         words \in {<<"help">>, <<"?">>, <<"aide">>, <<"commands">>}
  PROVE  Matching(q) = {1} /\ q[1] # "find"
<1>1. IsList(words)
  BY ShortLists
<1>2. \A n \in DOMAIN words : words[n] \notin {"<id>", "<name>"}
  OBVIOUS
<1>3. q = words
  BY <1>1, <1>2, WordsFit
<1>4. q[1] # "find" /\ \A n \in 1..13 : Shape(q, n) => n = 1
  BY <1>3 DEF Shape, Nouns
<1>5. 1 \in Matching(q)
  BY <1>3 DEF Matching, HelpWords
<1>6. QED
  BY <1>4, <1>5, OnlyOne

\* A question for the default route matches its pattern only.
LEMMA DefaultRouteAsked ==
  ASSUME NEW q, IsList(q), NEW words, Fits(words, q),
         words \in {<<"default", "route">>, <<"default", "gateway">>, <<"route", "0/0">>, <<"route", "par", "defaut">>}
  PROVE  Matching(q) = {5} /\ q[1] # "find"
<1>1. IsList(words)
  BY ShortLists
<1>2. \A n \in DOMAIN words : words[n] \notin {"<id>", "<name>"}
  OBVIOUS
<1>3. q = words
  BY <1>1, <1>2, WordsFit
<1>4. q[1] # "find" /\ \A n \in 1..13 : Shape(q, n) => n = 5
  BY <1>3 DEF Shape, Nouns
<1>5. 5 \in Matching(q)
  BY <1>3 DEF Matching, DefaultRouteWords
<1>6. QED
  BY <1>4, <1>5, OnlyOne

\* And one for the trunks,
LEMMA TrunksAsked ==
  ASSUME NEW q, IsList(q), NEW words, Fits(words, q),
         words \in {<<"trunks">>, <<"trunk", "ports">>, <<"interfaces", "trunk">>, <<"interfaces", "en", "trunk">>}
  PROVE  Matching(q) = {7} /\ q[1] # "find"
<1>1. IsList(words)
  BY ShortLists
<1>2. \A n \in DOMAIN words : words[n] \notin {"<id>", "<name>"}
  OBVIOUS
<1>3. q = words
  BY <1>1, <1>2, WordsFit
<1>4. q[1] # "find" /\ \A n \in 1..13 : Shape(q, n) => n = 7
  BY <1>3 DEF Shape, Nouns
<1>5. 7 \in Matching(q)
  BY <1>3 DEF Matching, TrunkWords
<1>6. QED
  BY <1>4, <1>5, OnlyOne

\* for the NTP servers,
LEMMA NTPAsked ==
  ASSUME NEW q, IsList(q), NEW words, Fits(words, q),
         words \in {<<"ntp">>, <<"ntp", "servers">>, <<"serveurs", "ntp">>}
  PROVE  Matching(q) = {9} /\ q[1] # "find"
<1>1. IsList(words)
  BY ShortLists
<1>2. \A n \in DOMAIN words : words[n] \notin {"<id>", "<name>"}
  OBVIOUS
<1>3. q = words
  BY <1>1, <1>2, WordsFit
<1>4. q[1] # "find" /\ \A n \in 1..13 : Shape(q, n) => n = 9
  BY <1>3 DEF Shape, Nouns
<1>5. 9 \in Matching(q)
  BY <1>3 DEF Matching, NTPWords
<1>6. QED
  BY <1>4, <1>5, OnlyOne

\* for the syslog hosts,
LEMMA SyslogAsked ==
  ASSUME NEW q, IsList(q), NEW words, Fits(words, q),
         words \in {<<"syslog">>, <<"logging">>, <<"syslog", "hosts">>, <<"serveurs", "syslog">>}
  PROVE  Matching(q) = {10} /\ q[1] # "find"
<1>1. IsList(words)
  BY ShortLists
<1>2. \A n \in DOMAIN words : words[n] \notin {"<id>", "<name>"}
  OBVIOUS
<1>3. q = words
  BY <1>1, <1>2, WordsFit
<1>4. q[1] # "find" /\ \A n \in 1..13 : Shape(q, n) => n = 10
  BY <1>3 DEF Shape, Nouns
<1>5. 10 \in Matching(q)
  BY <1>3 DEF Matching, SyslogWords
<1>6. QED
  BY <1>4, <1>5, OnlyOne

\* for the SNMP communities,
LEMMA SNMPAsked ==
  ASSUME NEW q, IsList(q), NEW words, Fits(words, q),
         words \in {<<"snmp">>, <<"snmp", "communities">>, <<"communautes", "snmp">>}
  PROVE  Matching(q) = {11} /\ q[1] # "find"
<1>1. IsList(words)
  BY ShortLists
<1>2. \A n \in DOMAIN words : words[n] \notin {"<id>", "<name>"}
  OBVIOUS
<1>3. q = words
  BY <1>1, <1>2, WordsFit
<1>4. q[1] # "find" /\ \A n \in 1..13 : Shape(q, n) => n = 11
  BY <1>3 DEF Shape, Nouns
<1>5. 11 \in Matching(q)
  BY <1>3 DEF Matching, SNMPWords
<1>6. QED
  BY <1>4, <1>5, OnlyOne

\* for the zones,
LEMMA ZonesAsked ==
  ASSUME NEW q, IsList(q), NEW words, Fits(words, q),
         words \in {<<"zones">>, <<"firewall", "zones">>}
  PROVE  Matching(q) = {12} /\ q[1] # "find"
<1>1. IsList(words)
  BY ShortLists
<1>2. \A n \in DOMAIN words : words[n] \notin {"<id>", "<name>"}
  OBVIOUS
<1>3. q = words
  BY <1>1, <1>2, WordsFit
<1>4. q[1] # "find" /\ \A n \in 1..13 : Shape(q, n) => n = 12
  BY <1>3 DEF Shape, Nouns
<1>5. 12 \in Matching(q)
  BY <1>3 DEF Matching, ZoneWords
<1>6. QED
  BY <1>4, <1>5, OnlyOne

\* for the policies,
LEMMA PoliciesAsked ==
  ASSUME NEW q, IsList(q), NEW words, Fits(words, q),
         words \in {<<"policies">>, <<"security", "policies">>, <<"politiques">>}
  PROVE  Matching(q) = {13} /\ q[1] # "find"
<1>1. IsList(words)
  BY ShortLists
<1>2. \A n \in DOMAIN words : words[n] \notin {"<id>", "<name>"}
  OBVIOUS
<1>3. q = words
  BY <1>1, <1>2, WordsFit
<1>4. q[1] # "find" /\ \A n \in 1..13 : Shape(q, n) => n = 13
  BY <1>3 DEF Shape, Nouns
<1>5. 13 \in Matching(q)
  BY <1>3 DEF Matching, PolicyWords
<1>6. QED
  BY <1>4, <1>5, OnlyOne

\* A pattern fits a question word by word.
LEMMA FitsWord ==
  ASSUME NEW words, NEW q, Fits(words, q)
  PROVE  /\ Len(words) = Len(q)
         /\ \A n \in DOMAIN words : words[n] \notin {"<id>", "<name>"} => q[n] = words[n]
         /\ \A n \in DOMAIN words : words[n] = "<id>" => IsVLANWord(q[n])
BY DEF Fits

\* A word after two others makes three.
LEMMA ThreeWords ==
  ASSUME NEW a, NEW b, NEW c
  PROVE  <<a, b>> \o <<c>> = <<a, b, c>>
<1> DEFINE s == <<a, b>>
           t == <<c>>
           u == s \o t
<1>1. s \in Seq({a, b, c}) /\ t \in Seq({a, b, c}) /\ Len(s) = 2 /\ Len(t) = 1 /\ s[1] = a /\ s[2] = b /\ t[1] = c
  OBVIOUS
<1> HIDE DEF s, t
<1>2. u \in Seq({a, b, c}) /\ Len(u) = 3 /\ \A i \in 1..3 : u[i] = IF i <= 2 THEN s[i] ELSE t[i - 2]
  BY <1>1, ConcatProperties
<1>3. u[1] = a /\ u[2] = b /\ u[3] = c
  BY <1>1, <1>2
<1> HIDE DEF u
<1>4. u = [i \in 1..3 |-> u[i]]
  BY <1>2
<1>5. u = <<a, b, c>>
  BY <1>3, <1>4
<1>6. QED
  BY <1>5 DEF s, t, u

\* The questions with a name are matched by one pattern each.
LEMMA RouteAsked ==
  ASSUME NEW q, IsList(q), NEW words \in {<<"route", "to">>, <<"routes", "vers">>, <<"route", "for">>},
         Fits(words \o <<"<name>">>, q)
  PROVE  Matching(q) = {6} /\ q[1] # "find"
<1>1. words \o <<"<name>">> \in {<<"route", "to", "<name>">>, <<"routes", "vers", "<name>">>, <<"route", "for", "<name>">>}
  BY ThreeWords
<1>2. Len(q) = 3 /\ <<q[1], q[2]>> \in {<<"route", "to">>, <<"routes", "vers">>, <<"route", "for">>}
  <2> DEFINE w == words \o <<"<name>">>
  <2> HIDE DEF w
  <2>1. w \in {<<"route", "to", "<name>">>, <<"routes", "vers", "<name>">>, <<"route", "for", "<name>">>}
    BY <1>1 DEF w
  <2>2. Fits(w, q)
    BY DEF w
  <2>3. QED
    BY <2>1, <2>2 DEF Fits
<1>3. q[1] # "find" /\ \A n \in 1..13 : Shape(q, n) => n = 6
  BY <1>2 DEF Shape, Nouns
<1>4. 6 \in Matching(q)
  BY <1>2 DEF Matching, IsRouteDst
<1>5. QED
  BY <1>3, <1>4, OnlyOne

\* for a name after its noun,
LEMMA NounAsked ==
  ASSUME NEW q, IsList(q), NEW word \in DOMAIN Nouns, Fits(<<word, "<name>">>, q)
  PROVE  Matching(q) = {8} /\ Head(q) = word /\ q[1] # "find"
<1>1. word \in {"interface", "intf", "port", "acl", "access-list", "device", "host", "equipement", "switch"}
  BY DEF Nouns
<1>2. Len(q) = 2 /\ q[1] = word
  BY <1>1 DEF Fits
<1>3. Head(q) = word
  BY <1>2 DEF IsList
<1>4. q[1] # "find" /\ \A n \in 1..13 : Shape(q, n) => n = 8
  BY <1>1, <1>2 DEF Shape
<1>5. 8 \in Matching(q)
  BY <1>2, <1>3 DEF Matching
<1>6. QED
  BY <1>3, <1>4, <1>5, OnlyOne

\* for a VLAN by its number, with the mode its last word says,
LEMMA VLANAsked ==
  ASSUME NEW q, IsList(q), Len(q) \in 2..3, q[1] = "vlan", IsVLANWord(q[2]),
         Len(q) = 3 => q[3] \in DOMAIN VLANModes
  PROVE  /\ Matching(q) = {4}
         /\ Taken(q, 4).intent = "vlan"
         /\ Taken(q, 4).mode = IF Len(q) = 3 THEN VLANModes[q[3]] ELSE "used"
<1>1. AccessPlaces(q) = {}
  BY AccessPlace
<1>2. Head(q) = "vlan" /\ q # << >>
  BY DEF IsList
<1>3. \A n \in 1..13 : Shape(q, n) => n = 4
  BY DEF Shape, Nouns
<1>4. 4 \in Matching(q)
  BY <1>1, <1>2 DEF Matching
<1>5. Taken(q, 4) = VLANIntent(q)
  BY DEF Taken
<1>6. VLANIntent(q) = [Understood("vlan") EXCEPT !.id = VLANWord(q[2]), !.mode = IF Len(q) = 3 THEN VLANModes[q[3]] ELSE "used"]
  BY DEF VLANIntent
<1>7. QED
  BY <1>3, <1>4, <1>5, <1>6, OnlyOne DEF Understood

\* for a VLAN in a sentence,
LEMMA NaturalAsked ==
  ASSUME NEW q, IsList(q), NEW words \in {<<"where", "is", "vlan", "<id>">>, <<"who", "uses", "vlan", "<id>">>, <<"ou", "est", "vlan", "<id>">>},
         Fits(words, q)
  PROVE  /\ Matching(q) = {3} /\ q[1] # "find"
         /\ Taken(q, 3).intent = "vlan" /\ Taken(q, 3).mode = "used"
<1>1. /\ Len(q) = 4 /\ IsVLANWord(q[4])
      /\ <<q[1], q[2], q[3]>> \in {<<"where", "is", "vlan">>, <<"who", "uses", "vlan">>, <<"ou", "est", "vlan">>}
  <2>1. CASE words = <<"where", "is", "vlan", "<id>">>
    <3>1. DOMAIN words = 1..4 /\ Len(words) = 4 /\ words[1] = "where" /\ words[2] = "is" /\ words[3] = "vlan" /\ words[4] = "<id>"
      BY <2>1
    <3>2. 1 \in DOMAIN words /\ 2 \in DOMAIN words /\ 3 \in DOMAIN words /\ 4 \in DOMAIN words
      BY <3>1
    <3>3. Len(q) = 4 /\ q[1] = "where" /\ q[2] = "is" /\ q[3] = "vlan" /\ IsVLANWord(q[4])
      BY <3>1, <3>2, FitsWord
    <3>4. QED
      BY <3>3
  <2>2. CASE words = <<"who", "uses", "vlan", "<id>">>
    <3>1. DOMAIN words = 1..4 /\ Len(words) = 4 /\ words[1] = "who" /\ words[2] = "uses" /\ words[3] = "vlan" /\ words[4] = "<id>"
      BY <2>2
    <3>2. 1 \in DOMAIN words /\ 2 \in DOMAIN words /\ 3 \in DOMAIN words /\ 4 \in DOMAIN words
      BY <3>1
    <3>3. Len(q) = 4 /\ q[1] = "who" /\ q[2] = "uses" /\ q[3] = "vlan" /\ IsVLANWord(q[4])
      BY <3>1, <3>2, FitsWord
    <3>4. QED
      BY <3>3
  <2>3. CASE words = <<"ou", "est", "vlan", "<id>">>
    <3>1. DOMAIN words = 1..4 /\ Len(words) = 4 /\ words[1] = "ou" /\ words[2] = "est" /\ words[3] = "vlan" /\ words[4] = "<id>"
      BY <2>3
    <3>2. 1 \in DOMAIN words /\ 2 \in DOMAIN words /\ 3 \in DOMAIN words /\ 4 \in DOMAIN words
      BY <3>1
    <3>3. Len(q) = 4 /\ q[1] = "ou" /\ q[2] = "est" /\ q[3] = "vlan" /\ IsVLANWord(q[4])
      BY <3>1, <3>2, FitsWord
    <3>4. QED
      BY <3>3
  <2>4. QED
    BY <2>1, <2>2, <2>3
<1>2. q[1] # "find" /\ \A n \in 1..13 : Shape(q, n) => n = 3
  BY <1>1, AccessPlace DEF Shape, Nouns
<1>3. IsNaturalVLAN(q)
  BY <1>1, NaturalWords DEF IsNaturalVLAN
<1>4. 3 \in Matching(q)
  BY <1>3 DEF Matching
<1> DEFINE v == <<"vlan", q[4]>>
<1>5. Taken(q, 3) = VLANIntent(v)
  BY DEF Taken
<1>6. Len(v) = 2 /\ v[2] = q[4]
  OBVIOUS
<1> HIDE DEF v
<1>7. Len(v) \in 2..3 /\ Len(v) # 3
  BY <1>6
<1>8. VLANIntent(v) = [Understood("vlan") EXCEPT !.id = VLANWord(v[2]), !.mode = "used"]
  BY <1>1, <1>6, <1>7 DEF VLANIntent
<1>9. QED
  BY <1>2, <1>4, <1>5, <1>8, OnlyOne DEF Understood

\* and for the access ports of a VLAN.
LEMMA AccessAsked ==
  ASSUME NEW q, IsList(q), NEW words \in {<<"access", "vlan", "<id>">>, <<"vlan", "<id>", "access", "ports">>, <<"interfaces", "access", "vlan", "<id>">>},
         Fits(words, q)
  PROVE  /\ Matching(q) = {2} /\ q[1] # "find"
         /\ Taken(q, 2).intent = "access_vlan" /\ Taken(q, 2).mode = None
<1>1. \/ Len(q) = 3 /\ q[1] = "access" /\ q[2] = "vlan" /\ IsVLANWord(q[3])
      \/ Len(q) = 4 /\ q[1] = "vlan" /\ q[3] = "access" /\ q[4] = "ports" /\ IsVLANWord(q[2])
      \/ Len(q) = 4 /\ q[1] = "interfaces" /\ q[2] = "access" /\ q[3] = "vlan" /\ IsVLANWord(q[4])
  <2>1. CASE words = <<"access", "vlan", "<id>">>
    <3>1. DOMAIN words = 1..3 /\ Len(words) = 3 /\ words[1] = "access" /\ words[2] = "vlan" /\ words[3] = "<id>"
      BY <2>1
    <3>2. 1 \in DOMAIN words /\ 2 \in DOMAIN words /\ 3 \in DOMAIN words
      BY <3>1
    <3>3. Len(q) = 3 /\ q[1] = "access" /\ q[2] = "vlan" /\ IsVLANWord(q[3])
      BY <3>1, <3>2, FitsWord
    <3>4. QED
      BY <3>3
  <2>2. CASE words = <<"vlan", "<id>", "access", "ports">>
    <3>1. DOMAIN words = 1..4 /\ Len(words) = 4 /\ words[1] = "vlan" /\ words[2] = "<id>" /\ words[3] = "access" /\ words[4] = "ports"
      BY <2>2
    <3>2. 1 \in DOMAIN words /\ 2 \in DOMAIN words /\ 3 \in DOMAIN words /\ 4 \in DOMAIN words
      BY <3>1
    <3>3. Len(q) = 4 /\ q[1] = "vlan" /\ IsVLANWord(q[2]) /\ q[3] = "access" /\ q[4] = "ports"
      BY <3>1, <3>2, FitsWord
    <3>4. QED
      BY <3>3
  <2>3. CASE words = <<"interfaces", "access", "vlan", "<id>">>
    <3>1. DOMAIN words = 1..4 /\ Len(words) = 4 /\ words[1] = "interfaces" /\ words[2] = "access" /\ words[3] = "vlan" /\ words[4] = "<id>"
      BY <2>3
    <3>2. 1 \in DOMAIN words /\ 2 \in DOMAIN words /\ 3 \in DOMAIN words /\ 4 \in DOMAIN words
      BY <3>1
    <3>3. Len(q) = 4 /\ q[1] = "interfaces" /\ q[2] = "access" /\ q[3] = "vlan" /\ IsVLANWord(q[4])
      BY <3>1, <3>2, FitsWord
    <3>4. QED
      BY <3>3
  <2>4. QED
    BY <2>1, <2>2, <2>3
<1>2. PICK m : AccessPlaces(q) = {m} /\ IsVLANWord(q[m])
  BY <1>1, PlaceOfAccess
<1>3. q[1] # "find" /\ \A n \in 1..13 : Shape(q, n) => n = 2
  BY <1>1, <1>2 DEF Shape, Nouns
<1>4. 2 \in Matching(q)
  BY <1>2 DEF Matching
<1>5. (CHOOSE n \in AccessPlaces(q) : TRUE) = m
  BY <1>2
<1>6. Taken(q, 2) = AccessIntent(q)
  BY DEF Taken
<1>7. AccessIntent(q) = [Understood("access_vlan") EXCEPT !.id = VLANWord(q[m])]
  BY <1>2, <1>5 DEF AccessIntent
<1>8. QED
  BY <1>3, <1>4, <1>6, <1>7, OnlyOne DEF Understood

\* The first items of a list, picked in order, are the list up to there.
LEMMA FirstPicked ==
  ASSUME NEW items, IsList(items), NEW k \in Nat, k <= Len(items)
  PROVE  Picked(items, 1..k) = [n \in 1..k |-> items[n]]
<1> DEFINE order == InOrder(1..k)
           nth(n) == CHOOSE i \in 1..k : Cardinality({j \in 1..k : j < i}) = n - 1
<1>1. \A i \in 1..k : Cardinality({j \in 1..k : j < i}) = i - 1
  <2>1. TAKE i \in 1..k
  <2>2. {j \in 1..k : j < i} = 1 .. i - 1
    OBVIOUS
  <2>3. Cardinality(1 .. i - 1) = i - 1
    <3>1. 1 \in Int /\ i - 1 \in Int
      OBVIOUS
    <3>2. Cardinality(1 .. i - 1) = IF 1 > i - 1 THEN 0 ELSE i - 1 - 1 + 1
      BY <3>1, FS_Interval
    <3>3. QED
      BY <3>2
  <2>4. QED
    BY <2>2, <2>3
<1>2. \A n \in 1..k : nth(n) = n
  <2>1. TAKE n \in 1..k
  <2>2. \A i \in 1..k : Cardinality({j \in 1..k : j < i}) = n - 1 <=> i = n
    <3>1. TAKE i \in 1..k
    <3>2. Cardinality({j \in 1..k : j < i}) = i - 1
      BY <1>1
    <3>3. i - 1 = n - 1 <=> i = n
      OBVIOUS
    <3>4. QED
      BY <3>2, <3>3
  <2>3. QED
    BY <2>2
<1>3. Cardinality(1..k) = k
  <2>1. Cardinality(1..k) = IF 1 > k THEN 0 ELSE k - 1 + 1
    BY FS_Interval
  <2>2. QED
    BY <2>1
<1>4. order = [n \in 1..k |-> nth(n)]
  BY <1>3 DEF InOrder
<1> HIDE DEF nth
<1>5. order = [n \in 1..k |-> n]
  BY <1>2, <1>4
<1>6. Picked(items, 1..k) = [n \in DOMAIN order |-> items[order[n]]]
  BY DEF Picked
<1> HIDE DEF order
<1>7. QED
  BY <1>5, <1>6

\* A list is the list of its items.
LEMMA ListOfItems ==
  ASSUME NEW s, IsList(s)
  PROVE  s = [n \in 1 .. Len(s) |-> s[n]]
BY DEF IsList

\* A question without a "?" keeps every word, and with one at its end loses that one.
LEMMA MarkGoes ==
  ASSUME NEW q, IsList(q), "?" \notin ToSet(q)
  PROVE  Unmarked(q) = q /\ Unmarked(q \o <<"?">>) = q
<1> DEFINE S == ToSet(q) \cup {"?"}
           f == q \o <<"?">>
           k == Len(q)
<1>1. k \in Nat /\ DOMAIN q = 1..k
  BY ListLength
<1>2. \A n \in 1..k : q[n] # "?"
  BY <1>1 DEF ToSet
<1>3. q = [n \in 1..k |-> q[n]]
  BY ListOfItems
<1>4. Unmarked(q) = q
  <2>1. {n \in DOMAIN q : q[n] # "?"} = 1..k
    BY <1>1, <1>2
  <2>2. Picked(q, 1..k) = [n \in 1..k |-> q[n]]
    BY <1>1, FirstPicked
  <2>3. QED
    BY <1>3, <2>1, <2>2 DEF Unmarked
<1>5. q \in Seq(S) /\ <<"?">> \in Seq(S) /\ Len(<<"?">>) = 1 /\ <<"?">>[1] = "?"
  BY DEF IsList
<1> HIDE DEF S
<1>6. f \in Seq(S) /\ Len(f) = k + 1 /\ \A n \in 1 .. k + 1 : f[n] = IF n <= k THEN q[n] ELSE <<"?">>[n - k]
  BY <1>5, ConcatProperties
<1> HIDE DEF f, k
<1>7. DOMAIN f = 1 .. k + 1 /\ IsList(f)
  BY <1>6, SequenceIsList, ListLength
<1>8. (\A n \in 1..k : f[n] = q[n]) /\ f[k + 1] = "?"
  <2>1. \A n \in 1..k : n \in 1 .. k + 1 /\ n <= k
    BY <1>1
  <2>2. k + 1 \in 1 .. k + 1 /\ ~(k + 1 <= k) /\ k + 1 - k = 1
    BY <1>1
  <2>3. f[k + 1] = "?"
    <3>1. ASSUME NEW i, i = k + 1
          PROVE  f[i] = "?"
      <4>1. i \in 1 .. k + 1 /\ ~(i <= k)
        BY <2>2, <3>1
      <4>2. f[i] = IF i <= k THEN q[i] ELSE <<"?">>[i - k]
        BY <1>6, <4>1
      <4>3. i - k = 1
        BY <1>1, <3>1
      <4>4. <<"?">>[i - k] = "?"
        BY <1>5, <4>3
      <4>5. QED
        BY <4>1, <4>2, <4>4
    <3>2. QED
      BY <3>1
  <2>4. QED
    BY <1>5, <1>6, <2>1, <2>2, <2>3
<1>9. {n \in DOMAIN f : f[n] # "?"} = 1..k
  <2>1. \A n \in 1 .. k + 1 : n \in 1..k \/ n = k + 1
    BY <1>1
  <2>2. \A n \in 1..k : n \in 1 .. k + 1
    BY <1>1
  <2>3. QED
    BY <1>1, <1>2, <1>7, <1>8, <2>1, <2>2
<1>10. Picked(f, 1..k) = [n \in 1..k |-> f[n]]
  BY <1>1, <1>6, <1>7, FirstPicked
<1>11. [n \in 1..k |-> f[n]] = [n \in 1..k |-> q[n]]
  BY <1>8
<1>12. Unmarked(f) = q
  BY <1>3, <1>9, <1>10, <1>11 DEF Unmarked
<1>13. QED
  BY <1>4, <1>12 DEF f

\* "find" before a question
LEMMA FindBefore ==
  ASSUME NEW q, IsList(q)
  PROVE  LET f == <<"find">> \o q IN
         IsList(f) /\ f # << >> /\ Head(f) = "find" /\ Tail(f) = q /\ ToSet(f) = ToSet(q) \cup {"find"}
<1> DEFINE f == <<"find">> \o q
           S == ToSet(q) \cup {"find"}
<1>1. q \in Seq(S) /\ <<"find">> \in Seq(S) /\ Len(<<"find">>) = 1 /\ <<"find">>[1] = "find" /\ Len(q) \in Nat
      /\ DOMAIN q = 1 .. Len(q)
  BY DEF IsList
<1> HIDE DEF S
<1>2. f \in Seq(S) /\ Len(f) = 1 + Len(q) /\ \A i \in 1 .. 1 + Len(q) : f[i] = IF i <= 1 THEN "find" ELSE q[i - 1]
  BY <1>1, ConcatProperties
<1> HIDE DEF f
<1>3. f # << >> /\ Head(f) = "find"
  BY <1>1, <1>2
<1>4. Tail(f) \in Seq(S) /\ Len(Tail(f)) = Len(q) /\ \A i \in 1 .. Len(q) : Tail(f)[i] = q[i]
  BY <1>1, <1>2, <1>3, HeadTailProperties
<1>5. Tail(f) = q
  BY <1>1, <1>4, SeqEqual
<1>6. IsList(f) /\ DOMAIN f = 1 .. 1 + Len(q)
  BY <1>2, SequenceIsList
<1>7. ToSet(f) = ToSet(q) \cup {"find"}
  <2>1. f[1] = "find" /\ 1 \in DOMAIN f
    BY <1>1, <1>2, <1>6
  <2>2. \A i \in 1 .. Len(q) : i + 1 \in DOMAIN f /\ f[i + 1] = q[i]
    <3>1. TAKE i \in 1 .. Len(q)
    <3>2. i + 1 \in 1 .. 1 + Len(q) /\ ~(i + 1 <= 1) /\ i + 1 - 1 = i
      BY <1>1
    <3>3. f[i + 1] = q[i + 1 - 1]
      BY <1>2, <3>2
    <3>4. QED
      BY <1>6, <3>2, <3>3
  <2>3. \A x \in ToSet(q) : \E i \in 1 .. Len(q) : x = q[i]
    BY <1>1 DEF ToSet
  <2>4. \A x \in ToSet(q) \cup {"find"} : x \in ToSet(f)
    BY <2>1, <2>2, <2>3 DEF ToSet
  <2>5. \A x \in ToSet(f) : x \in ToSet(q) \cup {"find"}
    <3>1. \A x \in ToSet(f) : \E i \in 1 .. 1 + Len(q) : x = f[i]
      BY <1>6 DEF ToSet
    <3>2. \A i \in 1 .. 1 + Len(q) : i <= 1 \/ i - 1 \in 1 .. Len(q)
      BY <1>1
    <3>3. \A i \in 1 .. Len(q) : q[i] \in ToSet(q)
      BY <1>1 DEF ToSet
    <3>4. \A i \in 1 .. 1 + Len(q) : f[i] \in ToSet(q) \cup {"find"}
      BY <1>2, <3>2, <3>3
    <3>5. QED
      BY <3>1, <3>4
  <2>6. QED
    BY <2>4, <2>5
<1>8. QED
  BY <1>3, <1>5, <1>6, <1>7 DEF f

\* A question is understood by the one pattern it matches, and the same after "find" and before
\* a "?", unless it is "?" itself.
LEMMA AfterFind ==
  ASSUME NEW q, IsList(q), q # << >>, q[1] # "find", "?" \in ToSet(q) => q = <<"?">>,
         NEW n \in 1..13, Matching(q) = {n}
  PROVE  /\ ParseQuery(q) = Taken(q, n)
         /\ q # <<"?">> => /\ ParseQuery(<<"find">> \o q) = Taken(q, n)
                           /\ ParseQuery(q \o <<"?">>) = Taken(q, n)
<1>1. Head(q) = q[1]
  BY DEF IsList
<1>2. Unprefixed(q) = q
  BY <1>1 DEF Unprefixed
<1>3. CASE q = <<"?">>
  <2>1. Asked(q) = q
    BY <1>3 DEF Asked
  <2>2. QED
    BY <1>3, <2>1, OneMatches
<1>4. CASE q # <<"?">>
  <2>1. "?" \notin ToSet(q)
    BY <1>4
  <2>2. Unmarked(q) = q /\ Unmarked(q \o <<"?">>) = q
    BY <2>1, MarkGoes
  <2>3. Asked(q) = q
    BY <1>2, <1>4, <2>2 DEF Asked
  <2> DEFINE f == <<"find">> \o q
             g == q \o <<"?">>
  <2>4. IsList(f) /\ f # << >> /\ Head(f) = "find" /\ Tail(f) = q /\ ToSet(f) = ToSet(q) \cup {"find"}
    BY FindBefore
  <2>5. Asked(g) = q
    <3>1. g # <<"?">>
      <4>1. Unmarked(g) = q /\ q # << >>
        BY <2>2
      <4>2. Unmarked(<<"?">>) = << >>
        <5>1. IsList(<< >>) /\ "?" \notin ToSet(<< >>)
          BY DEF IsList, ToSet
        <5>2. << >> \o <<"?">> = <<"?">>
          OBVIOUS
        <5>3. QED
          BY <5>1, <5>2, MarkGoes
      <4> HIDE DEF g
      <4>3. QED
        BY <4>1, <4>2
    <3>2. Unmarked(g) = q
      BY <2>2
    <3> HIDE DEF g
    <3>3. QED
      BY <1>2, <3>1, <3>2 DEF Asked
  <2> HIDE DEF f
  <2>6. Asked(f) = q
    <3>1. "?" \notin ToSet(f)
      BY <2>1, <2>4
    <3>2. Unmarked(f) = f
      BY <2>4, <3>1, MarkGoes
    <3>3. f # <<"?">>
      <4>1. Head(<<"?">>) = "?"
        OBVIOUS
      <4>2. QED
        BY <2>4, <4>1
    <3>4. Unprefixed(f) = q
      BY <2>4 DEF Unprefixed
    <3>5. QED
      BY <3>2, <3>3, <3>4 DEF Asked
  <2> HIDE DEF g
  <2>7. ParseQuery(q) = Taken(q, n) /\ ParseQuery(f) = Taken(q, n) /\ ParseQuery(g) = Taken(q, n)
    BY <2>3, <2>5, <2>6, OneMatches
  <2>8. QED
    BY <2>7 DEF f, g
<1>5. QED
  BY <1>3, <1>4

\* One pattern matches a question and has it understood as a pattern of "help" says.
UnderstoodAs(q, intent, mode) ==
  /\ q # << >> /\ q[1] # "find"
  /\ \E n \in 1..13 : Matching(q) = {n} /\ Taken(q, n).intent = intent /\ Taken(q, n).mode = mode

\* The questions of fixed words, and with a name.
LEMMA FixedUnderstood ==
  ASSUME NEW q, IsList(q), NEW words, Fits(words, q)
  PROVE  /\ words \in {<<"help">>, <<"?">>, <<"aide">>, <<"commands">>} => UnderstoodAs(q, "help", None)
         /\ words \in {<<"default", "route">>, <<"default", "gateway">>, <<"route", "0/0">>, <<"route", "par", "defaut">>} => UnderstoodAs(q, "default_route", None)
         /\ words \in {<<"trunks">>, <<"trunk", "ports">>, <<"interfaces", "trunk">>, <<"interfaces", "en", "trunk">>} => UnderstoodAs(q, "trunks", None)
         /\ words \in {<<"ntp">>, <<"ntp", "servers">>, <<"serveurs", "ntp">>} => UnderstoodAs(q, "ntp", None)
         /\ words \in {<<"syslog">>, <<"logging">>, <<"syslog", "hosts">>, <<"serveurs", "syslog">>} => UnderstoodAs(q, "syslog", None)
         /\ words \in {<<"snmp">>, <<"snmp", "communities">>, <<"communautes", "snmp">>} => UnderstoodAs(q, "snmp", None)
         /\ words \in {<<"zones">>, <<"firewall", "zones">>} => UnderstoodAs(q, "zones", None)
         /\ words \in {<<"policies">>, <<"security", "policies">>, <<"politiques">>} => UnderstoodAs(q, "policies", None)
<1>0. q = << >> => Len(q) = 0
  OBVIOUS
<1>99. Len(words) = Len(q)
  BY FitsWord
<1>1. ASSUME words \in {<<"help">>, <<"?">>, <<"aide">>, <<"commands">>}
      PROVE  UnderstoodAs(q, "help", None)
  <2>1. Matching(q) = {1} /\ q[1] # "find"
    BY <1>1, HelpAsked
  <2>2. q # << >>
    BY <1>0, <1>99, <1>1
  <2>3. Taken(q, 1) = Understood("help")
    BY DEF Taken
  <2>4. QED
    BY <2>1, <2>2, <2>3 DEF UnderstoodAs, Understood
<1>2. ASSUME words \in {<<"default", "route">>, <<"default", "gateway">>, <<"route", "0/0">>, <<"route", "par", "defaut">>}
      PROVE  UnderstoodAs(q, "default_route", None)
  <2>1. Matching(q) = {5} /\ q[1] # "find"
    BY <1>2, DefaultRouteAsked
  <2>2. q # << >>
    BY <1>0, <1>99, <1>2
  <2>3. Taken(q, 5) = Understood("default_route")
    BY DEF Taken
  <2>4. QED
    BY <2>1, <2>2, <2>3 DEF UnderstoodAs, Understood
<1>3. ASSUME words \in {<<"trunks">>, <<"trunk", "ports">>, <<"interfaces", "trunk">>, <<"interfaces", "en", "trunk">>}
      PROVE  UnderstoodAs(q, "trunks", None)
  <2>1. Matching(q) = {7} /\ q[1] # "find"
    BY <1>3, TrunksAsked
  <2>2. q # << >>
    BY <1>0, <1>99, <1>3
  <2>3. Taken(q, 7) = Understood("trunks")
    BY DEF Taken
  <2>4. QED
    BY <2>1, <2>2, <2>3 DEF UnderstoodAs, Understood
<1>4. ASSUME words \in {<<"ntp">>, <<"ntp", "servers">>, <<"serveurs", "ntp">>}
      PROVE  UnderstoodAs(q, "ntp", None)
  <2>1. Matching(q) = {9} /\ q[1] # "find"
    BY <1>4, NTPAsked
  <2>2. q # << >>
    BY <1>0, <1>99, <1>4
  <2>3. Taken(q, 9) = Understood("ntp")
    BY DEF Taken
  <2>4. QED
    BY <2>1, <2>2, <2>3 DEF UnderstoodAs, Understood
<1>5. ASSUME words \in {<<"syslog">>, <<"logging">>, <<"syslog", "hosts">>, <<"serveurs", "syslog">>}
      PROVE  UnderstoodAs(q, "syslog", None)
  <2>1. Matching(q) = {10} /\ q[1] # "find"
    BY <1>5, SyslogAsked
  <2>2. q # << >>
    BY <1>0, <1>99, <1>5
  <2>3. Taken(q, 10) = Understood("syslog")
    BY DEF Taken
  <2>4. QED
    BY <2>1, <2>2, <2>3 DEF UnderstoodAs, Understood
<1>6. ASSUME words \in {<<"snmp">>, <<"snmp", "communities">>, <<"communautes", "snmp">>}
      PROVE  UnderstoodAs(q, "snmp", None)
  <2>1. Matching(q) = {11} /\ q[1] # "find"
    BY <1>6, SNMPAsked
  <2>2. q # << >>
    BY <1>0, <1>99, <1>6
  <2>3. Taken(q, 11) = Understood("snmp")
    BY DEF Taken
  <2>4. QED
    BY <2>1, <2>2, <2>3 DEF UnderstoodAs, Understood
<1>7. ASSUME words \in {<<"zones">>, <<"firewall", "zones">>}
      PROVE  UnderstoodAs(q, "zones", None)
  <2>1. Matching(q) = {12} /\ q[1] # "find"
    BY <1>7, ZonesAsked
  <2>2. q # << >>
    BY <1>0, <1>99, <1>7
  <2>3. Taken(q, 12) = Understood("zones")
    BY DEF Taken
  <2>4. QED
    BY <2>1, <2>2, <2>3 DEF UnderstoodAs, Understood
<1>8. ASSUME words \in {<<"policies">>, <<"security", "policies">>, <<"politiques">>}
      PROVE  UnderstoodAs(q, "policies", None)
  <2>1. Matching(q) = {13} /\ q[1] # "find"
    BY <1>8, PoliciesAsked
  <2>2. q # << >>
    BY <1>0, <1>99, <1>8
  <2>3. Taken(q, 13) = Understood("policies")
    BY DEF Taken
  <2>4. QED
    BY <2>1, <2>2, <2>3 DEF UnderstoodAs, Understood
<1>9. QED
  BY <1>1, <1>2, <1>3, <1>4, <1>5, <1>6, <1>7, <1>8

\* ParseQuery understands the questions that name something,
LEMMA NamedUnderstood ==
  ASSUME NEW q, IsList(q), NEW words, Fits(words, q)
  PROVE  /\ \A w \in {<<"route", "to">>, <<"routes", "vers">>, <<"route", "for">>} :
              words = w \o <<"<name>">> => UnderstoodAs(q, "route_dst", None)
         /\ \A word \in DOMAIN Nouns : words = <<word, "<name>">> => UnderstoodAs(q, Nouns[word], None)
<1>1. ASSUME NEW w \in {<<"route", "to">>, <<"routes", "vers">>, <<"route", "for">>}, words = w \o <<"<name>">>
      PROVE  UnderstoodAs(q, "route_dst", None)
  <2>1. Matching(q) = {6} /\ q[1] # "find"
    BY <1>1, RouteAsked
  <2>2. q # << >>
    <3>1. 6 \in Matching(q)
      BY <2>1
    <3>2. IsRouteDst(q)
      BY <3>1 DEF Matching
    <3>3. Len(q) = 3
      BY <3>2 DEF IsRouteDst
    <3>4. QED
      BY <3>3
  <2>3. Taken(q, 6) = [Understood("route_dst") EXCEPT !.name = q[3]]
    BY DEF Taken
  <2>5. Taken(q, 6).intent = "route_dst" /\ Taken(q, 6).mode = None
    BY <2>3 DEF Understood
  <2>4. QED
    BY <2>1, <2>2, <2>5 DEF UnderstoodAs
<1>2. ASSUME NEW word \in DOMAIN Nouns, words = <<word, "<name>">>
      PROVE  UnderstoodAs(q, Nouns[word], None)
  <2>1. Matching(q) = {8} /\ q[1] # "find" /\ Head(q) = word
    BY <1>2, NounAsked
  <2>2. q # << >>
    <3>1. 8 \in Matching(q)
      BY <2>1
    <3>2. Len(q) = 2
      BY <3>1 DEF Matching
    <3>3. QED
      BY <3>2
  <2>3. Taken(q, 8) = [Understood(Nouns[word]) EXCEPT !.name = q[2]]
    BY <2>1 DEF Taken
  <2>5. Taken(q, 8).intent = Nouns[word] /\ Taken(q, 8).mode = None
    BY <2>3 DEF Understood
  <2>4. QED
    BY <2>1, <2>2, <2>5 DEF UnderstoodAs
<1>3. QED
  BY <1>1, <1>2

\* and those that name a VLAN, with the mode each one asks for.
LEMMA NumberUnderstood ==
  ASSUME NEW q, IsList(q), NEW words, Fits(words, q)
  PROVE  /\ words \in {<<"vlan", "<id>">>, <<"vlan", "<id>", "used">>, <<"vlan", "<id>", "active">>} => UnderstoodAs(q, "vlan", "used")
         /\ words = <<"vlan", "<id>", "declared">> => UnderstoodAs(q, "vlan", "declared")
         /\ words = <<"vlan", "<id>", "trunks">> => UnderstoodAs(q, "vlan", "trunks")
         /\ words = <<"vlan", "<id>", "access">> => UnderstoodAs(q, "vlan", "access")
         /\ words \in {<<"where", "is", "vlan", "<id>">>, <<"who", "uses", "vlan", "<id>">>, <<"ou", "est", "vlan", "<id>">>} =>
              UnderstoodAs(q, "vlan", "used")
         /\ words \in {<<"access", "vlan", "<id>">>, <<"vlan", "<id>", "access", "ports">>, <<"interfaces", "access", "vlan", "<id>">>} =>
              UnderstoodAs(q, "access_vlan", None)
<1>1. ASSUME words = <<"vlan", "<id>">>
      PROVE  UnderstoodAs(q, "vlan", "used")
  <2>1. DOMAIN words = 1..2 /\ Len(words) = 2 /\ words[1] = "vlan" /\ words[2] = "<id>"
    BY <1>1
  <2>2. 1 \in DOMAIN words /\ 2 \in DOMAIN words
    BY <2>1
  <2>3. Len(q) = 2 /\ q[1] = "vlan" /\ IsVLANWord(q[2])
    BY <2>1, <2>2, FitsWord
  <2>4. Len(q) \in 2..3 /\ (Len(q) = 3 => q[3] \in DOMAIN VLANModes)
    BY <2>3 DEF VLANModes
  <2>5. Matching(q) = {4} /\ Taken(q, 4).intent = "vlan" /\ Taken(q, 4).mode = IF Len(q) = 3 THEN VLANModes[q[3]] ELSE "used"
    BY <2>3, <2>4, VLANAsked
  <2>6. Taken(q, 4).mode = "used"
    BY <2>3, <2>5 DEF VLANModes
  <2>7. q # << >>
    BY <2>3
  <2>8. QED
    BY <2>3, <2>5, <2>6, <2>7 DEF UnderstoodAs
<1>2. ASSUME words = <<"vlan", "<id>", "used">>
      PROVE  UnderstoodAs(q, "vlan", "used")
  <2>1. DOMAIN words = 1..3 /\ Len(words) = 3 /\ words[1] = "vlan" /\ words[2] = "<id>" /\ words[3] = "used"
    BY <1>2
  <2>2. 1 \in DOMAIN words /\ 2 \in DOMAIN words /\ 3 \in DOMAIN words
    BY <2>1
  <2>3. Len(q) = 3 /\ q[1] = "vlan" /\ IsVLANWord(q[2]) /\ q[3] = "used"
    BY <2>1, <2>2, FitsWord
  <2>4. Len(q) \in 2..3 /\ (Len(q) = 3 => q[3] \in DOMAIN VLANModes)
    BY <2>3 DEF VLANModes
  <2>5. Matching(q) = {4} /\ Taken(q, 4).intent = "vlan" /\ Taken(q, 4).mode = IF Len(q) = 3 THEN VLANModes[q[3]] ELSE "used"
    BY <2>3, <2>4, VLANAsked
  <2>6. Taken(q, 4).mode = "used"
    BY <2>3, <2>5 DEF VLANModes
  <2>7. q # << >>
    BY <2>3
  <2>8. QED
    BY <2>3, <2>5, <2>6, <2>7 DEF UnderstoodAs
<1>3. ASSUME words = <<"vlan", "<id>", "active">>
      PROVE  UnderstoodAs(q, "vlan", "used")
  <2>1. DOMAIN words = 1..3 /\ Len(words) = 3 /\ words[1] = "vlan" /\ words[2] = "<id>" /\ words[3] = "active"
    BY <1>3
  <2>2. 1 \in DOMAIN words /\ 2 \in DOMAIN words /\ 3 \in DOMAIN words
    BY <2>1
  <2>3. Len(q) = 3 /\ q[1] = "vlan" /\ IsVLANWord(q[2]) /\ q[3] = "active"
    BY <2>1, <2>2, FitsWord
  <2>4. Len(q) \in 2..3 /\ (Len(q) = 3 => q[3] \in DOMAIN VLANModes)
    BY <2>3 DEF VLANModes
  <2>5. Matching(q) = {4} /\ Taken(q, 4).intent = "vlan" /\ Taken(q, 4).mode = IF Len(q) = 3 THEN VLANModes[q[3]] ELSE "used"
    BY <2>3, <2>4, VLANAsked
  <2>6. Taken(q, 4).mode = "used"
    BY <2>3, <2>5 DEF VLANModes
  <2>7. q # << >>
    BY <2>3
  <2>8. QED
    BY <2>3, <2>5, <2>6, <2>7 DEF UnderstoodAs
<1>4. ASSUME words = <<"vlan", "<id>", "declared">>
      PROVE  UnderstoodAs(q, "vlan", "declared")
  <2>1. DOMAIN words = 1..3 /\ Len(words) = 3 /\ words[1] = "vlan" /\ words[2] = "<id>" /\ words[3] = "declared"
    BY <1>4
  <2>2. 1 \in DOMAIN words /\ 2 \in DOMAIN words /\ 3 \in DOMAIN words
    BY <2>1
  <2>3. Len(q) = 3 /\ q[1] = "vlan" /\ IsVLANWord(q[2]) /\ q[3] = "declared"
    BY <2>1, <2>2, FitsWord
  <2>4. Len(q) \in 2..3 /\ (Len(q) = 3 => q[3] \in DOMAIN VLANModes)
    BY <2>3 DEF VLANModes
  <2>5. Matching(q) = {4} /\ Taken(q, 4).intent = "vlan" /\ Taken(q, 4).mode = IF Len(q) = 3 THEN VLANModes[q[3]] ELSE "used"
    BY <2>3, <2>4, VLANAsked
  <2>6. Taken(q, 4).mode = "declared"
    BY <2>3, <2>5 DEF VLANModes
  <2>7. q # << >>
    BY <2>3
  <2>8. QED
    BY <2>3, <2>5, <2>6, <2>7 DEF UnderstoodAs
<1>5. ASSUME words = <<"vlan", "<id>", "trunks">>
      PROVE  UnderstoodAs(q, "vlan", "trunks")
  <2>1. DOMAIN words = 1..3 /\ Len(words) = 3 /\ words[1] = "vlan" /\ words[2] = "<id>" /\ words[3] = "trunks"
    BY <1>5
  <2>2. 1 \in DOMAIN words /\ 2 \in DOMAIN words /\ 3 \in DOMAIN words
    BY <2>1
  <2>3. Len(q) = 3 /\ q[1] = "vlan" /\ IsVLANWord(q[2]) /\ q[3] = "trunks"
    BY <2>1, <2>2, FitsWord
  <2>4. Len(q) \in 2..3 /\ (Len(q) = 3 => q[3] \in DOMAIN VLANModes)
    BY <2>3 DEF VLANModes
  <2>5. Matching(q) = {4} /\ Taken(q, 4).intent = "vlan" /\ Taken(q, 4).mode = IF Len(q) = 3 THEN VLANModes[q[3]] ELSE "used"
    BY <2>3, <2>4, VLANAsked
  <2>6. Taken(q, 4).mode = "trunks"
    BY <2>3, <2>5 DEF VLANModes
  <2>7. q # << >>
    BY <2>3
  <2>8. QED
    BY <2>3, <2>5, <2>6, <2>7 DEF UnderstoodAs
<1>6. ASSUME words = <<"vlan", "<id>", "access">>
      PROVE  UnderstoodAs(q, "vlan", "access")
  <2>1. DOMAIN words = 1..3 /\ Len(words) = 3 /\ words[1] = "vlan" /\ words[2] = "<id>" /\ words[3] = "access"
    BY <1>6
  <2>2. 1 \in DOMAIN words /\ 2 \in DOMAIN words /\ 3 \in DOMAIN words
    BY <2>1
  <2>3. Len(q) = 3 /\ q[1] = "vlan" /\ IsVLANWord(q[2]) /\ q[3] = "access"
    BY <2>1, <2>2, FitsWord
  <2>4. Len(q) \in 2..3 /\ (Len(q) = 3 => q[3] \in DOMAIN VLANModes)
    BY <2>3 DEF VLANModes
  <2>5. Matching(q) = {4} /\ Taken(q, 4).intent = "vlan" /\ Taken(q, 4).mode = IF Len(q) = 3 THEN VLANModes[q[3]] ELSE "used"
    BY <2>3, <2>4, VLANAsked
  <2>6. Taken(q, 4).mode = "access"
    BY <2>3, <2>5 DEF VLANModes
  <2>7. q # << >>
    BY <2>3
  <2>8. QED
    BY <2>3, <2>5, <2>6, <2>7 DEF UnderstoodAs
<1>7. ASSUME words \in {<<"where", "is", "vlan", "<id>">>, <<"who", "uses", "vlan", "<id>">>, <<"ou", "est", "vlan", "<id>">>}
      PROVE  UnderstoodAs(q, "vlan", "used")
  <2>1. Matching(q) = {3} /\ q[1] # "find" /\ Taken(q, 3).intent = "vlan" /\ Taken(q, 3).mode = "used"
    BY <1>7, NaturalAsked
  <2>2. Len(words) # 0 /\ Len(words) = Len(q)
    BY <1>7, FitsWord
  <2>3. q # << >>
    BY <2>2
  <2>4. QED
    BY <2>1, <2>3 DEF UnderstoodAs
<1>8. ASSUME words \in {<<"access", "vlan", "<id>">>, <<"vlan", "<id>", "access", "ports">>, <<"interfaces", "access", "vlan", "<id>">>}
      PROVE  UnderstoodAs(q, "access_vlan", None)
  <2>1. Matching(q) = {2} /\ q[1] # "find" /\ Taken(q, 2).intent = "access_vlan" /\ Taken(q, 2).mode = None
    BY <1>8, AccessAsked
  <2>2. Len(words) # 0 /\ Len(words) = Len(q)
    BY <1>8, FitsWord
  <2>3. q # << >>
    BY <2>2
  <2>4. QED
    BY <2>1, <2>3 DEF UnderstoodAs
<1>9. QED
  BY <1>1, <1>2, <1>3, <1>4, <1>5, <1>6, <1>7, <1>8

\* A question of a pattern "help" lists is understood as that pattern.
LEMMA DocumentedUnderstood ==
  ASSUME NEW q, IsList(q), NEW doc \in Documented, Fits(doc.words, q)
  PROVE  UnderstoodAs(q, doc.intent, doc.mode)
<1> DEFINE words == doc.words
<1>1. Fits(words, q)
  OBVIOUS
<1>2. CASE doc \in {Pattern(<<"vlan", "<id>">>, "vlan", "used"), Pattern(<<"vlan", "<id>", "used">>, "vlan", "used"),
                    Pattern(<<"vlan", "<id>", "active">>, "vlan", "used"), Pattern(<<"vlan", "<id>", "declared">>, "vlan", "declared"),
                    Pattern(<<"vlan", "<id>", "trunks">>, "vlan", "trunks"), Pattern(<<"vlan", "<id>", "access">>, "vlan", "access")}
  BY <1>1, <1>2, NumberUnderstood DEF Pattern
<1>3. CASE \E w \in {<<"where", "is", "vlan", "<id>">>, <<"who", "uses", "vlan", "<id>">>, <<"ou", "est", "vlan", "<id>">>} :
             doc = Pattern(w, "vlan", "used")
  BY <1>1, <1>3, NumberUnderstood DEF Pattern
<1>4. CASE \E w \in {<<"access", "vlan", "<id>">>, <<"vlan", "<id>", "access", "ports">>, <<"interfaces", "access", "vlan", "<id>">>} :
             doc = Pattern(w, "access_vlan", None)
  BY <1>1, <1>4, NumberUnderstood DEF Pattern
<1>5. CASE \E w \in {<<"trunks">>, <<"trunk", "ports">>, <<"interfaces", "trunk">>, <<"interfaces", "en", "trunk">>} :
             doc = Pattern(w, "trunks", None)
  BY <1>1, <1>5, FixedUnderstood DEF Pattern
<1>6. CASE \E w \in {<<"default", "route">>, <<"default", "gateway">>, <<"route", "0/0">>, <<"route", "par", "defaut">>} :
             doc = Pattern(w, "default_route", None)
  BY <1>1, <1>6, FixedUnderstood DEF Pattern
<1>7. CASE \E w \in {<<"route", "to">>, <<"routes", "vers">>, <<"route", "for">>} :
             doc = Pattern(w \o <<"<name>">>, "route_dst", None)
  <2>1. PICK w \in {<<"route", "to">>, <<"routes", "vers">>, <<"route", "for">>} :
          doc = Pattern(w \o <<"<name>">>, "route_dst", None)
    BY <1>7
  <2>2. words = w \o <<"<name>">> /\ doc.intent = "route_dst" /\ doc.mode = None
    BY <2>1 DEF Pattern
  <2> HIDE DEF words
  <2>3. UnderstoodAs(q, "route_dst", None)
    BY <1>1, <2>2, NamedUnderstood
  <2>4. QED
    BY <2>2, <2>3
<1>8. CASE \E word \in {"interface", "intf", "port"} : doc = Pattern(<<word, "<name>">>, "interface", None)
  <2>1. PICK word \in {"interface", "intf", "port"} : doc = Pattern(<<word, "<name>">>, "interface", None)
    BY <1>8
  <2>2. word \in DOMAIN Nouns /\ Nouns[word] = "interface"
    BY DEF Nouns
  <2>3. QED
    BY <1>1, <2>1, <2>2, NamedUnderstood DEF Pattern
<1>9. CASE \E word \in {"acl", "access-list"} : doc = Pattern(<<word, "<name>">>, "acl", None)
  <2>1. PICK word \in {"acl", "access-list"} : doc = Pattern(<<word, "<name>">>, "acl", None)
    BY <1>9
  <2>2. word \in DOMAIN Nouns /\ Nouns[word] = "acl"
    BY DEF Nouns
  <2>3. QED
    BY <1>1, <2>1, <2>2, NamedUnderstood DEF Pattern
<1>10. CASE \E word \in {"device", "host", "switch", "equipement"} : doc = Pattern(<<word, "<name>">>, "device", None)
  <2>1. PICK word \in {"device", "host", "switch", "equipement"} : doc = Pattern(<<word, "<name>">>, "device", None)
    BY <1>10
  <2>2. word \in DOMAIN Nouns /\ Nouns[word] = "device"
    BY DEF Nouns
  <2>3. QED
    BY <1>1, <2>1, <2>2, NamedUnderstood DEF Pattern
<1>11. CASE \E w \in {<<"ntp">>, <<"ntp", "servers">>, <<"serveurs", "ntp">>} : doc = Pattern(w, "ntp", None)
  BY <1>1, <1>11, FixedUnderstood DEF Pattern
<1>12. CASE \E w \in {<<"syslog">>, <<"logging">>, <<"syslog", "hosts">>, <<"serveurs", "syslog">>} : doc = Pattern(w, "syslog", None)
  BY <1>1, <1>12, FixedUnderstood DEF Pattern
<1>13. CASE \E w \in {<<"snmp">>, <<"snmp", "communities">>, <<"communautes", "snmp">>} : doc = Pattern(w, "snmp", None)
  BY <1>1, <1>13, FixedUnderstood DEF Pattern
<1>14. CASE \E w \in {<<"zones">>, <<"firewall", "zones">>} : doc = Pattern(w, "zones", None)
  BY <1>1, <1>14, FixedUnderstood DEF Pattern
<1>15. CASE \E w \in {<<"policies">>, <<"security", "policies">>, <<"politiques">>} : doc = Pattern(w, "policies", None)
  BY <1>1, <1>15, FixedUnderstood DEF Pattern
<1>16. CASE \E word \in {"help", "?", "aide", "commands"} : doc = Pattern(<<word>>, "help", None)
  BY <1>1, <1>16, FixedUnderstood DEF Pattern
<1>17. QED
  BY <1>2, <1>3, <1>4, <1>5, <1>6, <1>7, <1>8, <1>9, <1>10, <1>11, <1>12, <1>13, <1>14, <1>15, <1>16 DEF Documented

\* The question of a "query" is a list of words.
LEMMA QuestionTyped ==
  ASSUME AnswerInv, NEW p \in Procs, job(p).cmd = "query"
  PROVE  IsList(job(p).question)
<1>1. PICK n \in DOMAIN Sessions : session \in Sessions[n]
  BY DEF AnswerInv
<1>2. \A k \in DOMAIN Sessions : \A s \in Sessions[k] : \A r \in Procs : s.jobs[r].cmd = "query" => IsList(s.jobs[r].question)
  BY SessionsAssumption
<1>3. session.jobs[p].cmd = "query"
  BY DEF job
<1>4. IsList(session.jobs[p].question)
  BY <1>1, <1>2, <1>3
<1>5. QED
  BY <1>4 DEF job

\* The question of an answering process is understood as it is written.
LEMMA QuestionsUnderstood == AnswerInv => QueryUnderstood
<1> SUFFICES ASSUME AnswerInv, NEW p \in Procs, job(p).cmd = "query", NEW doc \in Documented, Fits(doc.words, job(p).question),
                    "?" \in ToSet(job(p).question) => job(p).question = <<"?">>
             PROVE  /\ ParseQuery(job(p).question).intent = doc.intent
                    /\ ParseQuery(job(p).question).mode = doc.mode
                    /\ job(p).question # <<"?">> =>
                         /\ ParseQuery(<<"find">> \o job(p).question) = ParseQuery(job(p).question)
                         /\ ParseQuery(job(p).question \o <<"?">>) = ParseQuery(job(p).question)
  BY DEF QueryUnderstood
<1> DEFINE q == job(p).question
<1>1. IsList(q)
  BY QuestionTyped
<1> HIDE DEF q
<1>2. Fits(doc.words, q) /\ ("?" \in ToSet(q) => q = <<"?">>)
  BY DEF q
<1>3. UnderstoodAs(q, doc.intent, doc.mode)
  BY <1>1, <1>2, DocumentedUnderstood
<1>4. PICK n \in 1..13 : Matching(q) = {n} /\ Taken(q, n).intent = doc.intent /\ Taken(q, n).mode = doc.mode
  BY <1>3 DEF UnderstoodAs
<1>5. /\ ParseQuery(q) = Taken(q, n)
      /\ q # <<"?">> => ParseQuery(<<"find">> \o q) = Taken(q, n) /\ ParseQuery(q \o <<"?">>) = Taken(q, n)
  BY <1>1, <1>2, <1>3, <1>4, AfterFind DEF UnderstoodAs
<1>6. QED
  BY <1>4, <1>5 DEF q

\* Whatever words a "query" is asked with: a question of a pattern "help" lists is understood as that pattern
\* says, after "find" or with a "?" at its end too, whichever patterns are tried before it (parse.go:41-59, 102-157).
THEOREM QueryAlwaysUnderstood == OfflineSpec => []QueryUnderstood
<1>1. OfflineInit => NetcInv /\ AnswerInv
  BY InitInv, AnswerInit
<1>2. NetcInv /\ AnswerInv /\ [OfflineNext]_OfflineVars => (NetcInv /\ AnswerInv)'
  BY StepInv, AnswerStep
<1>3. NetcInv /\ AnswerInv => QueryUnderstood
  BY QuestionsUnderstood
<1>4. QED
  BY <1>1, <1>2, <1>3, PTL DEF OfflineSpec

-----------------------------------------------------------------------------
(***************************************************************************)
(* The routes of a device are those of some lines outside the blocks, and  *)
(* the answer for a destination shows those that hold it.                  *)
(***************************************************************************)
\* the lines outside the blocks, up to one of them, that make a route
RouteLines(text, n) == {i \in Outside(text) : i <= n /\ text[i].word = "ip route" /\ text[i].args # << >>}

\* The routes are those of some lines, in the order of these.
AreRoutes(routes, text, lines) ==
  /\ IsList(routes)
  /\ \A m \in DOMAIN routes :
       /\ routes[m].evidence = <<routes[m].evidence[1]>>
       /\ routes[m].evidence[1] \in lines
       /\ routes[m].destination = text[routes[m].evidence[1]].ids
  /\ \A i \in lines : \E m \in DOMAIN routes : routes[m].evidence[1] = i
  /\ \A m, k \in DOMAIN routes : m < k => routes[m].evidence[1] < routes[k].evidence[1]

\* A line makes one route to what it says, or none.
LEMMA RouteOfLine ==
  ASSUME NEW ln, NEW i
  PROVE  /\ ln.args = << >> => CiscoRoutes(ln, i) = << >>
         /\ ln.args # << >> => \E r : /\ CiscoRoutes(ln, i) = <<r>>
                                      /\ r.destination = ln.ids /\ r.evidence = <<i>>
<1> DEFINE route == NewRoute(ln.ids, <<i>>)
           next  == [route EXCEPT !.nexthop = ln.args[1], !.distance = Field(ln.args, 2)]
           out   == [route EXCEPT !.interface = ln.args[1], !.nexthop = Field(ln.args, 2), !.distance = Field(ln.args, 3)]
<1>1. /\ next.destination = ln.ids /\ next.evidence = <<i>>
      /\ out.destination = ln.ids /\ out.evidence = <<i>>
  BY DEF NewRoute
<1>2. CiscoRoutes(ln, i) = IF ln.args = << >> THEN << >> ELSE IF IsIPv4(ln.args[1]) THEN <<next>> ELSE <<out>>
  BY Zenon DEF CiscoRoutes
<1> HIDE DEF next, out
<1>3. QED
  BY <1>1, <1>2

\* One more route, of a later line, is one more at the end.
LEMMA RoutesGrow ==
  ASSUME NEW text, NEW routes, NEW lines, AreRoutes(routes, text, lines),
         NEW n \in Nat, lines \subseteq 0 .. n - 1,
         NEW r, r.destination = text[n].ids, r.evidence = <<n>>
  PROVE  AreRoutes(routes \o <<r>>, text, lines \cup {n})
<1> DEFINE t == <<r>>
           u == routes \o t
           L == Len(routes)
<1>1. IsList(routes) /\ IsList(t) /\ Len(t) = 1 /\ t[1] = r
  <2>1. t \in Seq({r}) /\ Len(t) = 1 /\ t[1] = r
    OBVIOUS
  <2>2. QED
    BY <2>1, SequenceIsList DEF AreRoutes
<1> HIDE DEF t
<1>2. /\ IsList(u) /\ Len(u) = L + 1 /\ L \in Nat
      /\ \A m \in 1..L : u[m] = routes[m]
      /\ u[L + 1] = r
  <2>1. /\ IsList(u) /\ Len(u) = Len(routes) + Len(t)
        /\ \A m \in 1 .. Len(routes) : u[m] = routes[m]
        /\ \A m \in 1 .. Len(t) : u[Len(routes) + m] = t[m]
    <3>1. IsList(routes) /\ IsList(t)
      BY <1>1
    <3>2. QED
      BY <3>1, ListsConcat
  <2>2. L \in Nat
    BY <1>1, ListLength
  <2> HIDE DEF u
  <2>3. QED
    BY <1>1, <2>1, <2>2
<1> HIDE DEF u
<1>3. DOMAIN u = 1 .. L + 1 /\ DOMAIN routes = 1..L
  BY <1>1, <1>2, ListLength
<1> HIDE DEF L
<1>4. \A m \in DOMAIN u : (m \in DOMAIN routes /\ u[m] = routes[m]) \/ (m = L + 1 /\ u[m] = r)
  BY <1>2, <1>3
<1>5. r.evidence[1] = n /\ r.evidence = <<r.evidence[1]>>
  OBVIOUS
<1>6. ASSUME NEW m \in DOMAIN u
      PROVE  /\ u[m].evidence = <<u[m].evidence[1]>>
             /\ u[m].evidence[1] \in lines \cup {n}
             /\ u[m].destination = text[u[m].evidence[1]].ids
  <2>1. CASE m \in DOMAIN routes /\ u[m] = routes[m]
    BY <2>1 DEF AreRoutes
  <2>2. CASE m = L + 1 /\ u[m] = r
    BY <1>5, <2>2
  <2>3. QED
    BY <1>4, <2>1, <2>2
<1>7. ASSUME NEW i \in lines \cup {n}
      PROVE  \E m \in DOMAIN u : u[m].evidence[1] = i
  <2>1. CASE i \in lines
    <3>1. PICK m \in DOMAIN routes : routes[m].evidence[1] = i
      BY <2>1 DEF AreRoutes
    <3>2. m \in DOMAIN u /\ u[m] = routes[m]
      BY <1>2, <1>3
    <3>3. QED
      BY <3>1, <3>2
  <2>2. CASE i = n
    <3>1. L + 1 \in DOMAIN u /\ u[L + 1].evidence[1] = n
      BY <1>2, <1>3, <1>5
    <3>2. QED
      BY <2>2, <3>1
  <2>3. QED
    BY <2>1, <2>2
<1>8. ASSUME NEW m \in DOMAIN u, NEW k \in DOMAIN u, m < k
      PROVE  u[m].evidence[1] < u[k].evidence[1]
  <2>1. m \in DOMAIN routes /\ u[m] = routes[m]
    BY <1>2, <1>3, <1>4, <1>8
  <2>2. CASE k \in DOMAIN routes /\ u[k] = routes[k]
    BY <1>8, <2>1, <2>2 DEF AreRoutes
  <2>3. CASE u[k] = r
    <3>1. u[m].evidence[1] \in lines
      BY <2>1 DEF AreRoutes
    <3>2. u[m].evidence[1] \in 0 .. n - 1
      BY <3>1
    <3>3. u[k].evidence[1] = n
      BY <1>5, <2>3
    <3>4. QED
      BY <3>2, <3>3
  <2>4. QED
    BY <1>4, <2>2, <2>3
<1>9. QED
  BY <1>2, <1>6, <1>7, <1>8 DEF AreRoutes, u, t

\* one more line
LEMMA RouteLinesGrow ==
  ASSUME NEW text, IsList(text), NEW n \in 1..Len(text)
  PROVE  /\ RouteLines(text, n - 1) \subseteq 0 .. n - 1
         /\ RouteLines(text, n) =
              RouteLines(text, n - 1)
              \cup (IF n \in Outside(text) /\ text[n].word = "ip route" /\ text[n].args # << >> THEN {n} ELSE {})
<1>1. Len(text) \in Nat /\ DOMAIN text = 1..Len(text)
  BY ListLength
<1>2. Outside(text) \subseteq 1..Len(text)
  BY <1>1 DEF Outside
<1>3. \A i \in Outside(text) : i <= n <=> (i <= n - 1 \/ i = n)
  BY <1>1, <1>2
<1>4. \A i \in Outside(text) : i <= n - 1 => i \in 0 .. n - 1
  BY <1>1, <1>2
<1>5. QED
  BY <1>3, <1>4 DEF RouteLines

\* After one more line the device has the route of one more line.
LEMMA RoutesKept ==
  ASSUME NEW text, IsList(text), \A i \in DOMAIN text : IsList(text[i].args),
         NEW f, IsLoop(f, text, Len(text)), NEW n \in 1..Len(text),
         AreRoutes(f[n - 1].dev.routes, text, RouteLines(text, n - 1))
  PROVE  AreRoutes(f[n].dev.routes, text, RouteLines(text, n))
<1> DEFINE s == f[n - 1]
           t == f[n]
           out == n \in Outside(text)
           makes == text[n].word = "ip route" /\ text[n].args # << >>
<1>1. Len(text) \in Nat /\ n \in DOMAIN text /\ n \in Nat /\ n - 1 \in 0..Len(text) /\ IsList(text[n].args)
  BY ListLength
<1>2. t = IF n < s.next THEN s ELSE CiscoStep(text, s, n)
  BY <1>1, LoopTurn
<1>3. DOMAIN s.dev = DOMAIN NoDevice
  BY <1>1, LoopPlaces DEF LoopPlace
<1>4. text[n].word # "!" => (n < s.next <=> ~out)
  BY LoopReads
<1>5. makes => text[n].word # "!"
  OBVIOUS
<1>6. AreRoutes(s.dev.routes, text, RouteLines(text, n - 1))
  OBVIOUS
<1>7. /\ RouteLines(text, n - 1) \subseteq 0 .. n - 1
      /\ RouteLines(text, n) = RouteLines(text, n - 1) \cup (IF out /\ makes THEN {n} ELSE {})
  BY RouteLinesGrow
<1> SUFFICES AreRoutes(t.dev.routes, text, RouteLines(text, n))
  OBVIOUS
<1> HIDE DEF s, t, out
<1>8. CASE ~(out /\ makes)
  <2>1. RouteLines(text, n) = RouteLines(text, n - 1)
    BY <1>7, <1>8
  <2>2. t.dev.routes = s.dev.routes
    <3>1. CASE n < s.next
      BY <1>2, <3>1
    <3>2. CASE ~(n < s.next)
      <4>1. t = CiscoStep(text, s, n)
        BY <1>2, <3>2
      <4>2. TurnOf(text, s, t, n)
        BY <1>1, <1>3, <4>1, CiscoTurn
      <4>3. t.dev.routes = IF text[n].word = "ip route" THEN s.dev.routes \o CiscoRoutes(text[n], n) ELSE s.dev.routes
        BY <4>2 DEF TurnOf
      <4>4. ~makes
        BY <1>4, <1>5, <1>8, <3>2
      <4>5. CASE text[n].word # "ip route"
        BY <4>3, <4>5
      <4>6. CASE text[n].word = "ip route"
        <5>1. CiscoRoutes(text[n], n) = << >>
          BY <4>4, <4>6, RouteOfLine
        <5>2. s.dev.routes \o << >> = s.dev.routes
          <6>1. s.dev.routes \in Seq(ToSet(s.dev.routes))
            BY <1>6 DEF AreRoutes, IsList
          <6>2. QED
            BY <6>1, ConcatEmptySeq
        <5>3. QED
          BY <4>3, <4>6, <5>1, <5>2
      <4>7. QED
        BY <4>5, <4>6
    <3>3. QED
      BY <3>1, <3>2
  <2>3. QED
    BY <1>6, <2>1, <2>2
<1>9. CASE out /\ makes
  <2>1. ~(n < s.next)
    BY <1>4, <1>5, <1>9
  <2>2. t = CiscoStep(text, s, n)
    BY <1>2, <2>1
  <2>3. TurnOf(text, s, t, n)
    BY <1>1, <1>3, <2>2, CiscoTurn
  <2>4. t.dev.routes = s.dev.routes \o CiscoRoutes(text[n], n)
    BY <1>9, <2>3 DEF TurnOf
  <2>5. PICK r : CiscoRoutes(text[n], n) = <<r>> /\ r.destination = text[n].ids /\ r.evidence = <<n>>
    <3> DEFINE ln == text[n]
    <3>1. ln.args # << >>
      BY <1>9
    <3> HIDE DEF ln
    <3>2. \E r : CiscoRoutes(ln, n) = <<r>> /\ r.destination = ln.ids /\ r.evidence = <<n>>
      BY <3>1, RouteOfLine
    <3>3. QED
      BY <3>2 DEF ln
  <2>6. RouteLines(text, n) = RouteLines(text, n - 1) \cup {n}
    BY <1>7, <1>9
  <2> DEFINE routes == s.dev.routes
             lines == RouteLines(text, n - 1)
  <2>7. AreRoutes(routes, text, lines) /\ lines \subseteq 0 .. n - 1 /\ n \in Nat
    BY <1>1, <1>6, <1>7
  <2> HIDE DEF routes, lines
  <2>8. r.destination = text[n].ids /\ r.evidence = <<n>>
    BY <2>5
  <2>9. AreRoutes(routes \o <<r>>, text, lines \cup {n})
    BY <2>7, <2>8, RoutesGrow
  <2>10. QED
    BY <2>4, <2>5, <2>6, <2>9 DEF routes, lines
<1>10. QED
  BY <1>8, <1>9

\* The routes of a Cisco device are those of the lines outside the blocks.
LEMMA CiscoRoutesTell ==
  ASSUME NEW text, IsList(text), \A i \in DOMAIN text : IsList(text[i].args)
  PROVE  AreRoutes(CiscoDevice(text).routes, text, RouteLines(text, Len(text)))
<1> DEFINE N == Len(text)
<1>1. PICK f : IsLoop(f, text, N) /\ CiscoDevice(text) = f[N].dev
  BY CiscoLoop
<1>2. N \in Nat /\ DOMAIN text = 1..N
  BY ListLength
<1> DEFINE Good(n) == AreRoutes(f[n].dev.routes, text, RouteLines(text, n))
           Bad == {n \in 0..N : ~Good(n)}
<1>3. Good(0)
  <2>1. f[0].dev = NoDevice
    BY <1>1, <1>2, LoopBegins DEF Start
  <2>2. f[0].dev.routes = << >>
    BY <2>1 DEF NoDevice
  <2>3. IsList(<< >>) /\ DOMAIN << >> = {}
    BY EmptyIsList
  <2>4. Outside(text) \subseteq 1..N
    BY <1>2 DEF Outside
  <2>5. \A i \in Outside(text) : ~(i <= 0)
    BY <1>2, <2>4
  <2>6. RouteLines(text, 0) = {}
    BY <2>5 DEF RouteLines
  <2>7. QED
    BY <2>2, <2>3, <2>6 DEF AreRoutes
<1>4. Bad = {}
  <2>1. SUFFICES ASSUME Bad # {} PROVE FALSE
    OBVIOUS
  <2>2. Bad \subseteq Nat
    BY <1>2
  <2>3. PICK n \in Bad : \A m \in Bad : n <= m
    BY <2>1, <2>2, LeastNatural
  <2>4. n # 0 /\ n \in 1..N /\ n - 1 \in 0..N /\ n - 1 \notin Bad
    BY <1>2, <1>3, <2>3
  <2>5. Good(n - 1)
    BY <2>4
  <2>6. Good(n)
    BY <1>1, <2>4, <2>5, RoutesKept
  <2>7. QED
    BY <2>3, <2>6
<1>5. Good(N)
  BY <1>2, <1>4
<1>6. QED
  BY <1>1, <1>5

\* One list, flattened, is that list.
LEMMA FlattenOne ==
  ASSUME NEW s
  PROVE  FlattenSeq(<<s>>) = s
<1> DEFINE ss == <<s>>
           L == Len(ss)
           F == CHOOSE f : f = [i \in 1..L |-> IF i = 1 THEN ss[i] ELSE f[i - 1] \o ss[i]]
<1>1. L = 1 /\ ss[1] = s
  OBVIOUS
<1>2. FlattenSeq(ss) = F[L]
  BY <1>1 DEF FlattenSeq
<1>3. F = [i \in 1..L |-> IF i = 1 THEN ss[i] ELSE F[i - 1] \o ss[i]]
  <2>1. L \in Nat \ {0}
    BY <1>1
  <2> HIDE DEF ss, L
  <2>2. QED
    BY <2>1, FlattenDefined
<1> HIDE DEF F, ss, L
<1>4. F[1] = s
  BY <1>1, <1>3
<1>5. QED
  BY <1>1, <1>2, <1>4 DEF ss

\* the lines that hold an address, and how many addresses a line holds
Holding(text, lines, a) ==
  {i \in lines : text[i].ids # << >> /\ a \in text[i].ids[1][1] .. text[i].ids[1][2]}
SizeOf(text, i) == text[i].ids[1][2] - text[i].ids[1][1]

\* a line is the first of the smallest of those that hold an address
FirstSmallest(text, holding, i) ==
  \A j \in holding \ {i} : SizeOf(text, i) < SizeOf(text, j) \/ (SizeOf(text, i) = SizeOf(text, j) /\ i < j)

\* what is found is the route of that line, and nothing where there is none
RouteOf(reply, text, holding) ==
  /\ holding = {} => reply = << >>
  /\ holding # {} => \E r : /\ reply = <<r>>
                            /\ \E i \in holding : r.evidence = <<i>> /\ FirstSmallest(text, holding, i)

\* The route found is that of the first of the smallest networks that hold the address.
LEMMA RouteFound ==
  ASSUME NEW text, NEW dev, NEW lines, AreRoutes(dev.routes, text, lines),
         \A i \in lines : IsList(text[i].ids) /\ \A n \in DOMAIN text[i].ids : text[i].ids[n] \in Int \X Int,
         NEW dest, IsIPv4(dest)
  PROVE  RouteOf(FindRouteDst(dev, dest), text, Holding(text, lines, Addresses[dest]))
<1> DEFINE a == Addresses[dest]
           routes == dev.routes
           At(n) == routes[n].evidence[1]
           Covers(n) == routes[n].destination # << >> /\ a \in routes[n].destination[1][1]..routes[n].destination[1][2]
           Width(n) == routes[n].destination[1][2] - routes[n].destination[1][1]
           matching == {n \in DOMAIN routes : Covers(n)}
           best == {n \in matching : \A m \in matching : Width(n) <= Width(m)}
           holding == Holding(text, lines, a)
           Size(i) == SizeOf(text, i)
           reply == Result("route", dev, None, routes[Min(best)])
<1>1. FindRouteDst(dev, dest) = IF matching = {} THEN << >> ELSE <<reply>>
  BY DEF FindRouteDst
<1>2. /\ IsList(routes)
      /\ \A m \in DOMAIN routes : routes[m].evidence = <<At(m)>> /\ At(m) \in lines /\ routes[m].destination = text[At(m)].ids
      /\ \A i \in lines : \E m \in DOMAIN routes : At(m) = i
      /\ \A m, k \in DOMAIN routes : m < k => At(m) < At(k)
  BY DEF AreRoutes
<1>3. \A n \in DOMAIN routes : (n \in matching <=> At(n) \in holding) /\ Width(n) = Size(At(n))
  BY <1>2 DEF Holding, SizeOf
<1>4. \A i \in holding : Size(i) \in Nat /\ i \in lines
  <2>1. SUFFICES ASSUME NEW i \in holding PROVE Size(i) \in Nat /\ i \in lines
    OBVIOUS
  <2> DEFINE ids == text[i].ids
  <2>2. i \in lines /\ ids # << >> /\ a \in ids[1][1] .. ids[1][2]
    BY DEF Holding
  <2>3. IsList(ids) /\ \A n \in DOMAIN ids : ids[n] \in Int \X Int
    BY <2>2
  <2> HIDE DEF ids
  <2>4. 1 \in DOMAIN ids
    <3>1. Len(ids) \in Nat /\ DOMAIN ids = 1..Len(ids) /\ Len(ids) # 0
      BY <2>2, <2>3, ListLength
    <3>2. QED
      BY <3>1
  <2>5. ids[1][1] \in Int /\ ids[1][2] \in Int
    BY <2>3, <2>4
  <2> DEFINE lo == ids[1][1]
             hi == ids[1][2]
  <2>6. lo \in Int /\ hi \in Int /\ a \in lo .. hi
    BY <2>2, <2>5
  <2> HIDE DEF lo, hi, a
  <2>7. hi - lo \in Nat
    BY <2>6
  <2>8. QED
    BY <2>2, <2>7 DEF SizeOf, lo, hi, ids
<1>5. reply.evidence = routes[Min(best)].evidence
  BY DEF Result
<1>6. DOMAIN routes \subseteq Nat
  BY <1>2, ListLength
<1> HIDE DEF a, routes, At, Width, Size, matching, reply, holding
<1>7. ASSUME NEW i \in holding
      PROVE  \E m \in matching : At(m) = i
  <2>1. PICK m \in DOMAIN routes : At(m) = i
    BY <1>2, <1>4
  <2>2. QED
    BY <1>3, <2>1
<1>8. matching \subseteq DOMAIN routes
  BY DEF matching
<1>9. CASE holding = {}
  <2>1. matching = {}
    BY <1>3, <1>8, <1>9
  <2>2. QED
    BY <1>1, <1>9, <2>1 DEF RouteOf, holding, a
<1>10. CASE holding # {}
  <2>1. matching # {}
    BY <1>7, <1>10
  <2>2. \A n \in matching : Width(n) \in Nat /\ At(n) \in holding /\ n \in Nat
    BY <1>3, <1>4, <1>6, <1>8
  <2> DEFINE widths == {Width(n) : n \in matching}
  <2>3. best # {}
    <3>1. widths \subseteq Nat /\ widths # {}
      BY <2>1, <2>2
    <3>2. PICK w \in widths : \A v \in widths : w <= v
      <4> HIDE DEF widths
      <4>1. QED
        BY <3>1, LeastNatural
    <3>3. PICK n \in matching : w = Width(n)
      OBVIOUS
    <3>4. \A m \in matching : Width(n) <= Width(m)
      BY <3>2, <3>3
    <3>5. QED
      BY <3>3, <3>4
  <2>4. best \subseteq Nat /\ best \subseteq matching
    BY <2>2
  <2>5. \A n \in best : \A m \in matching : Width(n) <= Width(m)
    OBVIOUS
  <2>6. \A m \in matching : m \notin best => \E k \in matching : ~(Width(m) <= Width(k))
    OBVIOUS
  <2> HIDE DEF best
  <2>7. \E x \in best : \A y \in best : x =< y
    BY <2>3, <2>4, LeastNatural
  <2>8. PICK first \in best : Min(best) = first /\ \A y \in best : first =< y
    BY <2>7 DEF Min
  <2> DEFINE i == At(first)
  <2>9. first \in matching /\ i \in holding /\ first \in DOMAIN routes /\ first \in Nat
    BY <1>8, <2>2, <2>4, <2>8
  <2>10. ASSUME NEW j \in holding \ {i}
         PROVE  Size(i) < Size(j) \/ (Size(i) = Size(j) /\ i < j)
    <3>1. PICK m \in matching : At(m) = j
      BY <1>7
    <3>2. m # first /\ m \in DOMAIN routes /\ m \in Nat
      BY <1>8, <2>2, <2>10, <3>1
    <3>3. Size(i) = Width(first) /\ Size(j) = Width(m) /\ Width(first) <= Width(m) /\ Width(first) \in Nat /\ Width(m) \in Nat
      BY <1>3, <2>2, <2>5, <2>8, <2>9, <3>1, <3>2
    <3>4. CASE Width(first) = Width(m)
      <4>1. m \in best
        BY <2>5, <2>6, <2>8, <3>4
      <4>2. first < m
        BY <2>8, <2>9, <3>2, <4>1
      <4>3. i < j
        BY <1>2, <2>9, <3>1, <3>2, <4>2
      <4>4. QED
        BY <3>3, <3>4, <4>3
    <3>5. CASE Width(first) # Width(m)
      BY <3>3, <3>5
    <3>6. QED
      BY <3>4, <3>5
  <2>11. reply.evidence = <<i>>
    BY <1>2, <1>5, <2>8, <2>9
  <2>12. FindRouteDst(dev, dest) = <<reply>>
    BY <1>1, <2>1
  <2> HIDE DEF i
  <2>13. FirstSmallest(text, holding, i)
    BY <2>10 DEF FirstSmallest, Size
  <2>14. \E k \in holding : reply.evidence = <<k>> /\ FirstSmallest(text, holding, k)
    BY <2>9, <2>11, <2>13
  <2>15. QED
    BY <1>10, <2>12, <2>14 DEF RouteOf, holding, a
<1>11. QED
  BY <1>9, <1>10

\* A query of one Cisco device: the device is that of its text, the answer that of its question.
LEMMA QueryOfOne ==
  ASSUME AnswerInv, NEW p \in Procs, Printed(p, {"query"}),
         [n \in DOMAIN loaded[p] |-> loaded[p][n].vendor] = <<"cisco">>
  PROVE  LET text == loaded[p][1].text
             dev  == loaded[p][1].dev
         IN /\ DOMAIN loaded[p] = 1..1
            /\ IsConfig(text) /\ IsDevice(dev) /\ dev = CiscoDevice(text)
            /\ answer[p] = RunQuery(loaded[p], ParseQuery(job(p).question))
<1> DEFINE record  == loaded[p][1]
           vendors == [n \in DOMAIN loaded[p] |-> loaded[p][n].vendor]
           reply   == RunQuery(loaded[p], ParseQuery(job(p).question))
<1>1. stage[p] = "done" /\ job(p).cmd = "query" /\ job(p).limit = 0
  BY DEF Printed
<1>2. DOMAIN loaded[p] = 1..1 /\ record.vendor = "cisco"
  <2>1. vendors = <<"cisco">>
    OBVIOUS
  <2>2. DOMAIN vendors = 1..1 /\ vendors[1] = "cisco"
    <3> HIDE DEF vendors
    <3>1. QED
      BY <2>1
  <2>3. DOMAIN vendors = DOMAIN loaded[p]
    OBVIOUS
  <2>4. 1 \in DOMAIN loaded[p]
    BY <2>2, <2>3
  <2>5. vendors[1] = record.vendor
    BY <2>4
  <2>6. QED
    BY <2>2, <2>3, <2>5
<1>3. IsRecord(record, session)
  BY <1>2 DEF AnswerInv
<1>4. IsConfig(record.text) /\ IsDevice(record.dev)
  BY <1>1, <1>3, RecordTyped
<1>5. record.dev = CiscoDevice(record.text)
  BY <1>2, <1>3, CiscoRecord DEF IsRecord
<1>6. Answers(job(p), loaded[p]) = {Limited(reply, job(p).limit)}
  <2> HIDE DEF reply
  <2>1. QED
    BY <1>1 DEF Answers, reply
<1>7. answer[p] \in Answers(job(p), loaded[p])
  BY <1>1 DEF AnswerInv
<1> HIDE DEF reply
<1>8. answer[p] = reply
  BY <1>1, <1>6, <1>7, NotLimited
<1>9. QED
  BY <1>2, <1>4, <1>5, <1>8 DEF reply

\* The answer to a route question, of one device.
LEMMA RouteRun ==
  ASSUME NEW inv, DOMAIN inv = 1..1, NEW pq, pq.intent = "route_dst"
  PROVE  RunQuery(inv, pq) = FindRouteDst(inv[1].dev, pq.name)
<1> DEFINE dev == inv[1].dev
           runs == [d \in DOMAIN inv |-> RunDevice(inv[d].dev, pq)]
           vlans == FindVLANs(inv, pq.id, pq.mode)
<1>1. RunQuery(inv, pq) = CASE pq.intent = "help" -> << >> [] pq.intent = "vlan" -> vlans [] OTHER -> FlattenSeq(runs)
  BY Zenon DEF RunQuery
<1>2. RunDevice(dev, pq) = FindRouteDst(dev, pq.name)
  <2> DEFINE r1 == FindInterface(dev, pq.name)
             r2 == FindDevice(dev, pq.name)
             r3 == FindACL(dev, pq.name)
             r4 == FindTrunks(dev)
             r5 == FindAccessVLAN(dev, pq.id)
             r6 == FindDefaultRoute(dev)
             r7 == FindRouteDst(dev, pq.name)
             r8 == Results("ntp", dev, dev.ntp)
             r9 == Results("syslog", dev, dev.syslog)
             r10 == Results("snmp", dev, dev.communities)
             r11 == Results("zone", dev, dev.zones)
             r12 == Results("policy", dev, dev.policies)
  <2>1. RunDevice(dev, pq) =
          CASE pq.intent = "interface"     -> r1
            [] pq.intent = "device"        -> r2
            [] pq.intent = "acl"           -> r3
            [] pq.intent = "trunks"        -> r4
            [] pq.intent = "access_vlan"   -> r5
            [] pq.intent = "default_route" -> r6
            [] pq.intent = "route_dst"     -> r7
            [] pq.intent = "ntp"           -> r8
            [] pq.intent = "syslog"        -> r9
            [] pq.intent = "snmp"          -> r10
            [] pq.intent = "zones"         -> r11
            [] pq.intent = "policies"      -> r12
    BY Zenon DEF RunDevice
  <2> HIDE DEF r1, r2, r3, r4, r5, r6, r7, r8, r9, r10, r11, r12
  <2>2. RunDevice(dev, pq) = r7
    BY <2>1
  <2>3. QED
    BY <2>2 DEF r7
<1>3. runs = <<RunDevice(dev, pq)>>
  OBVIOUS
<1> HIDE DEF runs, vlans, dev
<1>4. RunQuery(inv, pq) = FlattenSeq(runs)
  BY <1>1
<1>5. FlattenSeq(runs) = RunDevice(dev, pq)
  BY <1>3, FlattenOne
<1>6. QED
  BY <1>2, <1>4, <1>5 DEF dev

\* The invariants imply that a route is answered as the text says.
LEMMA RoutesAnswered ==
  ASSUME AnswerInv, NEW p \in Procs, Printed(p, {"query"}),
         [n \in DOMAIN loaded[p] |-> loaded[p][n].vendor] = <<"cisco">>,
         ParseQuery(job(p).question).intent = "route_dst", IsIPv4(ParseQuery(job(p).question).name)
  PROVE  LET text    == loaded[p][1].text
             a       == Addresses[ParseQuery(job(p).question).name]
             holding == Holding(text, RouteLines(text, Len(text)), a)
         IN /\ Len(answer[p]) = IF holding = {} THEN 0 ELSE 1
            /\ \A n \in DOMAIN answer[p] : \E i \in holding :
                 answer[p][n].evidence = <<i>> /\ FirstSmallest(text, holding, i)
<1> DEFINE text    == loaded[p][1].text
           dev     == loaded[p][1].dev
           pq      == ParseQuery(job(p).question)
           lines   == RouteLines(text, Len(text))
           holding == Holding(text, lines, Addresses[pq.name])
<1>1. /\ DOMAIN loaded[p] = 1..1
      /\ IsConfig(text) /\ dev = CiscoDevice(text)
      /\ answer[p] = RunQuery(loaded[p], pq)
  BY QueryOfOne
<1> HIDE DEF pq
<1>2. pq.intent = "route_dst" /\ IsIPv4(pq.name)
  BY DEF pq
<1>3. answer[p] = FindRouteDst(dev, pq.name)
  BY <1>1, <1>2, RouteRun
<1> HIDE DEF text, dev, holding, lines
<1>4. IsList(text) /\ \A i \in DOMAIN text : IsList(text[i].args) /\ IsList(text[i].ids)
  BY <1>1 DEF IsConfig
<1>5. AreRoutes(dev.routes, text, lines)
  BY <1>1, <1>4, CiscoRoutesTell DEF lines
<1>6. ASSUME NEW i \in lines
      PROVE  IsList(text[i].ids) /\ \A n \in DOMAIN text[i].ids : text[i].ids[n] \in Int \X Int
  <2>1. i \in DOMAIN text /\ text[i].word = "ip route"
    BY DEF lines, RouteLines, Outside
  <2>2. QED
    BY <1>1, <1>4, <2>1 DEF IsConfig
<1>7. RouteOf(answer[p], text, holding)
  <2> DEFINE dest == pq.name
  <2>1. \A i \in lines : IsList(text[i].ids) /\ \A n \in DOMAIN text[i].ids : text[i].ids[n] \in Int \X Int
    BY <1>6
  <2>2. IsIPv4(dest)
    BY <1>2
  <2> HIDE DEF dest
  <2>3. RouteOf(FindRouteDst(dev, dest), text, Holding(text, lines, Addresses[dest]))
    BY <1>5, <2>1, <2>2, RouteFound
  <2>4. QED
    BY <1>3, <2>3 DEF holding, dest
<1>8. /\ Len(answer[p]) = IF holding = {} THEN 0 ELSE 1
      /\ \A n \in DOMAIN answer[p] : \E i \in holding : answer[p][n].evidence = <<i>> /\ FirstSmallest(text, holding, i)
  <2>1. CASE holding = {}
    BY <1>7, <2>1 DEF RouteOf
  <2>2. CASE holding # {}
    <3>1. PICK r : answer[p] = <<r>> /\ \E i \in holding : r.evidence = <<i>> /\ FirstSmallest(text, holding, i)
      BY <1>7, <2>2 DEF RouteOf
    <3>2. QED
      BY <2>2, <3>1
  <2>3. QED
    BY <2>1, <2>2
<1>9. QED
  BY <1>8 DEF holding, lines, text, pq

\* The route told to an address is the first of those with the longest prefix that hold it.
LEMMA RouteTold == AnswerInv => RouteAnswer
<1> SUFFICES ASSUME AnswerInv, NEW p \in Procs, Printed(p, {"query"}),
                    [n \in DOMAIN loaded[p] |-> loaded[p][n].vendor] = <<"cisco">>,
                    ParseQuery(job(p).question).intent = "route_dst", IsIPv4(ParseQuery(job(p).question).name)
             PROVE  LET text == loaded[p][1].text
                        pq   == ParseQuery(job(p).question)
                        Holds(i) == /\ text[i].word = "ip route" /\ text[i].args # << >> /\ text[i].ids # << >>
                                    /\ Addresses[pq.name] \in text[i].ids[1][1] .. text[i].ids[1][2]
                        Size(i) == text[i].ids[1][2] - text[i].ids[1][1]
                        holding == {i \in Outside(text) : Holds(i)}
                    IN /\ Len(answer[p]) = IF holding = {} THEN 0 ELSE 1
                       /\ \A n \in DOMAIN answer[p] : \E i \in holding :
                            /\ answer[p][n].evidence = <<i>>
                            /\ \A j \in holding \ {i} : Size(i) < Size(j) \/ (Size(i) = Size(j) /\ i < j)
  BY DEF RouteAnswer
<1> DEFINE text == loaded[p][1].text
           pq   == ParseQuery(job(p).question)
           a    == Addresses[pq.name]
           Holds(i) == /\ text[i].word = "ip route" /\ text[i].args # << >> /\ text[i].ids # << >>
                       /\ a \in text[i].ids[1][1] .. text[i].ids[1][2]
           holding == {i \in Outside(text) : Holds(i)}
           held == Holding(text, RouteLines(text, Len(text)), a)
<1>1. holding = held
  <2>1. IsList(text)
    BY QueryOfOne DEF IsConfig
  <2>2. Len(text) \in Nat /\ DOMAIN text = 1..Len(text)
    BY <2>1, ListLength
  <2> HIDE DEF text, a
  <2>3. Outside(text) \subseteq 1..Len(text)
    BY <2>2 DEF Outside
  <2>4. \A i \in Outside(text) : i <= Len(text)
    BY <2>2, <2>3
  <2>5. QED
    BY <2>4 DEF Holding, RouteLines
<1>2. /\ Len(answer[p]) = IF held = {} THEN 0 ELSE 1
      /\ \A n \in DOMAIN answer[p] : \E i \in held :
           answer[p][n].evidence = <<i>> /\ FirstSmallest(text, held, i)
  BY RoutesAnswered
<1> HIDE DEF held, holding
<1>3. /\ Len(answer[p]) = IF holding = {} THEN 0 ELSE 1
      /\ \A n \in DOMAIN answer[p] : \E i \in holding :
           answer[p][n].evidence = <<i>> /\ FirstSmallest(text, holding, i)
  BY <1>1, <1>2
<1>4. QED
  BY <1>3 DEF holding, FirstSmallest, SizeOf

\* Whatever configuration a "query" reads and whatever address it asks for: the answer of a Cisco device is
\* the route of the first of the smallest networks that hold the address, of the lines outside its blocks,
\* and nothing only where none does (routes.go:11-44, cisco.go:50-105, 107-147).
THEOREM RouteAlwaysAnswered == OfflineSpec => []RouteAnswer
<1>1. OfflineInit => NetcInv /\ AnswerInv
  BY InitInv, AnswerInit
<1>2. NetcInv /\ AnswerInv /\ [OfflineNext]_OfflineVars => (NetcInv /\ AnswerInv)'
  BY StepInv, AnswerStep
<1>3. NetcInv /\ AnswerInv => RouteAnswer
  BY RouteTold
<1>4. QED
  BY <1>1, <1>2, <1>3, PTL DEF OfflineSpec

-----------------------------------------------------------------------------
(***************************************************************************)
(* The VLANs and the interfaces of a device are what its lines declare, an *)
(* interface as the last of its own lines say, and so is the answer.       *)
(***************************************************************************)
\* what the parser of an interface has made of each of the first lines of its block
IsReading(f, first, lines, k) ==
  f = [n \in 0..k |-> IF n = 0 THEN first ELSE CiscoStatement(f[n - 1], lines[n])]

\* It is defined at every line by the one before.
LEMMA ReadingDefined ==
  ASSUME NEW first, NEW lines, NEW k \in Nat
  PROVE  \E f : IsReading(f, first, lines, k)
<1> DEFINE Turn(s, n) == CiscoStatement(s, lines[n])
           Good(n) == \E f : f = [i \in 0..n |-> IF i = 0 THEN first ELSE Turn(f[i - 1], i)]
           Bad == {n \in Nat : ~Good(n)}
<1> HIDE DEF Turn
<1>1. Good(0)
  <2> DEFINE f == [i \in 0..0 |-> first]
  <2>1. f = [i \in 0..0 |-> IF i = 0 THEN first ELSE Turn(f[i - 1], i)]
    OBVIOUS
  <2>2. QED
    BY <2>1
<1>2. ASSUME NEW n \in Nat, Good(n)
      PROVE  Good(n + 1)
  <2>1. PICK f : f = [i \in 0..n |-> IF i = 0 THEN first ELSE Turn(f[i - 1], i)]
    BY <1>2
  <2> DEFINE g == [i \in 0 .. n + 1 |-> IF i = n + 1 THEN Turn(f[n], i) ELSE f[i]]
             h == [i \in 0 .. n + 1 |-> IF i = 0 THEN first ELSE Turn(g[i - 1], i)]
  <2>2. ASSUME NEW i \in 0 .. n + 1
        PROVE  g[i] = h[i]
    <3>1. CASE i = n + 1
      <4>1. n \in 0 .. n + 1 /\ n # n + 1 /\ i # 0 /\ i - 1 = n
        BY <3>1
      <4>2. g[n] = f[n] /\ g[i] = Turn(f[n], i)
        BY <3>1, <4>1
      <4>3. h[i] = Turn(g[i - 1], i)
        <5> HIDE DEF g
        <5>1. QED
          BY <4>1
      <4> HIDE DEF g, h
      <4>4. QED
        BY <4>1, <4>2, <4>3
    <3>2. CASE i \in 0..n
      <4>1. g[i] = f[i] /\ (i # 0 => i - 1 \in 0..n)
        BY <3>2
      <4>2. i # 0 => g[i - 1] = f[i - 1]
        BY <4>1
      <4>3. f[i] = IF i = 0 THEN first ELSE Turn(f[i - 1], i)
        BY <2>1, <3>2
      <4>4. h[i] = IF i = 0 THEN first ELSE Turn(g[i - 1], i)
        OBVIOUS
      <4> HIDE DEF g, h
      <4>5. QED
        BY <4>1, <4>2, <4>3, <4>4
    <3>3. QED
      BY <3>1, <3>2
  <2>3. g = h
    BY <2>2
  <2>4. QED
    BY <2>3
<1>3. Bad = {}
  <2>1. SUFFICES ASSUME Bad # {} PROVE FALSE
    OBVIOUS
  <2> HIDE DEF Good
  <2>2. PICK n \in Bad : \A m \in Bad : n <= m
    BY <2>1, LeastNatural
  <2>3. n # 0 /\ n - 1 \in Nat /\ n - 1 \notin Bad /\ (n - 1) + 1 = n
    BY <1>1, <2>2
  <2>4. QED
    BY <1>2, <2>2, <2>3
<1> HIDE DEF Good
<1>4. Good(k)
  BY <1>3
<1>5. QED
  BY <1>4 DEF Good, IsReading, Turn

\* Each line of a block is read into what the lines before it made.
LEMMA ReadingTurn ==
  ASSUME NEW first, NEW lines, NEW k \in Nat, NEW f, IsReading(f, first, lines, k)
  PROVE  f[0] = first /\ \A n \in 1..k : f[n] = CiscoStatement(f[n - 1], lines[n])
<1> DEFINE Turn(s, n) == CiscoStatement(s, lines[n])
<1> HIDE DEF Turn
<1>1. f = [n \in 0..k |-> IF n = 0 THEN first ELSE Turn(f[n - 1], n)]
  BY DEF IsReading, Turn
<1>2. f[0] = first /\ \A n \in 1..k : f[n] = Turn(f[n - 1], n)
  BY <1>1
<1>3. QED
  BY <1>2 DEF Turn

\* The interface of a block is what has been made of it after its last line.
LEMMA InterfaceReading ==
  ASSUME NEW text, NEW h, Len(Body(text, h)) \in Nat
  PROVE  \E f : /\ IsReading(f, NewInterface(text[h].args[1], BlockLines(text, h)), Body(text, h), Len(Body(text, h)))
                /\ CiscoInterface(text, h) = f[Len(Body(text, h))]
<1> DEFINE lines == Body(text, h)
           k     == Len(lines)
           first == NewInterface(text[h].args[1], BlockLines(text, h))
           F     == CHOOSE f : f = [n \in 0..k |-> IF n = 0 THEN first ELSE CiscoStatement(f[n - 1], lines[n])]
<1>1. CiscoInterface(text, h) = F[k]
  BY DEF CiscoInterface
<1>2. k \in Nat
  OBVIOUS
<1> HIDE DEF k, first, lines
<1>3. \E f : IsReading(f, first, lines, k)
  BY <1>2, ReadingDefined
<1>4. IsReading(F, first, lines, k)
  BY <1>3 DEF IsReading
<1>5. QED
  BY <1>1, <1>4 DEF k, first, lines

\* The last of some lines with one of the words, and with one line more.
LEMMA LastIs ==
  ASSUME NEW text, NEW lines, NEW words, NEW m \in Nat,
         m = 0 \/ (m \in lines /\ text[m].word \in words),
         \A j \in lines : text[j].word \in words => j \in Nat /\ j <= m
  PROVE  LastOf(text, lines, words) = m
<1> DEFINE S == {0} \cup {j \in lines : text[j].word \in words}
<1>1. m \in S /\ \A y \in S : m >= y
  <2>1. m \in S
    OBVIOUS
  <2>2. ASSUME NEW y \in S PROVE y \in Nat /\ m >= y
    <3>1. CASE y = 0
      BY <3>1
    <3>2. CASE y \in lines /\ text[y].word \in words
      BY <3>2
    <3>3. QED
      BY <3>1, <3>2
  <2>3. QED
    BY <2>1, <2>2
<1>2. \A x \in S : (\A y \in S : x >= y) => x = m
  <2>1. \A y \in S : y \in Nat
    <3>1. SUFFICES ASSUME NEW y \in S PROVE y \in Nat
      OBVIOUS
    <3>2. y = 0 \/ (y \in lines /\ text[y].word \in words)
      OBVIOUS
    <3>3. QED
      BY <3>2
  <2> HIDE DEF S
  <2>2. QED
    BY <1>1, <2>1
<1> HIDE DEF S
<1>3. Max(S) = m
  BY <1>1, <1>2 DEF Max
<1>4. QED
  BY <1>3 DEF LastOf, S

\* The last of the lines of some words is one of them, or there is none.
LEMMA LastExists ==
  ASSUME NEW text, NEW lines, NEW words, NEW N \in Nat, lines \subseteq 1..N
  PROVE  /\ LastOf(text, lines, words) \in 0..N
         /\ \/ LastOf(text, lines, words) = 0
            \/ LastOf(text, lines, words) \in lines /\ text[LastOf(text, lines, words)].word \in words
         /\ \A j \in lines : text[j].word \in words => j <= LastOf(text, lines, words)
<1> DEFINE S == {0} \cup {j \in lines : text[j].word \in words}
           R == {N - j : j \in S}
<1>1. S \subseteq 0..N /\ 0 \in S
  <2>1. 0 \in 0..N /\ lines \subseteq 0..N
    OBVIOUS
  <2>2. QED
    BY <2>1
<1> HIDE DEF S
<1>2. R \subseteq Nat /\ R # {}
  BY <1>1
<1>3. PICK r \in R : \A q \in R : r <= q
  <2> HIDE DEF R
  <2>1. QED
    BY <1>2, LeastNatural
<1>4. PICK m \in S : r = N - m
  OBVIOUS
<1>5. \A y \in S : m >= y
  <2>1. \A y \in S : N - m <= N - y
    BY <1>3, <1>4
  <2>2. QED
    BY <1>1, <2>1
<1>6. Max(S) \in S /\ \A y \in S : Max(S) >= y
  BY <1>5 DEF Max
<1>7. LastOf(text, lines, words) = Max(S)
  BY DEF LastOf, S
<1>8. QED
  BY <1>1, <1>6, <1>7 DEF S

\* a line more than some, after them
OneMore(new, old, k) ==
  /\ k \in Nat \ {0} /\ k \in new
  /\ \A j \in old : j \in 1 .. k - 1 /\ j \in new
  /\ \A j \in new : j = k \/ j \in old

\* A later line is the last one if it has the words, and changes nothing if not.
LEMMA LastGrows ==
  ASSUME NEW text, NEW k, NEW old, NEW new, NEW words, OneMore(new, old, k)
  PROVE  /\ text[k].word \in words => LastOf(text, new, words) = k
         /\ text[k].word \notin words => LastOf(text, new, words) = LastOf(text, old, words)
<1> DEFINE last == LastOf(text, old, words)
<1>1. /\ k \in Nat /\ k \in new /\ old \subseteq 1..k /\ old \subseteq new
      /\ \A j \in new : j \in Nat /\ j <= k /\ (j = k \/ j \in old)
      /\ \A j \in old : j \in Nat
  BY DEF OneMore
<1>2. /\ last \in Nat
      /\ last = 0 \/ (last \in old /\ text[last].word \in words)
      /\ \A j \in old : text[j].word \in words => j <= last
  <2>1. k \in Nat /\ old \subseteq 1..k
    BY <1>1
  <2>2. /\ last \in 0..k
        /\ last = 0 \/ (last \in old /\ text[last].word \in words)
        /\ \A j \in old : text[j].word \in words => j <= last
    BY <2>1, LastExists
  <2> HIDE DEF last
  <2>3. QED
    BY <2>1, <2>2
<1> HIDE DEF last
<1>3. CASE text[k].word \in words
  <2>1. LastOf(text, new, words) = k
    BY <1>1, <1>3, LastIs
  <2>2. QED
    BY <1>3, <2>1
<1>4. CASE text[k].word \notin words
  <2>1. \A j \in new : text[j].word \in words => j \in Nat /\ j <= last
    BY <1>1, <1>2, <1>4
  <2>2. last = 0 \/ (last \in new /\ text[last].word \in words)
    BY <1>1, <1>2
  <2>3. LastOf(text, new, words) = last
    BY <1>2, <2>1, <2>2, LastIs
  <2>4. QED
    BY <1>4, <2>3 DEF last
<1>5. QED
  BY <1>3, <1>4

\* Of the lines to the end of a block, the last with a word is of those it owns.
LEMMA LastOwn ==
  ASSUME NEW text, IsList(text), NEW h \in DOMAIN text, NEW words, "!" \notin words
  PROVE  LastOf(text, h + 1 .. BlockEnd(text, h) - 1, words) = LastOf(text, Own(text, h), words)
<1>1. /\ BlockEnd(text, h) \in h + 1 .. Len(text) + 1
      /\ \A i \in h + 1 .. Len(text) : text[i].word # "!" => (i < BlockEnd(text, h) <=> i \in Own(text, h))
  BY BlockReaches
<1>2. Len(text) \in Nat /\ h \in 1..Len(text)
  BY ListLength
<1>3. Own(text, h) \subseteq h + 1 .. Len(text)
  BY DEF Own
<1> DEFINE to == BlockEnd(text, h) - 1
           own == Own(text, h)
<1>4. \A i \in h + 1 .. to : i \in h + 1 .. Len(text) /\ i < BlockEnd(text, h)
  BY <1>1, <1>2
<1>5. \A i \in h + 1 .. Len(text) : i < BlockEnd(text, h) => i \in h + 1 .. to
  BY <1>1, <1>2
<1> HIDE DEF to, own
<1>6. \A i : text[i].word \in words => (i \in h + 1 .. to <=> i \in own)
  BY <1>1, <1>3, <1>4, <1>5 DEF own
<1>7. {j \in h + 1 .. to : text[j].word \in words} = {j \in own : text[j].word \in words}
  BY <1>6
<1>8. QED
  BY <1>7 DEF LastOf, to, own

\* The lines of a block after its header, one by one.
LEMMA BodyLines ==
  ASSUME NEW text, IsList(text), NEW h \in DOMAIN text
  PROVE  /\ Len(Body(text, h)) \in Nat /\ h \in Nat
         /\ h + Len(Body(text, h)) = BlockEnd(text, h) - 1
         /\ \A n \in 1..Len(Body(text, h)) : Body(text, h)[n] = text[h + n]
<1> DEFINE end == BlockEnd(text, h)
<1>1. end \in h + 1 .. Len(text) + 1 /\ Len(text) \in Nat /\ h \in 1..Len(text) /\ text \in Seq(ToSet(text))
  BY BlockReaches, ListLength
<1> HIDE DEF end
<1>2. \A i \in h + 1 .. end - 1 : text[i] \in ToSet(text)
  <2>1. \A i \in h + 1 .. end - 1 : i \in 1..Len(text)
    BY <1>1
  <2>2. QED
    BY <1>1, <2>1, ListLength DEF ToSet
<1> DEFINE m == h + 1
           n == end - 1
<1>3. m \in Int /\ n \in Int /\ m .. n \subseteq Int /\ \A i \in m .. n : text[i] \in ToSet(text)
  BY <1>1, <1>2
<1> DEFINE s == SubSeq(text, m, n)
<1>4. /\ Len(s) = IF m <= n THEN n - m + 1 ELSE 0
      /\ \A i \in 1 .. n - m + 1 : s[i] = text[m + i - 1]
  <2> HIDE DEF m, n
  <2>1. QED
    BY <1>3, SubSeqProperties
<1>5. Len(s) = end - 1 - h
  BY <1>1, <1>4
<1>6. \A i \in 1 .. Len(s) : s[i] = text[h + i]
  <2>1. \A i \in 1 .. Len(s) : i \in 1 .. n - m + 1 /\ m + i - 1 = h + i
    BY <1>1, <1>5
  <2>2. QED
    BY <1>4, <2>1
<1>7. Body(text, h) = s
  BY DEF Body, end
<1> HIDE DEF s
<1>8. Len(s) \in Nat /\ h \in Nat /\ h + Len(s) = end - 1
  BY <1>1, <1>5
<1>9. QED
  BY <1>6, <1>7, <1>8 DEF end

\* What one line makes of an interface.
LEMMA StatementMakes ==
  ASSUME NEW intf, DOMAIN intf = DOMAIN NewInterface(None, << >>), NEW ln
  PROVE  LET t == CiscoStatement(intf, ln) IN
         /\ DOMAIN t = DOMAIN intf /\ t.evidence = intf.evidence
         /\ t.mode = IF ln.word = "switchport mode" THEN ln.args[1] ELSE IF ln.word = "ip address" THEN "routed" ELSE intf.mode
         /\ t.access = IF ln.word = "switchport access vlan" THEN NumberIn(ln.ids) ELSE intf.access
         /\ t.trunk = IF ln.word = "switchport trunk allowed vlan" THEN VLANList(ln.ids) ELSE intf.trunk
<1> DEFINE t == CiscoStatement(intf, ln)
           A == [intf EXCEPT !.description = ln.args[1]]
           B == [intf EXCEPT !.shutdown = TRUE]
           C == [intf EXCEPT !.shutdown = FALSE]
           D == [intf EXCEPT !.mode = ln.args[1]]
           E == [intf EXCEPT !.access = NumberIn(ln.ids)]
           F == [intf EXCEPT !.trunk = VLANList(ln.ids)]
           G == [intf EXCEPT !.mode = "routed", !.ipv4 = ln.args[1]]
<1>1. {"evidence", "mode", "access", "trunk", "description", "shutdown", "ipv4"} \subseteq DOMAIN intf
  BY DEF NewInterface
<1>2. t = CASE ln.word = "description" -> A
            [] ln.word = "shutdown" -> B
            [] ln.word = "no shutdown" -> C
            [] ln.word = "switchport mode" -> D
            [] ln.word = "switchport access vlan" -> E
            [] ln.word = "switchport trunk allowed vlan" -> F
            [] ln.word = "ip address" -> G
            [] OTHER -> intf
  BY Zenon DEF CiscoStatement
<1>3. \/ ln.word = "description" /\ t = A
      \/ ln.word = "shutdown" /\ t = B
      \/ ln.word = "no shutdown" /\ t = C
      \/ ln.word = "switchport mode" /\ t = D
      \/ ln.word = "switchport access vlan" /\ t = E
      \/ ln.word = "switchport trunk allowed vlan" /\ t = F
      \/ ln.word = "ip address" /\ t = G
      \/ /\ ln.word \notin {"switchport mode", "switchport access vlan", "switchport trunk allowed vlan", "ip address"}
         /\ t = intf
  <2> HIDE DEF t, A, B, C, D, E, F, G
  <2>1. QED
    BY <1>2
<1> HIDE DEF t
<1> USE <1>1
<1> DEFINE Right(u) ==
             /\ DOMAIN u = DOMAIN intf /\ u.evidence = intf.evidence
             /\ u.mode = IF ln.word = "switchport mode" THEN ln.args[1] ELSE IF ln.word = "ip address" THEN "routed" ELSE intf.mode
             /\ u.access = IF ln.word = "switchport access vlan" THEN NumberIn(ln.ids) ELSE intf.access
             /\ u.trunk = IF ln.word = "switchport trunk allowed vlan" THEN VLANList(ln.ids) ELSE intf.trunk
<1>4. ASSUME ln.word = "description" /\ t = A
      PROVE  Right(t)
  BY <1>4
<1>5. ASSUME ln.word = "shutdown" /\ t = B
      PROVE  Right(t)
  BY <1>5
<1>6. ASSUME ln.word = "no shutdown" /\ t = C
      PROVE  Right(t)
  BY <1>6
<1>7. ASSUME ln.word = "switchport mode" /\ t = D
      PROVE  Right(t)
  BY <1>7
<1>8. ASSUME ln.word = "switchport access vlan" /\ t = E
      PROVE  Right(t)
  BY <1>8
<1>9. ASSUME ln.word = "switchport trunk allowed vlan" /\ t = F
      PROVE  Right(t)
  BY <1>9
<1>10. ASSUME ln.word = "ip address" /\ t = G
      PROVE  Right(t)
  BY <1>10
<1>11. ASSUME /\ ln.word \notin {"switchport mode", "switchport access vlan", "switchport trunk allowed vlan", "ip address"}
              /\ t = intf
       PROVE  Right(t)
  BY <1>11
<1>12. Right(t)
  BY <1>3, <1>4, <1>5, <1>6, <1>7, <1>8, <1>9, <1>10, <1>11
<1>13. QED
  BY <1>12 DEF t

\* what the last of some lines make of a Cisco interface
ModeBy(text, lines) ==
  LET at == LastOf(text, lines, {"switchport mode", "ip address"})
  IN IF at = 0 THEN "unknown" ELSE IF text[at].word = "ip address" THEN "routed" ELSE text[at].args[1]

\* the access VLAN that some lines of a block say
AccessBy(text, lines) ==
  LET at == LastOf(text, lines, {"switchport access vlan"})
  IN IF at = 0 THEN 0 ELSE NumberIn(text[at].ids)

\* the VLANs of the trunk that they say
TrunkBy(text, lines) ==
  LET at == LastOf(text, lines, {"switchport trunk allowed vlan"})
  IN IF at = 0 THEN << >> ELSE VLANList(text[at].ids)

\* an interface is what some of its lines say, by the last of each kind
IsReadOf(intf, text, h, lines) ==
  /\ DOMAIN intf = DOMAIN NewInterface(None, << >>)
  /\ intf.evidence = BlockLines(text, h)
  /\ intf.mode = ModeBy(text, lines) /\ intf.access = AccessBy(text, lines) /\ intf.trunk = TrunkBy(text, lines)

\* An interface without lines, and with one line more.
LEMMA ReadOfHeader ==
  ASSUME NEW text, NEW h \in Nat
  PROVE  IsReadOf(NewInterface(text[h].args[1], BlockLines(text, h)), text, h, h + 1 .. h + 0)
<1> DEFINE lines == h + 1 .. h + 0
<1>1. \A j \in lines : FALSE
  OBVIOUS
<1> HIDE DEF lines
<1>2. \A words : LastOf(text, lines, words) = 0
  BY <1>1, LastIs
<1>3. ModeBy(text, lines) = "unknown" /\ AccessBy(text, lines) = 0 /\ TrunkBy(text, lines) = << >>
  BY <1>2 DEF ModeBy, AccessBy, TrunkBy
<1>4. QED
  BY <1>3 DEF IsReadOf, NewInterface, lines

\* One more line of its block keeps an interface what its lines say.
LEMMA ReadOfMore ==
  ASSUME NEW text, NEW h \in Nat, NEW n \in Nat \ {0}, NEW intf, IsReadOf(intf, text, h, h + 1 .. h + (n - 1))
  PROVE  IsReadOf(CiscoStatement(intf, text[h + n]), text, h, h + 1 .. h + n)
<1> DEFINE old == h + 1 .. h + (n - 1)
           new == h + 1 .. h + n
           k   == h + n
           ln  == text[k]
           t   == CiscoStatement(intf, ln)
<1>1. ASSUME NEW words
      PROVE  /\ text[k].word \in words => LastOf(text, new, words) = k
             /\ text[k].word \notin words => LastOf(text, new, words) = LastOf(text, old, words)
  <2>1. OneMore(new, old, k)
    BY DEF OneMore
  <2> HIDE DEF k, old, new
  <2>2. QED
    BY <2>1, LastGrows
<1>2. k # 0
  OBVIOUS
<1>3. DOMAIN intf = DOMAIN NewInterface(None, << >>)
  BY DEF IsReadOf
<1>4. /\ DOMAIN t = DOMAIN intf /\ t.evidence = intf.evidence
      /\ t.mode = IF ln.word = "switchport mode" THEN ln.args[1] ELSE IF ln.word = "ip address" THEN "routed" ELSE intf.mode
      /\ t.access = IF ln.word = "switchport access vlan" THEN NumberIn(ln.ids) ELSE intf.access
      /\ t.trunk = IF ln.word = "switchport trunk allowed vlan" THEN VLANList(ln.ids) ELSE intf.trunk
  <2> HIDE DEF ln
  <2>1. QED
    BY <1>3, StatementMakes
<1>5. /\ intf.evidence = BlockLines(text, h)
      /\ intf.mode = ModeBy(text, old) /\ intf.access = AccessBy(text, old) /\ intf.trunk = TrunkBy(text, old)
  BY DEF IsReadOf
<1> HIDE DEF old, new, k, t
<1>6. t.mode = ModeBy(text, new)
  <2> DEFINE words == {"switchport mode", "ip address"}
  <2>1. LastOf(text, new, words) = IF ln.word \in words THEN k ELSE LastOf(text, old, words)
    BY <1>1
  <2>2. CASE ln.word \in words
    BY <1>2, <1>4, <2>1, <2>2 DEF ModeBy
  <2>3. CASE ln.word \notin words
    BY <1>4, <1>5, <2>1, <2>3 DEF ModeBy
  <2>4. QED
    BY <2>2, <2>3
<1>7. t.access = AccessBy(text, new)
  <2> DEFINE words == {"switchport access vlan"}
  <2>1. LastOf(text, new, words) = IF ln.word \in words THEN k ELSE LastOf(text, old, words)
    BY <1>1
  <2>2. CASE ln.word \in words
    BY <1>2, <1>4, <2>1, <2>2 DEF AccessBy
  <2>3. CASE ln.word \notin words
    BY <1>4, <1>5, <2>1, <2>3 DEF AccessBy
  <2>4. QED
    BY <2>2, <2>3
<1>8. t.trunk = TrunkBy(text, new)
  <2> DEFINE words == {"switchport trunk allowed vlan"}
  <2>1. LastOf(text, new, words) = IF ln.word \in words THEN k ELSE LastOf(text, old, words)
    BY <1>1
  <2>2. CASE ln.word \in words
    BY <1>2, <1>4, <2>1, <2>2 DEF TrunkBy
  <2>3. CASE ln.word \notin words
    BY <1>4, <1>5, <2>1, <2>3 DEF TrunkBy
  <2>4. QED
    BY <2>2, <2>3
<1>9. QED
  BY <1>3, <1>4, <1>5, <1>6, <1>7, <1>8 DEF IsReadOf, t, ln, k, new

\* A Cisco interface is what the last of its own lines make of it.
LEMMA InterfaceTold ==
  ASSUME NEW text, IsList(text), NEW h \in DOMAIN text
  PROVE  IsReadOf(CiscoInterface(text, h), text, h, Own(text, h))
<1> DEFINE lines == Body(text, h)
           k     == Len(lines)
           first == NewInterface(text[h].args[1], BlockLines(text, h))
<1>1. k \in Nat /\ h \in Nat /\ h + k = BlockEnd(text, h) - 1 /\ \A n \in 1..k : lines[n] = text[h + n]
  BY BodyLines
<1>2. PICK f : IsReading(f, first, lines, k) /\ CiscoInterface(text, h) = f[k]
  BY <1>1, InterfaceReading
<1> HIDE DEF lines, k
<1>3. f[0] = first /\ \A n \in 1..k : f[n] = CiscoStatement(f[n - 1], lines[n])
  <2> HIDE DEF first
  <2>1. QED
    BY <1>1, <1>2, ReadingTurn
<1> DEFINE Good(n) == IsReadOf(f[n], text, h, h + 1 .. h + n)
           Bad == {n \in 0..k : ~Good(n)}
<1>4. Good(0)
  BY <1>1, <1>3, ReadOfHeader
<1> HIDE DEF first
<1>5. Bad = {}
  <2>1. SUFFICES ASSUME Bad # {} PROVE FALSE
    OBVIOUS
  <2>2. Bad \subseteq Nat
    BY <1>1
  <2>3. PICK n \in Bad : \A m \in Bad : n <= m
    BY <2>1, <2>2, LeastNatural
  <2>4. n # 0 /\ n \in 1..k /\ n - 1 \in 0..k /\ n - 1 \notin Bad /\ n \in Nat \ {0}
    BY <1>1, <1>4, <2>3
  <2>5. Good(n - 1)
    BY <2>4
  <2>6. f[n] = CiscoStatement(f[n - 1], text[h + n])
    BY <1>1, <1>3, <2>4
  <2>7. Good(n)
    BY <1>1, <2>4, <2>5, <2>6, ReadOfMore
  <2>8. QED
    BY <2>3, <2>7
<1>6. Good(k)
  BY <1>1, <1>5
<1>7. \A words : "!" \notin words => LastOf(text, h + 1 .. h + k, words) = LastOf(text, Own(text, h), words)
  BY <1>1, LastOwn
<1>8. /\ LastOf(text, h + 1 .. h + k, {"switchport mode", "ip address"}) = LastOf(text, Own(text, h), {"switchport mode", "ip address"})
      /\ LastOf(text, h + 1 .. h + k, {"switchport access vlan"}) = LastOf(text, Own(text, h), {"switchport access vlan"})
      /\ LastOf(text, h + 1 .. h + k, {"switchport trunk allowed vlan"}) = LastOf(text, Own(text, h), {"switchport trunk allowed vlan"})
  BY <1>7
<1>9. /\ ModeBy(text, h + 1 .. h + k) = ModeBy(text, Own(text, h))
      /\ AccessBy(text, h + 1 .. h + k) = AccessBy(text, Own(text, h))
      /\ TrunkBy(text, h + 1 .. h + k) = TrunkBy(text, Own(text, h))
  BY <1>8 DEF ModeBy, AccessBy, TrunkBy
<1>10. QED
  BY <1>2, <1>6, <1>9 DEF IsReadOf

\* There is one object of each of some lines, in the order of these.
Listed(objects, lines) ==
  /\ IsList(objects)
  /\ \A m \in DOMAIN objects : objects[m].evidence[1] \in lines
  /\ \A i \in lines : \E m \in DOMAIN objects : objects[m].evidence[1] = i
  /\ \A m, k \in DOMAIN objects : m < k => objects[m].evidence[1] < objects[k].evidence[1]

\* a list with one object more
Longer(new, old, r) ==
  /\ IsList(new) /\ IsList(old)
  /\ DOMAIN new = 1 .. Len(old) + 1 /\ DOMAIN old = 1 .. Len(old) /\ Len(old) \in Nat
  /\ \A m \in DOMAIN old : m \in DOMAIN new /\ new[m] = old[m]
  /\ new[Len(old) + 1] = r
  /\ \A m \in DOMAIN new : (m \in DOMAIN old /\ new[m] = old[m]) \/ (m = Len(old) + 1 /\ new[m] = r)

\* A list joined with one entry is longer by it,
LEMMA LongerJoined ==
  ASSUME NEW old, IsList(old), NEW r
  PROVE  Longer(old \o <<r>>, old, r)
<1> DEFINE t == <<r>>
           u == old \o t
           L == Len(old)
<1>1. IsList(t) /\ Len(t) = 1 /\ t[1] = r
  <2>1. t \in Seq({r}) /\ Len(t) = 1 /\ t[1] = r
    OBVIOUS
  <2>2. QED
    BY <2>1, SequenceIsList
<1> HIDE DEF t
<1>2. /\ IsList(u) /\ Len(u) = L + Len(t)
      /\ \A m \in 1..L : u[m] = old[m]
      /\ \A m \in 1 .. Len(t) : u[L + m] = t[m]
  <2>1. IsList(old) /\ IsList(t)
    BY <1>1
  <2>2. QED
    BY <2>1, ListsConcat
<1>3. L \in Nat /\ DOMAIN old = 1..L
  BY ListLength
<1> HIDE DEF u, L
<1>4. DOMAIN u = 1..L + 1 /\ u[L + 1] = r
  <2>1. Len(u) = L + 1
    BY <1>1, <1>2
  <2>2. 1 \in 1 .. Len(t)
    BY <1>1
  <2>3. QED
    BY <1>1, <1>2, <2>1, <2>2, ListLength
<1>5. \A m \in 1..L : m \in 1..L + 1
  BY <1>3
<1>6. \A m \in 1..L + 1 : m \in 1..L \/ m = L + 1
  BY <1>3
<1>7. QED
  BY <1>2, <1>3, <1>4, <1>5, <1>6 DEF Longer, u, t, L

\* and so is a list it is appended to.
LEMMA LongerAppended ==
  ASSUME NEW old, IsList(old), NEW r
  PROVE  Longer(Append(old, r), old, r)
<1> DEFINE u == Append(old, r)
           L == Len(old)
<1>1. /\ IsList(u) /\ L \in Nat
      /\ DOMAIN old = 1..L /\ DOMAIN u = 1..L + 1
      /\ \A m \in 1..L : u[m] = old[m]
      /\ u[L + 1] = r
  BY Appended
<1> HIDE DEF u, L
<1>2. \A m \in 1..L : m \in 1..L + 1
  BY <1>1
<1>3. \A m \in 1..L + 1 : m \in 1..L \/ m = L + 1
  BY <1>1
<1>4. QED
  BY <1>1, <1>2, <1>3 DEF Longer, u, L

\* The object of a later line is one more at the end.
LEMMA ListedGrows ==
  ASSUME NEW new, NEW old, NEW r, Longer(new, old, r), NEW lines, Listed(old, lines),
         NEW n \in Nat, lines \subseteq 0 .. n - 1, r.evidence[1] = n
  PROVE  Listed(new, lines \cup {n})
<1> DEFINE L == Len(old)
<1>1. /\ IsList(new) /\ L \in Nat /\ DOMAIN old = 1..L /\ DOMAIN new = 1..L + 1
      /\ \A m \in DOMAIN old : m \in DOMAIN new /\ new[m] = old[m]
      /\ new[L + 1] = r
      /\ \A m \in DOMAIN new : (m \in DOMAIN old /\ new[m] = old[m]) \/ (m = L + 1 /\ new[m] = r)
  BY DEF Longer
<1> HIDE DEF L
<1>2. \A m \in DOMAIN new : new[m].evidence[1] \in lines \cup {n}
  BY <1>1 DEF Listed
<1>3. ASSUME NEW i \in lines \cup {n}
      PROVE  \E m \in DOMAIN new : new[m].evidence[1] = i
  <2>1. CASE i \in lines
    BY <1>1, <2>1 DEF Listed
  <2>2. CASE i = n
    <3>1. L + 1 \in DOMAIN new
      BY <1>1
    <3>2. QED
      BY <1>1, <2>2, <3>1
  <2>3. QED
    BY <2>1, <2>2
<1>4. ASSUME NEW m \in DOMAIN new, NEW k \in DOMAIN new, m < k
      PROVE  new[m].evidence[1] < new[k].evidence[1]
  <2>1. m \in DOMAIN old /\ new[m] = old[m]
    BY <1>1, <1>4
  <2>2. CASE k \in DOMAIN old /\ new[k] = old[k]
    BY <1>4, <2>1, <2>2 DEF Listed
  <2>3. CASE new[k] = r
    <3>1. old[m].evidence[1] \in lines
      BY <2>1 DEF Listed
    <3>2. new[m].evidence[1] \in 0 .. n - 1
      BY <2>1, <3>1
    <3>3. QED
      BY <2>3, <3>2
  <2>4. QED
    BY <1>1, <2>2, <2>3
<1>5. QED
  BY <1>1, <1>2, <1>3, <1>4 DEF Listed

-----------------------------------------------------------------------------
\* A block's lines start with its header.
LEMMA BlockShown ==
  ASSUME NEW text, IsList(text), NEW h \in DOMAIN text
  PROVE  /\ IsList(BlockLines(text, h)) /\ BlockLines(text, h)[1] = h
         /\ ToSet(BlockLines(text, h)) \subseteq DOMAIN text
         /\ \A i \in DOMAIN text : text[i].word # "!" => (i \in ToSet(BlockLines(text, h)) <=> i = h \/ i \in Own(text, h))
<1> DEFINE end == BlockEnd(text, h)
           N   == Len(text)
<1>1. end \in h + 1 .. N + 1 /\ \A i \in h + 1 .. N : text[i].word # "!" => (i < end <=> i \in Own(text, h))
  BY BlockReaches
<1>2. N \in Nat /\ DOMAIN text = 1..N /\ h \in 1..N
  BY ListLength
<1>3. Own(text, h) \subseteq h + 1 .. N
  BY DEF Own
<1>4. BlockLines(text, h) = Lines(h, end - 1)
  BY DEF BlockLines
<1> HIDE DEF end, N
<1>5. h \in Nat /\ end - 1 \in Nat /\ h <= end - 1
  BY <1>1, <1>2
<1>6. /\ IsList(Lines(h, end - 1)) /\ Lines(h, end - 1)[1] = h
      /\ ToSet(Lines(h, end - 1)) = h .. end - 1
  <2> DEFINE to == end - 1
  <2>1. h \in Nat /\ to \in Nat /\ h <= to
    BY <1>5
  <2> HIDE DEF to
  <2>2. IsList(Lines(h, to)) /\ Lines(h, to)[1] = h /\ ToSet(Lines(h, to)) = h .. to
    BY <2>1, LinesList
  <2>3. QED
    BY <2>2 DEF to
<1>7. ASSUME NEW i \in DOMAIN text, text[i].word # "!"
      PROVE  i \in h .. end - 1 <=> i = h \/ i \in Own(text, h)
  <2>1. i \in 1..N
    BY <1>2
  <2>2. CASE i <= h
    <3>1. i \notin Own(text, h)
      BY <1>2, <1>3, <2>1, <2>2
    <3>2. QED
      BY <1>2, <1>5, <2>1, <2>2, <3>1
  <2>3. CASE ~(i <= h)
    <3>1. i \in h + 1 .. N
      BY <1>2, <2>1, <2>3
    <3>2. i < end <=> i \in Own(text, h)
      BY <1>1, <1>7, <3>1
    <3>3. QED
      BY <1>1, <1>2, <2>1, <2>3, <3>2
  <2>4. QED
    BY <2>2, <2>3
<1>8. h .. end - 1 \subseteq DOMAIN text
  BY <1>1, <1>2
<1>9. QED
  BY <1>4, <1>6, <1>7, <1>8

\* the lines outside the blocks, up to one of them, that make an interface, or a VLAN
InterfaceLines(text, n) == {i \in Outside(text) : i <= n /\ text[i].word = "interface"}
VLANLines(text, n)      == {i \in Outside(text) : i <= n /\ text[i].word = "vlan" /\ IsNumber(text[i].ids)}

\* The interfaces and the VLANs are those of some lines.
AreInterfaces(interfaces, text, lines) ==
  /\ Listed(interfaces, lines)
  /\ \A m \in DOMAIN interfaces : interfaces[m] = CiscoInterface(text, interfaces[m].evidence[1])

\* The VLANs are those of some lines, in the order of these.
AreVLANs(vlans, text, lines) ==
  /\ Listed(vlans, lines)
  /\ \A m \in DOMAIN vlans : vlans[m].id = NumberIn(text[vlans[m].evidence[1]].ids)

\* A block read adds the interface of its first line.
LEMMA InterfacesGrow ==
  ASSUME NEW text, IsList(text), NEW interfaces, NEW lines, AreInterfaces(interfaces, text, lines),
         NEW n \in DOMAIN text, lines \subseteq 0 .. n - 1
  PROVE  AreInterfaces(Append(interfaces, CiscoInterface(text, n)), text, lines \cup {n})
<1> DEFINE r   == CiscoInterface(text, n)
           new == Append(interfaces, r)
<1>1. n \in Nat
  BY ListLength
<1>2. r.evidence[1] = n
  <2>1. IsReadOf(r, text, n, Own(text, n))
    BY InterfaceTold
  <2>2. r.evidence = BlockLines(text, n)
    BY <2>1 DEF IsReadOf
  <2>3. QED
    BY <2>2, BlockShown
<1> HIDE DEF r
<1>3. Longer(new, interfaces, r)
  BY LongerAppended DEF AreInterfaces, Listed
<1> HIDE DEF new
<1>4. Listed(new, lines \cup {n})
  BY <1>1, <1>2, <1>3, ListedGrows DEF AreInterfaces
<1>5. \A m \in DOMAIN new : new[m] = CiscoInterface(text, new[m].evidence[1])
  <2>1. r = CiscoInterface(text, r.evidence[1])
    BY <1>2 DEF r
  <2>2. QED
    BY <1>3, <2>1 DEF Longer, AreInterfaces
<1>6. QED
  BY <1>4, <1>5 DEF AreInterfaces, new, r

\* A "vlan" line adds the VLAN of its number, if it has one.
LEMMA VLANsGrow ==
  ASSUME NEW text, IsList(text), NEW vlans, NEW lines, AreVLANs(vlans, text, lines),
         NEW n \in DOMAIN text, lines \subseteq 0 .. n - 1
  PROVE  AreVLANs(vlans \o CiscoVLANs(text, n), text, IF IsNumber(text[n].ids) THEN lines \cup {n} ELSE lines)
<1> DEFINE r   == [id |-> NumberIn(text[n].ids), name |-> NameIn(Body(text, n)), evidence |-> BlockLines(text, n)]
           new == vlans \o <<r>>
<1>1. n \in Nat /\ IsList(vlans)
  BY ListLength DEF AreVLANs, Listed
<1>2. r.evidence[1] = n /\ r.id = NumberIn(text[n].ids)
  BY BlockShown
<1>3. CiscoVLANs(text, n) = IF ~IsNumber(text[n].ids) THEN << >> ELSE <<r>>
  BY DEF CiscoVLANs
<1> HIDE DEF r
<1>4. CASE ~IsNumber(text[n].ids)
  <2>1. vlans \in Seq(ToSet(vlans))
    BY <1>1 DEF IsList
  <2>2. vlans \o << >> = vlans
    BY <2>1, ConcatEmptySeq
  <2>3. QED
    BY <1>3, <1>4, <2>2
<1>5. CASE IsNumber(text[n].ids)
  <2>1. Longer(new, vlans, r)
    BY <1>1, LongerJoined
  <2>2. vlans \o CiscoVLANs(text, n) = new
    BY <1>3, <1>5
  <2> HIDE DEF new
  <2>3. Listed(new, lines \cup {n})
    BY <1>1, <1>2, <2>1, ListedGrows DEF AreVLANs
  <2>4. \A m \in DOMAIN new : new[m].id = NumberIn(text[new[m].evidence[1]].ids)
    BY <1>2, <2>1 DEF Longer, AreVLANs
  <2>5. AreVLANs(new, text, lines \cup {n})
    BY <2>3, <2>4 DEF AreVLANs
  <2>6. QED
    BY <1>5, <2>2, <2>5
<1>6. QED
  BY <1>4, <1>5

\* one more line
LEMMA ObjectLinesGrow ==
  ASSUME NEW text, IsList(text), NEW n \in 1..Len(text)
  PROVE  /\ InterfaceLines(text, n - 1) \subseteq 0 .. n - 1 /\ VLANLines(text, n - 1) \subseteq 0 .. n - 1
         /\ InterfaceLines(text, n) =
              InterfaceLines(text, n - 1) \cup (IF n \in Outside(text) /\ text[n].word = "interface" THEN {n} ELSE {})
         /\ VLANLines(text, n) =
              VLANLines(text, n - 1)
              \cup (IF n \in Outside(text) /\ text[n].word = "vlan" /\ IsNumber(text[n].ids) THEN {n} ELSE {})
<1>1. Len(text) \in Nat /\ DOMAIN text = 1..Len(text)
  BY ListLength
<1>2. Outside(text) \subseteq 1..Len(text)
  BY <1>1 DEF Outside
<1>3. \A i \in Outside(text) : i <= n <=> (i <= n - 1 \/ i = n)
  BY <1>1, <1>2
<1>4. \A i \in Outside(text) : i <= n - 1 => i \in 0 .. n - 1
  BY <1>1, <1>2
<1>5. InterfaceLines(text, n - 1) \subseteq 0 .. n - 1 /\ VLANLines(text, n - 1) \subseteq 0 .. n - 1
  BY <1>4 DEF InterfaceLines, VLANLines
<1>6. InterfaceLines(text, n) =
        InterfaceLines(text, n - 1) \cup (IF n \in Outside(text) /\ text[n].word = "interface" THEN {n} ELSE {})
  BY <1>3 DEF InterfaceLines
<1>7. VLANLines(text, n) =
        VLANLines(text, n - 1) \cup (IF n \in Outside(text) /\ text[n].word = "vlan" /\ IsNumber(text[n].ids) THEN {n} ELSE {})
  BY <1>3 DEF VLANLines
<1>8. QED
  BY <1>5, <1>6, <1>7

\* what the device of the loop has
HasObjects(dev, text, n) ==
  /\ AreInterfaces(dev.interfaces, text, InterfaceLines(text, n))
  /\ AreVLANs(dev.vlans, text, VLANLines(text, n))

\* A turn of the loop keeps the interfaces and VLANs those of the lines read.
LEMMA ObjectsKept ==
  ASSUME NEW text, IsList(text), \A i \in DOMAIN text : IsList(text[i].args),
         NEW f, IsLoop(f, text, Len(text)), NEW n \in 1..Len(text),
         HasObjects(f[n - 1].dev, text, n - 1)
  PROVE  HasObjects(f[n].dev, text, n)
<1> DEFINE s == f[n - 1]
           t == f[n]
           out == n \in Outside(text)
           word == text[n].word
           interfaces == InterfaceLines(text, n - 1)
           vlans == VLANLines(text, n - 1)
<1>1. Len(text) \in Nat /\ n \in DOMAIN text /\ n \in Nat /\ n - 1 \in 0..Len(text) /\ IsList(text[n].args)
  BY ListLength
<1>2. t = IF n < s.next THEN s ELSE CiscoStep(text, s, n)
  BY <1>1, LoopTurn
<1>3. DOMAIN s.dev = DOMAIN NoDevice
  BY <1>1, LoopPlaces DEF LoopPlace
<1>4. word # "!" => (n < s.next <=> ~out)
  BY LoopReads
<1>5. AreInterfaces(s.dev.interfaces, text, interfaces) /\ AreVLANs(s.dev.vlans, text, vlans)
  BY DEF HasObjects
<1>6. /\ interfaces \subseteq 0 .. n - 1 /\ vlans \subseteq 0 .. n - 1
      /\ InterfaceLines(text, n) = interfaces \cup (IF out /\ word = "interface" THEN {n} ELSE {})
      /\ VLANLines(text, n) = vlans \cup (IF out /\ word = "vlan" /\ IsNumber(text[n].ids) THEN {n} ELSE {})
  BY ObjectLinesGrow
<1>7. ~(n < s.next) =>
        /\ t.dev.interfaces = IF word = "interface" THEN Append(s.dev.interfaces, CiscoInterface(text, n)) ELSE s.dev.interfaces
        /\ t.dev.vlans = IF word = "vlan" THEN s.dev.vlans \o CiscoVLANs(text, n) ELSE s.dev.vlans
  <2>1. SUFFICES ASSUME ~(n < s.next)
                 PROVE  TurnOf(text, s, t, n)
    BY DEF TurnOf
  <2>2. t = CiscoStep(text, s, n)
    BY <1>2, <2>1
  <2> HIDE DEF s, t
  <2>3. TurnOf(text, s, CiscoStep(text, s, n), n)
    BY <1>1, <1>3, CiscoTurn
  <2>4. QED
    BY <2>2, <2>3
<1> SUFFICES /\ AreInterfaces(t.dev.interfaces, text, InterfaceLines(text, n))
             /\ AreVLANs(t.dev.vlans, text, VLANLines(text, n))
  BY DEF HasObjects
<1> HIDE DEF s, t, out, word, interfaces, vlans
<1>8. AreInterfaces(t.dev.interfaces, text, InterfaceLines(text, n))
  <2>1. CASE out /\ word = "interface"
    <3>1. t.dev.interfaces = Append(s.dev.interfaces, CiscoInterface(text, n))
      BY <1>4, <1>7, <2>1
    <3>2. InterfaceLines(text, n) = interfaces \cup {n}
      BY <1>6, <2>1
    <3>3. AreInterfaces(Append(s.dev.interfaces, CiscoInterface(text, n)), text, interfaces \cup {n})
      BY <1>1, <1>5, <1>6, InterfacesGrow
    <3>4. QED
      BY <3>1, <3>2, <3>3
  <2>2. CASE ~(out /\ word = "interface")
    <3>1. t.dev.interfaces = s.dev.interfaces
      BY <1>2, <1>4, <1>7, <2>2
    <3>2. InterfaceLines(text, n) = interfaces
      BY <1>6, <2>2
    <3>3. QED
      BY <1>5, <3>1, <3>2
  <2>3. QED
    BY <2>1, <2>2
<1>9. AreVLANs(t.dev.vlans, text, VLANLines(text, n))
  <2>1. CASE out /\ word = "vlan"
    <3>1. t.dev.vlans = s.dev.vlans \o CiscoVLANs(text, n)
      BY <1>4, <1>7, <2>1
    <3>2. VLANLines(text, n) = IF IsNumber(text[n].ids) THEN vlans \cup {n} ELSE vlans
      BY <1>6, <2>1
    <3>3. AreVLANs(s.dev.vlans \o CiscoVLANs(text, n), text, IF IsNumber(text[n].ids) THEN vlans \cup {n} ELSE vlans)
      BY <1>1, <1>5, <1>6, VLANsGrow
    <3>4. QED
      BY <3>1, <3>2, <3>3
  <2>2. CASE ~(out /\ word = "vlan")
    <3>1. t.dev.vlans = s.dev.vlans
      BY <1>2, <1>4, <1>7, <2>2
    <3>2. VLANLines(text, n) = vlans
      BY <1>6, <2>2
    <3>3. QED
      BY <1>5, <3>1, <3>2
  <2>3. QED
    BY <2>1, <2>2
<1>10. QED
  BY <1>8, <1>9

\* The interfaces and the VLANs of a Cisco device are those of the lines outside the blocks.
LEMMA CiscoObjectsTell ==
  ASSUME NEW text, IsList(text), \A i \in DOMAIN text : IsList(text[i].args)
  PROVE  HasObjects(CiscoDevice(text), text, Len(text))
<1> DEFINE N == Len(text)
<1>1. PICK f : IsLoop(f, text, N) /\ CiscoDevice(text) = f[N].dev
  BY CiscoLoop
<1>2. N \in Nat /\ DOMAIN text = 1..N
  BY ListLength
<1> DEFINE Good(n) == HasObjects(f[n].dev, text, n)
           Bad == {n \in 0..N : ~Good(n)}
<1>3. Good(0)
  <2>1. f[0].dev = NoDevice
    BY <1>1, <1>2, LoopBegins DEF Start
  <2>2. f[0].dev.interfaces = << >> /\ f[0].dev.vlans = << >>
    BY <2>1 DEF NoDevice
  <2>3. IsList(<< >>) /\ DOMAIN << >> = {}
    BY EmptyIsList
  <2>4. Outside(text) \subseteq 1..N
    BY <1>2 DEF Outside
  <2>5. \A i \in Outside(text) : ~(i <= 0)
    BY <1>2, <2>4
  <2>6. InterfaceLines(text, 0) = {} /\ VLANLines(text, 0) = {}
    BY <2>5 DEF InterfaceLines, VLANLines
  <2>7. QED
    BY <2>2, <2>3, <2>6 DEF HasObjects, AreInterfaces, AreVLANs, Listed
<1>4. Bad = {}
  <2>1. SUFFICES ASSUME Bad # {} PROVE FALSE
    OBVIOUS
  <2>2. Bad \subseteq Nat
    BY <1>2
  <2>3. PICK n \in Bad : \A m \in Bad : n <= m
    BY <2>1, <2>2, LeastNatural
  <2>4. n # 0 /\ n \in 1..N /\ n - 1 \in 0..N /\ n - 1 \notin Bad
    BY <1>2, <1>3, <2>3
  <2>5. Good(n - 1)
    BY <2>4
  <2>6. Good(n)
    BY <1>1, <2>4, <2>5, ObjectsKept
  <2>7. QED
    BY <2>3, <2>6
<1>5. Good(N)
  BY <1>2, <1>4
<1>6. QED
  BY <1>1, <1>5

\* An interface has a VLAN as an access port, or carries it, as its own lines say.
LEMMA AccessTold ==
  ASSUME NEW text, NEW h, NEW intf, IsReadOf(intf, text, h, Own(text, h)), NEW id
  PROVE  IsAccess(intf, id) <=> UsesAccess(text, h, id)
<1> DEFINE at   == LastOf(text, Own(text, h), {"switchport access vlan"})
           last == LastOf(text, Own(text, h), {"switchport mode", "ip address"})
           own  == IF at = 0 THEN 0 ELSE NumberIn(text[at].ids)
           mode == IF last = 0 THEN "unknown" ELSE IF text[last].word = "ip address" THEN "routed" ELSE text[last].args[1]
<1>1. intf.mode = mode /\ intf.access = own
  BY DEF IsReadOf, ModeBy, AccessBy
<1>2. UsesAccess(text, h, id) <=> mode = "access" /\ id = own
  BY DEF UsesAccess, ModeSaid, Said
<1> HIDE DEF mode, own
<1>3. QED
  BY <1>1, <1>2 DEF IsAccess

\* a configuration of which no line says in so many words that all VLANs are allowed
SaysNoAll(text) == \A i \in DOMAIN text : ~Mentions(text[i])

\* An interface allows every VLAN if one of its lines does.
LEMMA AllTold ==
  ASSUME NEW text, IsList(text), SaysNoAll(text), NEW h \in DOMAIN text, text[h].word = "interface",
         NEW intf, IsReadOf(intf, text, h, Own(text, h))
  PROVE  AllowsAll(text, intf) <=> \E j \in Own(text, h) : AllowsEvery(text[j])
<1> DEFINE shown == ToSet(BlockLines(text, h))
           own   == Own(text, h)
           words == {"switchport trunk allowed vlan", "vlan trunk allowed"}
<1>1. intf.evidence = BlockLines(text, h)
  BY DEF IsReadOf
<1>2. shown \subseteq DOMAIN text /\ \A i \in DOMAIN text : text[i].word # "!" => (i \in shown <=> i = h \/ i \in own)
  BY BlockShown
<1>3. own \subseteq DOMAIN text
  <2>1. Len(text) \in Nat /\ DOMAIN text = 1..Len(text)
    BY ListLength
  <2>2. own \subseteq h + 1 .. Len(text)
    BY DEF Own
  <2>3. h + 1 .. Len(text) \subseteq 1..Len(text)
    BY <2>1
  <2>4. QED
    BY <2>1, <2>2, <2>3
<1>4. \A i : AllowsEvery(text[i]) <=> text[i].word \in words /\ text[i].ids # << >> /\ Head(text[i].ids) = All
  BY DEF AllowsEvery
<1>5. AllowsAll(text, intf) <=> \E i \in shown : AllowsEvery(text[i])
  <2>1. AllowsAll(text, intf) <=> \E i \in shown : AllowsEvery(text[i]) \/ Mentions(text[i])
    BY <1>1 DEF AllowsAll
  <2>2. \A i \in shown : ~Mentions(text[i])
    BY <1>2 DEF SaysNoAll
  <2> HIDE DEF shown
  <2>3. QED
    BY <2>1, <2>2
<1>6. \A i : AllowsEvery(text[i]) => text[i].word # "!" /\ text[i].word # "interface"
  BY <1>4
<1> HIDE DEF shown, own
<1>7. \A i : AllowsEvery(text[i]) => (i \in shown <=> i \in own)
  BY <1>2, <1>3, <1>6
<1>8. QED
  BY <1>5, <1>7 DEF own

\* An interface carries a VLAN if its lines do.
LEMMA TrunkTold ==
  ASSUME NEW text, IsList(text), SaysNoAll(text), NEW h \in DOMAIN text, text[h].word = "interface",
         NEW intf, IsReadOf(intf, text, h, Own(text, h)), NEW id
  PROVE  Allows(text, intf, id) <=> Carries(text, h, id)
<1> DEFINE at   == LastOf(text, Own(text, h), {"switchport trunk allowed vlan"})
           last == LastOf(text, Own(text, h), {"switchport mode", "ip address"})
           list == IF at = 0 THEN << >> ELSE VLANList(text[at].ids)
           mode == IF last = 0 THEN "unknown" ELSE IF text[last].word = "ip address" THEN "routed" ELSE text[last].args[1]
           every == \E j \in Own(text, h) : AllowsEvery(text[j])
<1>1. intf.mode = mode /\ intf.trunk = list
  BY DEF IsReadOf, ModeBy, TrunkBy
<1>2. AllowsAll(text, intf) <=> every
  BY AllTold
<1>3. Carries(text, h, id) <=> mode = "trunk" /\ ((at # 0 /\ id \in ToSet(VLANList(text[at].ids))) \/ every)
  BY DEF Carries, ModeSaid, Said
<1> HIDE DEF mode, every, at
<1>4. id \in ToSet(list) <=> at # 0 /\ id \in ToSet(VLANList(text[at].ids))
  <2>1. ToSet(<< >>) = {}
    BY DEF ToSet
  <2>2. QED
    BY <2>1
<1> HIDE DEF list
<1>5. QED
  BY <1>1, <1>2, <1>3, <1>4 DEF Allows

\* Its role is one, and says so.
LEMMA RoleTold ==
  ASSUME NEW text, NEW intf, NEW id
  PROVE  /\ InterfaceRole(text, intf, id) = "access" <=> IsAccess(intf, id)
         /\ InterfaceRole(text, intf, id) \in {"trunk", "trunk_broad"} <=> Allows(text, intf, id)
<1> DEFINE role   == InterfaceRole(text, intf, id)
           access == IsAccess(intf, id)
           trunk  == Allows(text, intf, id)
           broad  == IsBroad(text, intf, id)
<1>1. ~(access /\ trunk)
  BY DEF IsAccess, Allows
<1> HIDE DEF access, trunk, broad
<1>2. /\ access => role = "access"
      /\ ~access /\ trunk /\ broad => role = "trunk_broad"
      /\ ~access /\ trunk /\ ~broad => role = "trunk"
      /\ ~access /\ ~trunk => role = None
  BY <1>1 DEF InterfaceRole, access, trunk, broad
<1> HIDE DEF role
<1>3. QED
  BY <1>1, <1>2 DEF None, role, access, trunk

\* The lines whose interfaces have a role: those of the access ports, and those of the trunks.
RoleLines(text, interfaces, id, role) ==
  {interfaces[n].evidence[1] : n \in {n \in DOMAIN interfaces : InterfaceRole(text, interfaces[n], id) = role}}

\* The roles of a VLAN share out the lines that use it, and no line has two.
LEMMA RoleLinesTold ==
  ASSUME NEW text, IsList(text), SaysNoAll(text), NEW interfaces, NEW heads, AreInterfaces(interfaces, text, heads),
         heads \subseteq DOMAIN text, \A i \in heads : text[i].word = "interface", NEW id
  PROVE  LET access == RoleLines(text, interfaces, id, "access")
             trunk  == RoleLines(text, interfaces, id, "trunk")
             broad  == RoleLines(text, interfaces, id, "trunk_broad")
         IN /\ access = {i \in heads : UsesAccess(text, i, id)}
            /\ trunk \cup broad = {i \in heads : Carries(text, i, id)}
            /\ access \cap trunk = {} /\ access \cap broad = {} /\ trunk \cap broad = {}
<1> DEFINE At(n)   == interfaces[n].evidence[1]
           Role(n) == InterfaceRole(text, interfaces[n], id)
           Of(role) == {At(n) : n \in {n \in DOMAIN interfaces : Role(n) = role}}
<1>1. \A role : RoleLines(text, interfaces, id, role) = Of(role)
  BY DEF RoleLines
<1>2. ASSUME NEW n \in DOMAIN interfaces
      PROVE  /\ At(n) \in heads
             /\ Role(n) = "access" <=> UsesAccess(text, At(n), id)
             /\ Role(n) \in {"trunk", "trunk_broad"} <=> Carries(text, At(n), id)
  <2> DEFINE h    == At(n)
             intf == interfaces[n]
  <2>1. h \in heads /\ intf = CiscoInterface(text, h)
    BY DEF AreInterfaces, Listed
  <2>2. h \in DOMAIN text /\ text[h].word = "interface"
    BY <2>1
  <2>3. IsReadOf(intf, text, h, Own(text, h))
    BY <2>1, <2>2, InterfaceTold
  <2> HIDE DEF h, intf
  <2>4. /\ InterfaceRole(text, intf, id) = "access" <=> UsesAccess(text, h, id)
        /\ InterfaceRole(text, intf, id) \in {"trunk", "trunk_broad"} <=> Carries(text, h, id)
    BY <2>2, <2>3, AccessTold, TrunkTold, RoleTold
  <2>5. QED
    BY <2>1, <2>4 DEF h, intf
<1>3. /\ \A i \in heads : \E n \in DOMAIN interfaces : At(n) = i
      /\ \A m, n \in DOMAIN interfaces : m < n => At(m) < At(n)
      /\ DOMAIN interfaces \subseteq Nat
  BY ListLength DEF AreInterfaces, Listed
<1>4. ASSUME NEW m \in DOMAIN interfaces, NEW n \in DOMAIN interfaces, At(m) = At(n)
      PROVE  m = n
  <2>1. At(m) \in Int /\ At(n) \in Int
    BY <1>2, ListLength
  <2>2. m \in Nat /\ n \in Nat /\ ~(m < n) /\ ~(n < m)
    <3> HIDE DEF At
    <3>1. QED
      BY <1>3, <1>4, <2>1
  <2>3. QED
    BY <2>2
<1> HIDE DEF At, Role
<1>5. Of("access") = {i \in heads : UsesAccess(text, i, id)}
  BY <1>2, <1>3
<1>6. Of("trunk") \cup Of("trunk_broad") = {i \in heads : Carries(text, i, id)}
  BY <1>2, <1>3
<1>7. Of("access") \cap Of("trunk") = {} /\ Of("access") \cap Of("trunk_broad") = {} /\ Of("trunk") \cap Of("trunk_broad") = {}
  BY <1>4
<1> HIDE DEF Of
<1>8. QED
  BY <1>1, <1>5, <1>6, <1>7

\* There is one result of each of some lines, all of one role.
Answering(list, role, lines) ==
  /\ IsList(list)
  /\ \A m \in DOMAIN list : list[m].role = role /\ list[m].evidence[1] \in lines
  /\ \A i \in lines : \E m \in DOMAIN list : list[m].evidence[1] = i
  /\ \A m, k \in DOMAIN list : m < k => list[m].evidence[1] # list[k].evidence[1]

\* What is picked of a device's objects answers with their lines.
LEMMA PickedAnswers ==
  ASSUME NEW objects, NEW lines, Listed(objects, lines), lines \subseteq Int, NEW type, NEW dev, NEW role,
         NEW items, items = [n \in DOMAIN objects |-> Result(type, dev, role, objects[n])],
         NEW places, places \subseteq DOMAIN objects
  PROVE  Answering(Picked(items, places), role, {objects[n].evidence[1] : n \in places})
<1> DEFINE t == Picked(items, places)
           At(n) == objects[n].evidence[1]
           shown == {At(n) : n \in places}
<1>1. Len(objects) \in Nat /\ DOMAIN objects = 1..Len(objects)
  BY ListLength DEF Listed
<1>2. IsList(items) /\ DOMAIN items = DOMAIN objects
  <2> DEFINE L == Len(objects)
  <2>1. L \in Nat /\ DOMAIN objects = 1..L
    BY <1>1
  <2> HIDE DEF L
  <2>2. items = [n \in 1..L |-> items[n]]
    BY <2>1
  <2>3. QED
    BY <2>1, <2>2, FunctionIsList
<1>3. \A n \in DOMAIN objects : items[n].role = role /\ items[n].evidence[1] = At(n)
  BY DEF Result
<1>4. PICK pos : Picks(t, items, places, pos)
  BY <1>2, PickedPlaces
<1>5. /\ \A m, n \in DOMAIN objects : m < n => At(m) < At(n)
      /\ \A n \in DOMAIN objects : At(n) \in Int
  BY DEF Listed
<1> HIDE DEF t, At
<1>6. /\ IsList(t)
      /\ \A n \in DOMAIN t : pos[n] \in places /\ t[n] = items[pos[n]]
      /\ \A i \in places : \E n \in DOMAIN t : pos[n] = i
      /\ \A m, n \in DOMAIN t : pos[m] = pos[n] => m = n
  BY <1>4 DEF Picks
<1>7. \A m \in DOMAIN t : t[m].role = role /\ t[m].evidence[1] = At(pos[m]) /\ pos[m] \in places
  BY <1>3, <1>6
<1>8. \A i \in shown : \E m \in DOMAIN t : t[m].evidence[1] = i
  BY <1>6, <1>7
<1>9. ASSUME NEW m \in DOMAIN t, NEW k \in DOMAIN t, m < k
      PROVE  t[m].evidence[1] # t[k].evidence[1]
  <2>1. m \in Int /\ k \in Int
    BY <1>6, ListLength
  <2>2. m # k
    BY <1>9, <2>1
  <2>3. pos[m] # pos[k] /\ pos[m] \in DOMAIN objects /\ pos[k] \in DOMAIN objects
    BY <1>6, <2>2
  <2> DEFINE i == pos[m]
             j == pos[k]
  <2>4. i \in Nat /\ j \in Nat /\ i # j /\ i \in DOMAIN objects /\ j \in DOMAIN objects
    BY <1>1, <2>3
  <2> HIDE DEF i, j
  <2>5. At(i) # At(j)
    <3>1. CASE i < j
      <4>1. At(i) < At(j)
        BY <1>5, <2>4, <3>1
      <4>2. QED
        BY <1>5, <2>4, <4>1
    <3>2. CASE j < i
      <4>1. At(j) < At(i)
        BY <1>5, <2>4, <3>2
      <4>2. QED
        BY <1>5, <2>4, <4>1
    <3>3. QED
      BY <2>4, <3>1, <3>2
  <2>6. QED
    BY <1>7, <2>5 DEF i, j
<1>10. \A m \in DOMAIN t : t[m].evidence[1] \in shown
  BY <1>7
<1>11. Answering(t, role, shown)
  BY <1>6, <1>7, <1>8, <1>9, <1>10 DEF Answering
<1>12. QED
  BY <1>11 DEF t, At

-----------------------------------------------------------------------------
Ranks == [access |-> 1, trunk |-> 2, trunk_broad |-> 3, declared |-> 4]

\* There is one result of each of some lines, in the order of the roles, of which they are some.
Ranked(list, roles, lines) ==
  /\ IsList(list)
  /\ \A m \in DOMAIN list : list[m].role \in roles /\ list[m].evidence[1] \in lines
  /\ \A i \in lines : \E m \in DOMAIN list : list[m].evidence[1] = i
  /\ \A m, k \in DOMAIN list : m < k => /\ Ranks[list[m].role] <= Ranks[list[k].role]
                                        /\ list[m].evidence[1] # list[k].evidence[1]

\* The rows of one role are an answer of that role.
LEMMA AnsweringRanked ==
  ASSUME NEW list, NEW role \in DOMAIN Ranks, NEW lines, Answering(list, role, lines)
  PROVE  Ranked(list, {role}, lines)
<1>1. Ranks[role] \in Int
  BY DEF Ranks
<1>2. \A m, k \in DOMAIN list : Ranks[list[m].role] <= Ranks[list[k].role]
  BY <1>1 DEF Answering
<1>3. QED
  BY <1>2 DEF Answering, Ranked

\* Results of lower roles, and those of higher roles and of other lines after them.
LEMMA RankedJoined ==
  ASSUME NEW s, NEW t, NEW low, NEW high, NEW A, NEW B,
         Ranked(s, low, A), Ranked(t, high, B), A \cap B = {},
         \A r \in low : \A q \in high : Ranks[r] <= Ranks[q]
  PROVE  Ranked(s \o t, low \cup high, A \cup B)
<1> DEFINE u == s \o t
           S == Len(s)
<1>1. IsList(s) /\ IsList(t)
  BY DEF Ranked
<1>2. /\ IsList(u) /\ Len(u) = Len(s) + Len(t)
      /\ \A n \in 1 .. Len(s) : u[n] = s[n]
      /\ \A n \in 1 .. Len(t) : u[Len(s) + n] = t[n]
      /\ \A n \in DOMAIN u : n \in DOMAIN s \/ (n > Len(s) /\ n - Len(s) \in DOMAIN t /\ u[n] = t[n - Len(s)])
  BY <1>1, ListsConcat
<1> HIDE DEF u
<1>3. /\ DOMAIN s = 1 .. Len(s) /\ DOMAIN t = 1 .. Len(t) /\ DOMAIN u = 1 .. Len(u)
      /\ Len(s) \in Nat /\ Len(t) \in Nat
  BY <1>1, <1>2, ListLength
<1>4. \A n \in DOMAIN s : n \in DOMAIN u /\ u[n] = s[n] /\ n <= S
  BY <1>2, <1>3
<1>5. \A n \in DOMAIN t : S + n \in DOMAIN u /\ u[S + n] = t[n]
  <2>1. \A n \in DOMAIN t : S + n \in DOMAIN u
    BY <1>2, <1>3
  <2>2. QED
    BY <1>2, <1>3, <2>1
<1>6. \A n \in DOMAIN u : n \in DOMAIN s \/ (n > S /\ n - S \in DOMAIN t /\ u[n] = t[n - S])
  BY <1>2
<1>7. DOMAIN u \subseteq Nat /\ S \in Nat
  BY <1>2, <1>3
<1> HIDE DEF S
<1>8. ASSUME NEW n \in DOMAIN u
      PROVE  (n \in DOMAIN s /\ u[n] = s[n] /\ n <= S) \/ (n > S /\ n - S \in DOMAIN t /\ u[n] = t[n - S])
  <2>1. CASE n \in DOMAIN s
    BY <1>4, <2>1
  <2>2. CASE n > S /\ n - S \in DOMAIN t /\ u[n] = t[n - S]
    BY <2>2
  <2>3. QED
    BY <1>6, <2>1, <2>2
<1>9. ASSUME NEW m \in DOMAIN u
      PROVE  u[m].role \in low \cup high /\ u[m].evidence[1] \in A \cup B
  BY <1>8 DEF Ranked
<1>10. ASSUME NEW i \in A \cup B
      PROVE  \E m \in DOMAIN u : u[m].evidence[1] = i
  <2>1. CASE i \in A
    <3>1. PICK m \in DOMAIN s : s[m].evidence[1] = i
      BY <2>1 DEF Ranked
    <3>2. QED
      BY <1>4, <3>1
  <2>2. CASE i \in B
    <3>1. PICK m \in DOMAIN t : t[m].evidence[1] = i
      BY <2>2 DEF Ranked
    <3>2. S + m \in DOMAIN u /\ u[S + m].evidence[1] = i
      BY <1>5, <3>1
    <3>3. QED
      BY <3>2
  <2>3. QED
    BY <2>1, <2>2
<1>11. ASSUME NEW m \in DOMAIN u, NEW k \in DOMAIN u, m < k
      PROVE  Ranks[u[m].role] <= Ranks[u[k].role] /\ u[m].evidence[1] # u[k].evidence[1]
  <2>1. m \in Nat /\ k \in Nat
    BY <1>7
  <2>2. CASE k \in DOMAIN s /\ u[k] = s[k] /\ k <= S
    <3>1. m \in DOMAIN s /\ u[m] = s[m]
      BY <1>7, <1>8, <1>11, <2>1, <2>2
    <3>2. QED
      BY <1>11, <2>2, <3>1 DEF Ranked
  <2>3. CASE k > S /\ k - S \in DOMAIN t /\ u[k] = t[k - S]
    <3>1. CASE m \in DOMAIN s /\ u[m] = s[m]
      <4>1. u[m].role \in low /\ u[m].evidence[1] \in A
        BY <3>1 DEF Ranked
      <4>2. u[k].role \in high /\ u[k].evidence[1] \in B
        BY <2>3 DEF Ranked
      <4>3. QED
        BY <4>1, <4>2
    <3>2. CASE m > S /\ m - S \in DOMAIN t /\ u[m] = t[m - S]
      <4>1. m - S < k - S
        BY <1>7, <1>11, <2>1
      <4> DEFINE i == m - S
                 j == k - S
      <4>2. i \in DOMAIN t /\ j \in DOMAIN t /\ i < j /\ u[m] = t[i] /\ u[k] = t[j]
        BY <2>3, <3>2, <4>1
      <4> HIDE DEF i, j
      <4>3. QED
        BY <4>2 DEF Ranked
    <3>3. QED
      BY <1>8, <3>1, <3>2
  <2>4. QED
    BY <1>8, <2>2, <2>3
<1>12. QED
  BY <1>2, <1>9, <1>10, <1>11 DEF Ranked, u

\* A question for a VLAN is one of four.
LEMMA ModeOfIntent ==
  ASSUME NEW q, VLANIntent(q).intent = "vlan"
  PROVE  VLANIntent(q).mode \in {"used", "declared", "trunks", "access"}
<1> DEFINE known == Len(q) \in 2..3 /\ IsVLANWord(q[2]) /\ (Len(q) = 3 => q[3] \in DOMAIN VLANModes)
           mode  == IF Len(q) = 3 THEN VLANModes[q[3]] ELSE "used"
           taken == [Understood("vlan") EXCEPT !.id = VLANWord(q[2]), !.mode = mode]
<1>1. VLANIntent(q) = IF ~known THEN NotUnderstood ELSE taken
  BY DEF VLANIntent
<1>2. NotUnderstood.intent # "vlan"
  BY DEF NotUnderstood, Understood
<1>3. taken.mode = mode
  BY DEF Understood
<1>4. known => mode \in {"used", "declared", "trunks", "access"}
  BY DEF VLANModes
<1> HIDE DEF known, taken, mode
<1>5. QED
  BY <1>1, <1>2, <1>3, <1>4

\* A question for a VLAN has one of the four modes.
LEMMA ModeKnown ==
  ASSUME NEW question, ParseQuery(question).intent = "vlan"
  PROVE  ParseQuery(question).mode \in {"used", "declared", "trunks", "access"}
<1> DEFINE q   == Asked(question)
           pq  == ParseQuery(question)
           m1 == q \in HelpWords
           m2 == AccessPlaces(q) # {}
           m3 == IsNaturalVLAN(q)
           m4 == AccessPlaces(q) = {} /\ q # << >> /\ Head(q) = "vlan"
           m5 == q \in DefaultRouteWords
           m6 == IsRouteDst(q)
           m7 == q \in TrunkWords
           m8 == Len(q) = 2 /\ Head(q) \in DOMAIN Nouns
           m9 == q \in NTPWords
           m10 == q \in SyslogWords
           m11 == q \in SNMPWords
           m12 == q \in ZoneWords
           m13 == q \in PolicyWords
           Is(r) == r.intent # "vlan" \/ r.mode \in {"used", "declared", "trunks", "access"}
           access == AccessIntent(q)
           natural == VLANIntent(<<"vlan", q[4]>>)
           vlan == VLANIntent(q)
           route == [Understood("route_dst") EXCEPT !.name = q[3]]
           noun == [Understood(Nouns[Head(q)]) EXCEPT !.name = q[2]]
<1>1. pq = CASE m1  -> Understood("help")
             [] m2  -> access
             [] m3  -> natural
             [] m4  -> vlan
             [] m5  -> Understood("default_route")
             [] m6  -> route
             [] m7  -> Understood("trunks")
             [] m8  -> noun
             [] m9  -> Understood("ntp")
             [] m10 -> Understood("syslog")
             [] m11 -> Understood("snmp")
             [] m12 -> Understood("zones")
             [] m13 -> Understood("policies")
             [] OTHER -> NotUnderstood
  BY Zenon DEF ParseQuery
<1>2. \A intent : intent # "vlan" => Is(Understood(intent))
  BY DEF Understood
<1>3. Is(NotUnderstood)
  BY DEF Understood, NotUnderstood
<1>4. Is(access)
  <2> DEFINE word == q[CHOOSE n \in AccessPlaces(q) : TRUE]
             taken == [Understood("access_vlan") EXCEPT !.id = VLANWord(word)]
  <2>1. access = IF IsVLANWord(word) THEN taken ELSE NotUnderstood
    BY DEF AccessIntent
  <2>2. taken.intent = "access_vlan"
    BY DEF Understood
  <2> HIDE DEF taken, word
  <2>3. CASE IsVLANWord(word)
    BY <2>1, <2>2, <2>3
  <2>4. CASE ~IsVLANWord(word)
    BY <1>3, <2>1, <2>4
  <2>5. QED
    BY <2>3, <2>4
<1>5. Is(natural) /\ Is(vlan)
  BY ModeOfIntent
<1>6. Is(route)
  BY DEF Understood
<1>7. m8 => Is(noun)
  <2>1. \A word \in DOMAIN Nouns : Nouns[word] \in {"interface", "acl", "device"}
    BY DEF Nouns
  <2>2. noun.intent = Nouns[Head(q)]
    BY DEF Understood
  <2>3. QED
    BY <2>1, <2>2
<1> HIDE DEF Is, m1, m2, m3, m4, m5, m6, m7, m8, m9, m10, m11, m12, m13, access, natural, vlan, route, noun, pq
<1>8. Is(pq)
  BY <1>1, <1>2, <1>3, <1>4, <1>5, <1>6, <1>7
<1>9. QED
  BY <1>8 DEF Is, pq

-----------------------------------------------------------------------------
\* The answers of one device: its interfaces of one role, and its VLANs of one number.
LEMMA InRoleOfOne ==
  ASSUME NEW inv, DOMAIN inv = 1..1, NEW heads, heads \subseteq Int,
         Listed(inv[1].dev.interfaces, heads), NEW id, NEW role
  PROVE  Answering(InRole(inv, id, role), role, RoleLines(inv[1].text, inv[1].dev.interfaces, id, role))
<1> DEFINE dev   == inv[1].dev
           text  == inv[1].text
           places == {n \in DOMAIN dev.interfaces : InterfaceRole(text, dev.interfaces[n], id) = role}
           items == [n \in DOMAIN dev.interfaces |-> Result("interface", dev, role, dev.interfaces[n])]
           Found(d) == LET dv == inv[d].dev
                           Plays(n) == InterfaceRole(inv[d].text, dv.interfaces[n], id) = role
                       IN Picked([n \in DOMAIN dv.interfaces |-> Result("interface", dv, role, dv.interfaces[n])],
                                 {n \in DOMAIN dv.interfaces : Plays(n)})
           all == [d \in DOMAIN inv |-> Found(d)]
<1>1. InRole(inv, id, role) = FlattenSeq(all)
  BY DEF InRole
<1>2. Found(1) = Picked(items, places)
  OBVIOUS
<1> HIDE DEF Found
<1>3. all = <<Found(1)>>
  OBVIOUS
<1> HIDE DEF all
<1>4. InRole(inv, id, role) = Picked(items, places)
  BY <1>1, <1>2, <1>3, FlattenOne
<1>5. Answering(Picked(items, places), role, {dev.interfaces[n].evidence[1] : n \in places})
  <2> DEFINE objects == dev.interfaces
  <2>1. Listed(objects, heads) /\ items = [n \in DOMAIN objects |-> Result("interface", dev, role, objects[n])] /\ places \subseteq DOMAIN objects
    OBVIOUS
  <2> HIDE DEF objects, items, places, dev
  <2>2. Answering(Picked(items, places), role, {objects[n].evidence[1] : n \in places})
    BY <2>1, PickedAnswers
  <2>3. QED
    BY <2>2 DEF objects
<1>6. RoleLines(text, dev.interfaces, id, role) = {dev.interfaces[n].evidence[1] : n \in places}
  BY DEF RoleLines
<1>7. QED
  BY <1>4, <1>5, <1>6

\* the lines among some that declare a VLAN
DeclaredIn(text, lines, id) == {i \in lines : NumberIn(text[i].ids) = id}

\* And the declarations of a VLAN.
LEMMA DeclaredOfOne ==
  ASSUME NEW inv, DOMAIN inv = 1..1, NEW lines, lines \subseteq Int,
         AreVLANs(inv[1].dev.vlans, inv[1].text, lines), NEW id
  PROVE  Answering(Declared(inv, id), "declared", DeclaredIn(inv[1].text, lines, id))
<1> DEFINE dev   == inv[1].dev
           text  == inv[1].text
           vlans == dev.vlans
           role  == "declared"
           places == {n \in DOMAIN vlans : vlans[n].id = id}
           items == [n \in DOMAIN vlans |-> Result("vlan", dev, role, vlans[n])]
           Found(d) == LET dv == inv[d].dev
                       IN Picked([n \in DOMAIN dv.vlans |-> Result("vlan", dv, role, dv.vlans[n])],
                                 {n \in DOMAIN dv.vlans : dv.vlans[n].id = id})
           all == [d \in DOMAIN inv |-> Found(d)]
<1>1. Declared(inv, id) = FlattenSeq(all)
  BY DEF Declared
<1>2. Found(1) = Picked(items, places)
  OBVIOUS
<1> HIDE DEF Found
<1>3. all = <<Found(1)>>
  OBVIOUS
<1> HIDE DEF all
<1>4. Declared(inv, id) = Picked(items, places)
  BY <1>1, <1>2, <1>3, FlattenOne
<1>5. Answering(Picked(items, places), role, {vlans[n].evidence[1] : n \in places})
  <2>1. Listed(vlans, lines) /\ items = [n \in DOMAIN vlans |-> Result("vlan", dev, role, vlans[n])] /\ places \subseteq DOMAIN vlans
    BY DEF AreVLANs
  <2> HIDE DEF vlans, items, places, dev, role
  <2>2. QED
    BY <2>1, PickedAnswers
<1>6. {vlans[n].evidence[1] : n \in places} = {i \in lines : NumberIn(text[i].ids) = id}
  <2>1. /\ \A n \in DOMAIN vlans : vlans[n].evidence[1] \in lines /\ vlans[n].id = NumberIn(text[vlans[n].evidence[1]].ids)
        /\ \A i \in lines : \E n \in DOMAIN vlans : vlans[n].evidence[1] = i
    BY DEF AreVLANs, Listed
  <2> DEFINE At(n)  == vlans[n].evidence[1]
             Id(n)  == vlans[n].id
             Says(i) == NumberIn(text[i].ids)
  <2>2. /\ \A n \in DOMAIN vlans : At(n) \in lines /\ Id(n) = Says(At(n))
        /\ \A i \in lines : \E n \in DOMAIN vlans : At(n) = i
    BY <2>1
  <2> HIDE DEF vlans, At, Id, Says
  <2>3. {At(n) : n \in {n \in DOMAIN vlans : Id(n) = id}} = {i \in lines : Says(i) = id}
    BY <2>2
  <2>4. QED
    BY <2>3 DEF At, Id, Says
<1>7. QED
  BY <1>4, <1>5, <1>6 DEF DeclaredIn

\* the lines of the interfaces that have a VLAN, of those that carry it, and of its declarations
AccessLines(text, id)   == {i \in InterfaceLines(text, Len(text)) : UsesAccess(text, i, id)}
TrunkLines(text, id)    == {i \in InterfaceLines(text, Len(text)) : Carries(text, i, id)}
DeclaredLines(text, id) == DeclaredIn(text, VLANLines(text, Len(text)), id)

\* The answer to each of the four questions.
VLANsAnswered(reply, text, id, mode) ==
  LET used == AccessLines(text, id) \cup TrunkLines(text, id) IN
  \E roles :
    Ranked(reply, roles, CASE mode = "access"   -> AccessLines(text, id)
                           [] mode = "trunks"   -> TrunkLines(text, id)
                           [] mode = "declared" -> DeclaredLines(text, id)
                           [] mode = "used"     -> IF used = {} THEN DeclaredLines(text, id) ELSE used)

\* An answer has no row exactly when no line is asked for.
LEMMA EmptyRanked ==
  ASSUME NEW list, NEW roles, NEW lines, Ranked(list, roles, lines)
  PROVE  list = << >> <=> lines = {}
<1>1. Len(list) \in Nat /\ DOMAIN list = 1..Len(list) /\ (list = << >> <=> Len(list) = 0)
  BY ListLength DEF Ranked
<1>2. Len(list) # 0 => 1 \in DOMAIN list
  BY <1>1
<1>3. Len(list) = 0 => DOMAIN list = {}
  BY <1>1
<1>4. QED
  BY <1>1, <1>2, <1>3 DEF Ranked

\* What a Cisco device has of interfaces and VLANs, by its text.
LEMMA ObjectsOfText ==
  ASSUME NEW text, IsList(text), \A i \in DOMAIN text : IsList(text[i].args)
  PROVE  /\ AreInterfaces(CiscoDevice(text).interfaces, text, InterfaceLines(text, Len(text)))
         /\ AreVLANs(CiscoDevice(text).vlans, text, VLANLines(text, Len(text)))
         /\ InterfaceLines(text, Len(text)) \subseteq DOMAIN text
         /\ InterfaceLines(text, Len(text)) \subseteq Int /\ VLANLines(text, Len(text)) \subseteq Int
         /\ \A i \in InterfaceLines(text, Len(text)) : text[i].word = "interface"
<1>1. HasObjects(CiscoDevice(text), text, Len(text))
  BY CiscoObjectsTell
<1>2. DOMAIN text \subseteq Int
  BY ListLength
<1>3. Outside(text) \subseteq DOMAIN text
  BY DEF Outside
<1>4. /\ InterfaceLines(text, Len(text)) \subseteq Outside(text) /\ VLANLines(text, Len(text)) \subseteq Outside(text)
      /\ \A i \in InterfaceLines(text, Len(text)) : text[i].word = "interface"
  BY DEF InterfaceLines, VLANLines
<1>5. QED
  BY <1>1, <1>2, <1>3, <1>4 DEF HasObjects

\* FindVLANs shows the lines each mode is about, by the rank of their role.
LEMMA VLANsFound ==
  ASSUME NEW inv, DOMAIN inv = 1..1, IsList(inv[1].text), \A i \in DOMAIN inv[1].text : IsList(inv[1].text[i].args),
         SaysNoAll(inv[1].text), inv[1].dev = CiscoDevice(inv[1].text), NEW id, NEW mode \in {"used", "declared", "trunks", "access"}
  PROVE  VLANsAnswered(FindVLANs(inv, id, mode), inv[1].text, id, mode)
<1> DEFINE text  == inv[1].text
           interfaces == inv[1].dev.interfaces
           heads == InterfaceLines(text, Len(text))
           Lines4(role) == RoleLines(text, interfaces, id, role)
           a == InRole(inv, id, "access")
           t == InRole(inv, id, "trunk")
           b == InRole(inv, id, "trunk_broad")
           d == Declared(inv, id)
           access   == AccessLines(text, id)
           trunks   == TrunkLines(text, id)
           declared == DeclaredLines(text, id)
           reply == FindVLANs(inv, id, mode)
<1>1. /\ AreInterfaces(interfaces, text, heads) /\ heads \subseteq DOMAIN text /\ heads \subseteq Int
      /\ \A i \in heads : text[i].word = "interface"
      /\ AreVLANs(inv[1].dev.vlans, text, VLANLines(text, Len(text))) /\ VLANLines(text, Len(text)) \subseteq Int
  BY ObjectsOfText
<1>2. reply = CASE mode = "access"   -> a
                [] mode = "trunks"   -> t \o b
                [] mode = "declared" -> d
                [] mode = "used"     -> IF a \o (t \o b) # << >> THEN a \o (t \o b) ELSE d
  BY DEF FindVLANs
<1>3. /\ Lines4("access") = access /\ Lines4("trunk") \cup Lines4("trunk_broad") = trunks
      /\ Lines4("access") \cap Lines4("trunk") = {} /\ Lines4("access") \cap Lines4("trunk_broad") = {}
      /\ Lines4("trunk") \cap Lines4("trunk_broad") = {}
  <2> HIDE DEF heads, interfaces, text
  <2>1. IsList(text) /\ SaysNoAll(text)
    BY DEF text
  <2>2. LET ac == RoleLines(text, interfaces, id, "access")
            tr == RoleLines(text, interfaces, id, "trunk")
            br == RoleLines(text, interfaces, id, "trunk_broad")
        IN /\ ac = {i \in heads : UsesAccess(text, i, id)}
           /\ tr \cup br = {i \in heads : Carries(text, i, id)}
           /\ ac \cap tr = {} /\ ac \cap br = {} /\ tr \cap br = {}
    BY <1>1, <2>1, RoleLinesTold
  <2>3. QED
    BY <2>2 DEF AccessLines, TrunkLines, heads
<1>4. ASSUME NEW role
      PROVE  Answering(InRole(inv, id, role), role, Lines4(role))
  <2>1. Listed(inv[1].dev.interfaces, heads) /\ heads \subseteq Int
    BY <1>1 DEF AreInterfaces
  <2> HIDE DEF heads
  <2>2. QED
    BY <2>1, InRoleOfOne
<1>5. Ranked(d, {"declared"}, declared)
  <2> DEFINE lines == VLANLines(text, Len(text))
  <2>1. lines \subseteq Int /\ AreVLANs(inv[1].dev.vlans, inv[1].text, lines)
    BY <1>1
  <2> HIDE DEF lines
  <2>2. Answering(Declared(inv, id), "declared", DeclaredIn(inv[1].text, lines, id))
    BY <2>1, DeclaredOfOne
  <2>3. Answering(d, "declared", declared)
    BY <2>2 DEF DeclaredLines, lines
  <2>4. "declared" \in DOMAIN Ranks
    BY DEF Ranks
  <2> HIDE DEF d, declared
  <2>5. QED
    BY <2>3, <2>4, AnsweringRanked
<1>6. /\ Ranked(a, {"access"}, Lines4("access"))
      /\ Ranked(t, {"trunk"}, Lines4("trunk"))
      /\ Ranked(b, {"trunk_broad"}, Lines4("trunk_broad"))
  <2>1. "access" \in DOMAIN Ranks /\ "trunk" \in DOMAIN Ranks /\ "trunk_broad" \in DOMAIN Ranks
    BY DEF Ranks
  <2>2. Answering(a, "access", Lines4("access")) /\ Answering(t, "trunk", Lines4("trunk")) /\ Answering(b, "trunk_broad", Lines4("trunk_broad"))
    BY <1>4
  <2> HIDE DEF a, t, b, Lines4
  <2>3. QED
    BY <2>1, <2>2, AnsweringRanked
<1> HIDE DEF a, t, b, d, reply, access, trunks, declared, Lines4
<1>7. Ranked(t \o b, {"trunk"} \cup {"trunk_broad"}, trunks)
  <2>1. Ranked(t \o b, {"trunk"} \cup {"trunk_broad"}, Lines4("trunk") \cup Lines4("trunk_broad"))
    <3>1. \A r \in {"trunk"} : \A q \in {"trunk_broad"} : Ranks[r] <= Ranks[q]
      BY DEF Ranks
    <3>2. QED
      BY <1>3, <1>6, <3>1, RankedJoined
  <2>2. QED
    BY <1>3, <2>1
<1>8. Ranked(a \o (t \o b), {"access"} \cup ({"trunk"} \cup {"trunk_broad"}), access \cup trunks)
  <2> DEFINE low  == {"access"}
             high == {"trunk"} \cup {"trunk_broad"}
             tb   == t \o b
  <2>1. \A r \in low : \A q \in high : Ranks[r] <= Ranks[q]
    BY DEF Ranks
  <2>2. Ranked(a, low, access) /\ Ranked(tb, high, trunks)
    BY <1>3, <1>6, <1>7
  <2>3. access \cap trunks = {}
    BY <1>3
  <2> HIDE DEF low, high, tb
  <2>4. Ranked(a \o tb, low \cup high, access \cup trunks)
    BY <2>1, <2>2, <2>3, RankedJoined
  <2>5. QED
    BY <2>4 DEF low, high, tb
<1> DEFINE tb == t \o b
           all == a \o tb
           used == access \cup trunks
           Right(l) == \E roles : Ranked(l, roles, CASE mode = "access"   -> access
                                                     [] mode = "trunks"   -> trunks
                                                     [] mode = "declared" -> declared
                                                     [] mode = "used"     -> IF used = {} THEN declared ELSE used)
<1>9. all = << >> <=> used = {}
  BY <1>8, EmptyRanked
<1>10. (\E roles : Ranked(all, roles, used)) /\ (\E roles : Ranked(tb, roles, trunks))
  BY <1>7, <1>8
<1>11. reply = CASE mode = "access"   -> a
                 [] mode = "trunks"   -> tb
                 [] mode = "declared" -> d
                 [] mode = "used"     -> IF all # << >> THEN all ELSE d
  BY <1>2
<1> HIDE DEF all, tb, used
<1>12. mode = "access" \/ mode = "trunks" \/ mode = "declared" \/ mode = "used"
  OBVIOUS
<1>13. ASSUME mode = "access"
       PROVE  Right(reply)
  BY <1>3, <1>6, <1>11, <1>13
<1>14. ASSUME mode = "trunks"
       PROVE  Right(reply)
  BY <1>10, <1>11, <1>14
<1>15. ASSUME mode = "declared"
       PROVE  Right(reply)
  BY <1>5, <1>11, <1>15
<1>16. ASSUME mode = "used"
       PROVE  Right(reply)
  <2>1. CASE used = {}
    BY <1>5, <1>9, <1>11, <1>16, <2>1
  <2>2. CASE used # {}
    BY <1>9, <1>10, <1>11, <1>16, <2>2
  <2>3. QED
    BY <2>1, <2>2
<1>17. Right(reply)
  BY <1>12, <1>13, <1>14, <1>15, <1>16
<1>18. QED
  BY <1>17 DEF VLANsAnswered, reply, access, trunks, declared, used

\* The answer to a question for a VLAN, and for its access ports, of one device.
LEMMA VLANRun ==
  ASSUME NEW inv, DOMAIN inv = 1..1, NEW pq
  PROVE  /\ pq.intent = "vlan" => RunQuery(inv, pq) = FindVLANs(inv, pq.id, pq.mode)
         /\ pq.intent = "access_vlan" => RunQuery(inv, pq) = FindAccessVLAN(inv[1].dev, pq.id)
<1> DEFINE dev == inv[1].dev
           runs == [d \in DOMAIN inv |-> RunDevice(inv[d].dev, pq)]
           vlans == FindVLANs(inv, pq.id, pq.mode)
<1>1. RunQuery(inv, pq) = CASE pq.intent = "help" -> << >> [] pq.intent = "vlan" -> vlans [] OTHER -> FlattenSeq(runs)
  BY Zenon DEF RunQuery
<1>2. pq.intent = "access_vlan" => RunDevice(dev, pq) = FindAccessVLAN(dev, pq.id)
  <2> DEFINE r1 == FindInterface(dev, pq.name)
             r2 == FindDevice(dev, pq.name)
             r3 == FindACL(dev, pq.name)
             r4 == FindTrunks(dev)
             r5 == FindAccessVLAN(dev, pq.id)
             r6 == FindDefaultRoute(dev)
             r7 == FindRouteDst(dev, pq.name)
             r8 == Results("ntp", dev, dev.ntp)
             r9 == Results("syslog", dev, dev.syslog)
             r10 == Results("snmp", dev, dev.communities)
             r11 == Results("zone", dev, dev.zones)
             r12 == Results("policy", dev, dev.policies)
  <2>1. RunDevice(dev, pq) =
          CASE pq.intent = "interface"     -> r1
            [] pq.intent = "device"        -> r2
            [] pq.intent = "acl"           -> r3
            [] pq.intent = "trunks"        -> r4
            [] pq.intent = "access_vlan"   -> r5
            [] pq.intent = "default_route" -> r6
            [] pq.intent = "route_dst"     -> r7
            [] pq.intent = "ntp"           -> r8
            [] pq.intent = "syslog"        -> r9
            [] pq.intent = "snmp"          -> r10
            [] pq.intent = "zones"         -> r11
            [] pq.intent = "policies"      -> r12
    BY Zenon DEF RunDevice
  <2> HIDE DEF r1, r2, r3, r4, r5, r6, r7, r8, r9, r10, r11, r12
  <2>2. pq.intent = "access_vlan" => RunDevice(dev, pq) = r5
    BY <2>1
  <2>3. QED
    BY <2>2 DEF r5
<1>3. runs = <<RunDevice(dev, pq)>>
  OBVIOUS
<1> HIDE DEF runs, vlans, dev
<1>4. pq.intent = "vlan" => RunQuery(inv, pq) = vlans
  BY <1>1
<1>5. pq.intent = "access_vlan" => RunQuery(inv, pq) = FlattenSeq(runs)
  BY <1>1
<1>6. FlattenSeq(runs) = RunDevice(dev, pq)
  BY <1>3, FlattenOne
<1>7. QED
  BY <1>2, <1>4, <1>5, <1>6 DEF vlans, dev

\* what the results of an answer show
LinesShown(list) == {result.evidence[1] : result \in ToSet(list)}

\* The lines shown by the rows of one role,
LEMMA AnsweringShown ==
  ASSUME NEW list, NEW role, NEW lines, Answering(list, role, lines)
  PROVE  LinesShown(list) = lines
BY DEF Answering, LinesShown, ToSet

\* and by an answer.
LEMMA RankedShown ==
  ASSUME NEW list, NEW roles, NEW lines, Ranked(list, roles, lines)
  PROVE  LinesShown(list) = lines
BY DEF Ranked, LinesShown, ToSet

\* The access ports of a VLAN, as the text says.
LEMMA AccessFound ==
  ASSUME NEW text, IsList(text), SaysNoAll(text), \A i \in DOMAIN text : IsList(text[i].args), NEW id
  PROVE  LinesShown(FindAccessVLAN(CiscoDevice(text), id)) = AccessLines(text, id)
<1> DEFINE dev     == CiscoDevice(text)
           objects == dev.interfaces
           heads   == InterfaceLines(text, Len(text))
           places  == {n \in DOMAIN objects : IsAccess(objects[n], id)}
           items   == [n \in DOMAIN objects |-> Result("interface", dev, None, objects[n])]
           reply   == FindAccessVLAN(dev, id)
<1>1. /\ AreInterfaces(objects, text, heads) /\ heads \subseteq DOMAIN text /\ heads \subseteq Int
      /\ \A i \in heads : text[i].word = "interface"
  BY ObjectsOfText
<1>2. reply = Picked(items, places)
  BY DEF FindAccessVLAN, Results
<1> HIDE DEF reply, dev, heads
<1>3. Answering(Picked(items, places), None, {objects[n].evidence[1] : n \in places})
  <2>1. Listed(objects, heads) /\ heads \subseteq Int /\ places \subseteq DOMAIN objects
        /\ items = [n \in DOMAIN objects |-> Result("interface", dev, None, objects[n])]
    BY <1>1 DEF AreInterfaces
  <2> HIDE DEF objects, places, items
  <2>2. QED
    BY <2>1, PickedAnswers
<1>4. {objects[n].evidence[1] : n \in places} = RoleLines(text, objects, id, "access")
  <2>1. \A n \in DOMAIN objects : IsAccess(objects[n], id) <=> InterfaceRole(text, objects[n], id) = "access"
    BY RoleTold
  <2> HIDE DEF objects
  <2>2. places = {n \in DOMAIN objects : InterfaceRole(text, objects[n], id) = "access"}
    BY <2>1
  <2>3. QED
    BY <2>2 DEF RoleLines
<1>5. RoleLines(text, objects, id, "access") = {i \in heads : UsesAccess(text, i, id)}
  <2> HIDE DEF objects
  <2>1. QED
    BY <1>1, RoleLinesTold
<1>6. LinesShown(Picked(items, places)) = {objects[n].evidence[1] : n \in places}
  <2> DEFINE list  == Picked(items, places)
             lines == {objects[n].evidence[1] : n \in places}
  <2>1. Answering(list, None, lines)
    BY <1>3
  <2> HIDE DEF list, lines
  <2>2. LinesShown(list) = lines
    BY <2>1, AnsweringShown
  <2>3. QED
    BY <2>2 DEF list, lines
<1>7. QED
  BY <1>2, <1>4, <1>5, <1>6 DEF AccessLines, reply, dev, heads

-----------------------------------------------------------------------------
\* The invariants imply that a VLAN is answered as the text says.
LEMMA VlansAnswered ==
  ASSUME AnswerInv, NEW p \in Procs, Printed(p, {"query"}),
         [n \in DOMAIN loaded[p] |-> loaded[p][n].vendor] = <<"cisco">>,
         SaysNoAll(loaded[p][1].text)
  PROVE  LET text == loaded[p][1].text
             pq   == ParseQuery(job(p).question)
         IN /\ pq.intent = "access_vlan" => LinesShown(answer[p]) = AccessLines(text, pq.id)
            /\ pq.intent = "vlan" => /\ pq.mode \in {"used", "declared", "trunks", "access"}
                                     /\ VLANsAnswered(answer[p], text, pq.id, pq.mode)
<1> DEFINE inv  == loaded[p]
           text == inv[1].text
           dev  == inv[1].dev
           pq   == ParseQuery(job(p).question)
<1>1. /\ DOMAIN inv = 1..1
      /\ IsConfig(text) /\ dev = CiscoDevice(text)
      /\ answer[p] = RunQuery(inv, pq)
  BY QueryOfOne
<1>2. pq.intent = "vlan" => pq.mode \in {"used", "declared", "trunks", "access"}
  BY ModeKnown
<1>3. IsList(text) /\ (\A i \in DOMAIN text : IsList(text[i].args)) /\ SaysNoAll(text)
  BY <1>1 DEF IsConfig
<1> HIDE DEF pq
<1>4. CASE pq.intent = "access_vlan"
  <2>1. answer[p] = FindAccessVLAN(dev, pq.id)
    BY <1>1, <1>4, VLANRun
  <2>2. LinesShown(FindAccessVLAN(CiscoDevice(text), pq.id)) = AccessLines(text, pq.id)
    <3> HIDE DEF text
    <3>1. QED
      BY <1>3, AccessFound
  <2>3. LinesShown(answer[p]) = AccessLines(text, pq.id)
    BY <1>1, <2>1, <2>2
  <2>4. QED
    BY <1>4, <2>3 DEF pq
<1>5. CASE pq.intent = "vlan"
  <2>1. answer[p] = FindVLANs(inv, pq.id, pq.mode)
    BY <1>1, <1>5, VLANRun
  <2> DEFINE mode == pq.mode
             id   == pq.id
  <2>2. mode \in {"used", "declared", "trunks", "access"}
    BY <1>2, <1>5
  <2>3. /\ DOMAIN inv = 1..1 /\ IsList(inv[1].text) /\ \A i \in DOMAIN inv[1].text : IsList(inv[1].text[i].args)
        /\ inv[1].dev = CiscoDevice(inv[1].text) /\ SaysNoAll(inv[1].text)
    BY <1>1, <1>3
  <2> HIDE DEF inv, mode, id
  <2>4. VLANsAnswered(FindVLANs(inv, id, mode), inv[1].text, id, mode)
    BY <2>2, <2>3, VLANsFound
  <2>5. VLANsAnswered(answer[p], text, pq.id, pq.mode)
    BY <2>1, <2>4 DEF id, mode
  <2>6. QED
    BY <1>5, <2>2, <2>5 DEF pq, mode, inv
<1>6. QED
  BY <1>4, <1>5 DEF pq

\* The answer about a VLAN shows the lines that use or declare it.
LEMMA VlanTold == AnswerInv => VlanAnswerExact
<1> SUFFICES ASSUME AnswerInv, NEW p \in Procs, Printed(p, {"query"}),
                    [n \in DOMAIN loaded[p] |-> loaded[p][n].vendor] = <<"cisco">>,
                    SaysNoAll(loaded[p][1].text)
             PROVE  LET text  == loaded[p][1].text
                        pq    == ParseQuery(job(p).question)
                        heads == {i \in Outside(text) : text[i].word = "interface"}
                        access == {i \in heads : UsesAccess(text, i, pq.id)}
                        trunks == {i \in heads : Carries(text, i, pq.id)}
                        declared == {i \in Outside(text) : text[i].word = "vlan" /\ IsNumber(text[i].ids) /\ NumberIn(text[i].ids) = pq.id}
                        Asks(mode) == pq.intent = "vlan" /\ pq.mode = mode
                        shown == {result.evidence[1] : result \in ToSet(answer[p])}
                        Rank == [access |-> 1, trunk |-> 2, trunk_broad |-> 3, declared |-> 4]
                    IN /\ Asks("access") \/ pq.intent = "access_vlan" => shown = access
                       /\ Asks("trunks") => shown = trunks
                       /\ Asks("declared") => shown = declared
                       /\ Asks("used") => shown = IF access \cup trunks = {} THEN declared ELSE access \cup trunks
                       /\ pq.intent = "vlan" => \A m, n \in DOMAIN answer[p] :
                            m < n => /\ Rank[answer[p][m].role] <= Rank[answer[p][n].role]
                                     /\ answer[p][m].evidence # answer[p][n].evidence
  BY DEF VlanAnswerExact, SaysNoAll
<1> DEFINE text  == loaded[p][1].text
           pq    == ParseQuery(job(p).question)
           id    == pq.id
           heads == {i \in Outside(text) : text[i].word = "interface"}
           access == {i \in heads : UsesAccess(text, i, id)}
           trunks == {i \in heads : Carries(text, i, id)}
           declared == {i \in Outside(text) : text[i].word = "vlan" /\ IsNumber(text[i].ids) /\ NumberIn(text[i].ids) = id}
           used  == access \cup trunks
           shown == {result.evidence[1] : result \in ToSet(answer[p])}
           asked == CASE pq.mode = "access"   -> access
                      [] pq.mode = "trunks"   -> trunks
                      [] pq.mode = "declared" -> declared
                      [] pq.mode = "used"     -> IF used = {} THEN declared ELSE used
<1>1. access = AccessLines(text, id) /\ trunks = TrunkLines(text, id) /\ declared = DeclaredLines(text, id)
  <2>1. IsList(text)
    BY QueryOfOne DEF IsConfig
  <2>2. Len(text) \in Nat /\ DOMAIN text = 1..Len(text)
    BY <2>1, ListLength
  <2> HIDE DEF text, id
  <2>3. \A i \in Outside(text) : i <= Len(text)
    BY <2>2 DEF Outside
  <2>4. QED
    BY <2>3 DEF AccessLines, TrunkLines, DeclaredLines, DeclaredIn, InterfaceLines, VLANLines
<1>2. shown = LinesShown(answer[p])
  BY DEF LinesShown
<1>3. /\ pq.intent = "access_vlan" => LinesShown(answer[p]) = AccessLines(text, id)
      /\ pq.intent = "vlan" => /\ pq.mode \in {"used", "declared", "trunks", "access"}
                               /\ VLANsAnswered(answer[p], text, id, pq.mode)
  BY VlansAnswered
<1> HIDE DEF shown, access, trunks, declared, pq, text, id
<1>4. ASSUME pq.intent = "vlan"
      PROVE  \E roles : Ranked(answer[p], roles, asked)
  BY <1>1, <1>3, <1>4 DEF VLANsAnswered
<1> HIDE DEF asked, used
<1>5. ASSUME pq.intent = "vlan"
      PROVE  shown = asked
  BY <1>2, <1>4, <1>5, RankedShown
<1>6. ASSUME pq.intent = "vlan", NEW m \in DOMAIN answer[p], NEW n \in DOMAIN answer[p], m < n
      PROVE  Ranks[answer[p][m].role] <= Ranks[answer[p][n].role] /\ answer[p][m].evidence # answer[p][n].evidence
  BY <1>4, <1>6 DEF Ranked
<1>7. pq.intent = "access_vlan" => shown = access
  BY <1>1, <1>2, <1>3
<1>8. /\ pq.intent = "vlan" /\ pq.mode = "access" => shown = access
      /\ pq.intent = "vlan" /\ pq.mode = "trunks" => shown = trunks
      /\ pq.intent = "vlan" /\ pq.mode = "declared" => shown = declared
      /\ pq.intent = "vlan" /\ pq.mode = "used" => shown = IF used = {} THEN declared ELSE used
  BY <1>5 DEF asked
<1>9. QED
  BY <1>6, <1>7, <1>8 DEF used, Ranks, shown, access, trunks, declared, pq, text, id

\* Whatever configuration a "query" reads and whatever VLAN it asks for: the answer of a Cisco device is the
\* access ports and the trunks whose own lines give them the VLAN, in this order, each once, and a declaration
\* only where it was asked for or nothing uses the VLAN. Texts are left out in which a line that is no list
\* of a trunk has "allowed vlan all" in it, as the code takes the port for a broad trunk then
\* (query.go:102-192, cisco.go:50-105).
THEOREM VlanAlwaysAnswered == OfflineSpec => []VlanAnswerExact
<1>1. OfflineInit => NetcInv /\ AnswerInv
  BY InitInv, AnswerInit
<1>2. NetcInv /\ AnswerInv /\ [OfflineNext]_OfflineVars => (NetcInv /\ AnswerInv)'
  BY StepInv, AnswerStep
<1>3. NetcInv /\ AnswerInv => VlanAnswerExact
  BY VlanTold
<1>4. QED
  BY <1>1, <1>2, <1>3, PTL DEF OfflineSpec

\* The three together: whatever words a "query" is asked with and whatever a Cisco configuration holds, the
\* question is understood as "help" says and answered as the file says, with the exception that
\* VlanAlwaysAnswered makes (internal/query).
THEOREM AnswersAlwaysExact == OfflineSpec => []AnswersExact
<1>1. QueryUnderstood /\ VlanAnswerExact /\ RouteAnswer => AnswersExact
  BY DEF AnswersExact
<1>2. QED
  BY <1>1, QueryAlwaysUnderstood, VlanAlwaysAnswered, RouteAlwaysAnswered, PTL
=============================================================================
