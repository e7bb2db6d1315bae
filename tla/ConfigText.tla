------------------------------ MODULE ConfigText ------------------------------
(***************************************************************************)
(* What the configuration parsers (internal/parser) read and what they     *)
(* make of it (internal/ir/ir.go).                                         *)
(*                                                                         *)
(* A file is a sequence of lines [word, args, ids, indented]: the words    *)
(* that select a case of a parser, the fields after them, the numbers      *)
(* among these as ranges <<lo, hi>>, and whether the line starts with a    *)
(* blank. All stands for the word "all" where a VLAN list is expected, To  *)
(* for the word "to" between two numbers, and NaN for any other field that *)
(* is no number. A destination is the range of its addresses. The blank    *)
(* line has the word None.                                                 *)
(***************************************************************************)
EXTENDS OrderedLists, FiniteSetsExt

None == ""
All  == << >>
NaN  == <<0>>
To   == <<1>>

\* IPv4 addresses as the texts and the queries write them. A network is its range of
\* addresses, and stands for its first one where an address is read out of it.
Addresses == [h1 |-> 1, h2 |-> 2, h3 |-> 5, net0 |-> 0, net4 |-> 4]
Network   == [h1 |-> <<1, 1>>, h2 |-> <<2, 2>>, h3 |-> <<5, 5>>, net0 |-> <<0, 3>>, net4 |-> <<4, 7>>]
Everywhere == <<0, 7>>

IsIPv4(field) == field \in DOMAIN Addresses

\* the numbers from..to in order
Lines(from, to) == [n \in 1..(to - from + 1) |-> from + n - 1]

\* A device. The evidence of an object is the numbers of the lines its raw block shows.
NoDevice ==
  [hostname |-> None, interfaces |-> << >>, vlans |-> << >>, routes |-> << >>, acls |-> << >>,
   zones |-> << >>, policies |-> << >>, nats |-> << >>, ntp |-> << >>, syslog |-> << >>,
   communities |-> << >>, hosts |-> << >>, statements |-> << >>, evidence |-> << >>]

NewInterface(name, evidence) ==
  [name |-> name, description |-> None, mode |-> "unknown", access |-> 0, trunk |-> << >>,
   ipv4 |-> None, shutdown |-> FALSE, evidence |-> evidence]

NewRoute(destination, evidence) ==
  [destination |-> destination, nexthop |-> None, interface |-> None, distance |-> None,
   vrf |-> None, evidence |-> evidence]

Field(args, n) == IF n \in DOMAIN args THEN args[n] ELSE None

Target(value, evidence) == [value |-> value, evidence |-> evidence]

\* the device with one more object, or several
Adding(dev, field, item)   == [dev EXCEPT ![field] = Append(@, item)]
AddingAll(dev, field, seq) == [dev EXCEPT ![field] = @ \o seq]

IsRange(range)  == Len(range) = 2
IsNumber(ids)   == Len(ids) = 1 /\ IsRange(ids[1]) /\ ids[1][1] = ids[1][2]
NumberIn(ids)   == IF IsNumber(ids) THEN ids[1][1] ELSE 0

\* parseVLANList: the numbers of the ranges in the order written, whatever else dropped
VLANList(ids) ==
  FlattenSeq([n \in DOMAIN ids |-> IF IsRange(ids[n]) THEN Lines(ids[n][1], ids[n][2]) ELSE << >>])

\* Objects a parser collects by name, in the order it came by them
Named(items, name, new) ==
  IF \E n \in DOMAIN items : items[n].name = name
  THEN items[CHOOSE n \in DOMAIN items : items[n].name = name] ELSE new

Put(items, item) ==
  IF \E n \in DOMAIN items : items[n].name = item.name
  THEN [n \in DOMAIN items |-> IF items[n].name = item.name THEN item ELSE items[n]]
  ELSE Append(items, item)

\* The ways to put some places in order. What Permutations gives, said in full: it is built in.
Orders(places) ==
  {f \in Permutations(places) : f \in [places -> places] /\ \A i, j \in places : i # j => f[i] # f[j]}

\* What a sort that is not stable may make of items, for a total preorder Before(i, j) of
\* their places
Sorted(items, Before(_, _)) ==
  LET Ascends(f) == \A i, j \in DOMAIN items : i < j => Before(f[i], f[j])
  IN {[n \in DOMAIN items |-> items[f[n]]] : f \in {g \in Orders(DOMAIN items) : Ascends(g)}}

\* sort.Ints of a list without its duplicates
Ascending(numbers) == SetToSortSeq(numbers, <)

-----------------------------------------------------------------------------
\* Mutant of BlockEnd: a block runs on to the next "!", over the headers before it
BlockEndBang(text, start) ==
  LET bangs == {i \in start + 1 .. Len(text) : text[i].word = "!"}
  IN IF bangs = {} THEN Len(text) + 1 ELSE Min(bangs) + 1

\* collectBlock: where the block that starts at start has ended: after the "!" that
\* closes it, or before a line that is not indented
BlockEnd(text, start) ==
  LET closing == {i \in start + 1 .. Len(text) :
                    text[i].word = "!" \/ (text[i].word # None /\ ~text[i].indented)}
  IN IF closing = {} THEN Len(text) + 1
     ELSE Min(closing) + (IF text[Min(closing)].word = "!" THEN 1 ELSE 0)

BlockLines(text, start) == Lines(start, BlockEnd(text, start) - 1)

\* a block's lines after its header
Body(text, start) == SubSeq(text, start + 1, BlockEnd(text, start) - 1)

\* A parser's loop: the device so far and the line to read next
Start == [dev |-> NoDevice, next |-> 1]

AfterLine(i, dev)           == [dev |-> dev, next |-> i + 1]
AfterBlock(text, start, dev) == [dev |-> dev, next |-> BlockEnd(text, start)]
=============================================================================
