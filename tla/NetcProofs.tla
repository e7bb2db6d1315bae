------------------------------ MODULE NetcProofs ------------------------------
(***************************************************************************)
(* Proofs about the inventory, for any processes, files, commands and      *)
(* parsers: a command that reads it gets devices an ingest parsed, and the *)
(* first of one ingest if it alone wrote what is read. And about the       *)
(* topology, for any reports: it says what they say, once. And about       *)
(* "diff", for any two files: it tells each difference once. And about     *)
(* "discover", for any directories: its reports are what the files say.    *)
(* And about "check", for any Cisco configuration and policy: it finds     *)
(* what the lines say, no more and no less.                                *)
(***************************************************************************)
EXTENDS Offline, FiniteSetTheorems, WellFoundedInduction, TLAPS

-----------------------------------------------------------------------------
(***************************************************************************)
(* Sequences and the lines of a file.                                      *)
(***************************************************************************)
LEMMA SequenceIsList ==
  ASSUME NEW S, NEW t \in Seq(S)
  PROVE  IsList(t)
<1>1. ToSet(t) = {t[n] : n \in DOMAIN t}
  BY DEF ToSet
<1>2. t \in Seq(ToSet(t))
  BY <1>1, Z3
<1>3. QED
  BY <1>2 DEF IsList

LEMMA Appended ==
  ASSUME NEW s, IsList(s), NEW e
  PROVE  /\ IsList(Append(s, e)) /\ Len(s) \in Nat
         /\ DOMAIN s = 1..Len(s) /\ DOMAIN Append(s, e) = 1..Len(s) + 1
         /\ \A n \in 1..Len(s) : Append(s, e)[n] = s[n]
         /\ Append(s, e)[Len(s) + 1] = e
<1> DEFINE S == ToSet(s) \cup {e}
<1>1. s \in Seq(S) /\ e \in S
  BY DEF IsList, ToSet
<1>2. Append(s, e) \in Seq(S)
  BY <1>1
<1>3. ToSet(Append(s, e)) = {Append(s, e)[n] : n \in DOMAIN Append(s, e)}
  BY DEF ToSet
<1>4. IsList(Append(s, e))
  BY <1>2, <1>3, Z3 DEF IsList
<1>5. QED
  BY <1>1, <1>4

\* A function on the numbers up to n is a list.
LEMMA FunctionIsList ==
  ASSUME NEW n \in Nat, NEW s, s = [m \in 1..n |-> s[m]]
  PROVE  IsList(s) /\ Len(s) = n
<1>1. \A m \in 1..n : s[m] \in ToSet(s)
  BY DEF ToSet
<1>2. s \in Seq(ToSet(s)) /\ Len(s) = n
  BY <1>1
<1>3. QED
  BY <1>2 DEF IsList

LEMMA EmptyIsList == IsList(<< >>) /\ DOMAIN << >> = {}
BY DEF IsList

\* A list of records is a prefix of another when it has the first of them.
LEMMA FirstIsPrefix ==
  ASSUME NEW s, IsList(s), NEW t, IsList(t), FirstOf(s, t)
  PROVE  IsPrefix(s, t)
<1>1. /\ s \in Seq(ToSet(s)) /\ t \in Seq(ToSet(t)) /\ Len(s) \in Nat /\ Len(t) \in Nat
      /\ Len(s) <= Len(t) /\ \A n \in 1 .. Len(s) : s[n] = t[n]
  BY DEF IsList, FirstOf
<1>2. SubSeq(s, 1, Len(s)) = [n \in 1 .. Len(s) |-> s[n]]
  BY <1>1
<1>3. SubSeq(t, 1, Len(s)) = [n \in 1 .. Len(s) |-> t[n]]
  BY <1>1
<1>4. QED
  BY <1>1, <1>2, <1>3 DEF IsPrefix

\* What is written at the end of a file is its last cell, and the others are as they were.
LEMMA StoredAtEnd ==
  ASSUME NEW cells, IsList(cells), NEW cell
  PROVE  Stored(cells, Len(cells), cell) = Append(cells, cell)
<1> DEFINE S == ToSet(cells) \cup {cell}
<1>1. cells \in Seq(S) /\ Len(cells) \in Nat /\ cell \in S
  BY DEF IsList, ToSet
<1>2. Append(cells, cell) = [m \in 1 .. Len(cells) + 1 |-> IF m = Len(cells) + 1 THEN cell ELSE cells[m]]
  <2> HIDE DEF S
  <2> DEFINE t == Append(cells, cell)
  <2>1. t \in Seq(S) /\ Len(t) = Len(cells) + 1
    BY <1>1
  <2>2. t = [m \in 1 .. Len(cells) + 1 |-> t[m]]
    <3> HIDE DEF t
    <3>1. QED
      BY <2>1
  <2>3. \A m \in 1 .. Len(cells) + 1 : t[m] = IF m = Len(cells) + 1 THEN cell ELSE cells[m]
    BY <1>1
  <2> HIDE DEF t
  <2>4. QED
    BY <2>2, <2>3, Zenon DEF t
<1>3. \A m \in 1 .. Len(cells) + 1 : m # Len(cells) + 1 => m <= Len(cells)
  BY <1>1
<1>4. QED
  BY <1>1, <1>2, <1>3 DEF Stored

\* What is written anywhere leaves a list of cells, of what was there, of what is written and of
\* holes.
LEMMA StoredIsList ==
  ASSUME NEW cells, IsList(cells), NEW at \in Nat, NEW cell
  PROVE  /\ IsList(Stored(cells, at, cell))
         /\ \A m \in DOMAIN Stored(cells, at, cell) :
              \/ Stored(cells, at, cell)[m] = cell
              \/ m \in DOMAIN cells /\ Stored(cells, at, cell)[m] = cells[m]
              \/ Stored(cells, at, cell)[m] = Hole(cell.by)
<1> DEFINE n == IF at < Len(cells) THEN Len(cells) ELSE at + 1
           s == Stored(cells, at, cell)
<1>1. cells \in Seq(ToSet(cells)) /\ Len(cells) \in Nat /\ DOMAIN cells = 1 .. Len(cells)
  BY DEF IsList
<1>2. n \in Nat
  BY <1>1
<1>3. s = [m \in 1 .. n |-> s[m]] /\ DOMAIN s = 1 .. n
  BY <1>1 DEF Stored
<1>4. IsList(s)
  <2> HIDE DEF s, n
  <2>1. QED
    BY <1>2, <1>3, FunctionIsList
<1>5. ASSUME NEW m \in 1 .. n
      PROVE  s[m] = cell \/ (m \in DOMAIN cells /\ s[m] = cells[m]) \/ s[m] = Hole(cell.by)
  BY <1>1, <1>2, <1>5 DEF Stored
<1>6. QED
  BY <1>3, <1>4, <1>5

-----------------------------------------------------------------------------
(***************************************************************************)
(* The steps of the commands keep the invariant.                           *)
(***************************************************************************)
LEMMA InitInv == OfflineInit => NetcInv
<1>1. SUFFICES ASSUME NEW sessions, NetcInit(sessions) PROVE NetcInv
  BY DEF OfflineInit
<1>2. \A p \in Procs : stage[p] = "start" \/ (stage[p] = "done" /\ job(p).cmd = "none")
  BY <1>1 DEF NetcInit
<1>3. /\ DOMAIN handle = Procs /\ DOMAIN source = Procs /\ DOMAIN loaded = Procs /\ DOMAIN todo = Procs
      /\ \A p \in Procs : /\ handle[p].line = << >> /\ handle[p].at = 0
                          /\ loaded[p] = << >> /\ source[p] = {}
      /\ inventory.cells = << >> /\ ~inventory.there /\ authors = {}
  BY <1>1 DEF NetcInit, NoFile, Handle
<1>4. IsList(<< >>)
  BY DEF IsList
<1>5. NetcTypeOK
  <2>1. stage \in [Procs -> Stages]
    BY <1>1, <1>2 DEF NetcInit, Stages
  <2>2. QED
    BY <1>3, <1>4, <2>1 DEF NetcTypeOK
<1>6. CellsOfIngests
  BY <1>2, <1>3 DEF CellsOfIngests
<1>7. WritersKnown
  BY <1>2, <1>3 DEF WritersKnown
<1>8. SoleAuthor
  BY <1>3 DEF SoleAuthor
<1>9. ReadersHaveRecords
  BY <1>2, <1>3 DEF ReadersHaveRecords, ReadsInventory
<1>10. QED
  BY <1>5, <1>6, <1>7, <1>8, <1>9 DEF NetcInv

\* A step that takes nothing from those that have ingested.
IngestsKept ==
  /\ session' = session
  /\ \A q \in Procs : HasIngested(q) => HasIngested(q)' /\ loaded'[q] = loaded[q]

LEMMA CellKept ==
  ASSUME IngestsKept, NEW cell, IsCell(cell)
  PROVE  /\ IsCell(cell)'
         /\ cell.nth # 0 => Parts(cell)' = Parts(cell) /\ Following(cell)' = Following(cell)
<1>1. CASE cell.nth = 0
  BY <1>1 DEF IsCell
<1>2. CASE cell.nth # 0
  <2>1. cell.by \in Procs /\ HasIngested(cell.by) /\ HasIngested(cell.by)' /\ loaded'[cell.by] = loaded[cell.by]
    BY <1>2 DEF IsCell, IngestsKept
  <2>2. QED
    BY <1>2, <2>1 DEF IsCell, Parts, Following
<1>3. QED
  BY <1>1, <1>2

\* so that a file of one author is still one
LEMMA FileOfKept ==
  ASSUME IngestsKept, NEW cells, \A m \in DOMAIN cells : IsCell(cells[m]), IsList(cells), NEW q, FileOf(q, cells)
  PROVE  FileOf(q, cells)' /\ NextOf(q, cells)' = NextOf(q, cells)
<1>1. DOMAIN cells = 1 .. Len(cells) /\ Len(cells) \in Nat /\ (cells # << >> => Len(cells) \in DOMAIN cells)
  BY DEF IsList
<1>2. \A m \in DOMAIN cells : Following(cells[m])' = Following(cells[m])
  <2>1. TAKE m \in DOMAIN cells
  <2>2. IsCell(cells[m]) /\ cells[m].nth # 0
    BY DEF FileOf
  <2>3. QED
    BY <2>2, CellKept
<1>3. \A m \in DOMAIN cells : m # 1 => m - 1 \in DOMAIN cells
  BY <1>1
<1>4. QED
  BY <1>1, <1>2, <1>3 DEF FileOf, NextOf

\* and a reader of it, if it has loaded no more, has seen of it what it had
LEMMA SeenKept ==
  ASSUME IngestsKept, NEW cell, IsCell(cell), cell.nth # 0, NEW p \in Procs, HasSeen(p, cell),
         handle'[p] = handle[p], loaded'[p] = loaded[p]
  PROVE  HasSeen(p, cell)'
<1>1. Parts(cell)' = Parts(cell)
  BY CellKept
<1>2. QED
  BY <1>1 DEF HasSeen

LEMMA ReaderKept ==
  ASSUME NetcInv, IngestsKept, NEW p \in Procs, NEW q \in Procs, ReaderOfOne(p, q), authors' = authors,
         handle'[p] = handle[p], loaded'[p] = loaded[p],
         Len(inventory.cells) <= Len(inventory'.cells), Len(inventory'.cells) \in Nat,
         \A m \in 1 .. Len(inventory.cells) : inventory'.cells[m] = inventory.cells[m]
  PROVE  ReaderOfOne(p, q)'
<1>1. HasIngested(q) /\ loaded'[q] = loaded[q]
  BY DEF NetcInv, WritersKnown, ReaderOfOne, IngestsKept
<1>2. handle[p].at \in Nat /\ Len(inventory.cells) \in Nat /\ DOMAIN inventory.cells = 1 .. Len(inventory.cells)
  BY DEF NetcInv, NetcTypeOK, IsList
<1>3. handle'[p].at <= Len(inventory'.cells)
  BY <1>2 DEF ReaderOfOne
<1>4. FirstOf(loaded[p], loaded[q])' = FirstOf(loaded[p], loaded[q])
  BY <1>1 DEF FirstOf
<1>5. CASE handle[p].at = 0
  BY <1>3, <1>4, <1>5 DEF ReaderOfOne
<1>6. CASE handle[p].at # 0
  <2>1. SUFFICES ASSUME NEW cell, cell = inventory.cells[handle[p].at]
                 PROVE  HasSeen(p, cell)' /\ inventory'.cells[handle'[p].at] = cell
    BY <1>3, <1>4, <1>6 DEF ReaderOfOne
  <2>2. handle[p].at \in 1 .. Len(inventory.cells)
    BY <1>2, <1>6 DEF ReaderOfOne
  <2>3. IsCell(cell) /\ cell.nth # 0
    BY <1>2, <2>1, <2>2 DEF NetcInv, CellsOfIngests, SoleAuthor, ReaderOfOne, FileOf
  <2>4. HasSeen(p, cell)
    BY <1>6, <2>1 DEF ReaderOfOne
  <2>5. HasSeen(p, cell)'
    BY <2>3, <2>4, SeenKept
  <2>6. QED
    BY <2>1, <2>2, <2>5
<1>7. QED
  BY <1>5, <1>6

\* the records a reader has are still those of ingests
LEMMA RecordsKept ==
  ASSUME IngestsKept, NEW p \in Procs, loaded'[p] = loaded[p],
         \A n \in DOMAIN loaded[p] : \E q \in Procs : HasIngested(q) /\ \E m \in DOMAIN loaded[q] : loaded[p][n] = loaded[q][m]
  PROVE  \A n \in DOMAIN loaded'[p] : \E q \in Procs :
           HasIngested(q)' /\ \E m \in DOMAIN loaded'[q] : loaded'[p][n] = loaded'[q][m]
BY DEF IngestsKept

\* What ReadersHaveRecords says of one process.
ReaderOk(p) ==
  ReadsInventory(p) /\ job(p).cmd # "ingest" =>
    /\ stage[p] \notin {"parse", "open", "write"}
    /\ stage[p] \in {"start", "read"} => loaded[p] = << >> /\ source[p] = {}
    /\ stage[p] # "failed" => \A n \in DOMAIN loaded[p] : \E q \in Procs :
         HasIngested(q) /\ \E m \in DOMAIN loaded[q] : loaded[p][n] = loaded[q][m]
    /\ \A q \in Procs : source[p] = {q} =>
         /\ stage[p] # "garbled"
         /\ stage[p] = "scan" => ReaderOfOne(p, q)
         /\ stage[p] \in {"answer", "done"} => HasIngested(q) /\ FirstOf(loaded[p], loaded[q])

\* A process that a step leaves alone, while the file at most grows at its end, reads what it read.
LEMMA OtherReads ==
  ASSUME NetcInv, IngestsKept, NEW p \in Procs, authors' = authors, source'[p] = source[p],
         stage'[p] = stage[p], handle'[p] = handle[p], loaded'[p] = loaded[p],
         \A q \in Procs : authors = {q} =>
           /\ Len(inventory.cells) <= Len(inventory'.cells) /\ Len(inventory'.cells) \in Nat
           /\ \A m \in 1 .. Len(inventory.cells) : inventory'.cells[m] = inventory.cells[m]
  PROVE  ReaderOk(p)'
<1>1. ReadsInventory(p)' = ReadsInventory(p) /\ job(p)' = job(p)
  BY DEF IngestsKept, ReadsInventory, job
<1>2. SUFFICES ASSUME ReadsInventory(p), job(p).cmd # "ingest" PROVE ReaderOk(p)'
  BY <1>1 DEF ReaderOk
<1>3. ReaderOk(p)
  BY DEF NetcInv, ReadersHaveRecords, ReaderOk
<1>4. stage'[p] # "failed" => \A n \in DOMAIN loaded'[p] : \E q \in Procs :
         HasIngested(q)' /\ \E m \in DOMAIN loaded'[q] : loaded'[p][n] = loaded'[q][m]
  BY <1>2, <1>3, RecordsKept DEF ReaderOk
<1>5. ASSUME NEW q \in Procs, source'[p] = {q}
      PROVE  /\ stage'[p] # "garbled"
             /\ stage'[p] = "scan" => ReaderOfOne(p, q)'
             /\ stage'[p] \in {"answer", "done"} => HasIngested(q)' /\ FirstOf(loaded[p], loaded[q])'
  <2>1. stage[p] # "garbled" /\ (stage[p] = "scan" => ReaderOfOne(p, q))
        /\ (stage[p] \in {"answer", "done"} => HasIngested(q) /\ FirstOf(loaded[p], loaded[q]))
    BY <1>2, <1>3, <1>5 DEF ReaderOk
  <2>2. stage'[p] = "scan" => ReaderOfOne(p, q)'
    <3>1. SUFFICES ASSUME ReaderOfOne(p, q) PROVE ReaderOfOne(p, q)'
      BY <2>1
    <3>2. authors = {q}
      BY <3>1 DEF ReaderOfOne
    <3>3. QED
      BY <3>1, <3>2, ReaderKept
  <2>3. HasIngested(q) => HasIngested(q)' /\ loaded'[q] = loaded[q]
    BY DEF IngestsKept
  <2>4. QED
    BY <2>1, <2>2, <2>3 DEF FirstOf
<1>6. QED
  BY <1>1, <1>2, <1>3, <1>4, <1>5 DEF ReaderOk

LEMMA ReadersOk ==
  ASSUME \A p \in Procs : ReaderOk(p)'
  PROVE  ReadersHaveRecords'
BY DEF ReaderOk, ReadersHaveRecords

-----------------------------------------------------------------------------
\* A step of a process that neither opens the inventory nor writes or reads a cell.
Calm(p) ==
  /\ stage' \in [Procs -> Stages] /\ DOMAIN todo' = Procs /\ DOMAIN loaded' = Procs /\ IsList(loaded'[p])
  /\ \A q \in Procs \ {p} : stage'[q] = stage[q] /\ loaded'[q] = loaded[q]
  /\ session' = session /\ UNCHANGED storeVars
  /\ stage[p] \in {"start", "parse", "open", "write", "answer"} /\ stage'[p] \notin {"scan", "write", "garbled"}
  /\ loaded'[p] = loaded[p] \/ stage[p] = "parse"
  /\ HasIngested(p) => HasIngested(p)' /\ loaded'[p] = loaded[p]
  /\ stage'[p] = "open" => job(p).cmd = "ingest"
  /\ ReadsInventory(p) /\ job(p).cmd # "ingest" =>
       /\ stage'[p] \notin {"parse", "open"}
       /\ stage'[p] \in {"start", "read"} => stage[p] = "start"
       /\ stage'[p] \in {"answer", "done"} => stage[p] = "answer"

LEMMA CalmKeeps ==
  ASSUME NetcInv, NEW p \in Procs, Calm(p)
  PROVE  NetcInv'
<1> USE DEF NetcInv
<1>1. IngestsKept
  <2>1. \A q \in Procs \ {p} : HasIngested(q) => HasIngested(q)' /\ loaded'[q] = loaded[q]
    BY DEF Calm, HasIngested, job
  <2>2. HasIngested(p) => HasIngested(p)' /\ loaded'[p] = loaded[p]
    BY DEF Calm
  <2>3. session' = session
    BY DEF Calm
  <2>4. QED
    BY <2>1, <2>2, <2>3 DEF IngestsKept
<1>2. NetcTypeOK'
  BY DEF Calm, storeVars, NetcTypeOK
<1>3. CellsOfIngests'
  <2>1. ASSUME NEW cell, IsCell(cell) PROVE IsCell(cell)'
    BY <1>1, <2>1, CellKept
  <2>2. inventory' = inventory /\ handle' = handle /\ \A q \in Procs : stage'[q] = "scan" => stage[q] = "scan"
    BY DEF Calm, storeVars
  <2>3. QED
    BY <2>1, <2>2 DEF CellsOfIngests
<1>4. WritersKnown'
  <2>1. /\ inventory' = inventory /\ handle' = handle /\ authors' = authors /\ source' = source
        /\ \A q \in Procs : /\ job(q)' = job(q)
                            /\ stage'[q] \in {"scan", "write"} => stage[q] = stage'[q]
                            /\ stage'[q] = "open" => job(q).cmd = "ingest"
    BY DEF Calm, storeVars, job, WritersKnown
  <2>2. \A q \in Procs : HasIngested(q) => HasIngested(q)'
    BY <1>1 DEF IngestsKept
  <2>3. authors \subseteq Procs
    BY DEF NetcTypeOK
  <2>4. \A q \in authors : HasIngested(q)'
    BY <2>2, <2>3 DEF WritersKnown
  <2>5. \A q \in Procs : stage'[q] = "scan" => source[q] # {} /\ \A r \in source[q] : r \in Procs /\ HasIngested(r)'
    BY <2>1, <2>2 DEF WritersKnown
  <2>6. QED
    BY <2>1, <2>4, <2>5 DEF WritersKnown
<1>5. SoleAuthor'
  <2>1. inventory' = inventory /\ handle' = handle /\ authors' = authors
    BY DEF Calm, storeVars
  <2>2. ASSUME NEW q \in Procs, authors = {q}, NEW cells, cells = inventory.cells
        PROVE  /\ FileOf(q, cells)'
               /\ stage'[q] = "write" => handle[q].at = Len(cells) /\ handle[q].next = NextOf(q, cells)'
    <3>1. FileOf(q, cells) /\ (stage[q] = "write" => handle[q].at = Len(cells) /\ handle[q].next = NextOf(q, cells))
      BY <2>2 DEF SoleAuthor
    <3>2. FileOf(q, cells)' /\ NextOf(q, cells)' = NextOf(q, cells)
      BY <1>1, <2>2, <3>1, FileOfKept DEF CellsOfIngests, NetcTypeOK
    <3>3. stage'[q] = "write" => stage[q] = "write"
      BY DEF Calm
    <3>4. QED
      BY <3>1, <3>2, <3>3
  <2>3. QED
    BY <2>1, <2>2 DEF SoleAuthor
<1>6. ReadersHaveRecords'
  <2>1. inventory' = inventory /\ handle' = handle /\ authors' = authors /\ source' = source
    BY DEF Calm, storeVars
  <2>2. Len(inventory.cells) \in Nat
    BY DEF NetcTypeOK, IsList
  <2>3. ASSUME NEW q \in Procs, q # p PROVE ReaderOk(q)'
    BY <1>1, <2>1, <2>2, <2>3, OtherReads DEF Calm
  <2>4. ReaderOk(p)'
    <3>1. ReadsInventory(p)' = ReadsInventory(p) /\ job(p)' = job(p)
      BY DEF Calm, ReadsInventory, job
    <3>2. SUFFICES ASSUME ReadsInventory(p), job(p).cmd # "ingest" PROVE ReaderOk(p)'
      BY <3>1 DEF ReaderOk
    <3>3. ReaderOk(p) /\ stage[p] # "parse"
      BY <3>2 DEF ReadersHaveRecords, ReaderOk
    <3>4. loaded'[p] = loaded[p] /\ stage[p] # "failed"
      BY <3>3 DEF Calm
    <3>5. stage'[p] # "failed" => \A n \in DOMAIN loaded'[p] : \E q \in Procs :
             HasIngested(q)' /\ \E m \in DOMAIN loaded'[q] : loaded'[p][n] = loaded'[q][m]
      BY <1>1, <3>2, <3>3, <3>4, RecordsKept DEF ReaderOk
    <3>6. /\ stage'[p] \notin {"parse", "open", "write"}
          /\ stage'[p] \in {"start", "read"} => loaded'[p] = << >> /\ source'[p] = {}
      BY <2>1, <3>2, <3>3, <3>4 DEF Calm, ReaderOk
    <3>7. ASSUME NEW q \in Procs, source'[p] = {q}
          PROVE  /\ stage'[p] \notin {"garbled", "scan"}
                 /\ stage'[p] \in {"answer", "done"} => HasIngested(q)' /\ FirstOf(loaded[p], loaded[q])'
      <4>1. stage'[p] \in {"answer", "done"} => HasIngested(q) /\ FirstOf(loaded[p], loaded[q])
        BY <2>1, <3>2, <3>3, <3>7 DEF Calm, ReaderOk
      <4>2. HasIngested(q) => HasIngested(q)' /\ loaded'[q] = loaded[q]
        BY <1>1 DEF IngestsKept
      <4>3. QED
        BY <3>4, <4>1, <4>2 DEF FirstOf, Calm
    <3>8. QED
      BY <3>1, <3>2, <3>5, <3>6, <3>7 DEF ReaderOk
  <2>5. QED
    BY <2>3, <2>4, ReadersOk
<1>7. QED
  BY <1>2, <1>3, <1>4, <1>5, <1>6

LEMMA CalmSteps ==
  ASSUME NetcInv, NEW p \in Procs,
         Begin(p) \/ ParseNext(p) \/ AllParsed(p) \/ WriteFails(p) \/ Written(p) \/ Crash(p) \/ Answer(p)
  PROVE  Calm(p)
<1> USE DEF NetcInv
<1>1. CASE Begin(p)
  <2>1. /\ stage[p] = "start" /\ stage'[p] \in {"read", "failed", "parse"}
        /\ \A q \in Procs \ {p} : stage'[q] = stage[q]
        /\ stage' \in [Procs -> Stages] /\ DOMAIN todo' = Procs
        /\ session' = session /\ loaded' = loaded /\ UNCHANGED storeVars
    BY <1>1 DEF Begin, Become, NetcTypeOK, Stages
  <2>2. ReadsInventory(p) /\ job(p).cmd # "ingest" => stage'[p] # "parse"
    <3>1. SUFFICES ASSUME job(p).inputs = <<Inventory>> PROVE Inputs(p) = <<Inventory>>
      BY <1>1, <2>1 DEF ReadsInventory, Begin, Become, NetcTypeOK
    <3>2. Directory \notin ToSet(job(p).inputs)
      BY <3>1 DEF ToSet, Directory, Inventory
    <3>3. QED
      BY <3>1, <3>2 DEF Inputs
  <2>3. QED
    BY <2>1, <2>2 DEF Calm, NetcTypeOK, HasIngested
<1>2. CASE ParseNext(p)
  <2>1. /\ stage[p] = "parse" /\ stage'[p] \in {"parse", "failed", "dead"}
        /\ \A q \in Procs \ {p} : stage'[q] = stage[q] /\ loaded'[q] = loaded[q]
        /\ stage' \in [Procs -> Stages] /\ DOMAIN todo' = Procs /\ DOMAIN loaded' = Procs
        /\ session' = session /\ UNCHANGED storeVars
    BY <1>2 DEF ParseNext, Become, NetcTypeOK, Stages
  <2>2. IsList(loaded'[p])
    <3>1. loaded'[p] = loaded[p] \/ \E record : loaded'[p] = Append(loaded[p], record)
      BY <1>2 DEF ParseNext, NetcTypeOK
    <3>2. IsList(loaded[p])
      BY DEF NetcTypeOK
    <3>3. \A record : IsList(Append(loaded[p], record))
      BY <3>2, Appended
    <3>4. QED
      BY <3>1, <3>2, <3>3
  <2>3. ReadsInventory(p) /\ job(p).cmd # "ingest" => FALSE
    BY <2>1 DEF ReadersHaveRecords
  <2>4. QED
    BY <2>1, <2>2, <2>3 DEF Calm, HasIngested
<1>3. CASE AllParsed(p)
  <2>1. /\ stage[p] = "parse" /\ stage'[p] = IF job(p).cmd = "ingest" THEN "open" ELSE "answer"
        /\ \A q \in Procs \ {p} : stage'[q] = stage[q]
        /\ stage' \in [Procs -> Stages]
        /\ UNCHANGED <<session, todo, loaded, storeVars>>
    BY <1>3 DEF AllParsed, Become, NetcTypeOK, Stages
  <2>2. ReadsInventory(p) /\ job(p).cmd # "ingest" => FALSE
    BY <2>1 DEF ReadersHaveRecords
  <2>3. QED
    BY <2>1, <2>2 DEF Calm, HasIngested, NetcTypeOK
<1>4. CASE WriteFails(p) \/ Written(p) \/ Crash(p)
  <2>1. /\ stage[p] \in {"open", "write"} /\ stage'[p] \in {"failed", "done", "dead"}
        /\ \A q \in Procs \ {p} : stage'[q] = stage[q]
        /\ stage' \in [Procs -> Stages]
        /\ UNCHANGED <<session, todo, loaded, storeVars>>
    BY <1>4 DEF WriteFails, Written, Crash, Become, NetcTypeOK, Stages, storeVars
  <2>2. job(p).cmd = "ingest" /\ HasIngested(p)' /\ job(p)' = job(p)
    BY <2>1 DEF WritersKnown, HasIngested, job
  <2>3. QED
    BY <2>1, <2>2 DEF Calm, NetcTypeOK
<1>5. CASE Answer(p)
  <2>1. /\ stage[p] = "answer" /\ stage'[p] \in {"done", "failed"}
        /\ \A q \in Procs \ {p} : stage'[q] = stage[q]
        /\ stage' \in [Procs -> Stages]
        /\ UNCHANGED <<session, todo, loaded, storeVars>>
    BY <1>5 DEF Answer, Become, NetcTypeOK, Stages
  <2>2. QED
    BY <2>1 DEF Calm, HasIngested, NetcTypeOK
<1>6. QED
  BY <1>1, <1>2, <1>3, <1>4, <1>5

-----------------------------------------------------------------------------
LEMMA OpenInventoryKeeps ==
  ASSUME NetcInv, NEW p \in Procs, OpenInventory(p)
  PROVE  NetcInv'
<1> USE DEF NetcInv
<1>1. /\ stage[p] = "open" /\ stage'[p] = "write"
      /\ \A q \in Procs \ {p} : stage'[q] = stage[q] /\ handle'[q] = handle[q]
      /\ stage' \in [Procs -> Stages] /\ DOMAIN handle' = Procs /\ DOMAIN source' = Procs
      /\ handle'[p] = Handle(0, Cell(p, 1, 1), << >>)
      /\ inventory'.there /\ inventory'.cells = << >>
      /\ authors' = {p} \cup {q \in Procs : stage[q] = "write"}
      /\ \A q \in Procs : source'[q] = IF stage[q] = "scan" THEN source[q] \cup {p} ELSE source[q]
      /\ UNCHANGED <<session, todo, loaded>>
  BY DEF OpenInventory, Become, NetcTypeOK, Stages, Created
<1>2. IngestsKept /\ job(p).cmd = "ingest" /\ HasIngested(p)' /\ ~HasIngested(p)
  BY <1>1 DEF IngestsKept, HasIngested, WritersKnown, job
<1>3. IsList(<< >>) /\ DOMAIN << >> = {} /\ Len(<< >>) = 0
  BY DEF IsList
<1>4. NetcTypeOK'
  <2>1. handle'[p].line = << >> /\ handle'[p].at = 0
    BY <1>1 DEF Handle
  <2>2. QED
    BY <1>1, <1>3, <2>1 DEF NetcTypeOK
<1>5. CellsOfIngests'
  <2>1. ASSUME NEW cell, IsCell(cell) PROVE IsCell(cell)'
    BY <1>2, <2>1, CellKept
  <2>2. QED
    BY <1>1, <1>3, <2>1 DEF CellsOfIngests
<1>6. WritersKnown'
  <2>1. \A q \in authors' : HasIngested(q)'
    BY <1>1, <1>2 DEF IngestsKept, WritersKnown, HasIngested, job
  <2>2. ASSUME NEW q \in Procs
        PROVE  /\ stage'[q] \in {"open", "write"} => job(q)'.cmd = "ingest"
               /\ stage'[q] = "write" =>
                    /\ q \in authors' /\ inventory'.there
                    /\ handle'[q].next = Cell(q, handle'[q].next.nth, handle'[q].next.part)
                    /\ handle'[q].next.nth \in Nat \ {0} /\ handle'[q].next.part \in Nat
               /\ stage'[q] = "scan" => source'[q] # {} /\ \A r \in source'[q] : r \in Procs /\ HasIngested(r)'
    <3>1. CASE q = p
      BY <1>1, <1>2, <3>1 DEF Handle, Cell, IngestsKept, job
    <3>2. CASE q # p
      <4>1. stage'[q] = "scan" => source'[q] # {} /\ \A r \in source'[q] : r \in Procs /\ HasIngested(r)'
        BY <1>1, <1>2, <3>2 DEF WritersKnown, IngestsKept
      <4>2. QED
        BY <1>1, <3>2, <4>1 DEF WritersKnown, job
    <3>3. QED
      BY <3>1, <3>2
  <2>3. QED
    BY <1>1, <2>1, <2>2 DEF WritersKnown
<1>7. SoleAuthor'
  <2>1. SUFFICES ASSUME NEW q \in Procs, authors' = {q}
                 PROVE  handle'[q].at = 0 /\ handle'[q].next = Cell(q, 1, 1)
    BY <1>1, <1>3 DEF SoleAuthor, FileOf, NextOf, Cell
  <2>2. q = p
    BY <1>1, <2>1
  <2>3. QED
    BY <1>1, <2>2 DEF Handle
<1>8. ReadersHaveRecords'
  <2>1. ASSUME NEW q \in Procs
        PROVE  ReaderOk(q)'
    <3>1. ReadsInventory(q)' = ReadsInventory(q) /\ job(q)' = job(q)
      BY <1>1 DEF ReadsInventory, job
    <3>2. SUFFICES ASSUME ReadsInventory(q), job(q).cmd # "ingest" PROVE ReaderOk(q)'
      BY <3>1 DEF ReaderOk
    <3>3. ReaderOk(q) /\ q # p /\ stage'[q] = stage[q] /\ loaded'[q] = loaded[q]
      BY <1>1, <1>2, <3>2 DEF ReadersHaveRecords, ReaderOk
    <3>4. stage'[q] # "failed" => \A n \in DOMAIN loaded'[q] : \E r \in Procs :
             HasIngested(r)' /\ \E m \in DOMAIN loaded'[r] : loaded'[q][n] = loaded'[r][m]
      BY <1>2, <3>2, <3>3, RecordsKept DEF ReaderOk
    <3>5. CASE stage[q] = "scan"
      <4>1. \A r \in Procs : source'[q] # {r}
        <5>1. source[q] # {} /\ p \notin source[q] /\ source'[q] = source[q] \cup {p}
          BY <1>1, <1>2, <3>5 DEF WritersKnown
        <5>2. QED
          BY <5>1
      <4>2. QED
        BY <3>1, <3>2, <3>3, <3>4, <3>5, <4>1 DEF ReaderOk
    <3>6. CASE stage[q] # "scan"
      <4>1. source'[q] = source[q]
        BY <1>1, <3>6
      <4>2. ASSUME NEW r \in Procs, source[q] = {r}
            PROVE  /\ stage[q] # "garbled"
                   /\ stage[q] \in {"answer", "done"} => HasIngested(r)' /\ FirstOf(loaded[q], loaded[r])'
        <5>1. /\ stage[q] # "garbled"
              /\ stage[q] \in {"answer", "done"} => HasIngested(r) /\ FirstOf(loaded[q], loaded[r])
          BY <3>2, <3>3, <4>2 DEF ReaderOk
        <5>2. HasIngested(r) => HasIngested(r)' /\ loaded'[r] = loaded[r]
          BY <1>2 DEF IngestsKept
        <5>3. QED
          BY <3>3, <5>1, <5>2 DEF FirstOf
      <4>3. QED
        BY <3>1, <3>2, <3>3, <3>4, <3>6, <4>1, <4>2 DEF ReaderOk
    <3>7. QED
      BY <3>5, <3>6
  <2>2. QED
    BY <2>1, ReadersOk
<1>9. QED
  BY <1>4, <1>5, <1>6, <1>7, <1>8

LEMMA WriteCellKeeps ==
  ASSUME NetcInv, NEW p \in Procs, WriteCell(p)
  PROVE  NetcInv'
<1> USE DEF NetcInv
<1> DEFINE next == handle[p].next
           at == handle[p].at
<1>1. /\ stage[p] = "write" /\ next.nth <= Len(loaded[p])
      /\ inventory'.there /\ inventory'.cells = Stored(inventory.cells, at, next)
      /\ DOMAIN handle' = Procs /\ handle'[p] = Handle(at + 1, Following(next), << >>)
      /\ \A q \in Procs \ {p} : handle'[q] = handle[q]
      /\ UNCHANGED <<session, stage, todo, loaded, authors, source>>
  BY DEF WriteCell, NetcTypeOK
<1>2. IngestsKept /\ HasIngested(p) /\ job(p).cmd = "ingest"
  BY <1>1 DEF IngestsKept, HasIngested, WritersKnown, job
<1>3. next = Cell(p, next.nth, next.part) /\ next.nth \in Nat \ {0} /\ next.part \in Nat /\ p \in authors
  BY <1>1 DEF WritersKnown
<1>4. IsCell(next)
  <2>1. next.nth \in DOMAIN loaded[p] /\ next.by = p
    BY <1>1, <1>3 DEF NetcTypeOK, IsList, Cell
  <2>2. QED
    BY <1>2, <1>3, <2>1 DEF IsCell
<1>5. at \in Nat /\ IsList(inventory.cells)
  BY DEF NetcTypeOK
<1> HIDE DEF next, at
<1>6. /\ IsList(inventory'.cells)
      /\ \A m \in DOMAIN inventory'.cells :
           \/ inventory'.cells[m] = next
           \/ m \in DOMAIN inventory.cells /\ inventory'.cells[m] = inventory.cells[m]
           \/ inventory'.cells[m] = Hole(next.by)
  BY <1>1, <1>5, StoredIsList
<1>7. NetcTypeOK'
  <2>1. IsList(<< >>) /\ handle'[p].line = << >> /\ handle'[p].at = at + 1
    BY <1>1 DEF Handle, IsList
  <2>2. QED
    BY <1>1, <1>5, <1>6, <2>1 DEF NetcTypeOK
<1>8. CellsOfIngests'
  <2>1. ASSUME NEW cell, IsCell(cell) PROVE IsCell(cell)'
    BY <1>2, <2>1, CellKept
  <2>2. ASSUME NEW r PROVE IsCell(Hole(r))
    BY DEF Hole, Cell, IsCell
  <2>3. \A m \in DOMAIN inventory'.cells : IsCell(inventory'.cells[m])
    BY <1>4, <1>6, <2>2 DEF CellsOfIngests
  <2>4. \A q \in Procs : stage'[q] = "scan" => q # p
    BY <1>1
  <2>5. QED
    BY <1>1, <2>1, <2>3, <2>4 DEF CellsOfIngests
<1>9. WritersKnown'
  <2>1. /\ Following(next) = Cell(p, Following(next).nth, Following(next).part)
        /\ Following(next).nth \in Nat \ {0} /\ Following(next).part \in Nat
    BY <1>3 DEF Following, Cell
  <2>2. handle'[p].next = Following(next)
    BY <1>1 DEF Handle
  <2>3. ASSUME NEW q \in Procs, stage'[q] = "write"
        PROVE  /\ handle'[q].next = Cell(q, handle'[q].next.nth, handle'[q].next.part)
               /\ handle'[q].next.nth \in Nat \ {0} /\ handle'[q].next.part \in Nat
    BY <1>1, <2>1, <2>2, <2>3 DEF WritersKnown
  <2>4. QED
    BY <1>1, <2>3 DEF WritersKnown, HasIngested, job
<1>10. ASSUME NEW q \in Procs, authors = {q}
       PROVE  /\ q = p /\ inventory'.cells = Append(inventory.cells, next)
              /\ FileOf(q, inventory.cells) /\ next = NextOf(q, inventory.cells) /\ at = Len(inventory.cells)
  <2>1. q = p
    BY <1>3, <1>10
  <2>2. FileOf(q, inventory.cells) /\ next = NextOf(q, inventory.cells) /\ at = Len(inventory.cells)
    BY <1>1, <1>10, <2>1 DEF SoleAuthor, next, at
  <2>3. QED
    BY <1>1, <1>5, <2>1, <2>2, StoredAtEnd
<1>11. ASSUME NEW q \in Procs, authors = {q}
       PROVE  /\ Len(inventory.cells) \in Nat /\ Len(inventory'.cells) = Len(inventory.cells) + 1
              /\ DOMAIN inventory.cells = 1 .. Len(inventory.cells)
              /\ DOMAIN inventory'.cells = 1 .. Len(inventory.cells) + 1
              /\ \A m \in 1 .. Len(inventory.cells) : inventory'.cells[m] = inventory.cells[m]
              /\ inventory'.cells[Len(inventory.cells) + 1] = next
  <2>1. inventory'.cells = Append(inventory.cells, next)
    BY <1>10, <1>11
  <2>2. inventory.cells \in Seq(ToSet(inventory.cells))
    BY <1>5 DEF IsList
  <2>3. Len(Append(inventory.cells, next)) = Len(inventory.cells) + 1
    BY <2>2
  <2>4. QED
    BY <1>5, <2>1, <2>3, Appended
<1>12. SoleAuthor'
  <2>1. SUFFICES ASSUME NEW q \in Procs, authors' = {q}, NEW cells, cells = inventory'.cells
                 PROVE  /\ FileOf(q, cells)'
                        /\ handle'[q].at = Len(cells) /\ handle'[q].next = NextOf(q, cells)'
    BY DEF SoleAuthor
  <2>2. authors = {q}
    BY <1>1, <2>1
  <2>3. /\ Len(inventory.cells) \in Nat /\ Len(cells) = Len(inventory.cells) + 1
        /\ DOMAIN inventory.cells = 1 .. Len(inventory.cells)
        /\ DOMAIN cells = 1 .. Len(inventory.cells) + 1
        /\ \A m \in 1 .. Len(inventory.cells) : cells[m] = inventory.cells[m]
        /\ cells[Len(inventory.cells) + 1] = next
    BY <1>11, <2>1, <2>2
  <2>4. \A cell : Following(cell)' = Following(cell)
    BY <1>1 DEF Following, Parts
  <2>5. /\ q = p /\ FileOf(q, inventory.cells) /\ next = NextOf(q, inventory.cells) /\ at = Len(inventory.cells)
    BY <1>10, <2>2
  <2>6. inventory.cells = << >> <=> Len(inventory.cells) = 0
    BY <1>5 DEF IsList
  <2>7. ASSUME NEW m \in DOMAIN cells
        PROVE  /\ cells[m].nth # 0 /\ cells[m].by = q
               /\ cells[m] = IF m = 1 THEN Cell(q, 1, 1) ELSE Following(cells[m - 1])
    <3>1. CASE m \in 1 .. Len(inventory.cells)
      <4>1. m # 1 => m - 1 \in 1 .. Len(inventory.cells)
        BY <2>3, <3>1
      <4>2. QED
        BY <2>3, <2>5, <3>1, <4>1 DEF FileOf
    <3>2. CASE m = Len(inventory.cells) + 1
      <4>1. cells[m] = next /\ next.nth # 0 /\ next.by = q
        BY <1>3, <2>3, <2>5, <3>2 DEF Cell
      <4>2. m # 1 => m - 1 \in 1 .. Len(inventory.cells) /\ m - 1 = Len(inventory.cells)
        BY <2>3, <3>2
      <4>3. QED
        BY <2>3, <2>5, <2>6, <3>2, <4>1, <4>2 DEF NextOf
    <3>3. QED
      BY <2>3, <2>7, <3>1, <3>2
  <2>8. FileOf(q, cells)'
    BY <2>4, <2>7 DEF FileOf
  <2>9. handle'[q].at = Len(cells)
    BY <1>1, <2>3, <2>5 DEF Handle
  <2>10. handle'[q].next = NextOf(q, cells)'
    <3>1. cells # << >>
      BY <2>3
    <3>2. handle'[q].next = Following(next)
      BY <1>1, <2>5 DEF Handle
    <3>3. cells[Len(cells)] = next
      BY <2>3
    <3>4. QED
      BY <2>4, <3>1, <3>2, <3>3 DEF NextOf
  <2>11. QED
    BY <2>8, <2>9, <2>10
<1>13. ReadersHaveRecords'
  <2>1. ASSUME NEW q \in Procs
        PROVE  ReaderOk(q)'
    <3>1. CASE q # p
      <4>1. \A r \in Procs : authors = {r} =>
              /\ Len(inventory.cells) <= Len(inventory'.cells) /\ Len(inventory'.cells) \in Nat
              /\ \A m \in 1 .. Len(inventory.cells) : inventory'.cells[m] = inventory.cells[m]
        BY <1>11
      <4>2. /\ authors' = authors /\ source'[q] = source[q] /\ stage'[q] = stage[q]
            /\ handle'[q] = handle[q] /\ loaded'[q] = loaded[q]
        BY <1>1, <3>1
      <4>3. QED
        BY <1>2, <4>1, <4>2, OtherReads
    <3>2. CASE q = p
      <4>1. job(p)'.cmd = "ingest"
        BY <1>1, <1>2 DEF job
      <4>2. QED
        BY <3>2, <4>1 DEF ReaderOk
    <3>3. QED
      BY <3>1, <3>2
  <2>2. QED
    BY <2>1, ReadersOk
<1>14. QED
  BY <1>7, <1>8, <1>9, <1>12, <1>13

LEMMA OpenForReadingKeeps ==
  ASSUME NetcInv, NEW p \in Procs, OpenForReading(p)
  PROVE  NetcInv'
<1> USE DEF NetcInv
<1>1. /\ stage[p] = "read" /\ stage'[p] = IF inventory.there THEN "scan" ELSE "failed"
      /\ \A q \in Procs \ {p} : stage'[q] = stage[q] /\ handle'[q] = handle[q] /\ source'[q] = source[q]
      /\ stage' \in [Procs -> Stages] /\ DOMAIN handle' = Procs /\ DOMAIN source' = Procs
      /\ handle'[p] = Handle(0, Cell(p, 1, 1), << >>) /\ source'[p] = authors
      /\ UNCHANGED <<session, todo, loaded, inventory, authors>>
  BY DEF OpenForReading, Become, NetcTypeOK, Stages
<1>2. IngestsKept
  BY <1>1 DEF IngestsKept, HasIngested, job
<1>3. handle'[p].line = << >> /\ handle'[p].at = 0 /\ IsList(<< >>) /\ DOMAIN << >> = {}
  BY <1>1 DEF Handle, IsList
<1>4. NetcTypeOK'
  BY <1>1, <1>3 DEF NetcTypeOK
<1>5. CellsOfIngests'
  <2>1. ASSUME NEW cell, IsCell(cell) PROVE IsCell(cell)'
    BY <1>2, <2>1, CellKept
  <2>2. QED
    BY <1>1, <1>3, <2>1 DEF CellsOfIngests
<1>6. WritersKnown'
  <2>1. \A q \in authors : q \in Procs /\ HasIngested(q)'
    BY <1>2 DEF IngestsKept, WritersKnown, NetcTypeOK
  <2>2. stage'[p] = "scan" => source'[p] # {}
    BY <1>1 DEF WritersKnown
  <2>3. \A q \in Procs : job(q)' = job(q)
    BY <1>1 DEF job
  <2>4. \A q \in Procs : HasIngested(q) => HasIngested(q)'
    BY <1>2 DEF IngestsKept
  <2>5. ASSUME NEW q \in Procs, stage'[q] = "scan"
        PROVE  source'[q] # {} /\ \A r \in source'[q] : r \in Procs /\ HasIngested(r)'
    <3>1. CASE q = p
      BY <1>1, <2>1, <2>2, <2>5, <3>1
    <3>2. CASE q # p
      BY <1>1, <2>4, <2>5, <3>2 DEF WritersKnown
    <3>3. QED
      BY <3>1, <3>2
  <2>6. QED
    BY <1>1, <2>1, <2>3, <2>5 DEF WritersKnown
<1>7. SoleAuthor'
  <2>1. ASSUME NEW q \in Procs, authors = {q}, NEW cells, cells = inventory.cells
        PROVE  /\ FileOf(q, cells)'
               /\ stage'[q] = "write" => handle'[q].at = Len(cells) /\ handle'[q].next = NextOf(q, cells)'
    <3>1. FileOf(q, cells) /\ (stage[q] = "write" => handle[q].at = Len(cells) /\ handle[q].next = NextOf(q, cells))
      BY <2>1 DEF SoleAuthor
    <3>2. FileOf(q, cells)' /\ NextOf(q, cells)' = NextOf(q, cells)
      BY <1>2, <2>1, <3>1, FileOfKept DEF CellsOfIngests, NetcTypeOK
    <3>3. stage'[q] = "write" => stage[q] = "write" /\ handle'[q] = handle[q]
      BY <1>1
    <3>4. QED
      BY <3>1, <3>2, <3>3
  <2>2. QED
    BY <1>1, <2>1 DEF SoleAuthor
<1>8. ReadersHaveRecords'
  <2>1. Len(inventory.cells) \in Nat
    BY DEF NetcTypeOK, IsList
  <2>2. ASSUME NEW q \in Procs, q # p PROVE ReaderOk(q)'
    BY <1>1, <1>2, <2>1, <2>2, OtherReads
  <2>3. ReaderOk(p)'
    <3>1. ReadsInventory(p)' = ReadsInventory(p) /\ job(p)' = job(p)
      BY <1>1 DEF ReadsInventory, job
    <3>2. SUFFICES ASSUME ReadsInventory(p), job(p).cmd # "ingest" PROVE ReaderOk(p)'
      BY <3>1 DEF ReaderOk
    <3>3. loaded'[p] = << >> /\ DOMAIN << >> = {}
      BY <1>1, <1>3, <3>2 DEF ReadersHaveRecords
    <3>4. ASSUME NEW q \in Procs, authors = {q}
          PROVE  ReaderOfOne(p, q)'
      <4>1. Len(loaded'[q]) \in Nat /\ Len(<< >>) = 0
        BY <1>1 DEF NetcTypeOK, IsList
      <4>2. FirstOf(loaded[p], loaded[q])'
        BY <3>3, <4>1 DEF FirstOf
      <4>3. QED
        BY <1>1, <1>3, <2>1, <3>3, <3>4, <4>2 DEF ReaderOfOne
    <3>5. QED
      BY <1>1, <3>3, <3>4 DEF ReaderOk
  <2>4. QED
    BY <2>2, <2>3, ReadersOk
<1>9. QED
  BY <1>4, <1>5, <1>6, <1>7, <1>8

\* A step of a reader, and what it must keep.
Reads(p) ==
  /\ stage[p] = "scan" /\ stage'[p] \in {"scan", "answer", "failed", "garbled"} /\ stage' \in [Procs -> Stages]
  /\ \A q \in Procs \ {p} : stage'[q] = stage[q] /\ loaded'[q] = loaded[q] /\ handle'[q] = handle[q]
  /\ DOMAIN loaded' = Procs /\ DOMAIN handle' = Procs
  /\ IsList(loaded'[p]) /\ IsList(handle'[p].line) /\ handle'[p].at \in Nat
  /\ UNCHANGED <<session, todo, inventory, authors, source>>
  /\ stage'[p] = "scan" => \A m \in DOMAIN handle'[p].line : IsCell(handle'[p].line[m])
  /\ \A n \in DOMAIN loaded'[p] :
       \/ n \in DOMAIN loaded[p] /\ loaded'[p][n] = loaded[p][n]
       \/ \E q \in Procs : HasIngested(q) /\ \E m \in DOMAIN loaded[q] : loaded'[p][n] = loaded[q][m]
  /\ \A q \in Procs : ReaderOfOne(p, q) =>
       /\ stage'[p] # "garbled"
       /\ stage'[p] = "scan" => ReaderOfOne(p, q)'
       /\ stage'[p] = "answer" => FirstOf(loaded'[p], loaded[q])

LEMMA ReadsKeeps ==
  ASSUME NetcInv, NEW p \in Procs, Reads(p)
  PROVE  NetcInv'
<1> USE DEF NetcInv
<1>1. IngestsKept
  BY DEF Reads, IngestsKept, HasIngested, job
<1>2. NetcTypeOK'
  BY DEF Reads, NetcTypeOK
<1>3. CellsOfIngests'
  <2>1. ASSUME NEW cell, IsCell(cell) PROVE IsCell(cell)'
    BY <1>1, <2>1, CellKept
  <2>2. ASSUME NEW q \in Procs, stage'[q] = "scan", NEW m \in DOMAIN handle'[q].line
        PROVE  IsCell(handle'[q].line[m])
    <3>1. CASE q = p
      BY <2>2, <3>1 DEF Reads
    <3>2. CASE q # p
      BY <2>2, <3>2 DEF Reads, CellsOfIngests
    <3>3. QED
      BY <3>1, <3>2
  <2>3. \A m \in DOMAIN inventory'.cells : IsCell(inventory'.cells[m])
    BY DEF Reads, CellsOfIngests
  <2>4. QED
    BY <2>1, <2>2, <2>3 DEF CellsOfIngests
<1>4. WritersKnown'
  <2>1. /\ inventory' = inventory /\ authors' = authors /\ source' = source
        /\ \A q \in Procs : /\ job(q)' = job(q)
                            /\ stage'[q] \in {"scan", "write", "open"} => stage[q] = stage'[q]
                            /\ stage'[q] = "write" => handle'[q] = handle[q]
    BY DEF Reads, job
  <2>2. \A q \in Procs : HasIngested(q) => HasIngested(q)'
    BY <1>1 DEF IngestsKept
  <2>3. authors \subseteq Procs
    BY DEF NetcTypeOK
  <2>4. \A q \in authors : HasIngested(q)'
    BY <2>2, <2>3 DEF WritersKnown
  <2>5. \A q \in Procs : stage'[q] = "scan" => source[q] # {} /\ \A r \in source[q] : r \in Procs /\ HasIngested(r)'
    BY <2>1, <2>2 DEF WritersKnown
  <2>6. QED
    BY <2>1, <2>4, <2>5 DEF WritersKnown
<1>5. SoleAuthor'
  <2>1. ASSUME NEW q \in Procs, authors = {q}, NEW cells, cells = inventory.cells
        PROVE  /\ FileOf(q, cells)'
               /\ stage'[q] = "write" => handle'[q].at = Len(cells) /\ handle'[q].next = NextOf(q, cells)'
    <3>1. FileOf(q, cells) /\ (stage[q] = "write" => handle[q].at = Len(cells) /\ handle[q].next = NextOf(q, cells))
      BY <2>1 DEF SoleAuthor
    <3>2. FileOf(q, cells)' /\ NextOf(q, cells)' = NextOf(q, cells)
      BY <1>1, <2>1, <3>1, FileOfKept DEF CellsOfIngests, NetcTypeOK
    <3>3. stage'[q] = "write" => stage[q] = "write" /\ handle'[q] = handle[q]
      BY DEF Reads
    <3>4. QED
      BY <3>1, <3>2, <3>3
  <2>2. inventory' = inventory /\ authors' = authors
    BY DEF Reads
  <2>3. QED
    BY <2>1, <2>2 DEF SoleAuthor
<1>6. ReadersHaveRecords'
  <2>1. inventory' = inventory /\ authors' = authors /\ source' = source /\ Len(inventory.cells) \in Nat
    BY DEF NetcTypeOK, IsList, Reads
  <2>2. ASSUME NEW q \in Procs, q # p PROVE ReaderOk(q)'
    BY <1>1, <2>1, <2>2, OtherReads DEF Reads
  <2>3. ReaderOk(p)'
    <3>1. ReadsInventory(p)' = ReadsInventory(p) /\ job(p)' = job(p)
      BY DEF Reads, ReadsInventory, job
    <3>2. SUFFICES ASSUME ReadsInventory(p), job(p).cmd # "ingest" PROVE ReaderOk(p)'
      BY <3>1 DEF ReaderOk
    <3>3. ReaderOk(p) /\ stage[p] = "scan"
      BY <3>2 DEF ReadersHaveRecords, ReaderOk, Reads
    <3>4. ASSUME NEW n \in DOMAIN loaded'[p]
          PROVE  \E q \in Procs : HasIngested(q)' /\ \E m \in DOMAIN loaded'[q] : loaded'[p][n] = loaded'[q][m]
      <4>1. \E q \in Procs : HasIngested(q) /\ \E m \in DOMAIN loaded[q] : loaded'[p][n] = loaded[q][m]
        BY <3>2, <3>3, <3>4 DEF Reads, ReaderOk
      <4>2. QED
        BY <1>1, <4>1 DEF IngestsKept
    <3>5. ASSUME NEW q \in Procs, source'[p] = {q}
          PROVE  /\ stage'[p] # "garbled"
                 /\ stage'[p] = "scan" => ReaderOfOne(p, q)'
                 /\ stage'[p] \in {"answer", "done"} => HasIngested(q)' /\ FirstOf(loaded[p], loaded[q])'
      <4>1. ReaderOfOne(p, q) /\ HasIngested(q)
        BY <2>1, <3>2, <3>3, <3>5 DEF ReaderOk, WritersKnown
      <4>2. HasIngested(q)' /\ loaded'[q] = loaded[q]
        BY <1>1, <4>1 DEF IngestsKept
      <4>3. QED
        BY <4>1, <4>2 DEF Reads
    <3>6. QED
      BY <3>1, <3>2, <3>3, <3>4, <3>5 DEF ReaderOk, Reads
  <2>4. QED
    BY <2>2, <2>3, ReadersOk
<1>7. QED
  BY <1>2, <1>3, <1>4, <1>5, <1>6

\* A line that is decoded makes one record more, of an ingest; or the reader stops, or goes on with
\* a device that nobody wrote.
LEMMA Decoded ==
  ASSUME NetcInv, NEW p \in Procs, NEW line, \A m \in DOMAIN line : IsCell(line[m]), IsList(line),
         NEW to \in Stages, Decode(p, line, to)
  PROVE  /\ stage' \in [Procs -> Stages] /\ DOMAIN loaded' = Procs /\ IsList(loaded'[p])
         /\ \A q \in Procs \ {p} : stage'[q] = stage[q] /\ loaded'[q] = loaded[q]
         /\ \/ /\ IsWhole(line) /\ stage'[p] = to
               /\ line[1].by \in Procs /\ HasIngested(line[1].by) /\ line[1].nth \in DOMAIN loaded[line[1].by]
               /\ loaded'[p] = Append(loaded[p], loaded[line[1].by][line[1].nth])
            \/ stage'[p] = "failed" /\ loaded'[p] = loaded[p]
            \/ stage'[p] = "garbled" /\ ~OfOne(line) /\ loaded'[p] = loaded[p]
<1> USE DEF NetcInv
<1>1. DOMAIN loaded = Procs /\ IsList(loaded[p]) /\ stage \in [Procs -> Stages] /\ {"failed", "garbled"} \subseteq Stages
  BY DEF NetcTypeOK, Stages
<1>2. CASE /\ IsWhole(line) /\ Become(p, to)
           /\ loaded' = [loaded EXCEPT ![p] = Append(@, loaded[line[1].by][line[1].nth])]
  <2>1. 1 \in DOMAIN line
    BY <1>2 DEF IsWhole, IsList
  <2>2. line[1].by \in Procs /\ HasIngested(line[1].by) /\ line[1].nth \in DOMAIN loaded[line[1].by]
    BY <1>2, <2>1 DEF IsWhole, IsCell
  <2>3. loaded'[p] = Append(loaded[p], loaded[line[1].by][line[1].nth]) /\ DOMAIN loaded' = Procs
    BY <1>1, <1>2
  <2>4. IsList(loaded'[p])
    BY <1>1, <2>3, Appended
  <2>5. QED
    BY <1>1, <1>2, <2>2, <2>3, <2>4 DEF Become
<1>3. CASE ~IsWhole(line) /\ Become(p, "failed") /\ loaded' = loaded
  BY <1>1, <1>3 DEF Become
<1>4. CASE IsMixed(line) /\ Become(p, "garbled") /\ loaded' = loaded
  BY <1>1, <1>4 DEF Become, IsMixed
<1>5. QED
  BY <1>2, <1>3, <1>4 DEF Decode

\* What is loaded of a line is a record of an ingest, after those there were.
LEMMA DecodedFrom ==
  ASSUME NEW p \in Procs, IsList(loaded[p]), NEW line,
         \/ /\ line[1].by \in Procs /\ HasIngested(line[1].by) /\ line[1].nth \in DOMAIN loaded[line[1].by]
            /\ loaded'[p] = Append(loaded[p], loaded[line[1].by][line[1].nth])
         \/ loaded'[p] = loaded[p]
  PROVE  \A n \in DOMAIN loaded'[p] :
           \/ n \in DOMAIN loaded[p] /\ loaded'[p][n] = loaded[p][n]
           \/ \E q \in Procs : HasIngested(q) /\ \E m \in DOMAIN loaded[q] : loaded'[p][n] = loaded[q][m]
<1>1. CASE loaded'[p] = loaded[p]
  BY <1>1
<1>2. CASE /\ line[1].by \in Procs /\ HasIngested(line[1].by) /\ line[1].nth \in DOMAIN loaded[line[1].by]
           /\ loaded'[p] = Append(loaded[p], loaded[line[1].by][line[1].nth])
  <2>1. SUFFICES ASSUME NEW record, record = loaded[line[1].by][line[1].nth], NEW n \in DOMAIN loaded'[p]
                 PROVE  (n \in DOMAIN loaded[p] /\ loaded'[p][n] = loaded[p][n]) \/ loaded'[p][n] = record
    BY <1>2
  <2>2. /\ DOMAIN loaded[p] = 1 .. Len(loaded[p]) /\ DOMAIN loaded'[p] = 1 .. Len(loaded[p]) + 1 /\ Len(loaded[p]) \in Nat
        /\ \A m \in 1 .. Len(loaded[p]) : loaded'[p][m] = loaded[p][m]
        /\ loaded'[p][Len(loaded[p]) + 1] = record
    BY <1>2, <2>1, Appended
  <2>3. n \in 1 .. Len(loaded[p]) \/ n = Len(loaded[p]) + 1
    BY <2>1, <2>2
  <2>4. QED
    BY <2>2, <2>3
<1>3. QED
  BY <1>1, <1>2

\* The line of a reader of one author's file is of one record, the next of it.
LEMMA LineOfOne ==
  ASSUME NetcInv, NEW p \in Procs, stage[p] = "scan", NEW q \in Procs, ReaderOfOne(p, q),
         NEW line, line = handle[p].line
  PROVE  /\ OfOne(line) /\ Len(loaded[p]) \in Nat
         /\ line # << >> => line[1].by = q /\ line[1].nth = Len(loaded[p]) + 1
<1> USE DEF NetcInv
<1>1. /\ IsList(line) /\ Len(line) \in Nat /\ DOMAIN line = 1 .. Len(line) /\ Len(loaded[p]) \in Nat
      /\ (line # << >> => Len(line) # 0)
  BY DEF NetcTypeOK, IsList
<1>2. CASE line = << >>
  BY <1>1, <1>2 DEF OfOne
<1>3. CASE line # << >>
  <2>1. handle[p].at # 0 /\ handle[p].at \in DOMAIN inventory.cells
    BY <1>3 DEF ReaderOfOne, NetcTypeOK, IsList
  <2>2. SUFFICES ASSUME NEW cell, cell = inventory.cells[handle[p].at]
                 PROVE  OfOne(line) /\ line[1].by = q /\ line[1].nth = Len(loaded[p]) + 1
    BY <1>1
  <2>3. cell.by = q /\ cell.nth # 0 /\ IsCell(cell)
    BY <2>1, <2>2 DEF SoleAuthor, ReaderOfOne, FileOf, CellsOfIngests
  <2>4. HasSeen(p, cell) /\ cell.part # Parts(cell)
    BY <1>3, <2>1, <2>2 DEF ReaderOfOne, HasSeen
  <2>5. /\ Len(line) = cell.part /\ cell.part > 0
        /\ \A m \in 1 .. cell.part : line[m] = Cell(cell.by, cell.nth, m)
        /\ Len(loaded[p]) = cell.nth - 1
    BY <2>4 DEF HasSeen
  <2>6. cell.nth \in Nat
    BY <2>3 DEF IsCell, NetcTypeOK, IsList
  <2>7. 1 \in 1 .. cell.part /\ line[1].by = cell.by /\ line[1].nth = cell.nth
    <3>1. 1 \in 1 .. cell.part
      BY <1>1, <2>5
    <3>2. line[1] = Cell(cell.by, cell.nth, 1)
      BY <2>5, <3>1
    <3>3. QED
      BY <3>1, <3>2 DEF Cell
  <2>8. OfOne(line)
    BY <1>1, <2>5, <2>7 DEF OfOne
  <2>9. QED
    BY <1>1, <2>3, <2>5, <2>6, <2>7, <2>8
<1>4. QED
  BY <1>2, <1>3

\* One record more of those of another list, in its place.
LEMMA FirstOfMore ==
  ASSUME NEW s, IsList(s), NEW t, IsList(t), FirstOf(s, t), Len(s) + 1 \in DOMAIN t
  PROVE  FirstOf(Append(s, t[Len(s) + 1]), t) /\ Len(Append(s, t[Len(s) + 1])) = Len(s) + 1
<1> DEFINE e == t[Len(s) + 1]
<1>1. Len(s) \in Nat /\ DOMAIN t = 1 .. Len(t) /\ Len(t) \in Nat /\ Len(Append(s, e)) = Len(s) + 1
  BY DEF IsList
<1>2. (\A n \in 1 .. Len(s) : Append(s, e)[n] = s[n]) /\ Append(s, e)[Len(s) + 1] = e
  BY Appended
<1>3. ASSUME NEW n \in 1 .. Len(s) + 1 PROVE Append(s, e)[n] = t[n]
  <2>1. CASE n \in 1 .. Len(s)
    BY <1>2, <2>1 DEF FirstOf
  <2>2. CASE n = Len(s) + 1
    BY <1>2, <2>2
  <2>3. QED
    BY <1>1, <1>3, <2>1, <2>2
<1>4. QED
  BY <1>1, <1>3 DEF FirstOf

\* What a record decoded adds is what the author wrote next.
LEMMA NextDecoded ==
  ASSUME NetcInv, NEW p \in Procs, stage[p] = "scan", NEW q \in Procs, ReaderOfOne(p, q),
         NEW line, line = handle[p].line, IsWhole(line), line[1].nth \in DOMAIN loaded[line[1].by],
         loaded'[p] = Append(loaded[p], loaded[line[1].by][line[1].nth])
  PROVE  /\ FirstOf(loaded'[p], loaded[q]) /\ Len(loaded'[p]) = Len(loaded[p]) + 1
         /\ line # << >>
<1>1. line # << >> /\ line[1].by = q /\ line[1].nth = Len(loaded[p]) + 1
  BY LineOfOne DEF IsWhole
<1>2. IsList(loaded[p]) /\ IsList(loaded[q]) /\ FirstOf(loaded[p], loaded[q])
  BY DEF NetcInv, NetcTypeOK, ReaderOfOne
<1>3. QED
  BY <1>1, <1>2, FirstOfMore

LEMMA ReadEndKeeps ==
  ASSUME NetcInv, NEW p \in Procs, ReadEnd(p)
  PROVE  NetcInv'
<1> USE DEF NetcInv
<1> DEFINE line == handle[p].line
<1>1. /\ stage[p] = "scan" /\ UNCHANGED <<session, todo, inventory, handle, authors, source>>
      /\ IF line = << >> THEN Become(p, "answer") /\ loaded' = loaded ELSE Decode(p, line, "answer")
  BY DEF ReadEnd
<1>2. /\ IsList(line) /\ IsList(loaded[p]) /\ (\A m \in DOMAIN line : IsCell(line[m]))
      /\ DOMAIN handle = Procs /\ handle[p].at \in Nat /\ "answer" \in Stages /\ DOMAIN loaded = Procs
      /\ stage \in [Procs -> Stages]
  BY <1>1 DEF NetcTypeOK, CellsOfIngests, Stages
<1>3. CASE line = << >>
  <2>1. /\ stage' \in [Procs -> Stages] /\ stage'[p] = "answer" /\ loaded' = loaded
        /\ \A q \in Procs \ {p} : stage'[q] = stage[q]
    BY <1>1, <1>2, <1>3 DEF Become
  <2>2. \A q \in Procs : ReaderOfOne(p, q) => FirstOf(loaded'[p], loaded[q])
    BY <2>1 DEF ReaderOfOne
  <2>3. Reads(p)
    BY <1>1, <1>2, <2>1, <2>2 DEF Reads
  <2>4. QED
    BY <2>3, ReadsKeeps
<1>4. CASE line # << >>
  <2>1. SUFFICES ASSUME NEW l, l = handle[p].line PROVE Reads(p)
    BY ReadsKeeps
  <2>2. Decode(p, l, "answer") /\ IsList(l) /\ \A m \in DOMAIN l : IsCell(l[m])
    BY <1>1, <1>2, <1>4, <2>1
  <2> HIDE DEF line
  <2>3. /\ stage' \in [Procs -> Stages] /\ DOMAIN loaded' = Procs /\ IsList(loaded'[p])
        /\ \A q \in Procs \ {p} : stage'[q] = stage[q] /\ loaded'[q] = loaded[q]
        /\ \/ /\ IsWhole(l) /\ stage'[p] = "answer"
              /\ l[1].by \in Procs /\ HasIngested(l[1].by) /\ l[1].nth \in DOMAIN loaded[l[1].by]
              /\ loaded'[p] = Append(loaded[p], loaded[l[1].by][l[1].nth])
           \/ stage'[p] = "failed" /\ loaded'[p] = loaded[p]
           \/ stage'[p] = "garbled" /\ ~OfOne(l) /\ loaded'[p] = loaded[p]
    BY <1>2, <2>2, Decoded
  <2>4. \A n \in DOMAIN loaded'[p] :
          \/ n \in DOMAIN loaded[p] /\ loaded'[p][n] = loaded[p][n]
          \/ \E q \in Procs : HasIngested(q) /\ \E m \in DOMAIN loaded[q] : loaded'[p][n] = loaded[q][m]
    BY <1>2, <2>3, DecodedFrom
  <2>5. ASSUME NEW q \in Procs, ReaderOfOne(p, q)
        PROVE  stage'[p] # "garbled" /\ (stage'[p] = "answer" => FirstOf(loaded'[p], loaded[q]))
    <3>1. OfOne(l)
      BY <1>1, <2>1, <2>5, LineOfOne
    <3>2. CASE stage'[p] = "answer"
      BY <1>1, <2>1, <2>3, <2>5, <3>2, NextDecoded
    <3>3. QED
      BY <2>3, <3>1, <3>2
  <2>6. stage'[p] \in {"answer", "failed", "garbled"} /\ IsList(handle'[p].line) /\ handle'[p].at \in Nat /\ DOMAIN handle' = Procs
    BY <1>1, <1>2, <2>1, <2>2, <2>3
  <2>7. QED
    BY <1>1, <2>3, <2>4, <2>5, <2>6 DEF Reads
<1>5. QED
  BY <1>3, <1>4

LEMMA ReadCellKeeps ==
  ASSUME NetcInv, NEW p \in Procs, ReadCell(p)
  PROVE  NetcInv'
<1> USE DEF NetcInv
<1>1. SUFFICES ASSUME NEW line, line = handle[p].line, NEW cell, cell = inventory.cells[handle[p].at + 1], NEW at, at = handle[p].at
               PROVE  Reads(p)
  BY ReadsKeeps
<1>2. /\ stage[p] = "scan" /\ at < Len(inventory.cells)
      /\ UNCHANGED <<session, todo, inventory, authors, source>>
      /\ IF IsNewline(cell) THEN Decode(p, line, "scan") ELSE stage' = stage /\ loaded' = loaded
      /\ handle' = [handle EXCEPT ![p] = Handle(at + 1, handle[p].next, IF IsNewline(cell) THEN << >> ELSE Append(line, cell))]
  BY <1>1 DEF ReadCell
<1>3. /\ IsList(line) /\ IsList(loaded[p]) /\ (\A m \in DOMAIN line : IsCell(line[m]))
      /\ DOMAIN handle = Procs /\ at \in Nat /\ "scan" \in Stages /\ DOMAIN loaded = Procs
      /\ stage \in [Procs -> Stages] /\ Len(inventory.cells) \in Nat /\ DOMAIN inventory.cells = 1 .. Len(inventory.cells)
  BY <1>1, <1>2 DEF NetcTypeOK, CellsOfIngests, Stages, IsList
<1>4. at + 1 \in DOMAIN inventory.cells /\ IsCell(cell)
  BY <1>1, <1>2, <1>3 DEF CellsOfIngests
<1>5. /\ DOMAIN handle' = Procs /\ (\A q \in Procs \ {p} : handle'[q] = handle[q])
      /\ handle'[p].at = at + 1
      /\ handle'[p].line = IF IsNewline(cell) THEN << >> ELSE Append(line, cell)
  BY <1>2, <1>3 DEF Handle
<1>6. ASSUME NEW q \in Procs, ReaderOfOne(p, q)
      PROVE  /\ FileOf(q, inventory.cells) /\ cell.nth # 0 /\ cell.by = q /\ HasIngested(q)
             /\ cell.nth \in Nat /\ cell.part \in Nat
             /\ at = 0 => cell = Cell(q, 1, 1) /\ line = << >> /\ loaded[p] = << >>
             /\ at # 0 => cell = Following(inventory.cells[at]) /\ HasSeen(p, inventory.cells[at]) /\ at \in DOMAIN inventory.cells
  <2>1. FileOf(q, inventory.cells)
    BY <1>6 DEF SoleAuthor, ReaderOfOne
  <2>2. /\ cell.nth # 0 /\ cell.by = q
        /\ at = 0 => cell = Cell(q, 1, 1)
        /\ at # 0 => cell = Following(inventory.cells[at])
    <3>1. \A m \in DOMAIN inventory.cells :
            /\ inventory.cells[m].nth # 0 /\ inventory.cells[m].by = q
            /\ inventory.cells[m] = IF m = 1 THEN Cell(q, 1, 1) ELSE Following(inventory.cells[m - 1])
      BY <2>1 DEF FileOf
    <3>2. SUFFICES ASSUME NEW i, i = at + 1
                   PROVE  /\ cell.nth # 0 /\ cell.by = q
                          /\ at = 0 => cell = Cell(q, 1, 1)
                          /\ at # 0 => cell = Following(inventory.cells[at])
      OBVIOUS
    <3>3. i \in DOMAIN inventory.cells /\ cell = inventory.cells[i]
      BY <1>1, <1>4, <3>2
    <3>4. i - 1 = at /\ (i = 1 <=> at = 0)
      BY <1>3, <3>2
    <3>5. /\ cell.nth # 0 /\ cell.by = q
          /\ cell = IF i = 1 THEN Cell(q, 1, 1) ELSE Following(inventory.cells[i - 1])
      BY <3>1, <3>3
    <3>6. QED
      BY <3>4, <3>5
  <2>3. at # 0 => at \in DOMAIN inventory.cells
    BY <1>2, <1>3
  <2>4. cell.nth \in Nat /\ cell.part \in Nat /\ HasIngested(q)
    BY <1>4, <2>2 DEF IsCell, NetcTypeOK, IsList
  <2>5. QED
    BY <1>1, <1>6, <2>1, <2>2, <2>3, <2>4 DEF ReaderOfOne
<1>7. CASE IsNewline(cell)
  <2>1. /\ stage' \in [Procs -> Stages] /\ DOMAIN loaded' = Procs /\ IsList(loaded'[p])
        /\ \A q \in Procs \ {p} : stage'[q] = stage[q] /\ loaded'[q] = loaded[q]
        /\ \/ /\ IsWhole(line) /\ stage'[p] = "scan"
              /\ line[1].by \in Procs /\ HasIngested(line[1].by) /\ line[1].nth \in DOMAIN loaded[line[1].by]
              /\ loaded'[p] = Append(loaded[p], loaded[line[1].by][line[1].nth])
           \/ stage'[p] = "failed" /\ loaded'[p] = loaded[p]
           \/ stage'[p] = "garbled" /\ ~OfOne(line) /\ loaded'[p] = loaded[p]
    BY <1>2, <1>3, <1>7, Decoded
  <2>2. \A n \in DOMAIN loaded'[p] :
          \/ n \in DOMAIN loaded[p] /\ loaded'[p][n] = loaded[p][n]
          \/ \E q \in Procs : HasIngested(q) /\ \E m \in DOMAIN loaded[q] : loaded'[p][n] = loaded[q][m]
    BY <1>3, <2>1, DecodedFrom
  <2>3. handle'[p].line = << >> /\ IsList(<< >>) /\ DOMAIN << >> = {} /\ handle'[p].at = at + 1 /\ at + 1 \in Nat
    BY <1>3, <1>5, <1>7, EmptyIsList
  <2>4. ASSUME NEW q \in Procs, ReaderOfOne(p, q)
        PROVE  stage'[p] # "garbled" /\ (stage'[p] = "scan" => ReaderOfOne(p, q)')
    <3>1. OfOne(line)
      BY <1>1, <1>2, <2>4, LineOfOne
    <3>2. ASSUME stage'[p] = "scan" PROVE ReaderOfOne(p, q)'
      <4>1. FirstOf(loaded'[p], loaded[q]) /\ Len(loaded'[p]) = Len(loaded[p]) + 1 /\ line # << >>
        BY <1>1, <1>2, <2>1, <2>4, <3>2, NextDecoded
      <4>2. at # 0 /\ cell = Following(inventory.cells[at]) /\ HasSeen(p, inventory.cells[at])
        BY <1>6, <2>4, <4>1
      <4>3. SUFFICES ASSUME NEW last, last = inventory.cells[at] PROVE ReaderOfOne(p, q)'
        OBVIOUS
      <4>4. last.part # Parts(last) /\ Len(loaded[p]) = last.nth - 1 /\ cell = Cell(last.by, last.nth, last.part + 1)
        BY <1>1, <4>1, <4>2, <4>3 DEF HasSeen, Following
      <4>5. cell.nth = last.nth
        BY <4>4 DEF Cell
      <4>6. Len(loaded'[p]) = cell.nth
        <5>1. cell.nth \in Nat /\ Len(loaded[p]) = cell.nth - 1
          BY <1>6, <2>4, <4>4, <4>5
        <5>2. QED
          BY <4>1, <5>1
      <4>7. Parts(cell)' = Parts(cell) /\ loaded'[q] = loaded[q] /\ q # p
        <5>1. q # p
          BY <1>2, <1>6, <2>4 DEF HasIngested
        <5>2. QED
          BY <1>6, <2>1, <2>4, <5>1 DEF Parts
      <4>8. HasSeen(p, cell)'
        BY <1>7, <2>3, <4>6, <4>7 DEF HasSeen, IsNewline
      <4>9. inventory'.cells[handle'[p].at] = cell /\ handle'[p].at # 0 /\ handle'[p].at <= Len(inventory'.cells)
        BY <1>1, <1>2, <1>3, <2>3
      <4>10. QED
        BY <1>2, <2>4, <4>1, <4>7, <4>8, <4>9 DEF ReaderOfOne
    <3>3. QED
      BY <2>1, <3>1, <3>2
  <2>5. stage'[p] \in {"scan", "failed", "garbled"}
    BY <2>1
  <2>6. stage'[p] = "scan" => \A m \in DOMAIN handle'[p].line : IsCell(handle'[p].line[m])
    BY <2>3
  <2>7. QED
    BY <1>2, <1>5, <2>1, <2>2, <2>3, <2>4, <2>5, <2>6 DEF Reads
<1>8. CASE ~IsNewline(cell)
  <2>1. stage' = stage /\ loaded' = loaded /\ handle'[p].line = Append(line, cell) /\ handle'[p].at = at + 1 /\ at + 1 \in Nat
    BY <1>2, <1>3, <1>5, <1>8
  <2>2. /\ IsList(Append(line, cell)) /\ Len(line) \in Nat /\ DOMAIN line = 1 .. Len(line)
        /\ DOMAIN Append(line, cell) = 1 .. Len(line) + 1 /\ Len(Append(line, cell)) = Len(line) + 1
        /\ \A m \in 1 .. Len(line) : Append(line, cell)[m] = line[m]
        /\ Append(line, cell)[Len(line) + 1] = cell
    <3>1. Len(Append(line, cell)) = Len(line) + 1
      BY <1>3 DEF IsList
    <3>2. QED
      BY <1>3, <3>1, Appended
  <2>3. \A m \in DOMAIN handle'[p].line : IsCell(handle'[p].line[m])
    <3>1. TAKE m \in DOMAIN handle'[p].line
    <3>2. m \in 1 .. Len(line) \/ m = Len(line) + 1
      BY <2>1, <2>2
    <3>3. QED
      BY <1>3, <1>4, <2>1, <2>2, <3>2
  <2>4. ASSUME NEW q \in Procs, ReaderOfOne(p, q)
        PROVE  ReaderOfOne(p, q)'
    <3>1. cell.part # Parts(cell) /\ Parts(cell)' = Parts(cell) /\ cell.nth \in Nat /\ cell.part \in Nat
      BY <1>6, <1>8, <2>1, <2>4 DEF IsNewline, Parts
    <3>2. /\ Len(line) + 1 = cell.part /\ Len(loaded[p]) = cell.nth - 1
          /\ \A m \in 1 .. Len(line) : line[m] = Cell(cell.by, cell.nth, m)
      <4>1. CASE at = 0
        BY <1>6, <2>4, <4>1 DEF Cell
      <4>2. CASE at # 0
        <5>1. SUFFICES ASSUME NEW last, last = inventory.cells[at]
                       PROVE  /\ Len(line) + 1 = cell.part /\ Len(loaded[p]) = cell.nth - 1
                              /\ \A m \in 1 .. Len(line) : line[m] = Cell(cell.by, cell.nth, m)
          OBVIOUS
        <5>2. /\ cell = Following(last) /\ HasSeen(p, last) /\ IsCell(last) /\ last.nth # 0
              /\ last.nth \in Nat /\ last.part \in Nat
          <6>1. IsCell(last) /\ last.nth # 0
            BY <1>6, <2>4, <4>2, <5>1 DEF CellsOfIngests, FileOf
          <6>2. last.nth \in Nat /\ last.part \in Nat
            BY <6>1 DEF IsCell, NetcTypeOK, IsList
          <6>3. QED
            BY <1>6, <2>4, <4>2, <5>1, <6>1, <6>2
        <5>3. CASE last.part = Parts(last)
          BY <1>1, <5>2, <5>3 DEF HasSeen, Following, Cell
        <5>4. CASE last.part # Parts(last)
          BY <1>1, <5>2, <5>4 DEF HasSeen, Following, Cell
        <5>5. QED
          BY <5>3, <5>4
      <4>3. QED
        BY <4>1, <4>2
    <3>3. cell = Cell(cell.by, cell.nth, Len(line) + 1)
      BY <1>4, <3>2 DEF IsCell
    <3>4. HasSeen(p, cell)'
      <4>1. \A m \in 1 .. cell.part : Append(line, cell)[m] = Cell(cell.by, cell.nth, m)
        <5>1. TAKE m \in 1 .. cell.part
        <5>2. m \in 1 .. Len(line) \/ m = Len(line) + 1
          BY <2>2, <3>1, <3>2
        <5>3. QED
          BY <2>2, <3>2, <3>3, <5>2
      <4>2. cell.part > 0 /\ Len(Append(line, cell)) = cell.part
        BY <2>2, <3>1, <3>2
      <4>3. QED
        BY <2>1, <3>1, <3>2, <4>1, <4>2 DEF HasSeen
    <3>5. inventory'.cells[handle'[p].at] = cell /\ handle'[p].at # 0 /\ handle'[p].at <= Len(inventory'.cells)
      <4>1. inventory' = inventory /\ handle'[p].at = at + 1
        BY <1>2, <2>1
      <4>2. inventory.cells[at + 1] = cell
        BY <1>1
      <4>3. at + 1 # 0 /\ at + 1 <= Len(inventory.cells)
        BY <1>2, <1>3
      <4>4. QED
        BY <4>1, <4>2, <4>3
    <3>6. FirstOf(loaded[p], loaded[q])'
      BY <2>1, <2>4 DEF ReaderOfOne, FirstOf
    <3>7. QED
      BY <1>2, <2>4, <3>4, <3>5, <3>6 DEF ReaderOfOne
  <2>5. QED
    BY <1>2, <1>3, <1>5, <2>1, <2>2, <2>3, <2>4 DEF Reads
<1>9. QED
  BY <1>7, <1>8

-----------------------------------------------------------------------------
LEMMA StutterKeeps ==
  ASSUME NetcInv, UNCHANGED netcVars
  PROVE  NetcInv'
<1>1. UNCHANGED <<session, stage, todo, loaded, inventory, handle, authors, source>>
  BY DEF netcVars
<1>2. NetcTypeOK'
  BY <1>1 DEF NetcInv, NetcTypeOK
<1>3. IngestsKept
  BY <1>1 DEF IngestsKept, HasIngested, job
<1>4. CellsOfIngests'
  <2>1. ASSUME NEW cell, IsCell(cell) PROVE IsCell(cell)'
    BY <1>3, <2>1, CellKept
  <2>2. QED
    BY <1>1, <2>1 DEF NetcInv, CellsOfIngests
<1>5. WritersKnown'
  BY <1>1 DEF NetcInv, WritersKnown, HasIngested, job
<1>6. SoleAuthor'
  <2>1. ASSUME NEW q \in Procs, authors = {q}, NEW cells, cells = inventory.cells
        PROVE  /\ FileOf(q, cells)'
               /\ stage[q] = "write" => handle[q].at = Len(cells) /\ handle[q].next = NextOf(q, cells)'
    <3>1. FileOf(q, cells) /\ (stage[q] = "write" => handle[q].at = Len(cells) /\ handle[q].next = NextOf(q, cells))
      BY <2>1 DEF NetcInv, SoleAuthor
    <3>2. FileOf(q, cells)' /\ NextOf(q, cells)' = NextOf(q, cells)
      BY <1>3, <2>1, <3>1, FileOfKept DEF NetcInv, CellsOfIngests, NetcTypeOK
    <3>3. QED
      BY <3>1, <3>2
  <2>2. QED
    BY <1>1, <2>1 DEF SoleAuthor
<1>7. ReadersHaveRecords'
  <2>1. Len(inventory.cells) \in Nat
    BY DEF NetcInv, NetcTypeOK, IsList
  <2>2. ASSUME NEW q \in Procs PROVE ReaderOk(q)'
    BY <1>1, <1>3, <2>1, <2>2, OtherReads
  <2>3. QED
    BY <2>2, ReadersOk
<1>8. QED
  BY <1>2, <1>4, <1>5, <1>6, <1>7 DEF NetcInv

LEMMA StepInv == NetcInv /\ [OfflineNext]_OfflineVars => NetcInv'
<1>1. ASSUME NetcInv, NetcNext PROVE NetcInv'
  <2>1. PICK p \in Procs :
          \/ Begin(p) \/ ParseNext(p) \/ AllParsed(p) \/ WriteFails(p) \/ Written(p) \/ Crash(p) \/ Answer(p)
          \/ OpenInventory(p) \/ WriteCell(p) \/ OpenForReading(p) \/ ReadCell(p) \/ ReadEnd(p)
    BY <1>1 DEF NetcNext
  <2>2. QED
    BY <1>1, <2>1, CalmSteps, CalmKeeps, OpenInventoryKeeps, WriteCellKeeps, OpenForReadingKeeps, ReadCellKeeps, ReadEndKeeps
<1>2. QED
  BY <1>1, StutterKeeps DEF OfflineNext, OfflineVars

LEMMA InvImpliesTold == NetcInv => StoreTellsWrites
<1>1. SUFFICES ASSUME NetcInv, NEW p \in Procs, ReadsInventory(p), job(p).cmd # "ingest"
               PROVE  /\ stage[p] \in {"answer", "done"} =>
                           \A n \in DOMAIN loaded[p] : \E q \in Procs :
                             /\ job(q).cmd = "ingest"
                             /\ \E m \in DOMAIN loaded[q] : loaded[p][n] = loaded[q][m]
                      /\ \A q \in Procs : source[p] = {q} =>
                           /\ stage[p] # "garbled"
                           /\ stage[p] \in {"answer", "done"} => job(q).cmd = "ingest" /\ IsPrefix(loaded[p], loaded[q])
  BY DEF StoreTellsWrites
<1>2. \A q \in Procs : IsList(loaded[q])
  BY <1>1 DEF NetcInv, NetcTypeOK
<1>3. QED
  BY <1>1, <1>2, FirstIsPrefix DEF NetcInv, ReadersHaveRecords, HasIngested

\* A command that reads the inventory has devices that an ingest parsed, and the first of one
\* ingest, in order, if it alone wrote what is read; whenever they run, and whoever dies
\* (jsonl.go:17, :36).
THEOREM StoreAlwaysTells == OfflineSpec => []StoreTellsWrites
<1>1. OfflineInit => NetcInv
  BY InitInv
<1>2. NetcInv /\ [OfflineNext]_OfflineVars => NetcInv'
  BY StepInv
<1>3. NetcInv => StoreTellsWrites
  BY InvImpliesTold
<1>4. QED
  BY <1>1, <1>2, <1>3, PTL DEF OfflineSpec

-----------------------------------------------------------------------------
(***************************************************************************)
(* The lists topology.Build is made from.                                  *)
(***************************************************************************)
\* A set of numbers in its order is a list of them all.
LEMMA InOrderLists ==
  ASSUME NEW S, S \subseteq Nat, IsFiniteSet(S)
  PROVE  /\ InOrder(S) \in Seq(S) /\ ToSet(InOrder(S)) = S
         /\ S # {} => InOrder(S) # << >> /\ InOrder(S)[1] \in S
         /\ \A m, n \in DOMAIN InOrder(S) : m < n => InOrder(S)[m] < InOrder(S)[n]
<1> DEFINE Before(i) == {j \in S : j < i}
           rank == [i \in S |-> Cardinality(Before(i)) + 1]
           c == Cardinality(S)
<1>1. c \in Nat /\ IsFiniteSet(1..c) /\ Cardinality(1..c) = c
  <2>1. c \in Nat
    BY FS_CardinalityType
  <2>2. 1 \in Int /\ c \in Int
    BY <2>1
  <2> HIDE DEF c
  <2>3. IsFiniteSet(1..c) /\ Cardinality(1..c) = IF 1 > c THEN 0 ELSE c - 1 + 1
    BY <2>2, FS_Interval
  <2>4. QED
    BY <2>1, <2>3
<1>2. ASSUME NEW i \in S
      PROVE  /\ IsFiniteSet(Before(i)) /\ i \notin Before(i) /\ Cardinality(Before(i)) \in Nat
             /\ Cardinality(Before(i) \cup {i}) = Cardinality(Before(i)) + 1
  <2>1. Before(i) \in SUBSET S /\ i \notin Before(i)
    OBVIOUS
  <2> HIDE DEF Before
  <2>2. IsFiniteSet(Before(i))
    BY <2>1, FS_Subset
  <2>3. QED
    BY <2>1, <2>2, FS_CardinalityType, FS_AddElement
<1>3. ASSUME NEW i \in S, NEW j \in S, i < j
      PROVE  rank[i] < rank[j]
  <2>1. Before(i) \cup {i} \in SUBSET Before(j)
    <3>1. \A k \in S : k \in Int
      OBVIOUS
    <3>2. \A k \in S : k < i => k < j
      BY <1>3, <3>1
    <3>3. QED
      BY <1>3, <3>2
  <2>2. /\ IsFiniteSet(Before(j)) /\ Cardinality(Before(j)) \in Nat /\ Cardinality(Before(i)) \in Nat
        /\ Cardinality(Before(i) \cup {i}) = Cardinality(Before(i)) + 1
    BY <1>2
  <2> HIDE DEF Before
  <2>3. Cardinality(Before(i) \cup {i}) <= Cardinality(Before(j))
    BY <2>1, <2>2, FS_Subset
  <2>4. QED
    BY <2>2, <2>3
<1>4. ASSUME NEW i \in S
      PROVE  rank[i] \in 1..c
  <2>1. Before(i) \cup {i} \in SUBSET S
    OBVIOUS
  <2> HIDE DEF Before
  <2>2. Cardinality(Before(i) \cup {i}) <= c
    BY <2>1, FS_Subset
  <2>3. rank[i] = Cardinality(Before(i)) + 1
    OBVIOUS
  <2> HIDE DEF c, rank
  <2>4. QED
    BY <1>1, <1>2, <2>2, <2>3
<1>5. rank \in Injection(S, 1..c)
  <2>1. rank \in [S -> 1..c]
    <3>1. \A i \in S : rank[i] \in 1..c
      BY <1>4
    <3> HIDE DEF c
    <3>2. QED
      BY <3>1
  <2>2. \A i, j \in S : rank[i] = rank[j] => i = j
    <3>1. SUFFICES ASSUME NEW i \in S, NEW j \in S, i < j PROVE rank[i] # rank[j]
      <4> HIDE DEF rank
      <4>1. QED
        BY <3>1
    <3>2. rank[i] < rank[j] /\ rank[i] \in Nat /\ rank[j] \in Nat
      BY <1>1, <1>3, <1>4, <3>1
    <3> HIDE DEF rank
    <3>3. QED
      BY <3>2
  <2> HIDE DEF rank, c
  <2>3. QED
    BY <2>1, <2>2 DEF Injection, IsInjective
<1>6. \A n \in 1..c : \E i \in S : Cardinality(Before(i)) = n - 1
  <2> HIDE DEF Before, c
  <2>1. rank \in Surjection(S, 1..c)
    <3> HIDE DEF rank
    <3>1. IsFiniteSet(1..c) /\ Cardinality(S) = Cardinality(1..c)
      BY <1>1 DEF c
    <3>2. QED
      BY <1>5, <3>1, FS_Injection
  <2>2. ASSUME NEW n \in 1..c
        PROVE  \E i \in S : Cardinality(Before(i)) = n - 1
    <3>1. PICK i \in S : rank[i] = n
      BY <2>1, <2>2 DEF Surjection
    <3>2. rank[i] = Cardinality(Before(i)) + 1 /\ Cardinality(Before(i)) \in Nat
      BY <1>2
    <3>3. QED
      BY <1>1, <3>1, <3>2
  <2>3. QED
    BY <2>2
<1> DEFINE nth(n) == CHOOSE i \in S : Cardinality(Before(i)) = n - 1
<1>7. InOrder(S) = [n \in 1..c |-> nth(n)]
  BY DEF InOrder
<1>8. \A n \in 1..c : nth(n) \in S /\ Cardinality(Before(nth(n))) = n - 1
  <2> HIDE DEF Before, c
  <2>1. QED
    BY <1>6
<1>9. ASSUME NEW i \in S
      PROVE  \E n \in 1..c : nth(n) = i
  <2> DEFINE n == rank[i]
  <2>1. n \in 1..c /\ n = Cardinality(Before(i)) + 1
    BY <1>4
  <2>2. nth(n) \in S /\ Cardinality(Before(nth(n))) = n - 1
    BY <1>8, <2>1
  <2>3. rank[nth(n)] = n
    <3>1. rank[nth(n)] = Cardinality(Before(nth(n))) + 1
      BY <2>2
    <3> HIDE DEF nth, rank, Before
    <3>2. QED
      BY <1>1, <2>1, <2>2, <3>1
  <2> HIDE DEF nth, rank, Before, c
  <2>4. nth(n) = i
    BY <1>5, <2>2, <2>3 DEF Injection, IsInjective
  <2>5. QED
    BY <2>1, <2>4
<1>13. ASSUME NEW m \in 1..c, NEW n \in 1..c, m < n
       PROVE  nth(m) < nth(n)
  <2>1. nth(m) \in S /\ nth(n) \in S /\ nth(m) \in Int /\ nth(n) \in Int
    <3> HIDE DEF nth, Before, c
    <3>1. nth(m) \in S /\ nth(n) \in S
      BY <1>8, Zenon
    <3>2. \A i \in S : i \in Int
      OBVIOUS
    <3>3. QED
      BY <3>1, <3>2, Zenon
  <2>2. rank[nth(m)] = Cardinality(Before(nth(m))) + 1 /\ rank[nth(n)] = Cardinality(Before(nth(n))) + 1
    BY <2>1
  <2>3. Cardinality(Before(nth(m))) = m - 1 /\ Cardinality(Before(nth(n))) = n - 1
    BY <1>8
  <2> HIDE DEF nth, rank, Before, c
  <2>4. rank[nth(m)] = m /\ rank[nth(n)] = n
    BY <1>1, <2>2, <2>3
  <2>5. m \in Int /\ n \in Int
    BY <1>1
  <2>6. ASSUME nth(n) < nth(m) PROVE FALSE
    <3>1. rank[nth(n)] < rank[nth(m)]
      BY <1>3, <2>1, <2>6
    <3>2. QED
      BY <1>13, <2>4, <2>5, <3>1
  <2>7. nth(m) # nth(n)
    BY <1>13, <2>4, <2>5
  <2>8. QED
    BY <2>1, <2>6, <2>7
<1> HIDE DEF nth, c, rank, Before
<1>10. InOrder(S) \in Seq(S) /\ Len(InOrder(S)) = c
  BY <1>1, <1>7, <1>8
<1>11. ToSet(InOrder(S)) = S
  <2>1. DOMAIN InOrder(S) = 1..c /\ \A n \in 1..c : InOrder(S)[n] = nth(n)
    BY <1>7
  <2>2. QED
    BY <1>8, <1>9, <2>1 DEF ToSet
<1>12. S # {} => InOrder(S) # << >> /\ InOrder(S)[1] \in S
  <2>1. ASSUME S # {} PROVE 1 \in 1..c
    <3>1. PICK i \in S : TRUE
      BY <2>1
    <3>2. PICK n \in 1..c : nth(n) = i
      BY <1>9
    <3>3. QED
      BY <1>1, <3>2
  <2> DEFINE t == InOrder(S)
  <2>2. t \in Seq(S) /\ Len(t) = c
    BY <1>10
  <2> HIDE DEF t
  <2>3. c # 0 => t # << >>
    BY <2>2
  <2>4. 1 \in 1..c => c # 0 /\ t[1] \in S
    BY <1>1, <2>2
  <2>5. QED
    BY <2>1, <2>3, <2>4 DEF t
<1>14. QED
  BY <1>7, <1>10, <1>11, <1>12, <1>13

\* A sort rearranges: each place has an element, each element one place.
Permuted(s, t) ==
  \E order \in [DOMAIN s -> DOMAIN s] :
    /\ \A n \in DOMAIN s : t[n] = s[order[n]]
    /\ \A n, m \in DOMAIN s : n # m => order[n] # order[m]
    /\ \A m \in DOMAIN s : \E n \in DOMAIN s : order[n] = m

LEMMA RearrangedPermutes ==
  ASSUME NEW s, IsList(s), NEW t \in Rearranged(s)
  PROVE  IsList(t) /\ DOMAIN t = DOMAIN s /\ Permuted(s, t)
<1>1. PICK order \in [DOMAIN s -> DOMAIN s] :
        /\ \A n, m \in DOMAIN s : n # m => order[n] # order[m]
        /\ t = [n \in DOMAIN s |-> s[order[n]]]
  BY DEF Rearranged
<1>2. s \in Seq(ToSet(s)) /\ Len(s) \in Nat /\ DOMAIN s = 1..Len(s)
  BY DEF IsList
<1>3. t \in Seq(ToSet(s)) /\ Len(t) = Len(s) /\ DOMAIN t = DOMAIN s
  BY <1>1, <1>2
<1>4. IsList(t)
  <2>1. ToSet(t) = {t[n] : n \in DOMAIN t}
    BY DEF ToSet
  <2>2. QED
    BY <1>3, <2>1, Z3 DEF IsList
<1>5. order \in Surjection(DOMAIN s, DOMAIN s)
  <2>1. order \in Injection(DOMAIN s, DOMAIN s)
    BY <1>1 DEF Injection, IsInjective
  <2>2. IsFiniteSet(DOMAIN s)
    <3>1. 1 \in Int /\ Len(s) \in Int
      BY <1>2
    <3>2. IsFiniteSet(1..Len(s))
      BY <3>1, FS_Interval
    <3>3. QED
      BY <1>2, <3>2
  <2>3. QED
    BY <2>1, <2>2, FS_Injection
<1>6. QED
  BY <1>1, <1>3, <1>4, <1>5 DEF Surjection, Permuted

-----------------------------------------------------------------------------
(***************************************************************************)
(* What is read off the reports stays the same while the reports do.       *)
(***************************************************************************)
LEMMA ReportsKept ==
  ASSUME neighbors' = neighbors
  PROVE  /\ UsableReports' = UsableReports
         /\ \A i : Local(i)' = Local(i) /\ Remote(i)' = Remote(i) /\ KeyOf(i)' = KeyOf(i)
         /\ \A key : Keyed(key)' = Keyed(key)
         /\ \A at : ReportsAt(at)' = ReportsAt(at) /\ (Contested(at)' <=> Contested(at))
         /\ \A at, from : ReportsOf(at, from)' = ReportsOf(at, from)
<1>1. UsableReports' = UsableReports
  BY DEF UsableReports, Usable
<1>2. \A i : Local(i)' = Local(i) /\ Remote(i)' = Remote(i) /\ KeyOf(i)' = KeyOf(i)
  BY DEF Local, Remote, KeyOf
<1>3. \A key : Keyed(key)' = Keyed(key)
  BY <1>1, <1>2 DEF Keyed
<1>4. \A at : ReportsAt(at)' = ReportsAt(at)
  BY <1>1, <1>2 DEF ReportsAt
<1>5. \A at : Contested(at)' <=> Contested(at)
  BY <1>2, <1>4 DEF Contested
<1>6. \A at, from : ReportsOf(at, from)' = ReportsOf(at, from)
  BY <1>2, <1>4 DEF ReportsOf
<1>7. QED
  BY <1>1, <1>2, <1>3, <1>4, <1>5, <1>6

LEMMA LinkOfKept ==
  ASSUME neighbors' = neighbors
  PROVE  \A link, i : LinkOf(link, i)' <=> LinkOf(link, i)
<1>1. TAKE link, i
<1>2. KeyOf(i)' = KeyOf(i) /\ Keyed(KeyOf(i))' = Keyed(KeyOf(i))
  BY ReportsKept
<1>3. {neighbors[j].protocol : j \in Keyed(KeyOf(i))}' = {neighbors[j].protocol : j \in Keyed(KeyOf(i))}
  BY <1>2
<1>4. QED
  BY <1>2, <1>3 DEF LinkOf

LEMMA ReportsTyped ==
  ASSUME Given(neighbors, addresses)
  PROVE  /\ UsableReports \subseteq Nat /\ IsFiniteSet(UsableReports)
         /\ \A i \in UsableReports :
              /\ neighbors[i].local \in Endpoint /\ neighbors[i].remote \in Endpoint
              /\ neighbors[i].local.key = Local(i) /\ neighbors[i].remote.key = Remote(i)
              /\ Local(i) \in Nat \ {NoKey} /\ Remote(i) \in Nat \ {NoKey}
<1>1. neighbors \in Seq(ToSet(neighbors))
  BY DEF Given
<1>2. Len(neighbors) \in Nat /\ DOMAIN neighbors = 1..Len(neighbors)
  BY <1>1
<1>3. IsFiniteSet(1..Len(neighbors))
  <2>1. 1 \in Int /\ Len(neighbors) \in Int
    BY <1>2
  <2>2. QED
    BY <2>1, FS_Interval
<1>4. UsableReports \in SUBSET (1..Len(neighbors))
  BY <1>2 DEF UsableReports
<1>5. IsFiniteSet(UsableReports)
  BY <1>3, <1>4, FS_Subset
<1>6. UsableReports \subseteq Nat
  BY <1>2, <1>4
<1>7. ASSUME NEW i \in UsableReports
      PROVE  /\ neighbors[i].local \in Endpoint /\ neighbors[i].remote \in Endpoint
             /\ neighbors[i].local.key = Local(i) /\ neighbors[i].remote.key = Remote(i)
             /\ Local(i) \in Nat \ {NoKey} /\ Remote(i) \in Nat \ {NoKey}
  <2>1. neighbors[i].local \in Endpoint /\ neighbors[i].remote \in Endpoint
    BY <1>7 DEF UsableReports, Given
  <2>2. QED
    BY <1>7, <2>1 DEF UsableReports, Usable, Local, Remote, Endpoint
<1>8. QED
  BY <1>5, <1>6, <1>7

-----------------------------------------------------------------------------
(***************************************************************************)
(* Links and their keys.                                                   *)
(***************************************************************************)
LEMMA OrientedKey ==
  ASSUME NEW a \in Endpoint, NEW b \in Endpoint
  PROVE  LET ends == Oriented(a, b) IN
         /\ ends[1] \in Endpoint /\ ends[2] \in Endpoint
         /\ {ends[1], ends[2]} = {a, b}
         /\ {ends[1].key, ends[2].key} = {a.key, b.key}
         /\ ends[1].key <= ends[2].key
         /\ LinkKey(ends[1], ends[2]) = IF b.key < a.key THEN <<b.key, a.key>> ELSE <<a.key, b.key>>
<1> DEFINE ends == Oriented(a, b)
<1>1. a.key \in Nat /\ b.key \in Nat
  BY DEF Endpoint
<1>2. CASE b.key < a.key
  <2>1. ends[1] = b /\ ends[2] = a
    BY <1>2 DEF Oriented
  <2> HIDE DEF ends
  <2>2. QED
    BY <1>1, <1>2, <2>1 DEF LinkKey, ends
<1>3. CASE ~(b.key < a.key)
  <2>1. ends[1] = a /\ ends[2] = b
    BY <1>3 DEF Oriented
  <2> HIDE DEF ends
  <2>2. QED
    BY <1>1, <1>3, <2>1 DEF LinkKey, ends
<1>4. QED
  BY <1>2, <1>3

\* Two reports are of one link when they are of the same two ends.
LEMMA KeysTellEnds ==
  ASSUME Given(neighbors, addresses), NEW i \in UsableReports, NEW j \in UsableReports
  PROVE  KeyOf(i) = KeyOf(j) <=> Ends(i) = Ends(j)
<1> DEFINE Pair(a, b) == IF b < a THEN <<b, a>> ELSE <<a, b>>
<1>1. /\ KeyOf(i) = Pair(Local(i), Remote(i)) /\ KeyOf(j) = Pair(Local(j), Remote(j))
      /\ Local(i) \in Nat /\ Remote(i) \in Nat /\ Local(j) \in Nat /\ Remote(j) \in Nat
  BY ReportsTyped, OrientedKey DEF KeyOf
<1>2. Pair(Local(i), Remote(i)) = Pair(Local(j), Remote(j)) <=> {Local(i), Remote(i)} = {Local(j), Remote(j)}
  BY <1>1
<1> HIDE DEF Pair
<1>3. QED
  BY <1>1, <1>2 DEF Ends

LEMMA ReportingIsKeyed ==
  ASSUME Given(neighbors, addresses), NEW i \in UsableReports
  PROVE  Reporting(Ends(i)) = Keyed(KeyOf(i))
BY KeysTellEnds DEF Reporting, Keyed

\* What is made from a list of reports of one link is that link.
LEMMA LinkFromGroup ==
  ASSUME Given(neighbors, addresses), NEW key, NEW group \in Seq(Keyed(key)), group # << >>,
         ToSet(group) = Keyed(key)
  PROVE  group[1] \in Keyed(key) /\ LinkOf(LinkFromNeighbors(group), group[1])
<1> DEFINE i == group[1]
           link == LinkFromNeighbors(group)
           ends == Oriented(neighbors[i].local, neighbors[i].remote)
<1>1. i \in Keyed(key) /\ i \in UsableReports /\ KeyOf(i) = key
  BY DEF Keyed
<1>2. {ends[1], ends[2]} = {neighbors[i].local, neighbors[i].remote}
  BY <1>1, ReportsTyped, OrientedKey
<1>3. /\ link.a = ends[1] /\ link.b = ends[2] /\ link.sources = Sources(group)
      /\ link.evidence = ToSet(group) /\ link.confidence = Confidence(Sources(group))
  BY DEF LinkFromNeighbors
<1>4. LinkKey(ends[1], ends[2]) = KeyOf(i)
  BY DEF KeyOf
<1>5. Sources(group) = {neighbors[j].protocol : j \in Keyed(key)}
  <2>1. Sources(group) = {neighbors[j].protocol : j \in ToSet(group)}
    BY DEF Sources, ToSet
  <2>2. QED
    BY <2>1
<1> HIDE DEF i, link, ends
<1>6. LinkOf(link, i)
  BY <1>1, <1>2, <1>3, <1>4, <1>5 DEF LinkOf
<1>7. QED
  BY <1>1, <1>6 DEF link, i

\* The key of what is made from a part of them
LEMMA KeyFromGroup ==
  ASSUME Given(neighbors, addresses), NEW group, group # << >>, group[1] \in UsableReports
  PROVE  LET link == LinkFromNeighbors(group) IN LinkKey(link.a, link.b) = KeyOf(group[1])
BY DEF LinkFromNeighbors, KeyOf

\* No reported link is a learned one.
LEMMA LearnedApart ==
  ASSUME Given(neighbors, addresses), NEW l, NEW m, IsReported(l), IsLearned(m)
  PROVE  ~SameLink(l, m) /\ ~SameLink(m, l)
<1>1. PICK i \in UsableReports : LinkOf(l, i)
  BY DEF IsReported
<1>2. PICK address \in ToSet(addresses) :
        address.at.key # NoKey /\ address.mac.key # NoKey /\ m = MacLink(address)
  BY DEF IsLearned
<1>3. /\ address.at \in Endpoint /\ address.mac \in Endpoint
      /\ address.mac.key \notin {Local(i), Remote(i)}
  BY <1>1, <1>2 DEF Given, ToSet, UsableReports, Local, Remote
<1>4. {l.a.key, l.b.key} = {Local(i), Remote(i)}
  <2>1. {l.a, l.b} = {neighbors[i].local, neighbors[i].remote}
    BY <1>1 DEF LinkOf
  <2>2. QED
    BY <2>1, ReportsTyped
<1>5. {m.a.key, m.b.key} = {address.at.key, address.mac.key}
  <2> DEFINE ends == Oriented(address.at, address.mac)
  <2>1. {ends[1].key, ends[2].key} = {address.at.key, address.mac.key}
    BY <1>3, OrientedKey
  <2>2. m.a = ends[1] /\ m.b = ends[2]
    BY <1>2 DEF MacLink
  <2> HIDE DEF ends
  <2>3. QED
    BY <2>1, <2>2
<1>6. QED
  BY <1>3, <1>4, <1>5 DEF SameLink, LinkKey

-----------------------------------------------------------------------------
(***************************************************************************)
(* Every step keeps the invariant.                                         *)
(***************************************************************************)
LEMMA IdleInv == TopologyIdle => TopologyInv
<1> SUFFICES ASSUME TopologyIdle PROVE TopologyInv
  OBVIOUS
<1>1. UsableReports = {} /\ DOMAIN links = {} /\ DOMAIN conflicts = {} /\ DOMAIN linkGroups = {}
  BY DEF TopologyIdle, UsableReports
<1>2. \A s : s = << >> => s \in Seq(ToSet(s)) /\ ToSet(s) = {} /\ DOMAIN s = {}
  BY DEF ToSet
<1>3. Given(neighbors, addresses) /\ IsList(macs) /\ IsList(links) /\ IsList(conflicts)
      /\ ToSet(macs) \subseteq ToSet(addresses)
  BY <1>2 DEF TopologyIdle, Given, IsList
<1>4. TopologyTypeOK
  BY <1>1, <1>3 DEF TopologyIdle, TopologyTypeOK
<1>5. GroupsWhole /\ NoneLost /\ LinksApart /\ ConflictsSoFar
  BY <1>1 DEF TopologyIdle, GroupsWhole, NoneLost, LinksApart, ConflictsSoFar
<1>6. QED
  BY <1>4, <1>5 DEF TopologyInv

LEMMA BuildStartsStep ==
  ASSUME NEW reports, NEW rows, Given(reports, rows),
         TopologyInv, pc = "idle", BuildStarts(reports, rows)
  PROVE  TopologyInv'
<1>1. /\ neighbors' = reports /\ addresses' = rows /\ macs' = rows /\ pc' = "local"
      /\ remotes' = remotes /\ linkGroups' = linkGroups /\ links' = links /\ conflicts' = conflicts
      /\ remotes = {} /\ DOMAIN linkGroups = {} /\ links = << >> /\ conflicts = << >>
      /\ DOMAIN links = {} /\ DOMAIN conflicts = {}
  BY DEF BuildStarts, TopologyInv, TopologyTypeOK
<1>2. byLocal' = {ReportsAt(Local(i)) : i \in UsableReports}'
  BY DEF BuildStarts, ByLocal, ReportsAt, UsableReports
<1>3. TopologyTypeOK'
  <2>1. Given(neighbors, addresses)' /\ IsList(macs)'
    BY <1>1 DEF Given, IsList
  <2>2. QED
    BY <1>1, <2>1 DEF TopologyTypeOK, TopologyInv
<1>4. GroupsWhole'
  BY <1>1, <1>2 DEF GroupsWhole
<1>5. NoneLost'
  <2>1. \A i \in UsableReports' : ReportsAt(Local(i))' \in byLocal' /\ i \in ReportsAt(Local(i))'
    BY <1>2 DEF ReportsAt
  <2>2. QED
    BY <1>1, <2>1 DEF NoneLost
<1>6. LinksApart'
  BY <1>1 DEF LinksApart
<1>7. ConflictsSoFar'
  BY <1>1, <1>2 DEF ConflictsSoFar
<1>8. QED
  BY <1>3, <1>4, <1>5, <1>6, <1>7 DEF TopologyInv

\* One end's groups are more than one when it is contested.
LEMMA MismatchContested ==
  ASSUME Given(neighbors, addresses), NEW at, ReportsAt(at) # {}
  PROVE  Mismatch(ReportsAt(at)) <=> Contested(at)
<1> DEFINE Of(i) == {j \in ReportsAt(at) : Remote(j) = Remote(i)}
           groups == ByRemote(ReportsAt(at))
<1>1. groups = {Of(i) : i \in ReportsAt(at)}
  BY DEF ByRemote
<1>2. IsFiniteSet(groups)
  <2>1. IsFiniteSet(ReportsAt(at))
    <3>1. ReportsAt(at) \in SUBSET UsableReports
      BY DEF ReportsAt
    <3>2. QED
      BY <3>1, ReportsTyped, FS_Subset
  <2> DEFINE map == [i \in ReportsAt(at) |-> Of(i)]
  <2>2. map \in Surjection(ReportsAt(at), groups)
    BY <1>1 DEF Surjection
  <2>3. QED
    BY <2>1, <2>2, FS_Surjection
<1>3. Cardinality(groups) \in Nat
  BY <1>2, FS_CardinalityType
<1>4. ASSUME Contested(at) PROVE Cardinality(groups) > 1
  <2>1. PICK i \in ReportsAt(at), j \in ReportsAt(at) : Remote(i) # Remote(j)
    BY <1>4 DEF Contested
  <2>2. Of(i) # Of(j) /\ Of(i) \in groups /\ Of(j) \in groups
    BY <1>1, <2>1
  <2> HIDE DEF groups, Of
  <2>3. Cardinality({Of(i)} \cup {Of(j)}) = 2 /\ IsFiniteSet({Of(i)} \cup {Of(j)})
    <3>1. IsFiniteSet({Of(i)}) /\ Cardinality({Of(i)}) = 1
      BY FS_Singleton
    <3>2. Of(j) \notin {Of(i)}
      BY <2>2
    <3>3. QED
      BY <3>1, <3>2, FS_AddElement
  <2>4. {Of(i)} \cup {Of(j)} \in SUBSET groups
    BY <2>2
  <2>5. 2 <= Cardinality(groups)
    BY <1>2, <2>3, <2>4, FS_Subset
  <2>6. QED
    BY <1>3, <2>5
<1>5. ASSUME ~Contested(at) PROVE Cardinality(groups) = 1
  <2>1. \A i, j \in ReportsAt(at) : Remote(i) = Remote(j)
    BY <1>5 DEF Contested
  <2>2. \A i \in ReportsAt(at) : Of(i) = ReportsAt(at)
    BY <2>1
  <2>3. groups = {ReportsAt(at)}
    BY <1>1, <2>2
  <2> HIDE DEF groups
  <2>4. QED
    BY <2>3, FS_Singleton
<1> HIDE DEF groups
<1>6. QED
  BY <1>4, <1>5 DEF Mismatch, groups

LEMMA VisitLocalStep ==
  ASSUME TopologyInv, VisitLocal
  PROVE  TopologyInv'
<1>1. PICK group \in byLocal :
        /\ byLocal' = byLocal \ {group} /\ remotes' = ByRemote(group)
        /\ conflicts' = IF Mismatch(group) THEN Append(conflicts, NeighborConflict(group)) ELSE conflicts
  BY DEF VisitLocal
<1>2. /\ pc = "local" /\ pc' = "local" /\ remotes = {}
      /\ neighbors' = neighbors /\ addresses' = addresses /\ linkGroups' = linkGroups
      /\ macs' = macs /\ links' = links
  BY DEF VisitLocal
<1>3. Given(neighbors, addresses) /\ IsList(conflicts)
  BY DEF TopologyInv, TopologyTypeOK
<1>4. PICK k \in UsableReports : group = ReportsAt(Local(k))
  BY <1>1 DEF TopologyInv, GroupsWhole
<1>5. group # {} /\ group \subseteq UsableReports /\ \A i \in group : Local(i) = Local(k)
  BY <1>4 DEF ReportsAt
<1>6. ByRemote(group) = {ReportsOf(Local(i), Remote(i)) : i \in group}
  BY <1>4 DEF ByRemote, ReportsOf, ReportsAt
<1>7. Mismatch(group) <=> Contested(Local(k))
  BY <1>3, <1>4, <1>5, MismatchContested
<1>8. /\ NeighborConflict(group).at.key = Local(k)
      /\ NeighborConflict(group).evidence = ReportsAt(Local(k))
  <2>1. InOrder(group)[1] \in group
    <3>1. group \subseteq Nat /\ group \in SUBSET UsableReports /\ IsFiniteSet(UsableReports)
      BY <1>3, <1>5, ReportsTyped
    <3>2. IsFiniteSet(group)
      BY <3>1, FS_Subset
    <3>3. QED
      BY <1>5, <3>1, <3>2, InOrderLists
  <2>2. neighbors[InOrder(group)[1]].local.key = Local(k)
    BY <1>5, <2>1 DEF Local
  <2>3. QED
    BY <1>4, <2>2 DEF NeighborConflict
<1>9. IsList(conflicts')
  BY <1>1, <1>3, Appended
<1>10. TopologyTypeOK'
  BY <1>1, <1>2, <1>9 DEF TopologyInv, TopologyTypeOK, Given, IsList
<1>11. GroupsWhole'
  <2>1. \A g \in byLocal' : \E i \in UsableReports : g = ReportsAt(Local(i))
    BY <1>1 DEF TopologyInv, GroupsWhole
  <2>2. \A g \in remotes' : \E i \in UsableReports : g = ReportsOf(Local(i), Remote(i))
    BY <1>1, <1>5, <1>6
  <2>3. QED
    BY <1>2, <2>1, <2>2, ReportsKept DEF TopologyInv, GroupsWhole
<1>12. NoneLost'
  <2>1. ASSUME NEW i \in UsableReports
        PROVE  Joined(i) \/ \E g \in byLocal' \cup remotes' : i \in g
    <3>1. CASE i \in group
      <4>1. i \in ReportsOf(Local(i), Remote(i)) /\ ReportsOf(Local(i), Remote(i)) \in remotes'
        BY <1>1, <1>6, <3>1 DEF ReportsOf, ReportsAt
      <4>2. QED
        BY <4>1
    <3>2. CASE i \notin group
      BY <1>1, <1>2, <3>2 DEF TopologyInv, NoneLost
    <3>3. QED
      BY <3>1, <3>2
  <2>2. \A i : Joined(i)' <=> Joined(i)
    BY <1>2, ReportsKept DEF Joined
  <2>3. QED
    BY <1>2, <2>1, <2>2, ReportsKept DEF NoneLost
<1>13. LinksApart'
  <2>1. DOMAIN links' = {}
    BY <1>2 DEF TopologyInv, TopologyTypeOK
  <2>2. QED
    BY <1>2, <2>1 DEF LinksApart
<1>14. ConflictsSoFar'
  <2>1. ConflictsSoFar
    BY DEF TopologyInv
  <2>2. \A i \in UsableReports : ReportsAt(Local(i)) = group => Local(i) = Local(k)
    BY <1>4, <1>5 DEF ReportsAt
  <2>3. CASE ~Contested(Local(k))
    <3>1. conflicts' = conflicts
      BY <1>1, <1>7, <2>3
    <3>2. \A i \in UsableReports : Contested(Local(i)) =>
            ReportsAt(Local(i)) \in byLocal' \/ \E n \in DOMAIN conflicts : conflicts[n].at.key = Local(i)
      BY <1>1, <1>2, <2>1, <2>2, <2>3 DEF ConflictsSoFar
    <3>3. \A n \in DOMAIN conflicts : \E i \in UsableReports :
            /\ conflicts[n].at.key = Local(i) /\ conflicts[n].evidence = ReportsAt(Local(i))
            /\ Contested(Local(i)) /\ ReportsAt(Local(i)) \notin byLocal'
      BY <1>1, <2>1 DEF ConflictsSoFar
    <3>4. QED
      BY <1>2, <2>1, <3>1, <3>2, <3>3, ReportsKept DEF ConflictsSoFar
  <2>4. CASE Contested(Local(k))
    <3> DEFINE c == NeighborConflict(group)
               m == Len(conflicts)
    <3>1. conflicts' = Append(conflicts, c)
      BY <1>1, <1>7, <2>4
    <3>2. /\ m \in Nat /\ DOMAIN conflicts = 1..m /\ DOMAIN conflicts' = 1..m + 1
          /\ \A n \in 1..m : conflicts'[n] = conflicts[n]
          /\ conflicts'[m + 1] = c
      BY <1>3, <3>1, Appended
    <3>3. c.at.key = Local(k) /\ c.evidence = ReportsAt(Local(k)) /\ ReportsAt(Local(k)) \notin byLocal'
      BY <1>1, <1>4, <1>8
    <3> HIDE DEF c, m
    <3>4. \A n \in 1..m + 1 : n \in 1..m \/ n = m + 1
      BY <3>2
    <3>5. \A n \in DOMAIN conflicts' : \E i \in UsableReports :
            /\ conflicts'[n].at.key = Local(i) /\ conflicts'[n].evidence = ReportsAt(Local(i))
            /\ Contested(Local(i)) /\ ReportsAt(Local(i)) \notin byLocal'
      BY <1>1, <2>1, <2>4, <3>2, <3>3, <3>4 DEF ConflictsSoFar
    <3>6. \A n \in 1..m : conflicts[n].at.key # Local(k)
      BY <1>1, <1>4, <2>1, <3>2 DEF ConflictsSoFar
    <3>7. \A n, o \in DOMAIN conflicts' : n # o => conflicts'[n].at.key # conflicts'[o].at.key
      BY <2>1, <3>2, <3>3, <3>4, <3>6 DEF ConflictsSoFar
    <3>8. \A i \in UsableReports : Contested(Local(i)) =>
            ReportsAt(Local(i)) \in byLocal' \/ \E n \in DOMAIN conflicts' : conflicts'[n].at.key = Local(i)
      <4>1. m + 1 \in DOMAIN conflicts' /\ \A n \in DOMAIN conflicts : n \in DOMAIN conflicts' /\ conflicts'[n] = conflicts[n]
        BY <3>2
      <4>2. QED
        BY <1>1, <1>2, <2>1, <2>2, <3>2, <3>3, <4>1 DEF ConflictsSoFar
    <3>9. QED
      BY <1>2, <3>5, <3>7, <3>8, ReportsKept DEF ConflictsSoFar
  <2>5. QED
    BY <2>3, <2>4
<1>15. QED
  BY <1>10, <1>11, <1>12, <1>13, <1>14 DEF TopologyInv

\* A link's list of reports stays one when a group of it is joined.
LEMMA JoinKeeps ==
  ASSUME TopologyInv, NEW key, NEW group, group \subseteq Keyed(key), group # {},
         InOrder(group) \in Seq(group), ToSet(InOrder(group)) = group, InOrder(group) # << >>
  PROVE  /\ DOMAIN Join(key, group) = DOMAIN linkGroups \cup {key}
         /\ \A k \in DOMAIN linkGroups : k # key => Join(key, group)[k] = linkGroups[k]
         /\ Join(key, group)[key] \in Seq(Keyed(key)) /\ Join(key, group)[key] # << >>
         /\ group \subseteq ToSet(Join(key, group)[key])
         /\ key \in DOMAIN linkGroups => ToSet(linkGroups[key]) \subseteq ToSet(Join(key, group)[key])
<1> DEFINE new == InOrder(group)
           old == linkGroups[key]
<1>1. /\ DOMAIN Join(key, group) = DOMAIN linkGroups \cup {key}
      /\ \A k \in DOMAIN linkGroups : k # key => Join(key, group)[k] = linkGroups[k]
      /\ Join(key, group)[key] = IF key \in DOMAIN linkGroups THEN old \o new ELSE new
  BY DEF Join
<1>2. new \in Seq(Keyed(key)) /\ ToSet(new) = group /\ new # << >>
  OBVIOUS
<1>3. ASSUME key \in DOMAIN linkGroups
      PROVE  /\ old \o new \in Seq(Keyed(key)) /\ old \o new # << >>
             /\ ToSet(old) \subseteq ToSet(old \o new) /\ ToSet(new) \subseteq ToSet(old \o new)
  <2>1. old \in Seq(Keyed(key)) /\ old # << >>
    BY <1>3 DEF TopologyInv, GroupsWhole
  <2> HIDE DEF old, new
  <2>2. /\ old \o new \in Seq(Keyed(key)) /\ Len(old \o new) = Len(old) + Len(new)
        /\ Len(old) \in Nat /\ Len(new) \in Nat /\ DOMAIN old = 1..Len(old) /\ DOMAIN new = 1..Len(new)
        /\ DOMAIN (old \o new) = 1..Len(old) + Len(new)
        /\ \A n \in 1..Len(old) : (old \o new)[n] = old[n]
        /\ \A n \in 1..Len(new) : (old \o new)[Len(old) + n] = new[n]
    BY <1>2, <2>1
  <2>3. ToSet(old) \subseteq ToSet(old \o new)
    BY <2>2 DEF ToSet
  <2>4. \A n \in 1..Len(new) : Len(old) + n \in DOMAIN (old \o new)
    BY <2>2
  <2>5. ToSet(new) \subseteq ToSet(old \o new)
    BY <2>2, <2>4 DEF ToSet
  <2>6. Len(old) # 0
    BY <2>1
  <2>7. old \o new # << >>
    BY <2>2, <2>6
  <2>8. QED
    BY <2>2, <2>3, <2>5, <2>7
<1> HIDE DEF old, new
<1>4. QED
  BY <1>1, <1>2, <1>3 DEF old

LEMMA VisitRemoteStep ==
  ASSUME TopologyInv, VisitRemote
  PROVE  TopologyInv'
<1>1. PICK group \in remotes :
        LET link == LinkFromNeighbors(InOrder(group)) IN
        /\ remotes' = remotes \ {group}
        /\ linkGroups' = Join(LinkKey(link.a, link.b), group)
  BY DEF VisitRemote
<1>2. /\ pc = "local" /\ pc' = "local" /\ byLocal' = byLocal
      /\ neighbors' = neighbors /\ addresses' = addresses
      /\ macs' = macs /\ links' = links /\ conflicts' = conflicts
  BY DEF VisitRemote
<1>3. Given(neighbors, addresses)
  BY DEF TopologyInv, TopologyTypeOK
<1>4. PICK k \in UsableReports : group = ReportsOf(Local(k), Remote(k))
  BY <1>1 DEF TopologyInv, GroupsWhole
<1>5. group # {} /\ group \subseteq Keyed(KeyOf(k)) /\ group \subseteq UsableReports
  <2>1. \A i \in group : i \in UsableReports /\ Local(i) = Local(k) /\ Remote(i) = Remote(k)
    BY <1>4 DEF ReportsOf, ReportsAt
  <2>2. \A i \in group : KeyOf(i) = KeyOf(k)
    BY <1>3, <2>1, KeysTellEnds DEF Ends
  <2>3. k \in group
    BY <1>4 DEF ReportsOf, ReportsAt
  <2>4. QED
    BY <2>1, <2>2, <2>3 DEF Keyed
<1>6. /\ InOrder(group) \in Seq(group) /\ ToSet(InOrder(group)) = group
      /\ InOrder(group) # << >> /\ InOrder(group)[1] \in group
  <2>1. group \subseteq Nat /\ group \in SUBSET UsableReports /\ IsFiniteSet(UsableReports)
    BY <1>3, <1>5, ReportsTyped
  <2>2. IsFiniteSet(group)
    BY <2>1, FS_Subset
  <2>3. QED
    BY <1>5, <2>1, <2>2, InOrderLists
<1> DEFINE key == KeyOf(k)
<1>7. linkGroups' = Join(key, group)
  <2>1. InOrder(group)[1] \in UsableReports /\ KeyOf(InOrder(group)[1]) = key
    BY <1>5, <1>6 DEF Keyed
  <2>2. QED
    BY <1>1, <1>3, <1>6, <2>1, KeyFromGroup
<1> HIDE DEF key
<1>8. /\ DOMAIN linkGroups' = DOMAIN linkGroups \cup {key}
      /\ \A o \in DOMAIN linkGroups : o # key => linkGroups'[o] = linkGroups[o]
      /\ linkGroups'[key] \in Seq(Keyed(key)) /\ linkGroups'[key] # << >>
      /\ group \subseteq ToSet(linkGroups'[key])
      /\ key \in DOMAIN linkGroups => ToSet(linkGroups[key]) \subseteq ToSet(linkGroups'[key])
  <2>1. group \subseteq Keyed(key)
    BY <1>5 DEF key
  <2>2. /\ DOMAIN Join(key, group) = DOMAIN linkGroups \cup {key}
        /\ \A o \in DOMAIN linkGroups : o # key => Join(key, group)[o] = linkGroups[o]
        /\ Join(key, group)[key] \in Seq(Keyed(key)) /\ Join(key, group)[key] # << >>
        /\ group \subseteq ToSet(Join(key, group)[key])
        /\ key \in DOMAIN linkGroups => ToSet(linkGroups[key]) \subseteq ToSet(Join(key, group)[key])
    BY <1>5, <1>6, <2>1, JoinKeeps
  <2>3. QED
    BY <1>7, <2>2
<1>9. TopologyTypeOK'
  BY <1>1, <1>2 DEF TopologyInv, TopologyTypeOK, Given, IsList
<1>10. GroupsWhole'
  <2>1. \A g \in remotes' : \E i \in UsableReports : g = ReportsOf(Local(i), Remote(i))
    BY <1>1 DEF TopologyInv, GroupsWhole
  <2>2. \A o \in DOMAIN linkGroups' : linkGroups'[o] \in Seq(Keyed(o)) /\ linkGroups'[o] # << >>
    BY <1>8 DEF TopologyInv, GroupsWhole
  <2>3. QED
    BY <1>2, <2>1, <2>2, ReportsKept DEF TopologyInv, GroupsWhole
<1>11. NoneLost'
  <2>1. ASSUME NEW i \in UsableReports
        PROVE  \/ KeyOf(i) \in DOMAIN linkGroups' /\ i \in ToSet(linkGroups'[KeyOf(i)])
               \/ \E g \in byLocal' \cup remotes' : i \in g
    <3>1. CASE i \in group
      <4>1. KeyOf(i) = key
        BY <1>5, <3>1 DEF Keyed, key
      <4>2. QED
        BY <1>8, <3>1, <4>1
    <3>2. CASE i \notin group /\ Joined(i)
      BY <1>8, <3>2 DEF Joined
    <3>3. CASE i \notin group /\ ~Joined(i)
      BY <1>1, <1>2, <3>3 DEF TopologyInv, NoneLost
    <3>4. QED
      BY <3>1, <3>2, <3>3
  <2>2. ASSUME NEW i PROVE Joined(i)' <=> KeyOf(i) \in DOMAIN linkGroups' /\ i \in ToSet(linkGroups'[KeyOf(i)])
    <3>1. KeyOf(i)' = KeyOf(i)
      BY <1>2, ReportsKept
    <3>2. ToSet(linkGroups[KeyOf(i)])' = ToSet(linkGroups'[KeyOf(i)])
      BY <3>1 DEF ToSet
    <3>3. QED
      BY <3>1, <3>2 DEF Joined
  <2>3. QED
    BY <1>2, <2>1, <2>2, ReportsKept DEF NoneLost
<1>12. LinksApart'
  <2>1. DOMAIN links' = {}
    BY <1>2 DEF TopologyInv, TopologyTypeOK
  <2>2. QED
    BY <1>2, <2>1 DEF LinksApart
<1>13. ConflictsSoFar'
  BY <1>2, ReportsKept DEF TopologyInv, ConflictsSoFar
<1>14. QED
  BY <1>9, <1>10, <1>11, <1>12, <1>13 DEF TopologyInv

LEMMA GroupsDoneStep ==
  ASSUME TopologyInv, GroupsDone
  PROVE  TopologyInv'
<1>1. /\ pc = "local" /\ pc' = "link" /\ byLocal = {} /\ remotes = {}
      /\ neighbors' = neighbors /\ addresses' = addresses /\ byLocal' = byLocal /\ remotes' = remotes
      /\ linkGroups' = linkGroups /\ macs' = macs /\ links' = links /\ conflicts' = conflicts
  BY DEF GroupsDone
<1>2. TopologyTypeOK'
  BY <1>1 DEF TopologyInv, TopologyTypeOK, Given, IsList
<1>3. GroupsWhole'
  BY <1>1, ReportsKept DEF TopologyInv, GroupsWhole
<1>4. NoneLost'
  <2>1. \A i \in UsableReports : Joined(i)
    BY <1>1 DEF TopologyInv, NoneLost
  <2>2. \A i : Joined(i)' <=> Joined(i)
    BY <1>1, ReportsKept DEF Joined
  <2>3. QED
    BY <1>1, <2>1, <2>2, ReportsKept DEF NoneLost, Joined
<1>5. LinksApart'
  <2>1. DOMAIN links' = {}
    BY <1>1 DEF TopologyInv, TopologyTypeOK
  <2>2. QED
    BY <1>1, <2>1 DEF LinksApart
<1>6. ConflictsSoFar'
  BY <1>1, ReportsKept DEF TopologyInv, ConflictsSoFar
<1>7. QED
  BY <1>2, <1>3, <1>4, <1>5, <1>6 DEF TopologyInv

\* IsReported and IsLearned are about the reports and the table alone.
LEMMA KindsKept ==
  ASSUME neighbors' = neighbors, addresses' = addresses
  PROVE  \A l : (IsReported(l)' <=> IsReported(l)) /\ (IsLearned(l)' <=> IsLearned(l))
<1>1. \A l : IsReported(l)' <=> IsReported(l)
  BY ReportsKept, LinkOfKept DEF IsReported
<1>2. \A l : IsLearned(l)' <=> IsLearned(l)
  <2>1. ToSet(addresses)' = ToSet(addresses)
    BY DEF ToSet
  <2>2. QED
    BY <2>1 DEF IsLearned, MacLink
<1>3. QED
  BY <1>1, <1>2

LEMMA SameLinkSymmetric ==
  \A l, m : SameLink(l, m) <=> SameLink(m, l)
BY DEF SameLink

\* A link is added that no other is the same as.
LEMMA LinkAdded ==
  ASSUME IsList(links), NEW link, links' = Append(links, link),
         \A n \in DOMAIN links : ~SameLink(links[n], link),
         \A n, m \in DOMAIN links : n # m => ~SameLink(links[n], links[m])
  PROVE  /\ IsList(links') /\ DOMAIN links \subseteq DOMAIN links'
         /\ \A n \in DOMAIN links : links'[n] = links[n]
         /\ \E n \in DOMAIN links' : links'[n] = link
         /\ \A n \in DOMAIN links' : n \in DOMAIN links \/ links'[n] = link
         /\ \A n, m \in DOMAIN links' : n # m => ~SameLink(links'[n], links'[m])
<1> DEFINE c == Len(links)
<1>1. /\ IsList(links') /\ c \in Nat /\ DOMAIN links = 1..c /\ DOMAIN links' = 1..c + 1
      /\ \A n \in 1..c : links'[n] = links[n]
      /\ links'[c + 1] = link
  BY Appended
<1> HIDE DEF c
<1>2. /\ \A n \in 1..c + 1 : n \in 1..c \/ n = c + 1
      /\ c + 1 \in 1..c + 1 /\ 1..c \subseteq 1..c + 1
  BY <1>1
<1>3. \A n, m \in DOMAIN links' : n # m => ~SameLink(links'[n], links'[m])
  <2>1. ASSUME NEW n \in DOMAIN links', NEW m \in DOMAIN links', n # m
        PROVE  ~SameLink(links'[n], links'[m])
    <3>1. CASE n \in 1..c /\ m \in 1..c
      BY <1>1, <2>1, <3>1
    <3>2. CASE n \in 1..c /\ m = c + 1
      BY <1>1, <3>2
    <3>3. CASE n = c + 1 /\ m \in 1..c
      BY <1>1, <3>3, SameLinkSymmetric
    <3>4. QED
      BY <1>1, <1>2, <2>1, <3>1, <3>2, <3>3
  <2>2. QED
    BY <2>1
<1>4. QED
  BY <1>1, <1>2, <1>3

LEMMA VisitLinkStep ==
  ASSUME TopologyInv, VisitLink
  PROVE  TopologyInv'
<1> DEFINE made(key) == LinkFromNeighbors(linkGroups[key])
<1>1. PICK key \in DOMAIN linkGroups :
        /\ links' = Append(links, made(key))
        /\ linkGroups' = [k \in DOMAIN linkGroups \ {key} |-> linkGroups[k]]
  BY DEF VisitLink
<1> DEFINE link == made(key)
<1>2. /\ pc = "link" /\ pc' = "link"
      /\ neighbors' = neighbors /\ addresses' = addresses /\ byLocal' = byLocal /\ remotes' = remotes
      /\ macs' = macs /\ conflicts' = conflicts
  BY DEF VisitLink
<1>3. Given(neighbors, addresses) /\ IsList(links)
  BY DEF TopologyInv, TopologyTypeOK
<1>4. /\ DOMAIN linkGroups' = DOMAIN linkGroups \ {key}
      /\ \A k \in DOMAIN linkGroups' : linkGroups'[k] = linkGroups[k]
  BY <1>1
<1>5. linkGroups[key] \in Seq(Keyed(key)) /\ linkGroups[key] # << >> /\ ToSet(linkGroups[key]) = Keyed(key)
  <2>1. linkGroups[key] \in Seq(Keyed(key)) /\ linkGroups[key] # << >>
    BY <1>1 DEF TopologyInv, GroupsWhole
  <2>2. ToSet(linkGroups[key]) \subseteq Keyed(key)
    BY <2>1 DEF ToSet
  <2>3. \A i \in Keyed(key) : i \in ToSet(linkGroups[key])
    BY <1>1, <1>2 DEF TopologyInv, NoneLost, Joined, Keyed
  <2>4. QED
    BY <2>1, <2>2, <2>3
<1>6. PICK k \in UsableReports : KeyOf(k) = key /\ LinkOf(link, k)
  <2>1. linkGroups[key][1] \in Keyed(key) /\ LinkOf(link, linkGroups[key][1])
    BY <1>3, <1>5, LinkFromGroup
  <2>2. QED
    BY <2>1 DEF Keyed
<1>7. LinkKey(link.a, link.b) = key /\ link.evidence = Keyed(key)
  BY <1>6 DEF LinkOf
<1> HIDE DEF made, link
<1>8. links' = Append(links, link)
  BY <1>1 DEF link
<1>9. \A n \in DOMAIN links : ~SameLink(links[n], link)
  BY <1>1, <1>7 DEF TopologyInv, LinksApart, SameLink
<1>10. /\ IsList(links') /\ DOMAIN links \subseteq DOMAIN links'
       /\ \A n \in DOMAIN links : links'[n] = links[n]
       /\ \E n \in DOMAIN links' : links'[n] = link
       /\ \A n \in DOMAIN links' : n \in DOMAIN links \/ links'[n] = link
       /\ \A n, m \in DOMAIN links' : n # m => ~SameLink(links'[n], links'[m])
  <2>1. \A n, m \in DOMAIN links : n # m => ~SameLink(links[n], links[m])
    BY DEF TopologyInv, LinksApart
  <2>2. QED
    BY <1>3, <1>8, <1>9, <2>1, LinkAdded
<1>11. TopologyTypeOK'
  BY <1>2, <1>10 DEF TopologyInv, TopologyTypeOK, Given, IsList
<1>12. GroupsWhole'
  <2>1. \A o \in DOMAIN linkGroups' : linkGroups'[o] \in Seq(Keyed(o)) /\ linkGroups'[o] # << >>
    BY <1>4 DEF TopologyInv, GroupsWhole
  <2>2. QED
    BY <1>2, <2>1, ReportsKept DEF TopologyInv, GroupsWhole
<1>13. NoneLost'
  <2>1. ASSUME NEW i \in UsableReports, KeyOf(i) \in DOMAIN linkGroups'
        PROVE  Joined(i)'
    <3>1. Joined(i) /\ linkGroups'[KeyOf(i)] = linkGroups[KeyOf(i)]
      BY <1>2, <1>4, <2>1 DEF TopologyInv, NoneLost
    <3>2. KeyOf(i)' = KeyOf(i)
      BY <1>2, ReportsKept
    <3>3. ToSet(linkGroups[KeyOf(i)])' = ToSet(linkGroups[KeyOf(i)])
      BY <3>1, <3>2 DEF ToSet
    <3>4. QED
      BY <2>1, <3>1, <3>2, <3>3 DEF Joined
  <2>2. ASSUME NEW i \in UsableReports, KeyOf(i) \notin DOMAIN linkGroups'
        PROVE  \E n \in DOMAIN links' : links'[n].evidence = Keyed(KeyOf(i))
    <3>1. CASE KeyOf(i) = key
      BY <1>7, <1>10, <3>1
    <3>2. CASE KeyOf(i) # key
      <4>1. KeyOf(i) \notin DOMAIN linkGroups
        BY <1>4, <2>2, <3>2
      <4>2. QED
        BY <1>2, <1>10, <4>1 DEF TopologyInv, NoneLost
    <3>3. QED
      BY <3>1, <3>2
  <2>3. QED
    BY <1>2, <2>1, <2>2, ReportsKept DEF NoneLost
<1>14. LinksApart'
  <2>1. \A n \in DOMAIN links' : IsReported(links'[n])
    BY <1>2, <1>6, <1>10 DEF TopologyInv, LinksApart, IsReported
  <2>2. \A n \in DOMAIN links' : IsReported(links[n])'
    BY <1>2, <2>1, KindsKept
  <2>3. \A n \in DOMAIN links' : LinkKey(links'[n].a, links'[n].b) \notin DOMAIN linkGroups'
    BY <1>4, <1>7, <1>10 DEF TopologyInv, LinksApart
  <2>4. QED
    BY <1>2, <1>10, <2>2, <2>3 DEF LinksApart
<1>15. ConflictsSoFar'
  BY <1>2, ReportsKept DEF TopologyInv, ConflictsSoFar
<1>16. QED
  BY <1>11, <1>12, <1>13, <1>14, <1>15 DEF TopologyInv

LEMMA LinksDoneStep ==
  ASSUME TopologyInv, LinksDone
  PROVE  TopologyInv'
<1>1. /\ pc = "link" /\ pc' = "mac" /\ DOMAIN linkGroups = {}
      /\ neighbors' = neighbors /\ addresses' = addresses /\ byLocal' = byLocal /\ remotes' = remotes
      /\ linkGroups' = linkGroups /\ macs' = macs /\ links' = links /\ conflicts' = conflicts
  BY DEF LinksDone
<1>2. TopologyTypeOK'
  BY <1>1 DEF TopologyInv, TopologyTypeOK, Given, IsList
<1>3. GroupsWhole'
  BY <1>1, ReportsKept DEF TopologyInv, GroupsWhole
<1>4. NoneLost'
  BY <1>1, ReportsKept DEF TopologyInv, NoneLost
<1>5. LinksApart'
  <2>1. \A n \in DOMAIN links : IsReported(links[n])'
    BY <1>1, KindsKept DEF TopologyInv, LinksApart
  <2>2. QED
    BY <1>1, <2>1 DEF TopologyInv, LinksApart
<1>6. ConflictsSoFar'
  BY <1>1, ReportsKept DEF TopologyInv, ConflictsSoFar
<1>7. QED
  BY <1>2, <1>3, <1>4, <1>5, <1>6 DEF TopologyInv

LEMMA VisitAddressStep ==
  ASSUME TopologyInv, VisitAddress
  PROVE  TopologyInv'
<1> DEFINE address == Head(macs)
           link == MacLink(address)
<1>1. /\ pc = "mac" /\ pc' = "mac" /\ macs # << >> /\ macs' = Tail(macs)
      /\ neighbors' = neighbors /\ addresses' = addresses /\ byLocal' = byLocal /\ remotes' = remotes
      /\ linkGroups' = linkGroups /\ conflicts' = conflicts
      /\ links' = IF Skipped(address) THEN links ELSE Append(links, link)
  BY DEF VisitAddress
<1>2. Given(neighbors, addresses) /\ IsList(links) /\ IsList(macs) /\ ToSet(macs) \subseteq ToSet(addresses)
      /\ DOMAIN linkGroups = {}
  BY <1>1 DEF TopologyInv, TopologyTypeOK
<1>3. /\ IsList(macs') /\ ToSet(macs') \subseteq ToSet(addresses) /\ address \in ToSet(addresses)
  <2>1. macs \in Seq(ToSet(macs)) /\ macs # << >>
    BY <1>1, <1>2 DEF IsList
  <2>2. Tail(macs) \in Seq(ToSet(macs)) /\ DOMAIN Tail(macs) = 1..Len(macs) - 1 /\ Len(macs) \in Nat
        /\ \A n \in 1..Len(macs) - 1 : Tail(macs)[n] = macs[n + 1]
        /\ Head(macs) = macs[1] /\ DOMAIN macs = 1..Len(macs) /\ 1 \in DOMAIN macs
    BY <2>1
  <2>3. ToSet(Tail(macs)) \subseteq ToSet(macs) /\ Head(macs) \in ToSet(macs)
    BY <2>2 DEF ToSet
  <2>4. IsList(Tail(macs))
    BY <2>2, SequenceIsList
  <2>5. QED
    BY <1>1, <1>2, <2>3, <2>4
<1>4. /\ IsList(links') /\ DOMAIN links \subseteq DOMAIN links'
      /\ \A n \in DOMAIN links : links'[n] = links[n]
      /\ \A n \in DOMAIN links' : n \in DOMAIN links \/ IsLearned(links'[n])
      /\ \A n, m \in DOMAIN links' : n # m => ~SameLink(links'[n], links'[m])
  <2>1. \A n, m \in DOMAIN links : n # m => ~SameLink(links[n], links[m])
    BY DEF TopologyInv, LinksApart
  <2>2. CASE Skipped(address)
    BY <1>1, <1>2, <2>1, <2>2
  <2>3. CASE ~Skipped(address)
    <3>1. IsLearned(link)
      BY <1>3, <2>3 DEF Skipped, IsLearned
    <3>2. ASSUME NEW n \in DOMAIN links PROVE ~SameLink(links[n], link)
      <4>1. CASE IsReported(links[n])
        BY <1>2, <3>1, <4>1, LearnedApart
      <4>2. CASE IsLearned(links[n])
        <5>1. links[n].sources = {"mac_table"}
          BY <4>2 DEF IsLearned, MacLink
        <5>2. QED
          BY <2>3, <3>2, <5>1 DEF Skipped
      <4>3. QED
        BY <3>2, <4>1, <4>2 DEF TopologyInv, LinksApart
    <3>3. links' = Append(links, link)
      BY <1>1, <2>3
    <3> HIDE DEF link, address
    <3>4. /\ IsList(links') /\ DOMAIN links \subseteq DOMAIN links'
          /\ \A n \in DOMAIN links : links'[n] = links[n]
          /\ \A n \in DOMAIN links' : n \in DOMAIN links \/ links'[n] = link
          /\ \A n, m \in DOMAIN links' : n # m => ~SameLink(links'[n], links'[m])
      BY <1>2, <2>1, <3>2, <3>3, LinkAdded
    <3>5. QED
      BY <3>1, <3>4
  <2>4. QED
    BY <2>2, <2>3
<1> HIDE DEF link, address
<1>5. TopologyTypeOK'
  <2>1. ToSet(macs)' = ToSet(macs') /\ ToSet(addresses)' = ToSet(addresses)
    BY <1>1 DEF ToSet
  <2>2. QED
    BY <1>1, <1>3, <1>4, <2>1 DEF TopologyInv, TopologyTypeOK, Given, IsList
<1>6. GroupsWhole'
  BY <1>1, ReportsKept DEF TopologyInv, GroupsWhole
<1>7. NoneLost'
  <2>1. \A i \in UsableReports : \E n \in DOMAIN links' : links'[n].evidence = Keyed(KeyOf(i))
    BY <1>1, <1>2, <1>4 DEF TopologyInv, NoneLost
  <2>2. QED
    BY <1>1, <1>2, <2>1, ReportsKept DEF NoneLost
<1>8. LinksApart'
  <2>1. \A n \in DOMAIN links' : IsReported(links'[n]) \/ IsLearned(links'[n])
    BY <1>4 DEF TopologyInv, LinksApart
  <2>2. \A n \in DOMAIN links' : IsReported(links[n])' \/ IsLearned(links[n])'
    BY <1>1, <2>1, KindsKept
  <2>3. QED
    BY <1>1, <1>2, <1>4, <2>2 DEF LinksApart
<1>9. ConflictsSoFar'
  BY <1>1, ReportsKept DEF TopologyInv, ConflictsSoFar
<1>10. QED
  BY <1>5, <1>6, <1>7, <1>8, <1>9 DEF TopologyInv

LEMMA SortAndReturnStep ==
  ASSUME TopologyInv, SortAndReturn
  PROVE  TopologyInv'
<1>1. /\ pc = "mac" /\ pc' = "done"
      /\ neighbors' = neighbors /\ addresses' = addresses /\ byLocal' = byLocal /\ remotes' = remotes
      /\ linkGroups' = linkGroups /\ macs' = macs
      /\ links' \in Rearranged(links) /\ conflicts' \in Rearranged(conflicts)
      /\ \A i, j \in DOMAIN links : i < j => LinkBefore(links'[i], links'[j])
  BY DEF SortAndReturn
<1>2. IsList(links) /\ IsList(conflicts) /\ DOMAIN linkGroups = {}
  BY <1>1 DEF TopologyInv, TopologyTypeOK
<1>3. IsList(links') /\ DOMAIN links' = DOMAIN links /\ Permuted(links, links')
  BY <1>1, <1>2, RearrangedPermutes
<1>4. IsList(conflicts') /\ DOMAIN conflicts' = DOMAIN conflicts /\ Permuted(conflicts, conflicts')
  BY <1>1, <1>2, RearrangedPermutes
<1>5. TopologyTypeOK'
  BY <1>1, <1>2, <1>3, <1>4 DEF TopologyInv, TopologyTypeOK, Given, IsList
<1>6. GroupsWhole'
  BY <1>1, ReportsKept DEF TopologyInv, GroupsWhole
<1>7. NoneLost'
  <2>1. \A i \in UsableReports : \E n \in DOMAIN links : links[n].evidence = Keyed(KeyOf(i))
    BY <1>1, <1>2 DEF TopologyInv, NoneLost
  <2>2. \A i \in UsableReports : \E n \in DOMAIN links' : links'[n].evidence = Keyed(KeyOf(i))
    BY <1>3, <2>1 DEF Permuted
  <2>3. QED
    BY <1>1, <1>2, <2>2, ReportsKept DEF NoneLost
<1>8. LinksApart'
  <2>1. /\ \A n \in DOMAIN links : IsReported(links[n]) \/ IsLearned(links[n])
        /\ \A n, m \in DOMAIN links : n # m => ~SameLink(links[n], links[m])
    BY DEF TopologyInv, LinksApart
  <2>2. /\ \A n \in DOMAIN links' : IsReported(links'[n]) \/ IsLearned(links'[n])
        /\ \A n, m \in DOMAIN links' : n # m => ~SameLink(links'[n], links'[m])
    BY <1>3, <2>1 DEF Permuted
  <2>3. \A n \in DOMAIN links' : IsReported(links[n])' \/ IsLearned(links[n])'
    BY <1>1, <2>2, KindsKept
  <2>4. QED
    BY <1>1, <1>2, <1>3, <2>2, <2>3 DEF LinksApart
<1>9. ConflictsSoFar'
  <2>1. ConflictsSoFar
    BY DEF TopologyInv
  <2>0. PICK order \in [DOMAIN conflicts -> DOMAIN conflicts] :
          /\ \A n \in DOMAIN conflicts : conflicts'[n] = conflicts[order[n]]
          /\ \A n, m \in DOMAIN conflicts : n # m => order[n] # order[m]
          /\ \A m \in DOMAIN conflicts : \E n \in DOMAIN conflicts : order[n] = m
    BY <1>4 DEF Permuted
  <2>2. \A n \in DOMAIN conflicts' : \E i \in UsableReports :
          /\ conflicts'[n].at.key = Local(i) /\ conflicts'[n].evidence = ReportsAt(Local(i))
          /\ Contested(Local(i)) /\ ReportsAt(Local(i)) \notin byLocal
    <3>1. TAKE n \in DOMAIN conflicts'
    <3>2. order[n] \in DOMAIN conflicts /\ conflicts'[n] = conflicts[order[n]]
      BY <1>4, <2>0
    <3>3. PICK i \in UsableReports :
            /\ conflicts[order[n]].at.key = Local(i) /\ conflicts[order[n]].evidence = ReportsAt(Local(i))
            /\ Contested(Local(i)) /\ ReportsAt(Local(i)) \notin byLocal
      BY <2>1, <3>2 DEF ConflictsSoFar
    <3>4. QED
      BY <3>2, <3>3
  <2>3. \A n, m \in DOMAIN conflicts' : n # m => conflicts'[n].at.key # conflicts'[m].at.key
    BY <1>4, <2>0, <2>1 DEF ConflictsSoFar
  <2>4. \A i \in UsableReports : Contested(Local(i)) =>
          ReportsAt(Local(i)) \in byLocal \/ \E n \in DOMAIN conflicts' : conflicts'[n].at.key = Local(i)
    <3>1. TAKE i \in UsableReports
    <3>2. SUFFICES ASSUME Contested(Local(i)), ReportsAt(Local(i)) \notin byLocal
                   PROVE  \E n \in DOMAIN conflicts' : conflicts'[n].at.key = Local(i)
      OBVIOUS
    <3>3. PICK m \in DOMAIN conflicts : conflicts[m].at.key = Local(i)
      BY <1>1, <2>1, <3>2 DEF ConflictsSoFar
    <3>4. PICK n \in DOMAIN conflicts : order[n] = m
      BY <2>0
    <3>5. QED
      BY <1>4, <2>0, <3>3, <3>4
  <2>5. QED
    BY <1>1, <2>2, <2>3, <2>4, ReportsKept DEF ConflictsSoFar
<1>10. QED
  BY <1>5, <1>6, <1>7, <1>8, <1>9 DEF TopologyInv

LEMMA TopologyStep ==
  ASSUME TopologyInv, TopologyNext \/ UNCHANGED topoVars
  PROVE  TopologyInv'
<1>1. CASE UNCHANGED topoVars
  <2>1. /\ neighbors' = neighbors /\ addresses' = addresses /\ pc' = pc /\ byLocal' = byLocal
        /\ remotes' = remotes /\ linkGroups' = linkGroups /\ macs' = macs /\ links' = links
        /\ conflicts' = conflicts
    BY <1>1 DEF topoVars
  <2>2. TopologyTypeOK'
    BY <2>1 DEF TopologyInv, TopologyTypeOK, Given, IsList
  <2>3. GroupsWhole'
    BY <2>1, ReportsKept DEF TopologyInv, GroupsWhole
  <2>4. NoneLost'
    <3>1. \A i : Joined(i)' <=> Joined(i)
      BY <2>1, ReportsKept DEF Joined
    <3>2. QED
      BY <2>1, <3>1, ReportsKept DEF TopologyInv, NoneLost
  <2>5. LinksApart'
    <3>1. \A n \in DOMAIN links : /\ IsReported(links[n])' <=> IsReported(links[n])
                                  /\ IsLearned(links[n])' <=> IsLearned(links[n])
      BY <2>1, KindsKept
    <3>2. QED
      BY <2>1, <3>1 DEF TopologyInv, LinksApart
  <2>6. ConflictsSoFar'
    BY <2>1, ReportsKept DEF TopologyInv, ConflictsSoFar
  <2>7. QED
    BY <2>2, <2>3, <2>4, <2>5, <2>6 DEF TopologyInv
<1>2. QED
  BY <1>1, VisitLocalStep, VisitRemoteStep, GroupsDoneStep, VisitLinkStep, LinksDoneStep,
     VisitAddressStep, SortAndReturnStep DEF TopologyNext

-----------------------------------------------------------------------------
(***************************************************************************)
(* What the invariant says when Build returns.                             *)
(***************************************************************************)
LEMMA LinksTold == TopologyInv => LinksTellReports
<1> SUFFICES ASSUME TopologyInv, pc = "done" PROVE LinksTellReports
  BY DEF LinksTellReports
<1>1. Given(neighbors, addresses) /\ DOMAIN linkGroups = {}
  BY DEF TopologyInv, TopologyTypeOK
<1>2. \A n \in FromReports : IsReported(links[n])
  <2>1. ASSUME NEW n \in FromReports, IsLearned(links[n]) PROVE FALSE
    BY <2>1 DEF FromReports, IsLearned, MacLink
  <2>2. QED
    BY <2>1 DEF TopologyInv, LinksApart, FromReports
<1>3. ASSUME NEW n \in DOMAIN links, NEW i \in UsableReports, LinkOf(links[n], i)
      PROVE  /\ n \in FromReports /\ links[n].evidence = Reporting(Ends(i)) /\ i \in links[n].evidence
             /\ Tells(links[n], Ends(i))
  <2> DEFINE link == links[n]
             protocols == {neighbors[j].protocol : j \in Keyed(KeyOf(i))}
  <2>1. i \in Keyed(KeyOf(i)) /\ link.evidence = Keyed(KeyOf(i)) /\ Reporting(Ends(i)) = Keyed(KeyOf(i))
    BY <1>1, <1>3, ReportingIsKeyed DEF LinkOf, Keyed
  <2>2. {link.a, link.b} = {neighbors[i].local, neighbors[i].remote}
    BY <1>3 DEF LinkOf
  <2>3. {link.a.key, link.b.key} = Ends(i)
    BY <1>1, <2>2, ReportsTyped DEF Ends
  <2>4. link.sources = protocols /\ link.confidence = Confidence(protocols)
    BY <1>3 DEF LinkOf
  <2>5. /\ Confidence(protocols) >= 80 <=> \E j \in Keyed(KeyOf(i)) : neighbors[j].protocol \in {"lldp", "cdp"}
        /\ Confidence(protocols) = 95 <=> {"lldp", "cdp"} \subseteq protocols
    <3>1. (\E j \in Keyed(KeyOf(i)) : neighbors[j].protocol \in {"lldp", "cdp"})
            <=> {"lldp", "cdp"} \cap protocols # {}
      OBVIOUS
    <3>2. {"lldp", "cdp"} \subseteq protocols => {"lldp", "cdp"} \cap protocols # {}
      OBVIOUS
    <3> HIDE DEF protocols
    <3>3. QED
      BY <3>1, <3>2 DEF Confidence
  <2> HIDE DEF link
  <2>6. Tells(link, Ends(i))
    BY <2>1, <2>2, <2>3, <2>4, <2>5 DEF Tells
  <2>7. QED
    BY <2>1, <2>6 DEF FromReports, link
<1>4. ASSUME NEW i \in UsableReports
      PROVE  \E n \in FromReports :
               /\ Tells(links[n], Ends(i)) /\ i \in links[n].evidence
               /\ \A m \in FromReports : m # n => links[m].evidence \cap links[n].evidence = {}
  <2>1. PICK n \in DOMAIN links : links[n].evidence = Keyed(KeyOf(i))
    BY <1>1 DEF TopologyInv, NoneLost
  <2>2. i \in links[n].evidence /\ n \in FromReports
    BY <2>1 DEF Keyed, FromReports
  <2>3. PICK j \in UsableReports : LinkOf(links[n], j)
    BY <1>2, <2>2 DEF IsReported
  <2>4. KeyOf(j) = KeyOf(i)
    BY <2>2, <2>3 DEF LinkOf, Keyed
  <2>5. Ends(i) = Ends(j)
    BY <1>1, <2>4, KeysTellEnds
  <2>6. Tells(links[n], Ends(i))
    BY <1>3, <2>1, <2>3, <2>5
  <2>7. ASSUME NEW m \in FromReports, m # n
        PROVE  links[m].evidence \cap links[n].evidence = {}
    <3>1. PICK k \in UsableReports : LinkOf(links[m], k)
      BY <1>2, <2>7 DEF IsReported
    <3>2. ~SameLink(links[n], links[m])
      BY <2>1, <2>7 DEF TopologyInv, LinksApart, FromReports
    <3>3. KeyOf(k) # KeyOf(j) /\ links[m].evidence = Keyed(KeyOf(k)) /\ links[n].evidence = Keyed(KeyOf(j))
      BY <2>3, <3>1, <3>2 DEF LinkOf, SameLink
    <3>4. QED
      BY <3>3 DEF Keyed
  <2>8. QED
    BY <2>2, <2>6, <2>7
<1>5. UNION {links[n].evidence : n \in FromReports} = UsableReports
  <2>1. \A n \in FromReports : links[n].evidence \subseteq UsableReports
    <3>1. TAKE n \in FromReports
    <3>2. PICK k \in UsableReports : LinkOf(links[n], k)
      BY <1>2 DEF IsReported
    <3>3. QED
      BY <3>2 DEF LinkOf, Keyed
  <2>2. \A i \in UsableReports : \E n \in FromReports : i \in links[n].evidence
    BY <1>4
  <2>3. QED
    BY <2>1, <2>2
<1>6. QED
  BY <1>4, <1>5 DEF LinksTellReports

LEMMA ConflictsTold == TopologyInv => ConflictsTellReports
<1> SUFFICES ASSUME TopologyInv, pc = "done" PROVE ConflictsTellReports
  BY DEF ConflictsTellReports
<1> DEFINE Disputed == {Local(i) : i \in {i \in UsableReports :
                          \E j \in UsableReports : Local(i) = Local(j) /\ Remote(i) # Remote(j)}}
           c == Len(conflicts)
           at == [n \in 1..c |-> conflicts[n].at.key]
<1>1. \A i \in UsableReports : Local(i) \in Disputed <=> Contested(Local(i))
  BY DEF Contested, ReportsAt
<1>2. \A d \in Disputed : \E i \in UsableReports : d = Local(i) /\ Contested(d)
  BY <1>1
<1>3. c \in Nat /\ DOMAIN conflicts = 1..c
  BY DEF TopologyInv, TopologyTypeOK, IsList
<1>4. \A i \in UsableReports : ReportsAt(Local(i)) \notin byLocal
  BY DEF TopologyInv, TopologyTypeOK
<1> HIDE DEF Disputed, c
<1>5. \A n \in 1..c : \E i \in UsableReports :
        /\ conflicts[n].at.key = Local(i) /\ conflicts[n].evidence = ReportsAt(Local(i))
        /\ Local(i) \in Disputed
  BY <1>1, <1>3 DEF TopologyInv, ConflictsSoFar
<1>6. \A n, m \in 1..c : n # m => conflicts[n].at.key # conflicts[m].at.key
  BY <1>3 DEF TopologyInv, ConflictsSoFar
<1>7. \A d \in Disputed : \E n \in 1..c : conflicts[n].at.key = d
  BY <1>2, <1>3, <1>4 DEF TopologyInv, ConflictsSoFar
<1>8. c = Cardinality(Disputed)
  <2>1. at \in [1..c -> Disputed]
    BY <1>5
  <2>2. at \in Bijection(1..c, Disputed)
    <3>1. \A n, m \in 1..c : at[n] = at[m] => n = m
      BY <1>6
    <3>2. \A d \in Disputed : \E n \in 1..c : at[n] = d
      BY <1>7
    <3> HIDE DEF at
    <3>3. QED
      BY <2>1, <3>1, <3>2 DEF Bijection, Injection, Surjection, IsInjective
  <2>3. IsFiniteSet(1..c) /\ Cardinality(1..c) = c
    <3>1. 1 \in Int /\ c \in Int
      BY <1>3
    <3>2. IsFiniteSet(1..c) /\ Cardinality(1..c) = IF 1 > c THEN 0 ELSE c - 1 + 1
      BY <3>1, FS_Interval
    <3>3. QED
      BY <1>3, <3>2
  <2>4. Cardinality(Disputed) = Cardinality(1..c)
    BY <2>2, <2>3, FS_Bijection DEF ExistsBijection
  <2>5. QED
    BY <2>3, <2>4
<1>9. \A d \in Disputed : \E n \in DOMAIN conflicts :
        conflicts[n].at.key = d /\ conflicts[n].evidence = {i \in UsableReports : Local(i) = d}
  <2>1. TAKE d \in Disputed
  <2>2. PICK n \in 1..c : conflicts[n].at.key = d
    BY <1>7
  <2>3. conflicts[n].evidence = ReportsAt(d)
    BY <1>5, <2>2
  <2>4. QED
    BY <1>3, <2>2, <2>3 DEF ReportsAt
<1>10. QED
  BY <1>8, <1>9 DEF ConflictsTellReports, Disputed, c

LEMMA LinksOrdered == TopologyInv => LinksOnceInOrder
<1> SUFFICES ASSUME TopologyInv, pc = "done" PROVE LinksOnceInOrder
  BY DEF LinksOnceInOrder
<1>1. ASSUME NEW n \in DOMAIN links
      PROVE  links[n].a.key \in Nat /\ links[n].b.key \in Nat
  <2>1. Given(neighbors, addresses)
    BY DEF TopologyInv, TopologyTypeOK
  <2>2. CASE IsReported(links[n])
    <3>1. PICK i \in UsableReports : LinkOf(links[n], i)
      BY <2>2 DEF IsReported
    <3>2. {links[n].a, links[n].b} = {neighbors[i].local, neighbors[i].remote}
      BY <3>1 DEF LinkOf
    <3>3. links[n].a \in Endpoint /\ links[n].b \in Endpoint
      BY <2>1, <3>2, ReportsTyped
    <3>4. QED
      BY <3>3 DEF Endpoint
  <2>3. CASE IsLearned(links[n])
    <3>1. PICK address \in ToSet(addresses) : links[n] = MacLink(address)
      BY <2>3 DEF IsLearned
    <3>2. address.at \in Endpoint /\ address.mac \in Endpoint
      BY <2>1 DEF Given, ToSet
    <3> DEFINE ends == Oriented(address.at, address.mac)
    <3>3. ends[1] \in Endpoint /\ ends[2] \in Endpoint
      BY <3>2, OrientedKey
    <3>4. links[n].a = ends[1] /\ links[n].b = ends[2]
      BY <3>1 DEF MacLink
    <3> HIDE DEF ends
    <3>5. QED
      BY <3>3, <3>4 DEF Endpoint
  <2>4. QED
    BY <1>1, <2>2, <2>3 DEF TopologyInv, LinksApart
<1>2. ASSUME NEW n \in DOMAIN links, NEW m \in DOMAIN links, n < m
      PROVE  ~LinkBefore(links[m], links[n])
  <2>1. LinkBefore(links[n], links[m])
    BY <1>2 DEF TopologyInv, LinksApart
  <2>2. ~SameLink(links[n], links[m])
    <3>1. n # m
      <4>1. DOMAIN links \subseteq Nat
        BY DEF TopologyInv, TopologyTypeOK, IsList
      <4>2. QED
        BY <1>2, <4>1
    <3>2. QED
      BY <3>1 DEF TopologyInv, LinksApart
  <2>3. ~(links[n].a.key = links[m].a.key /\ links[n].b.key = links[m].b.key)
    BY <2>2 DEF SameLink, LinkKey
  <2>4. /\ links[n].a.key \in Nat /\ links[n].b.key \in Nat
        /\ links[m].a.key \in Nat /\ links[m].b.key \in Nat
    BY <1>1
  <2>5. QED
    BY <2>1, <2>3, <2>4 DEF LinkBefore
<1>3. QED
  BY <1>2 DEF LinksOnceInOrder

\* Whatever discovery read, and in whatever order the maps are visited, the topology says what the
\* reports say, once (topology.go:16-51).
THEOREM TopologyAlwaysTellsReports ==
  ASSUME NEW reports, NEW rows, Given(reports, rows)
  PROVE  BuildSpec(reports, rows) => []TopologyTellsReports
<1>1. TopologyIdle => TopologyInv
  BY IdleInv
<1>2. TopologyInv /\ [(pc = "idle" /\ BuildStarts(reports, rows)) \/ TopologyNext]_topoVars
        => TopologyInv'
  BY BuildStartsStep, TopologyStep
<1>3. TopologyInv => TopologyTellsReports
  BY LinksTold, ConflictsTold, LinksOrdered DEF TopologyTellsReports
<1>4. QED
  BY <1>1, <1>2, <1>3, PTL DEF BuildSpec

-----------------------------------------------------------------------------
(***************************************************************************)
(* The differences of two devices, for any devices.                        *)
(***************************************************************************)
\* a list of all of a set, each of it once
Lists(s, S) ==
  /\ s \in Seq(S)
  /\ \A x \in S : \E n \in DOMAIN s : s[n] = x
  /\ \A n, m \in DOMAIN s : n # m => s[n] # s[m]

LEMMA IntervalFinite ==
  ASSUME NEW n \in Nat
  PROVE  IsFiniteSet(1..n) /\ Cardinality(1..n) = n
<1>1. 1 \in Int /\ n \in Int
  OBVIOUS
<1>2. IsFiniteSet(1..n) /\ Cardinality(1..n) = IF 1 > n THEN 0 ELSE n - 1 + 1
  BY <1>1, FS_Interval
<1>3. QED
  BY <1>2

\* Every non-empty set of numbers up to a bound has a greatest member.
LEMMA GreatestElement ==
  ASSUME NEW n \in Nat, NEW S, S \subseteq 1..n, S # {}
  PROVE  \E x \in S : \A y \in S : x >= y
<1> DEFINE R == {ss \in Nat \X Nat : ss[1] < ss[2]}
           Down == {n - x : x \in S}
<1>1. IsWellFoundedOn(R, Nat)
  BY NatLessThanWellFounded DEF OpToRel
<1>2. Down \subseteq Nat /\ Down # {}
  <2>1. \A x \in S : n - x \in Nat
    OBVIOUS
  <2>2. QED
    BY <2>1
<1>3. PICK d \in Down : \A e \in Down : ~(<<e, d>> \in R)
  <2> HIDE DEF R, Down
  <2>1. QED
    BY <1>1, <1>2, WFMin
<1>4. PICK x \in S : d = n - x
  OBVIOUS
<1>5. ASSUME NEW y \in S
      PROVE  x >= y
  <2>1. /\ n - y \in Down /\ n - y \in Nat /\ n - x \in Nat
        /\ x \in Int /\ y \in Int
    BY <1>2
  <2>2. ~(<<n - y, n - x>> \in R)
    BY <1>3, <1>4, <2>1
  <2>3. ~(n - y < n - x)
    BY <2>1, <2>2
  <2>4. QED
    BY <2>1, <2>3
<1>6. QED
  BY <1>5

\* The members of a set that a function gives from a finite one are finite.
LEMMA ImageFinite ==
  ASSUME NEW S, IsFiniteSet(S), NEW f, DOMAIN f = S
  PROVE  IsFiniteSet({f[x] : x \in S})
<1> DEFINE T == {f[x] : x \in S}
           g == [x \in S |-> f[x]]
<1>1. g \in Surjection(S, T)
  BY DEF Surjection
<1> HIDE DEF g, T
<1>2. IsFiniteSet(T)
  BY <1>1, FS_Surjection
<1>3. QED
  BY <1>2 DEF T

LEMMA SetToSeqsList ==
  ASSUME NEW S, IsFiniteSet(S), NEW s \in SetToSeqs(S)
  PROVE  Lists(s, S)
<1> DEFINE c == Cardinality(S)
<1>1. c \in Nat /\ IsFiniteSet(1..c) /\ Cardinality(1..c) = c
  BY FS_CardinalityType, IntervalFinite
<1>2. s \in [1..c -> S] /\ \A i, j \in 1..c : i # j => s[i] # s[j]
  BY DEF SetToSeqs
<1>3. s \in Injection(1..c, S)
  BY <1>2 DEF Injection, IsInjective
<1>4. Cardinality(1..c) = Cardinality(S)
  BY <1>1
<1> HIDE DEF c
<1>5. s \in Surjection(1..c, S)
  BY <1>1, <1>3, <1>4, FS_Injection
<1>6. s \in Seq(S) /\ DOMAIN s = 1..c
  BY <1>1, <1>2
<1>7. QED
  BY <1>2, <1>5, <1>6 DEF Lists, Surjection

LEMMA ListsJoined ==
  ASSUME NEW s, NEW S, NEW t, NEW T, Lists(s, S), Lists(t, T), S \cap T = {}
  PROVE  Lists(s \o t, S \cup T)
<1>1. s \in Seq(S) /\ t \in Seq(T)
  BY DEF Lists
<1> DEFINE a == Len(s)
           b == Len(t)
           u == s \o t
<1>2. /\ a \in Nat /\ b \in Nat /\ DOMAIN s = 1..a /\ DOMAIN t = 1..b
      /\ \A n \in 1..a : s[n] \in S
      /\ \A n \in 1..b : t[n] \in T
  BY <1>1
<1>3. /\ u \in Seq(S \cup T) /\ DOMAIN u = 1..a + b
      /\ \A n \in 1..a : u[n] = s[n]
      /\ \A n \in 1..b : u[a + n] = t[n]
  <2>1. s \in Seq(S \cup T) /\ t \in Seq(S \cup T)
    BY <1>1
  <2>2. QED
    BY <2>1
<1> HIDE DEF a, b, u
<1>4. \A n \in 1..a + b : n \in 1..a \/ \E m \in 1..b : n = a + m
  <2>1. TAKE n \in 1..a + b
  <2>2. n \in 1..a \/ (n - a \in 1..b /\ n = a + (n - a))
    BY <1>2
  <2>3. QED
    BY <2>2
<1>5. \A n \in 1..a : n \in 1..a + b
  BY <1>2
<1>6. \A n \in 1..b : a + n \in 1..a + b
  BY <1>2
<1>7. \A x \in S \cup T : \E n \in DOMAIN u : u[n] = x
  <2>1. \A x \in S : \E n \in 1..a : s[n] = x
    BY <1>2 DEF Lists
  <2>2. \A x \in T : \E n \in 1..b : t[n] = x
    BY <1>2 DEF Lists
  <2>3. QED
    BY <1>3, <1>5, <1>6, <2>1, <2>2
<1>8. ASSUME NEW n \in DOMAIN u, NEW m \in DOMAIN u, u[n] = u[m]
      PROVE  n = m
  <2>1. \A i, j \in 1..a : s[i] = s[j] => i = j
    BY <1>2 DEF Lists
  <2>2. \A i, j \in 1..b : t[i] = t[j] => i = j
    BY <1>2 DEF Lists
  <2>3. CASE n \in 1..a /\ m \in 1..a
    BY <1>3, <1>8, <2>1, <2>3
  <2>4. CASE n \in 1..a /\ \E i \in 1..b : m = a + i
    BY <1>2, <1>3, <1>8, <2>4
  <2>5. CASE m \in 1..a /\ \E i \in 1..b : n = a + i
    BY <1>2, <1>3, <1>8, <2>5
  <2>6. CASE (\E i \in 1..b : n = a + i) /\ (\E i \in 1..b : m = a + i)
    <3>1. PICK i \in 1..b, j \in 1..b : n = a + i /\ m = a + j
      BY <2>6
    <3>2. u[n] = t[i] /\ u[m] = t[j]
      BY <1>3, <3>1
    <3>3. QED
      BY <1>8, <2>2, <3>1, <3>2
  <2>7. /\ n \in 1..a \/ \E i \in 1..b : n = a + i
        /\ m \in 1..a \/ \E i \in 1..b : m = a + i
    BY <1>3, <1>4
  <2>8. QED
    BY <2>3, <2>4, <2>5, <2>6, <2>7
<1>9. Lists(u, S \cup T)
  BY <1>3, <1>7, <1>8 DEF Lists
<1>10. QED
  BY <1>9 DEF u

\* Of what a list tells of some kind there is one or none.
LEMMA ToldOnce ==
  ASSUME NEW s, NEW S, Lists(s, S), NEW K, K \subseteq S,
         \A x, y \in K : x = y
  PROVE  Cardinality({n \in DOMAIN s : s[n] \in K}) = IF K = {} THEN 0 ELSE 1
<1> DEFINE N == {n \in DOMAIN s : s[n] \in K}
<1>1. CASE K = {}
  BY <1>1, FS_EmptySet
<1>2. CASE K # {}
  <2>1. PICK x \in K : TRUE
    BY <1>2
  <2>2. PICK n \in DOMAIN s : s[n] = x
    BY <2>1 DEF Lists
  <2>3. N = {n}
    BY <2>1, <2>2 DEF Lists
  <2> HIDE DEF N
  <2>4. Cardinality(N) = 1
    BY <2>3, FS_Singleton
  <2>5. QED
    BY <1>2, <2>4 DEF N
<1>3. QED
  BY <1>1, <1>2

\* The objects of a list by their keys: finitely many, each an object of the list with its key.
LEMMA LastOfKey ==
  ASSUME NEW items, IsList(items), NEW key
  PROVE  /\ IsFiniteSet(DOMAIN LastByKey(items, key))
         /\ \A k \in DOMAIN LastByKey(items, key) : \E n \in DOMAIN items :
              LastByKey(items, key)[k] = items[n] /\ items[n][key] = k
<1> DEFINE At(k) == {n \in DOMAIN items : items[n][key] = k}
           keys == {items[n][key] : n \in DOMAIN items}
<1>1. Len(items) \in Nat /\ DOMAIN items = 1..Len(items) /\ IsFiniteSet(DOMAIN items)
  <2>1. Len(items) \in Nat /\ DOMAIN items = 1..Len(items)
    BY DEF IsList
  <2>2. QED
    BY <2>1, IntervalFinite
<1>2. /\ DOMAIN LastByKey(items, key) = keys
      /\ \A k \in keys : LastByKey(items, key)[k] = items[Max(At(k))]
  BY DEF LastByKey
<1>3. IsFiniteSet(keys)
  <2> DEFINE f == [n \in DOMAIN items |-> items[n][key]]
  <2>1. DOMAIN f = DOMAIN items /\ keys = {f[n] : n \in DOMAIN items}
    OBVIOUS
  <2> HIDE DEF f, keys
  <2>2. QED
    BY <1>1, <2>1, ImageFinite
<1>4. ASSUME NEW k, At(k) # {}
      PROVE  Max(At(k)) \in At(k)
  <2> DEFINE S == At(k)
  <2>1. S \subseteq 1..Len(items) /\ S # {}
    BY <1>1, <1>4
  <2> HIDE DEF S
  <2>2. \E m \in S : \A n \in S : m >= n
    BY <1>1, <2>1, GreatestElement
  <2>3. Max(S) \in S
    BY <2>2 DEF Max
  <2>4. QED
    BY <2>3 DEF S
<1>5. ASSUME NEW k \in keys
      PROVE  Max(At(k)) \in DOMAIN items /\ items[Max(At(k))][key] = k
  <2>1. At(k) # {}
    OBVIOUS
  <2>2. QED
    BY <1>4, <2>1
<1> HIDE DEF At, keys
<1>6. QED
  BY <1>2, <1>3, <1>5

\* what Devices has to tell of the objects of one kind, of those that altered
ToTellGone(object, old, new) ==
  {Change("removed", object, k, old[k].evidence) : k \in DOMAIN old \ DOMAIN new}

ToTellNew(object, old, new, altered) ==
  {Change("added", object, k, new[k].evidence) : k \in DOMAIN new \ DOMAIN old}
  \cup {Change("changed", object, k, new[k].evidence) : k \in altered}

ToTell(object, old, new, altered) == ToTellGone(object, old, new) \cup ToTellNew(object, old, new, altered)

LEMMA ChangesTold ==
  ASSUME NEW object, NEW old, NEW new, NEW altered, altered \subseteq DOMAIN new,
         IsFiniteSet(DOMAIN old), IsFiniteSet(DOMAIN new),
         NEW first \in SetToSeqs(ToTellGone(object, old, new)),
         NEW second \in SetToSeqs(ToTellNew(object, old, new, altered))
  PROVE  Lists(first \o second, ToTell(object, old, new, altered))
<1> DEFINE gone == DOMAIN old \ DOMAIN new
           came == DOMAIN new \ DOMAIN old
           f == [k \in gone |-> Change("removed", object, k, old[k].evidence)]
           g == [k \in came |-> Change("added", object, k, new[k].evidence)]
           h == [k \in altered |-> Change("changed", object, k, new[k].evidence)]
<1>1. IsFiniteSet(gone) /\ IsFiniteSet(came) /\ IsFiniteSet(altered)
  BY FS_Subset
<1>2. /\ DOMAIN f = gone /\ DOMAIN g = came /\ DOMAIN h = altered
      /\ ToTellGone(object, old, new) = {f[k] : k \in gone}
      /\ ToTellNew(object, old, new, altered) = {g[k] : k \in came} \cup {h[k] : k \in altered}
  BY DEF ToTellGone, ToTellNew
<1>3. ToTellGone(object, old, new) \cap ToTellNew(object, old, new, altered) = {}
  BY DEF ToTellGone, ToTellNew, Change
<1> HIDE DEF gone, came, f, g, h
<1>4. IsFiniteSet({f[k] : k \in gone}) /\ IsFiniteSet({g[k] : k \in came}) /\ IsFiniteSet({h[k] : k \in altered})
  BY <1>1, <1>2, ImageFinite
<1>5. IsFiniteSet(ToTellGone(object, old, new)) /\ IsFiniteSet(ToTellNew(object, old, new, altered))
  <2>1. IsFiniteSet({g[k] : k \in came} \cup {h[k] : k \in altered})
    BY <1>4, FS_Union, Zenon
  <2>2. QED
    BY <1>2, <1>4, <2>1
<1>6. Lists(first, ToTellGone(object, old, new)) /\ Lists(second, ToTellNew(object, old, new, altered))
  BY <1>5, SetToSeqsList
<1>7. QED
  BY <1>3, <1>6, ListsJoined DEF ToTell

\* DiffDevices lists what there is to tell of the VLANs and of the interfaces.
LEMMA DevicesTold ==
  ASSUME NEW before, NEW after, IsDevice(before), IsDevice(after),
         NEW changes \in DiffDevices(before, after)
  PROVE  LET oldVlans == LastByKey(before.vlans, "id")
             newVlans == LastByKey(after.vlans, "id")
             old      == LastByKey(before.interfaces, "name")
             new      == LastByKey(after.interfaces, "name")
         IN Lists(changes,
              ToTell("vlan", oldVlans, newVlans,
                    {k \in DOMAIN oldVlans \cap DOMAIN newVlans : VLANChanged(oldVlans[k], newVlans[k])})
              \cup ToTell("interface", old, new,
                         {k \in DOMAIN old \cap DOMAIN new : InterfaceChanged(old[k], new[k])}))
<1> DEFINE oldVlans == LastByKey(before.vlans, "id")
           newVlans == LastByKey(after.vlans, "id")
           old      == LastByKey(before.interfaces, "name")
           new      == LastByKey(after.interfaces, "name")
           vlansAltered == {k \in DOMAIN oldVlans \cap DOMAIN newVlans : VLANChanged(oldVlans[k], newVlans[k])}
           altered      == {k \in DOMAIN old \cap DOMAIN new : InterfaceChanged(old[k], new[k])}
<1>1. /\ IsFiniteSet(DOMAIN oldVlans) /\ IsFiniteSet(DOMAIN newVlans)
      /\ IsFiniteSet(DOMAIN old) /\ IsFiniteSet(DOMAIN new)
  BY LastOfKey DEF IsDevice
<1>2. vlansAltered \subseteq DOMAIN newVlans /\ altered \subseteq DOMAIN new
  OBVIOUS
<1>3. PICK first \in SetToSeqs(ToTellGone("vlan", oldVlans, newVlans)),
           second \in SetToSeqs(ToTellNew("vlan", oldVlans, newVlans, vlansAltered)),
           third \in SetToSeqs(ToTellGone("interface", old, new)),
           fourth \in SetToSeqs(ToTellNew("interface", old, new, altered)) :
             changes = (first \o second) \o (third \o fourth)
  <2> DEFINE vlans == {s \o t : s \in SetToSeqs(ToTellGone("vlan", oldVlans, newVlans)),
                                t \in SetToSeqs(ToTellNew("vlan", oldVlans, newVlans, vlansAltered))}
             ports == {s \o t : s \in SetToSeqs(ToTellGone("interface", old, new)),
                                t \in SetToSeqs(ToTellNew("interface", old, new, altered))}
  <2> HIDE DEF oldVlans, newVlans, old, new
  <2>1. Changes("vlan", oldVlans, newVlans, VLANChanged) = vlans
    BY DEF Changes, ToTellGone, ToTellNew
  <2>2. Changes("interface", old, new, InterfaceChanged) = ports
    BY DEF Changes, ToTellGone, ToTellNew
  <2>3. changes \in {s \o t : s \in Changes("vlan", oldVlans, newVlans, VLANChanged),
                              t \in Changes("interface", old, new, InterfaceChanged)}
    BY DEF DiffDevices, oldVlans, newVlans, old, new
  <2> HIDE DEF vlans, ports
  <2>4. changes \in {s \o t : s \in vlans, t \in ports}
    BY <2>1, <2>2, <2>3
  <2>5. PICK s \in vlans, t \in ports : changes = s \o t
    BY <2>4
  <2> HIDE DEF vlansAltered, altered
  <2>6. PICK first \in SetToSeqs(ToTellGone("vlan", oldVlans, newVlans)),
             second \in SetToSeqs(ToTellNew("vlan", oldVlans, newVlans, vlansAltered)) : s = first \o second
    <3>1. s \in vlans
      BY <2>5
    <3>2. QED
      BY <3>1 DEF vlans
  <2>7. PICK third \in SetToSeqs(ToTellGone("interface", old, new)),
             fourth \in SetToSeqs(ToTellNew("interface", old, new, altered)) : t = third \o fourth
    <3>1. t \in ports
      BY <2>5
    <3>2. QED
      BY <3>1 DEF ports
  <2>8. QED
    BY <2>5, <2>6, <2>7
<1> HIDE DEF oldVlans, newVlans, old, new, vlansAltered, altered
<1>4. /\ Lists(first \o second, ToTell("vlan", oldVlans, newVlans, vlansAltered))
      /\ Lists(third \o fourth, ToTell("interface", old, new, altered))
  BY <1>1, <1>2, <1>3, ChangesTold
<1>5. ToTell("vlan", oldVlans, newVlans, vlansAltered) \cap ToTell("interface", old, new, altered) = {}
  BY DEF ToTell, ToTellGone, ToTellNew, Change
<1>6. Lists(changes, ToTell("vlan", oldVlans, newVlans, vlansAltered) \cup ToTell("interface", old, new, altered))
  BY <1>3, <1>4, <1>5, ListsJoined
<1>7. QED
  BY <1>6 DEF oldVlans, newVlans, old, new, vlansAltered, altered

\* Two interfaces of one name differ in what they are just where InterfaceChanged compares them.
LEMMA ContentCompared ==
  ASSUME NEW old, NEW new, old["name"] = new["name"],
         DOMAIN old = DOMAIN NewInterface(None, << >>), DOMAIN new = DOMAIN NewInterface(None, << >>)
  PROVE  Content(old) # Content(new) <=> InterfaceChanged(old, new)
<1> DEFINE fields == {"name", "description", "mode", "access", "trunk", "ipv4", "shutdown"}
<1>1. DOMAIN old \ {"evidence"} = fields /\ DOMAIN new \ {"evidence"} = fields
  BY DEF NewInterface
<1>2. Content(old) = [field \in fields |-> old[field]] /\ Content(new) = [field \in fields |-> new[field]]
  BY <1>1 DEF Content
<1>3. Content(old) = Content(new) <=> \A field \in fields : old[field] = new[field]
  BY <1>2
<1>4. QED
  BY <1>3 DEF InterfaceChanged

\* A list of what there is to tell of the objects of one kind and of others tells each object of
\* that kind once.
LEMMA KindToldOnce ==
  ASSUME NEW object, NEW old, NEW new, NEW altered, NEW others, NEW changes,
         altered \subseteq DOMAIN old \cap DOMAIN new,
         \A c \in others : c.object # object,
         Lists(changes, ToTell(object, old, new, altered) \cup others)
  PROVE  ToldOnceEach(changes, object, old, new, altered)
<1> DEFINE P == ToTell(object, old, new, altered)
           Of(key, type) == {c \in P \cup others : c.object = object /\ c.key = key /\ c.type = type}
           Told(key, type) == Cardinality({n \in DOMAIN changes :
                                /\ changes[n].object = object
                                /\ changes[n].key = key /\ changes[n].type = type})
<1>1. P = {Change("removed", object, k, old[k].evidence) : k \in DOMAIN old \ DOMAIN new}
          \cup {Change("added", object, k, new[k].evidence) : k \in DOMAIN new \ DOMAIN old}
          \cup {Change("changed", object, k, new[k].evidence) : k \in altered}
  BY DEF ToTell, ToTellGone, ToTellNew
<1>2. Lists(changes, P \cup others)
  OBVIOUS
<1> HIDE DEF P
<1>3. ASSUME NEW key
      PROVE  /\ Of(key, "removed") = IF key \in DOMAIN old \ DOMAIN new
                                     THEN {Change("removed", object, key, old[key].evidence)} ELSE {}
             /\ Of(key, "added") = IF key \in DOMAIN new \ DOMAIN old
                                   THEN {Change("added", object, key, new[key].evidence)} ELSE {}
             /\ Of(key, "changed") = IF key \in altered
                                     THEN {Change("changed", object, key, new[key].evidence)} ELSE {}
  BY <1>1 DEF Change
<1>4. ASSUME NEW key, NEW type, \A c, d \in Of(key, type) : c = d
      PROVE  Told(key, type) = IF Of(key, type) = {} THEN 0 ELSE 1
  <2> DEFINE K == Of(key, type)
  <2>1. K \subseteq P \cup others /\ \A c, d \in K : c = d
    BY <1>4
  <2>2. \A n \in DOMAIN changes : changes[n] \in P \cup others
    BY <1>2 DEF Lists
  <2>3. {n \in DOMAIN changes : changes[n] \in K}
          = {n \in DOMAIN changes : changes[n].object = object /\ changes[n].key = key /\ changes[n].type = type}
    BY <2>2
  <2> HIDE DEF K
  <2>4. Cardinality({n \in DOMAIN changes : changes[n] \in K}) = IF K = {} THEN 0 ELSE 1
    BY <1>2, <2>1, ToldOnce
  <2>5. QED
    BY <2>3, <2>4 DEF K
<1>5. ASSUME NEW key
      PROVE  /\ Told(key, "removed") = IF key \in DOMAIN old \ DOMAIN new THEN 1 ELSE 0
             /\ Told(key, "added") = IF key \in DOMAIN new \ DOMAIN old THEN 1 ELSE 0
             /\ Told(key, "changed") = IF key \in altered THEN 1 ELSE 0
  <2>1. /\ \A c, d \in Of(key, "removed") : c = d
        /\ Of(key, "removed") = {} <=> key \notin DOMAIN old \ DOMAIN new
    BY <1>3
  <2>2. /\ \A c, d \in Of(key, "added") : c = d
        /\ Of(key, "added") = {} <=> key \notin DOMAIN new \ DOMAIN old
    BY <1>3
  <2>3. /\ \A c, d \in Of(key, "changed") : c = d
        /\ Of(key, "changed") = {} <=> key \notin altered
    BY <1>3
  <2> HIDE DEF Of, Told
  <2>4. QED
    BY <1>4, <2>1, <2>2, <2>3
<1> HIDE DEF Told
<1>6. \A key \in DOMAIN old \cup DOMAIN new :
        /\ Told(key, "removed") = IF key \notin DOMAIN new THEN 1 ELSE 0
        /\ Told(key, "added") = IF key \notin DOMAIN old THEN 1 ELSE 0
        /\ Told(key, "changed") = IF key \in altered THEN 1 ELSE 0
  BY <1>5
<1>7. \A n \in DOMAIN changes : changes[n].object = object => changes[n].key \in DOMAIN old \cup DOMAIN new
  <2>1. TAKE n \in DOMAIN changes
  <2>2. changes[n] \in P \cup others
    BY <1>2 DEF Lists
  <2>3. \A c \in P : c.key \in DOMAIN old \cup DOMAIN new
    BY <1>1 DEF Change
  <2>4. QED
    BY <2>2, <2>3
<1>8. QED
  BY <1>6, <1>7 DEF ToldOnceEach, Told

\* Whatever two devices, and in whatever order their maps are gone through, diff.Devices tells
\* what differs between their VLANs and interfaces, each once (diff.go:22-73).
THEOREM DiffTellsDifference ==
  ASSUME NEW before, NEW after, IsDevice(before), IsDevice(after),
         NEW changes \in DiffDevices(before, after)
  PROVE  TellsDifference(changes, before, after)
<1> DEFINE oldVlans == LastByKey(before.vlans, "id")
           newVlans == LastByKey(after.vlans, "id")
           old      == LastByKey(before.interfaces, "name")
           new      == LastByKey(after.interfaces, "name")
           altered  == {k \in DOMAIN old \cap DOMAIN new : InterfaceChanged(old[k], new[k])}
           others   == {k \in DOMAIN old \cap DOMAIN new : Content(old[k]) # Content(new[k])}
           vlansAltered == {k \in DOMAIN oldVlans \cap DOMAIN newVlans : VLANChanged(oldVlans[k], newVlans[k])}
           renamed  == {k \in DOMAIN oldVlans \cap DOMAIN newVlans : oldVlans[k].name # newVlans[k].name}
           V == ToTell("vlan", oldVlans, newVlans, vlansAltered)
           P == ToTell("interface", old, new, altered)
<1>1. Lists(changes, V \cup P)
  BY DevicesTold
<1>2. altered = others
  <2>1. \A k \in DOMAIN old \cap DOMAIN new : InterfaceChanged(old[k], new[k]) <=> Content(old[k]) # Content(new[k])
    <3>1. TAKE k \in DOMAIN old \cap DOMAIN new
    <3>2. /\ \E n \in DOMAIN before.interfaces : old[k] = before.interfaces[n] /\ before.interfaces[n]["name"] = k
          /\ \E n \in DOMAIN after.interfaces : new[k] = after.interfaces[n] /\ after.interfaces[n]["name"] = k
      BY LastOfKey DEF IsDevice
    <3>3. /\ old[k]["name"] = new[k]["name"]
          /\ DOMAIN old[k] = DOMAIN NewInterface(None, << >>) /\ DOMAIN new[k] = DOMAIN NewInterface(None, << >>)
      BY <3>2 DEF IsDevice
    <3> HIDE DEF old, new
    <3>4. Content(old[k]) # Content(new[k]) <=> InterfaceChanged(old[k], new[k])
      BY <3>3, ContentCompared
    <3>5. QED
      BY <3>4
  <2> HIDE DEF old, new
  <2>2. QED
    BY <2>1
<1>3. vlansAltered = renamed
  BY DEF VLANChanged
<1>4. /\ altered \subseteq DOMAIN old \cap DOMAIN new
      /\ vlansAltered \subseteq DOMAIN oldVlans \cap DOMAIN newVlans
  OBVIOUS
<1> HIDE DEF oldVlans, newVlans, old, new, altered, vlansAltered, others, renamed
<1>5. (\A c \in V : c.object = "vlan") /\ (\A c \in P : c.object = "interface")
  BY DEF ToTell, ToTellGone, ToTellNew, Change
<1>6. Lists(changes, P \cup V)
  <2>1. V \cup P = P \cup V
    OBVIOUS
  <2>2. QED
    BY <1>1, <2>1
<1>7. ToldOnceEach(changes, "vlan", oldVlans, newVlans, vlansAltered)
  <2>1. \A c \in P : c.object # "vlan"
    BY <1>5
  <2> HIDE DEF P
  <2>2. QED
    BY <1>1, <1>4, <2>1, KindToldOnce
<1>8. ToldOnceEach(changes, "interface", old, new, altered)
  <2>1. \A c \in V : c.object # "interface"
    BY <1>5
  <2> HIDE DEF V
  <2>2. QED
    BY <1>4, <1>6, <2>1, KindToldOnce
<1>9. QED
  BY <1>2, <1>3, <1>7, <1>8 DEF TellsDifference, oldVlans, newVlans, old, new, others, renamed

-----------------------------------------------------------------------------
(***************************************************************************)
(* The inductive strengthening of ChangesTellDifference.                   *)
(***************************************************************************)
LEMMA TailShorter ==
  ASSUME NEW S, NEW s \in Seq(S), s # << >>
  PROVE  Tail(s) \in Seq(S) /\ Len(Tail(s)) = Len(s) - 1 /\ Len(s) \in Nat
<1>1. Len(s) \in Nat /\ Len(s) # 0
  OBVIOUS
<1>2. Tail(s) \in Seq(S)
  OBVIOUS
<1>3. Len(Tail(s)) = Len(s) - 1
  BY <1>1
<1>4. QED
  BY <1>1, <1>2, <1>3

\* A "diff" whose state a step leaves alone is as it was.
LEMMA DiffAsBefore ==
  ASSUME NEW p \in Procs, DiffOfTwo(p),
         stage'[p] = stage[p], todo'[p] = todo[p], loaded'[p] = loaded[p], answer'[p] = answer[p]
  PROVE  DiffOfTwo(p)'
BY DEF DiffOfTwo

\* What a step of one process does to the others' "diff": nothing.
LEMMA OthersDiffKept ==
  ASSUME DiffInv, NEW p \in Procs,
         session' = session, DOMAIN answer' = Procs,
         \A q \in Procs \ {p} : /\ stage'[q] = stage[q] /\ todo'[q] = todo[q]
                                /\ loaded'[q] = loaded[q] /\ answer'[q] = answer[q],
         job(p).cmd = "diff" => DiffOfTwo(p)'
  PROVE  DiffInv'
<1>1. \A q \in Procs : job(q)' = job(q)
  BY DEF job
<1>2. ASSUME NEW q \in Procs, job(q).cmd = "diff"
      PROVE  DiffOfTwo(q)'
  <2>1. CASE q = p
    BY <1>2, <2>1
  <2>2. CASE q # p
    BY <1>2, <2>2, DiffAsBefore DEF DiffInv
  <2>3. QED
    BY <2>1, <2>2
<1>3. \A q \in Procs : job(q)'.cmd = "diff" => DiffOfTwo(q)'
  BY <1>1, <1>2
<1>4. \/ \E n \in DOMAIN Sessions : session' \in Sessions[n]
      \/ \A q \in Procs : job(q)'.cmd = "none"
  BY <1>1 DEF DiffInv
<1>5. QED
  BY <1>3, <1>4 DEF DiffInv

LEMMA DiffInit == OfflineInit => DiffInv
<1>1. CASE \E n \in DOMAIN Sessions : NetcInit(Sessions[n])
  BY <1>1 DEF NetcInit, DiffInv, DiffOfTwo, IsList, ToSet
<1>2. CASE NetcInit({[files |-> << >>, jobs |-> [p \in Procs |-> [cmd |-> "none"]]]})
  <2>1. \A p \in Procs : job(p).cmd = "none"
    BY <1>2 DEF NetcInit, job
  <2>2. QED
    BY <1>2, <2>1 DEF NetcInit, DiffInv
<1>3. QED
  BY <1>1, <1>2 DEF OfflineInit

\* A "diff" has a session of Sessions: two paths, of files that make devices.
LEMMA DiffHasTwo ==
  ASSUME DiffInv, NEW p \in Procs, job(p).cmd = "diff"
  PROVE  /\ IsList(Inputs(p)) /\ Len(Inputs(p)) = 2
         /\ \A file \in Readings(session) : Selected(job(p).vendor, file) \in Vendors =>
              \A dev \in ParseFile(Selected(job(p).vendor, file), file.text) : IsDevice(dev)
<1>1. PICK n \in DOMAIN Sessions : session \in Sessions[n]
  BY DEF DiffInv
<1>2. Inputs(p) = session.jobs[p].inputs
  BY DEF Inputs, job
<1>3. QED
  BY <1>1, <1>2, SessionsAssumption DEF job

LEMMA DiffBegins ==
  ASSUME NetcInv, DiffInv, NEW p \in Procs, Begin(p)
  PROVE  DiffInv'
<1>1. /\ stage[p] = "start" /\ todo'[p] = Inputs(p)
      /\ session' = session /\ loaded' = loaded /\ answer' = answer
      /\ \A q \in Procs \ {p} : stage'[q] = stage[q] /\ todo'[q] = todo[q]
  BY DEF Begin, Become, NetcInv, NetcTypeOK
<1>2. ASSUME job(p).cmd = "diff"
      PROVE  DiffOfTwo(p)'
  <2>1. stage'[p] \in {"parse", "failed"}
    BY <1>2 DEF Begin, Become, NetcInv, NetcTypeOK
  <2>2. loaded'[p] = << >>
    BY <1>1, <1>2 DEF DiffInv, DiffOfTwo
  <2>3. IsList(todo'[p]) /\ Len(todo'[p]) = 2
    BY <1>1, <1>2, DiffHasTwo
  <2>4. QED
    BY <2>1, <2>2, <2>3 DEF DiffOfTwo
<1>3. QED
  BY <1>1, <1>2, OthersDiffKept DEF DiffInv

LEMMA DiffParsesNext ==
  ASSUME NetcInv, DiffInv, NEW p \in Procs, ParseNext(p)
  PROVE  DiffInv'
<1>1. /\ stage[p] = "parse" /\ todo[p] # << >>
      /\ session' = session /\ answer' = answer
      /\ \A q \in Procs \ {p} : stage'[q] = stage[q] /\ loaded'[q] = loaded[q] /\ todo'[q] = todo[q]
  BY DEF ParseNext, Become, NetcInv, NetcTypeOK
<1>2. ASSUME job(p).cmd = "diff"
      PROVE  DiffOfTwo(p)'
  <2> DEFINE file == File(Head(todo[p]))
             vendor == Selected(job(p).vendor, file)
  <2>1. /\ \A n \in DOMAIN loaded[p] : IsDevice(loaded[p][n].dev)
        /\ IsList(todo[p]) /\ Len(loaded[p]) + Len(todo[p]) = 2
    BY <1>1, <1>2 DEF DiffInv, DiffOfTwo
  <2>2. CASE stage'[p] \in {"failed", "dead"} /\ loaded'[p] = loaded[p]
    BY <2>1, <2>2 DEF DiffOfTwo
  <2>3. CASE /\ IsThere(Head(todo[p])) /\ vendor \in Vendors
             /\ stage' = stage /\ todo' = [todo EXCEPT ![p] = Tail(@)]
             /\ \E dev \in ParseFile(vendor, file.text) :
                  loaded' = [loaded EXCEPT ![p] = Append(@, [dev |-> dev, text |-> file.text, vendor |-> vendor])]
    <3>1. file \in Readings(session)
      BY <2>3 DEF Readings, File, IsThere, ToSet
    <3>2. PICK dev \in ParseFile(vendor, file.text) :
             loaded' = [loaded EXCEPT ![p] = Append(@, [dev |-> dev, text |-> file.text, vendor |-> vendor])]
      BY <2>3
    <3>3. IsDevice(dev)
      <4> HIDE DEF file
      <4>1. QED
        BY <1>2, <2>3, <3>1, <3>2, DiffHasTwo
    <3> DEFINE record == [dev |-> dev, text |-> file.text, vendor |-> vendor]
    <3>4. record.dev = dev
      OBVIOUS
    <3>5. stage'[p] = "parse" /\ todo'[p] = Tail(todo[p]) /\ loaded'[p] = Append(loaded[p], record)
      BY <2>3, <3>2, <1>1 DEF ParseNext, NetcInv, NetcTypeOK
    <3> HIDE DEF record, file, vendor
    <3>6. /\ DOMAIN loaded'[p] = 1..Len(loaded[p]) + 1 /\ Len(loaded'[p]) = Len(loaded[p]) + 1
          /\ Len(loaded[p]) \in Nat /\ DOMAIN loaded[p] = 1..Len(loaded[p])
          /\ \A n \in 1..Len(loaded[p]) : loaded'[p][n] = loaded[p][n]
          /\ loaded'[p][Len(loaded[p]) + 1] = record
      <4>1. IsList(loaded[p])
        BY DEF NetcInv, NetcTypeOK
      <4>2. Len(Append(loaded[p], record)) = Len(loaded[p]) + 1
        BY <4>1 DEF IsList
      <4>3. QED
        BY <3>5, <4>1, <4>2, Appended
    <3>7. \A n \in DOMAIN loaded'[p] : IsDevice(loaded'[p][n].dev)
      <4>1. TAKE n \in DOMAIN loaded'[p]
      <4>2. n \in 1..Len(loaded[p]) \/ n = Len(loaded[p]) + 1
        BY <3>6
      <4>3. QED
        BY <2>1, <3>3, <3>4, <3>6, <4>2
    <3>8. IsList(todo'[p]) /\ Len(todo'[p]) = Len(todo[p]) - 1 /\ Len(todo[p]) \in Nat
      <4>1. todo[p] \in Seq(ToSet(todo[p]))
        BY <2>1 DEF IsList
      <4>2. Tail(todo[p]) \in Seq(ToSet(todo[p])) /\ Len(Tail(todo[p])) = Len(todo[p]) - 1
        BY <1>1, <4>1, TailShorter
      <4>3. QED
        BY <1>1, <3>5, <4>1, <4>2, SequenceIsList, TailShorter
    <3>9. Len(loaded'[p]) + Len(todo'[p]) = 2
      <4> DEFINE a == Len(loaded[p])
                 b == Len(todo[p])
      <4>1. a + b = 2 /\ a \in Nat /\ b \in Nat
        BY <2>1, <3>6, <3>8
      <4>2. Len(loaded'[p]) = a + 1 /\ Len(todo'[p]) = b - 1
        BY <3>6, <3>8
      <4> HIDE DEF a, b
      <4>3. QED
        BY <4>1, <4>2
    <3>10. QED
      BY <3>5, <3>7, <3>8, <3>9 DEF DiffOfTwo
  <2>4. QED
    <3>1. \/ stage'[p] = "failed" /\ loaded'[p] = loaded[p]
          \/ stage'[p] = "dead" /\ loaded'[p] = loaded[p]
          \/ /\ IsThere(Head(todo[p])) /\ vendor \in Vendors
             /\ stage' = stage /\ todo' = [todo EXCEPT ![p] = Tail(@)]
             /\ \E dev \in ParseFile(vendor, file.text) :
                  loaded' = [loaded EXCEPT ![p] = Append(@, [dev |-> dev, text |-> file.text, vendor |-> vendor])]
      BY DEF ParseNext, Become, NetcInv, NetcTypeOK
    <3> HIDE DEF file, vendor
    <3>2. QED
      BY <2>2, <2>3, <3>1
<1>3. QED
  BY <1>1, <1>2, OthersDiffKept DEF DiffInv

LEMMA DiffAllParsed ==
  ASSUME NetcInv, DiffInv, NEW p \in Procs, AllParsed(p)
  PROVE  DiffInv'
<1>1. /\ stage[p] = "parse" /\ todo[p] = << >>
      /\ stage'[p] = IF job(p).cmd = "ingest" THEN "open" ELSE "answer"
      /\ UNCHANGED <<session, todo, loaded, answer>>
      /\ \A q \in Procs \ {p} : stage'[q] = stage[q]
  BY DEF AllParsed, Become, NetcInv, NetcTypeOK
<1>2. ASSUME job(p).cmd = "diff"
      PROVE  DiffOfTwo(p)'
  <2>1. Len(loaded[p]) + Len(todo[p]) = 2 /\ \A n \in DOMAIN loaded[p] : IsDevice(loaded[p][n].dev)
    BY <1>1, <1>2 DEF DiffInv, DiffOfTwo
  <2>2. Len(todo[p]) = 0 /\ Len(loaded[p]) \in Nat
    BY <1>1 DEF NetcInv, NetcTypeOK, IsList
  <2>3. Len(loaded[p]) = 2
    BY <2>1, <2>2
  <2>4. stage'[p] = "answer" /\ loaded'[p] = loaded[p]
    BY <1>1, <1>2
  <2>5. QED
    BY <2>1, <2>3, <2>4 DEF DiffOfTwo
<1>3. QED
  BY <1>1, <1>2, OthersDiffKept DEF DiffInv

\* A reader changes nothing but its own stage, devices and place in the file.
LEMMA OthersUnread ==
  ASSUME NetcInv, NEW p \in Procs, ReadCell(p) \/ ReadEnd(p)
  PROVE  /\ stage[p] = "scan" /\ stage'[p] \in {"scan", "answer", "failed", "garbled"}
         /\ UNCHANGED <<session, todo, answer>>
         /\ \A q \in Procs \ {p} : stage'[q] = stage[q] /\ loaded'[q] = loaded[q]
<1>1. stage[p] = "scan" /\ UNCHANGED <<session, todo, answer>> /\ stage \in [Procs -> Stages] /\ DOMAIN loaded = Procs
  BY DEF ReadCell, ReadEnd, NetcInv, NetcTypeOK
<1>2. ASSUME NEW line, NEW to \in {"scan", "answer"}, Decode(p, line, to)
      PROVE  /\ stage'[p] \in {"scan", "answer", "failed", "garbled"}
             /\ \A q \in Procs \ {p} : stage'[q] = stage[q] /\ loaded'[q] = loaded[q]
  BY <1>1, <1>2 DEF Decode, Become
<1>3. CASE \E line : \E to \in {"scan", "answer"} : Decode(p, line, to)
  BY <1>1, <1>2, <1>3
<1>4. CASE stage' = stage /\ loaded' = loaded
  BY <1>1, <1>4
<1>5. CASE Become(p, "answer") /\ loaded' = loaded
  BY <1>1, <1>5 DEF Become
<1>6. QED
  BY <1>3, <1>4, <1>5 DEF ReadCell, ReadEnd

\* A "diff" neither writes the inventory nor reads it.
LEMMA DiffWritesNothing ==
  ASSUME NetcInv, DiffInv, NEW p \in Procs,
         \/ OpenInventory(p) \/ WriteCell(p) \/ WriteFails(p) \/ Written(p) \/ Crash(p)
         \/ OpenForReading(p) \/ ReadCell(p) \/ ReadEnd(p)
  PROVE  DiffInv'
<1>1. stage[p] \in {"open", "write", "read", "scan"}
  BY DEF OpenInventory, WriteCell, WriteFails, Written, Crash, OpenForReading, ReadCell, ReadEnd
<1>2. job(p).cmd # "diff"
  BY <1>1 DEF DiffInv, DiffOfTwo
<1>3. /\ session' = session /\ DOMAIN answer' = Procs
      /\ \A q \in Procs \ {p} : /\ stage'[q] = stage[q] /\ todo'[q] = todo[q]
                                /\ loaded'[q] = loaded[q] /\ answer'[q] = answer[q]
  <2>1. CASE ReadCell(p) \/ ReadEnd(p)
    BY <2>1, OthersUnread DEF DiffInv
  <2>2. CASE OpenInventory(p) \/ WriteCell(p) \/ WriteFails(p) \/ Written(p) \/ Crash(p) \/ OpenForReading(p)
    BY <2>2 DEF OpenInventory, WriteCell, WriteFails, Written, Crash, OpenForReading, Become, DiffInv, NetcInv,
                NetcTypeOK
  <2>3. QED
    BY <2>1, <2>2
<1>4. QED
  BY <1>2, <1>3, OthersDiffKept

LEMMA DiffAnswers ==
  ASSUME NetcInv, DiffInv, NEW p \in Procs, Answer(p)
  PROVE  DiffInv'
<1>1. /\ stage[p] = "answer" /\ stage'[p] \in {"done", "failed"}
      /\ UNCHANGED <<session, todo, loaded>> /\ DOMAIN answer' = Procs
      /\ \A q \in Procs \ {p} : stage'[q] = stage[q] /\ answer'[q] = answer[q]
  BY DEF Answer, Become, DiffInv, NetcInv, NetcTypeOK
<1>2. ASSUME job(p).cmd = "diff"
      PROVE  DiffOfTwo(p)'
  <2>1. answer'[p] \in Answers(job(p), loaded[p])
    BY <1>2 DEF Answer, DiffInv
  <2>2. Len(loaded[p]) = 2 /\ \A n \in DOMAIN loaded[p] : IsDevice(loaded[p][n].dev)
    BY <1>1, <1>2 DEF DiffInv, DiffOfTwo
  <2>3. 1 \in DOMAIN loaded[p] /\ 2 \in DOMAIN loaded[p]
    BY <2>2 DEF NetcInv, NetcTypeOK, IsList
  <2>4. Answers(job(p), loaded[p]) = DiffDevices(loaded[p][1].dev, loaded[p][2].dev)
    <3> DEFINE devices == [n \in DOMAIN loaded[p] |-> loaded[p][n].dev]
    <3>1. Answers(job(p), loaded[p]) = DiffDevices(devices[1], devices[2])
      <4> HIDE DEF devices
      <4>1. QED
        BY <1>2 DEF Answers, devices
    <3>2. devices[1] = loaded[p][1].dev /\ devices[2] = loaded[p][2].dev
      BY <2>3
    <3> HIDE DEF devices
    <3>3. QED
      BY <3>1, <3>2
  <2>5. QED
    BY <1>1, <2>1, <2>2, <2>4 DEF DiffOfTwo
<1>3. QED
  BY <1>1, <1>2, OthersDiffKept

LEMMA DiffStep == NetcInv /\ DiffInv /\ [OfflineNext]_OfflineVars => DiffInv'
<1>1. ASSUME NetcInv, DiffInv, NetcNext
      PROVE  DiffInv'
  BY <1>1, DiffBegins, DiffParsesNext, DiffAllParsed, DiffWritesNothing, DiffAnswers DEF NetcNext
<1>2. ASSUME DiffInv, UNCHANGED netcVars
      PROVE  DiffInv'
  BY <1>2 DEF DiffInv, DiffOfTwo, netcVars, job
<1>3. QED
  BY <1>1, <1>2 DEF OfflineNext, OfflineVars

LEMMA DiffInvTells == NetcInv /\ DiffInv => ChangesTellDifference
<1>1. SUFFICES ASSUME NetcInv, DiffInv, NEW p \in Procs, stage[p] = "done", job(p).cmd = "diff"
               PROVE  TellsDifference(answer[p], loaded[p][1].dev, loaded[p][2].dev)
  BY DEF ChangesTellDifference, Printed
<1>2. /\ Len(loaded[p]) = 2 /\ \A n \in DOMAIN loaded[p] : IsDevice(loaded[p][n].dev)
      /\ answer[p] \in DiffDevices(loaded[p][1].dev, loaded[p][2].dev)
  BY <1>1 DEF DiffInv, DiffOfTwo
<1>3. 1 \in DOMAIN loaded[p] /\ 2 \in DOMAIN loaded[p]
  BY <1>1, <1>2 DEF NetcInv, NetcTypeOK, IsList
<1>4. QED
  BY <1>2, <1>3, DiffTellsDifference

\* Whatever the two files and whoever else runs, every "diff" that ends tells each VLAN and each interface
\* that one device has and the other has not, each VLAN of another name and each interface with another
\* content, once, and no other. Routes, access lists, services and host names it does not compare
\* (diff.go:19-73).
THEOREM ChangesAlwaysTell == OfflineSpec => []ChangesTellDifference
<1>1. OfflineInit => NetcInv /\ DiffInv
  BY InitInv, DiffInit
<1>2. NetcInv /\ DiffInv /\ [OfflineNext]_OfflineVars => (NetcInv /\ DiffInv)'
  BY StepInv, DiffStep
<1>3. NetcInv /\ DiffInv => ChangesTellDifference
  BY DiffInvTells
<1>4. QED
  BY <1>1, <1>2, <1>3, PTL DEF OfflineSpec

-----------------------------------------------------------------------------
(***************************************************************************)
(* Lists, and one list made of several.                                    *)
(***************************************************************************)
\* Every non-empty set of naturals, finite or not, has a least member.
LEMMA LeastNatural ==
  ASSUME NEW S, S \subseteq Nat, S # {}
  PROVE  \E n \in S : \A m \in S : n <= m
<1> DEFINE R == {ss \in Nat \X Nat : ss[1] < ss[2]}
<1>1. IsWellFoundedOn(R, Nat)
  BY NatLessThanWellFounded DEF OpToRel
<1> HIDE DEF R
<1>2. PICK n \in S : \A m \in S : ~(<<m, n>> \in R)
  BY <1>1, WFMin
<1>3. ASSUME NEW m \in S
      PROVE  n <= m
  <2>1. ~(<<m, n>> \in R) /\ n \in Nat /\ m \in Nat
    BY <1>2
  <2>2. QED
    BY <2>1 DEF R
<1>4. QED
  BY <1>3

\* A list is a sequence, and its places are the numbers up to its length.
LEMMA ListLength ==
  ASSUME NEW s, IsList(s)
  PROVE  Len(s) \in Nat /\ DOMAIN s = 1..Len(s) /\ s \in Seq(ToSet(s)) /\ (s = << >> <=> Len(s) = 0)
BY DEF IsList

\* Two lists, one after the other.
LEMMA ListsConcat ==
  ASSUME NEW s, NEW t, IsList(s), IsList(t)
  PROVE  /\ IsList(s \o t) /\ Len(s \o t) = Len(s) + Len(t)
         /\ \A n \in 1 .. Len(s) : (s \o t)[n] = s[n]
         /\ \A n \in 1 .. Len(t) : (s \o t)[Len(s) + n] = t[n]
         /\ \A n \in DOMAIN (s \o t) : n \in DOMAIN s \/ (n > Len(s) /\ n - Len(s) \in DOMAIN t /\ (s \o t)[n] = t[n - Len(s)])
<1> DEFINE S == ToSet(s) \cup ToSet(t)
<1>1. s \in Seq(S) /\ t \in Seq(S)
  BY ListLength
<1>2. s \o t \in Seq(S)
  BY <1>1
<1>3. IsList(s \o t)
  BY <1>2, SequenceIsList
<1> HIDE DEF S
<1>4. QED
  BY <1>1, <1>2, <1>3

-----------------------------------------------------------------------------
\* each place of a list is a place of one of the first k of some lists, and each of those one of it
Spread(t, ss, k, row, col) ==
  /\ \A n \in DOMAIN t : /\ row[n] \in 1..k /\ col[n] \in DOMAIN ss[row[n]]
                         /\ t[n] = ss[row[n]][col[n]]
  /\ \A j \in 1..k : \A m \in DOMAIN ss[j] : \E n \in DOMAIN t : row[n] = j /\ col[n] = m
  /\ \A n, p \in DOMAIN t : row[n] = row[p] /\ col[n] = col[p] => n = p

\* With one more list at the end, each place of it is a new one.
LEMMA SpreadGrows ==
  ASSUME NEW ss, NEW k \in Nat, NEW t, NEW row, NEW col, IsList(t), Spread(t, ss, k, row, col),
         IsList(ss[k + 1])
  PROVE  \E r, c : Spread(t \o ss[k + 1], ss, k + 1, r, c)
<1> DEFINE last == ss[k + 1]
           a == Len(t)
           b == Len(last)
           u == t \o last
           r == [n \in 1 .. a + b |-> IF n <= a THEN row[n] ELSE k + 1]
           c == [n \in 1 .. a + b |-> IF n <= a THEN col[n] ELSE n - a]
<1>1. /\ a \in Nat /\ b \in Nat /\ DOMAIN t = 1..a /\ DOMAIN last = 1..b /\ DOMAIN u = 1 .. a + b
      /\ \A n \in 1..a : u[n] = t[n]
      /\ \A n \in 1..b : u[a + n] = last[n]
  BY ListLength, ListsConcat
<1>2. \A n \in 1 .. a + b : n \in 1..a \/ (n > a /\ n - a \in 1..b /\ n = a + (n - a))
  BY <1>1
<1>3. /\ \A n \in 1..a : n \in 1 .. a + b /\ r[n] = row[n] /\ c[n] = col[n]
      /\ \A n \in 1..b : a + n \in 1 .. a + b /\ r[a + n] = k + 1 /\ c[a + n] = n
  BY <1>1
<1>4. /\ \A n \in 1..a : row[n] \in 1..k /\ col[n] \in DOMAIN ss[row[n]] /\ t[n] = ss[row[n]][col[n]]
      /\ \A j \in 1..k : \A m \in DOMAIN ss[j] : \E n \in 1..a : row[n] = j /\ col[n] = m
      /\ \A n, p \in 1..a : row[n] = row[p] /\ col[n] = col[p] => n = p
  <2>1. DOMAIN t = 1..a
    BY <1>1
  <2> HIDE DEF a
  <2>2. QED
    BY <2>1 DEF Spread
<1>5. \A n \in 1 .. a + b : n \in 1..a \/ \E m \in 1..b : n = a + m
  BY <1>2
<1>6. \A j \in 1 .. k + 1 : j \in 1..k \/ j = k + 1
  OBVIOUS
<1>7. \A j \in 1..k : j \in 1 .. k + 1 /\ j # k + 1
  OBVIOUS
<1> HIDE DEF a, b, r, c, u
<1>8. \A n \in DOMAIN u : r[n] \in 1 .. k + 1 /\ c[n] \in DOMAIN ss[r[n]] /\ u[n] = ss[r[n]][c[n]]
  <2>1. TAKE n \in DOMAIN u
  <2>2. CASE n \in 1..a
    BY <2>2, <1>1, <1>3, <1>4, <1>7
  <2>3. CASE \E m \in 1..b : n = a + m
    <3>1. PICK m \in 1..b : n = a + m
      BY <2>3
    <3>2. r[n] = k + 1 /\ c[n] = m /\ u[n] = last[m] /\ m \in DOMAIN last
      BY <3>1, <1>1, <1>3
    <3>3. QED
      BY <3>2
  <2>4. QED
    BY <1>1, <1>5, <2>2, <2>3
<1>9. \A j \in 1 .. k + 1 : \A m \in DOMAIN ss[j] : \E n \in DOMAIN u : r[n] = j /\ c[n] = m
  <2>1. TAKE j \in 1 .. k + 1
  <2>2. TAKE m \in DOMAIN ss[j]
  <2>3. CASE j \in 1..k
    <3>1. PICK n \in 1..a : row[n] = j /\ col[n] = m
      BY <2>3, <1>4
    <3>2. QED
      BY <3>1, <1>1, <1>3
  <2>4. CASE j = k + 1
    <3>1. m \in 1..b
      BY <2>4, <1>1
    <3>2. QED
      BY <2>4, <3>1, <1>1, <1>3
  <2>5. QED
    BY <1>6, <2>3, <2>4
<1>10. \A n, p \in DOMAIN u : r[n] = r[p] /\ c[n] = c[p] => n = p
  <2>1. TAKE n, p \in DOMAIN u
  <2>2. HAVE r[n] = r[p] /\ c[n] = c[p]
  <2>3. CASE n \in 1..a /\ p \in 1..a
    BY <2>2, <2>3, <1>3, <1>4
  <2>4. CASE \E m \in 1..b : n = a + m
    <3>1. PICK m \in 1..b : n = a + m
      BY <2>4
    <3>2. r[n] = k + 1 /\ c[n] = m
      BY <3>1, <1>3
    <3>3. p \notin 1..a
      BY <3>2, <2>2, <1>3, <1>4, <1>7
    <3>4. PICK q \in 1..b : p = a + q
      BY <3>3, <1>1, <1>5
    <3>5. c[p] = q
      BY <3>4, <1>3
    <3>6. QED
      BY <2>2, <3>1, <3>2, <3>4, <3>5
  <2>5. CASE \E m \in 1..b : p = a + m
    <3>1. PICK m \in 1..b : p = a + m
      BY <2>5
    <3>2. r[p] = k + 1 /\ c[p] = m
      BY <3>1, <1>3
    <3>3. n \notin 1..a
      BY <3>2, <2>2, <1>3, <1>4, <1>7
    <3>4. QED
      BY <2>4, <3>3, <1>1, <1>5
  <2>6. QED
    BY <1>1, <1>5, <2>3, <2>4, <2>5
<1>11. Spread(u, ss, k + 1, r, c)
  BY <1>8, <1>9, <1>10 DEF Spread
<1>12. QED
  BY <1>11 DEF u

\* FlattenSeq's function is defined.
LEMMA FlattenDefined ==
  ASSUME NEW ss, NEW k \in Nat \ {0}
  PROVE  \E f : f = [i \in 1..k |-> IF i = 1 THEN ss[i] ELSE f[i - 1] \o ss[i]]
<1> DEFINE Good(n) == \E f : f = [i \in 1..n |-> IF i = 1 THEN ss[i] ELSE f[i - 1] \o ss[i]]
           Bad == {n \in Nat \ {0} : ~Good(n)}
<1>1. Good(1)
  <2> DEFINE f == [i \in 1..1 |-> ss[i]]
  <2>1. f = [i \in 1..1 |-> IF i = 1 THEN ss[i] ELSE f[i - 1] \o ss[i]]
    OBVIOUS
  <2>2. QED
    BY <2>1
<1>2. ASSUME NEW n \in Nat \ {0}, Good(n)
      PROVE  Good(n + 1)
  <2>1. PICK f : f = [i \in 1..n |-> IF i = 1 THEN ss[i] ELSE f[i - 1] \o ss[i]]
    BY <1>2
  <2> DEFINE g == [i \in 1 .. n + 1 |-> IF i = n + 1 THEN f[n] \o ss[i] ELSE f[i]]
             h == [i \in 1 .. n + 1 |-> IF i = 1 THEN ss[i] ELSE g[i - 1] \o ss[i]]
  <2>2. ASSUME NEW i \in 1 .. n + 1
        PROVE  g[i] = h[i]
    <3>1. CASE i = n + 1
      <4>1. n \in 1 .. n + 1 /\ n # n + 1 /\ i # 1 /\ i - 1 = n
        BY <3>1
      <4>2. g[n] = f[n] /\ g[i] = f[n] \o ss[i]
        BY <3>1, <4>1
      <4>3. h[i] = g[i - 1] \o ss[i]
        <5> HIDE DEF g
        <5>1. QED
          BY <4>1
      <4> HIDE DEF g, h
      <4>4. QED
        BY <4>1, <4>2, <4>3
    <3>2. CASE i \in 1..n
      <4>1. g[i] = f[i] /\ i \in 1 .. n /\ (i # 1 => i - 1 \in 1..n)
        BY <3>2
      <4>2. i # 1 => g[i - 1] = f[i - 1]
        BY <4>1
      <4>3. f[i] = IF i = 1 THEN ss[i] ELSE f[i - 1] \o ss[i]
        BY <2>1, <4>1
      <4>4. h[i] = IF i = 1 THEN ss[i] ELSE g[i - 1] \o ss[i]
        OBVIOUS
      <4> HIDE DEF g, h
      <4>5. QED
        BY <4>1, <4>2, <4>3, <4>4
    <3>3. QED
      BY <3>1, <3>2
  <2>3. g = h
    BY <2>2
  <2>4. QED
    BY <2>3
<1>3. Bad = {}
  <2>1. SUFFICES ASSUME Bad # {} PROVE FALSE
    OBVIOUS
  <2> HIDE DEF Good
  <2>2. PICK n \in Bad : \A m \in Bad : n <= m
    BY <2>1, LeastNatural
  <2>3. n # 1 /\ n - 1 \in Nat \ {0} /\ n - 1 \notin Bad
    BY <1>1, <2>2
  <2>4. QED
    BY <1>2, <2>2, <2>3
<1> HIDE DEF Good
<1>4. Good(k)
  BY <1>3
<1>5. QED
  BY <1>4 DEF Good

\* FlattenSeq puts lists one after the other.
LEMMA FlattenPlaces ==
  ASSUME NEW ss, IsList(ss), \A k \in DOMAIN ss : IsList(ss[k])
  PROVE  /\ IsList(FlattenSeq(ss))
         /\ \E row, col : Spread(FlattenSeq(ss), ss, Len(ss), row, col)
<1> DEFINE L == Len(ss)
<1>1. L \in Nat /\ DOMAIN ss = 1..L /\ (L = 0 => ss = << >>)
  BY ListLength
<1>2. CASE L = 0
  <2>1. FlattenSeq(ss) = ss /\ DOMAIN ss = {}
    BY <1>1, <1>2 DEF FlattenSeq
  <2>2. Spread(ss, ss, L, << >>, << >>)
    BY <1>1, <1>2, <2>1 DEF Spread
  <2>3. QED
    BY <2>1, <2>2
<1>3. CASE L # 0
  <2> DEFINE F == CHOOSE f : f = [i \in 1..L |-> IF i = 1 THEN ss[i] ELSE f[i - 1] \o ss[i]]
  <2>1. FlattenSeq(ss) = F[L]
    BY <1>3 DEF FlattenSeq
  <2>2. F = [i \in 1..L |-> IF i = 1 THEN ss[i] ELSE F[i - 1] \o ss[i]]
    <3>1. L \in Nat \ {0}
      BY <1>1, <1>3
    <3> HIDE DEF L
    <3>2. QED
      BY <3>1, FlattenDefined
  <2> HIDE DEF F, L
  <2> DEFINE Good(n) == IsList(F[n]) /\ \E row, col : Spread(F[n], ss, n, row, col)
             Bad == {n \in 1..L : ~Good(n)}
  <2>3. Good(1)
    <3> DEFINE row == [n \in DOMAIN ss[1] |-> 1]
               col == [n \in DOMAIN ss[1] |-> n]
    <3>1. 1 \in 1..L /\ F[1] = ss[1] /\ IsList(ss[1])
      BY <1>1, <1>3, <2>2
    <3>2. \A n \in DOMAIN ss[1] : row[n] = 1 /\ col[n] = n
      OBVIOUS
    <3>3. 1..1 = {1}
      OBVIOUS
    <3> HIDE DEF row, col
    <3>4. Spread(ss[1], ss, 1, row, col)
      BY <3>2, <3>3 DEF Spread
    <3>5. QED
      BY <3>1, <3>4
  <2>4. ASSUME NEW n \in Nat \ {0}, n + 1 \in 1..L, Good(n)
        PROVE  Good(n + 1)
    <3>1. F[n + 1] = F[n] \o ss[n + 1] /\ IsList(ss[n + 1]) /\ IsList(F[n]) /\ n \in Nat
      <4>1. n + 1 # 1 /\ (n + 1) - 1 = n
        OBVIOUS
      <4>2. F[n + 1] = IF n + 1 = 1 THEN ss[n + 1] ELSE F[(n + 1) - 1] \o ss[n + 1]
        BY <2>2, <2>4
      <4>3. QED
        BY <1>1, <2>4, <4>1, <4>2
    <3>2. IsList(F[n] \o ss[n + 1])
      BY <3>1, ListsConcat
    <3>3. PICK row, col : Spread(F[n], ss, n, row, col)
      BY <2>4
    <3>4. \E r, c : Spread(F[n] \o ss[n + 1], ss, n + 1, r, c)
      BY <3>1, <3>3, SpreadGrows
    <3>5. QED
      BY <3>1, <3>2, <3>4
  <2> HIDE DEF Good
  <2>5. Bad = {}
    <3>1. SUFFICES ASSUME Bad # {} PROVE FALSE
      OBVIOUS
    <3>2. Bad \subseteq Nat
      BY <1>1
    <3>3. PICK n \in Bad : \A m \in Bad : n <= m
      BY <3>1, <3>2, LeastNatural
    <3>4. n \in 1..L /\ n # 1 /\ n - 1 \in Nat \ {0} /\ n - 1 \in 1..L /\ (n - 1) + 1 = n
      BY <1>1, <2>3, <3>3
    <3>5. n - 1 \notin Bad
      BY <3>2, <3>3, <3>4
    <3>6. Good(n - 1)
      BY <3>4, <3>5
    <3>7. QED
      BY <2>4, <3>3, <3>4, <3>6
  <2>6. Good(L)
    BY <1>1, <1>3, <2>5
  <2>7. QED
    BY <2>1, <2>6 DEF Good, L
<1>4. QED
  BY <1>2, <1>3

-----------------------------------------------------------------------------
(***************************************************************************)
(* What the parsers of "netc discover" make of an output, whatever is in it.*)
(***************************************************************************)
\* What is picked of a list is at some of its places, each once.
Picks(t, items, places, pos) ==
  /\ IsList(t)
  /\ \A n \in DOMAIN t : pos[n] \in places /\ t[n] = items[pos[n]]
  /\ \A i \in places : \E n \in DOMAIN t : pos[n] = i
  /\ \A m, n \in DOMAIN t : pos[m] = pos[n] => m = n

\* InOrder lists a set of places, ascending.
LEMMA PlacesInOrder ==
  ASSUME NEW N \in Nat, NEW S, S \subseteq 1..N
  PROVE  LET s == InOrder(S) IN
         /\ IsList(s) /\ Len(s) \in Nat /\ DOMAIN s = 1 .. Len(s)
         /\ \A n \in DOMAIN s : s[n] \in S
         /\ \A i \in S : \E n \in DOMAIN s : s[n] = i
         /\ \A m, n \in DOMAIN s : m < n => s[m] < s[n]
         /\ \A m, n \in DOMAIN s : s[m] = s[n] => m = n
<1> DEFINE s == InOrder(S)
<1>1. S \subseteq Nat /\ IsFiniteSet(S)
  <2>1. IsFiniteSet(1..N) /\ S \in SUBSET (1..N)
    BY IntervalFinite
  <2>2. IsFiniteSet(S)
    BY <2>1, FS_Subset
  <2>3. QED
    BY <2>2
<1>2. /\ s \in Seq(S) /\ ToSet(s) = S
      /\ \A m, n \in DOMAIN s : m < n => s[m] < s[n]
  BY <1>1, InOrderLists
<1> HIDE DEF s
<1>3. IsList(s) /\ Len(s) \in Nat /\ DOMAIN s = 1 .. Len(s)
  BY <1>2, SequenceIsList, ListLength
<1>4. \A n \in DOMAIN s : s[n] \in S /\ s[n] \in Int
  <2>1. \A n \in DOMAIN s : s[n] \in S
    BY <1>2 DEF ToSet
  <2>2. \A i \in S : i \in Int
    BY <1>1
  <2>3. QED
    BY <2>1, <2>2
<1>5. \A i \in S : \E n \in DOMAIN s : s[n] = i
  BY <1>2 DEF ToSet
<1>6. ASSUME NEW m \in DOMAIN s, NEW n \in DOMAIN s, s[m] = s[n]
      PROVE  m = n
  <2>1. m \in Int /\ n \in Int
    BY <1>3
  <2>2. ~(m < n) /\ ~(n < m)
    BY <1>2, <1>4, <1>6
  <2>3. QED
    BY <2>1, <2>2
<1>7. \A m, n \in DOMAIN s : s[m] = s[n] => m = n
  BY <1>6
<1>8. QED
  BY <1>2, <1>3, <1>4, <1>5, <1>7, Zenon DEF s

\* Picked is such a pick.
LEMMA PickedPlaces ==
  ASSUME NEW items, IsList(items), NEW places, places \subseteq DOMAIN items
  PROVE  \E pos : Picks(Picked(items, places), items, places, pos)
<1> DEFINE pos == InOrder(places)
           t == Picked(items, places)
<1>1. /\ Len(pos) \in Nat /\ DOMAIN pos = 1 .. Len(pos)
      /\ \A n \in DOMAIN pos : pos[n] \in places
      /\ \A i \in places : \E n \in DOMAIN pos : pos[n] = i
      /\ \A m, n \in DOMAIN pos : pos[m] = pos[n] => m = n
  <2>1. Len(items) \in Nat /\ places \subseteq 1 .. Len(items)
    BY ListLength
  <2>2. QED
    BY <2>1, PlacesInOrder
<1>2. t = [n \in DOMAIN pos |-> items[pos[n]]]
  BY DEF Picked
<1> HIDE DEF pos, t
<1>3. t = [n \in 1 .. Len(pos) |-> t[n]]
  BY <1>1, <1>2
<1>4. IsList(t)
  BY <1>1, <1>3, FunctionIsList
<1>5. Picks(t, items, places, pos)
  <2>1. DOMAIN t = DOMAIN pos /\ \A n \in DOMAIN pos : t[n] = items[pos[n]]
    BY <1>2
  <2>2. QED
    BY <1>1, <1>4, <2>1 DEF Picks
<1>6. QED
  BY <1>5 DEF t

-----------------------------------------------------------------------------
\* The lines from one to another.
LEMMA LinesList ==
  ASSUME NEW from \in Nat, NEW to \in Nat, from <= to
  PROVE  /\ IsList(Lines(from, to)) /\ Lines(from, to)[1] = from
         /\ ToSet(Lines(from, to)) = from .. to
<1> DEFINE t == Lines(from, to)
           n == to - from + 1
<1>1. n \in Nat /\ 1 \in 1..n
  OBVIOUS
<1>2. t = [m \in 1..n |-> from + m - 1]
  BY DEF Lines
<1>3. IsList(t)
  <2>1. t = [m \in 1..n |-> t[m]]
    BY <1>2
  <2> HIDE DEF t, n
  <2>2. QED
    BY <1>1, <2>1, FunctionIsList
<1>4. t[1] = from
  BY <1>1, <1>2
<1>5. ToSet(t) = from .. to
  <2>1. ASSUME NEW m \in 1..n PROVE t[m] \in from .. to
    BY <1>2
  <2>2. ASSUME NEW i \in from .. to PROVE \E m \in 1..n : t[m] = i
    <3>1. i - from + 1 \in 1..n /\ t[i - from + 1] = i
      BY <1>2
    <3>2. QED
      BY <3>1
  <2>3. DOMAIN t = 1..n
    BY <1>2
  <2> HIDE DEF t, n
  <2>4. QED
    BY <2>1, <2>2, <2>3 DEF ToSet
<1>6. QED
  BY <1>3, <1>4, <1>5

\* The blocks of an output are its entries, each once.
LEMMA BlocksAreEntries ==
  ASSUME NEW text, IsList(text), NEW kind
  PROVE  LET blocks == SplitBlocks(text, FirstWord(kind))
             heads  == {i \in DOMAIN text : text[i].word = FirstWord(kind)}
         IN /\ IsList(blocks)
            /\ \A n \in DOMAIN blocks : /\ IsList(blocks[n]) /\ blocks[n][1] \in heads
                                        /\ ToSet(blocks[n]) = EntryOf(text, kind, blocks[n][1])
            /\ \A i \in heads : \E n \in DOMAIN blocks : blocks[n][1] = i
            /\ \A m, n \in DOMAIN blocks : blocks[m][1] = blocks[n][1] => m = n
<1> DEFINE word == FirstWord(kind)
           heads == {i \in DOMAIN text : text[i].word = word}
           starts == InOrder(heads)
           N == Len(text)
           L == Len(starts)
           last(n) == IF n < L THEN starts[n + 1] - 1 ELSE N
           blocks == SplitBlocks(text, word)
<1>1. N \in Nat /\ DOMAIN text = 1..N /\ heads \subseteq 1..N
  BY ListLength
<1>2. /\ L \in Nat /\ DOMAIN starts = 1..L
      /\ \A n \in DOMAIN starts : starts[n] \in heads
      /\ \A i \in heads : \E n \in DOMAIN starts : starts[n] = i
      /\ \A m, n \in DOMAIN starts : m < n => starts[m] < starts[n]
      /\ \A m, n \in DOMAIN starts : starts[m] = starts[n] => m = n
  <2> HIDE DEF heads, N
  <2>1. QED
    BY <1>1, PlacesInOrder
<1>3. blocks = [n \in DOMAIN starts |-> Lines(starts[n], last(n))]
  BY DEF SplitBlocks
<1>4. ASSUME NEW n \in 1..L
      PROVE  /\ starts[n] \in 1..N /\ last(n) \in 1..N /\ starts[n] <= last(n)
             /\ n < L => n + 1 \in 1..L /\ last(n) = starts[n + 1] - 1 /\ starts[n + 1] \in 1..N
             /\ n >= L => last(n) = N
  <2> HIDE DEF heads, starts, N, L
  <2>1. starts[n] \in 1..N
    BY <1>1, <1>2
  <2>2. CASE n < L
    <3>1. n + 1 \in 1..L /\ n \in Int /\ n < n + 1
      BY <2>2, <1>2
    <3>2. starts[n + 1] \in 1..N /\ starts[n] < starts[n + 1]
      BY <3>1, <1>1, <1>2
    <3>3. last(n) = starts[n + 1] - 1 /\ ~(n >= L)
      BY <1>2, <2>2, <3>1
    <3> HIDE DEF last
    <3>4. QED
      BY <1>1, <2>1, <3>1, <3>2, <3>3
  <2>3. CASE ~(n < L)
    BY <2>1, <2>3, <1>1
  <2>4. QED
    BY <2>2, <2>3
<1>5. ASSUME NEW n \in 1..L
      PROVE  /\ IsList(Lines(starts[n], last(n))) /\ Lines(starts[n], last(n))[1] = starts[n]
             /\ ToSet(Lines(starts[n], last(n))) = EntryOf(text, kind, starts[n])
  <2>1. starts[n] \in 1..N /\ last(n) \in 1..N /\ starts[n] <= last(n)
    BY <1>4
  <2> HIDE DEF heads, starts, N, L, last
  <2>2. /\ IsList(Lines(starts[n], last(n))) /\ Lines(starts[n], last(n))[1] = starts[n]
        /\ ToSet(Lines(starts[n], last(n))) = starts[n] .. last(n)
    <3>1. starts[n] \in Nat /\ last(n) \in Nat
      BY <1>1, <2>1
    <3>2. QED
      BY <2>1, <3>1, LinesList
  <2>3. EntryOf(text, kind, starts[n]) = {j \in starts[n] .. N : \A k \in starts[n] + 1 .. j : text[k].word # word}
    BY DEF EntryOf, N
  <2>4. ASSUME NEW j \in starts[n] .. last(n)
        PROVE  j \in starts[n] .. N /\ \A k \in starts[n] + 1 .. j : text[k].word # word
    <3>1. j \in starts[n] .. N
      BY <1>1, <2>1
    <3>2. SUFFICES ASSUME NEW k \in starts[n] + 1 .. j, text[k].word = word PROVE FALSE
      BY <3>1
    <3>3. k \in 1..N /\ k \in Int /\ starts[n] < k /\ k <= last(n)
      BY <1>1, <2>1
    <3>4. k \in heads
      BY <1>1, <3>2, <3>3 DEF heads
    <3>5. PICK m \in 1..L : starts[m] = k
      BY <1>2, <3>4
    <3>6. m \in Int /\ n \in Int /\ starts[m] \in Int /\ starts[n] \in Int
      BY <1>2, <2>1, <3>3, <3>5
    <3>7. n < m
      <4>1. m # n /\ ~(m < n)
        BY <1>2, <3>3, <3>5, <3>6
      <4>2. QED
        BY <3>6, <4>1
    <3>8. n < L /\ (m = n + 1 \/ n + 1 < m)
      BY <1>2, <3>6, <3>7
    <3>9. n + 1 \in 1..L /\ last(n) = starts[n + 1] - 1 /\ starts[n + 1] \in 1..N
      BY <1>4, <3>8
    <3>10. starts[n + 1] <= starts[m]
      <4>1. CASE m = n + 1
        BY <4>1, <3>6
      <4>2. CASE n + 1 < m
        BY <4>2, <1>1, <1>2, <3>6, <3>9
      <4>3. QED
        BY <3>8, <4>1, <4>2
    <3>11. QED
      BY <1>1, <3>3, <3>5, <3>6, <3>9, <3>10
  <2>5. ASSUME NEW j \in starts[n] .. N, \A k \in starts[n] + 1 .. j : text[k].word # word
        PROVE  j \in starts[n] .. last(n)
    <3>1. SUFFICES ASSUME ~(j <= last(n)) PROVE FALSE
      BY <1>1, <2>1
    <3>2. n < L
      BY <1>1, <1>2, <1>4, <3>1
    <3>3. n + 1 \in 1..L /\ last(n) = starts[n + 1] - 1 /\ starts[n + 1] \in 1..N
      BY <1>4, <3>2
    <3>4. starts[n + 1] \in starts[n] + 1 .. j
      BY <1>1, <2>1, <3>1, <3>3
    <3>5. text[starts[n + 1]].word = word
      <4>1. starts[n + 1] \in heads
        BY <1>2, <3>3
      <4>2. QED
        BY <4>1 DEF heads
    <3>6. QED
      BY <2>5, <3>4, <3>5
  <2>6. QED
    BY <2>2, <2>3, <2>4, <2>5
<1> HIDE DEF starts, last, L, heads
<1>6. /\ blocks = [n \in 1..L |-> blocks[n]]
      /\ \A n \in 1..L : blocks[n] = Lines(starts[n], last(n))
      /\ DOMAIN blocks = 1..L
  <2> HIDE DEF blocks
  <2>1. QED
    BY <1>2, <1>3
<1> HIDE DEF blocks
<1>7. IsList(blocks)
  BY <1>2, <1>6, FunctionIsList
<1>8. \A n \in 1..L : /\ IsList(blocks[n]) /\ blocks[n][1] = starts[n]
                      /\ ToSet(blocks[n]) = EntryOf(text, kind, starts[n])
  BY <1>5, <1>6
<1>9. /\ IsList(blocks)
      /\ \A n \in DOMAIN blocks : /\ IsList(blocks[n]) /\ blocks[n][1] \in heads
                                  /\ ToSet(blocks[n]) = EntryOf(text, kind, blocks[n][1])
      /\ \A i \in heads : \E n \in DOMAIN blocks : blocks[n][1] = i
      /\ \A m, n \in DOMAIN blocks : blocks[m][1] = blocks[n][1] => m = n
  BY <1>2, <1>6, <1>7, <1>8
<1>10. QED
  BY <1>9 DEF blocks, heads

-----------------------------------------------------------------------------
IsText(text) == IsList(text) /\ \A i \in DOMAIN text : IsLine(text[i]) /\ IsInterfaceName(text[i].b)

\* An end of a report is an endpoint, never one of a MAC address, and its name tells what is missing.
LEMMA EndTyped ==
  ASSUME NEW device, NEW interface, IsDeviceName(device), IsInterfaceName(interface)
  PROVE  LET end == End(device, interface) IN
         /\ IsPort(end)
         /\ end.name % 100 # 0 <=> interface # 0
         /\ end.name \div 100 # 0 <=> device # 0
<1> DEFINE end == End(device, interface)
           short == Normalized(interface)
<1>1. /\ device \in Nat /\ interface \in 0..99
      /\ device # 0 => device >= 10
      /\ interface # 0 => interface \in 10..99
  BY DEF IsDeviceName, IsInterfaceName
<1>2. short \in 0..99 /\ (short # 0 <=> interface # 0)
  BY <1>1 DEF Normalized
<1> HIDE DEF short
<1>3. /\ end.name = device * 100 + short
      /\ end.key = IF device = 0 \/ interface = 0 THEN NoKey ELSE (device \div 10) * 10 + interface \div 10
      /\ end = [key |-> end.key, name |-> end.name]
  BY DEF End, short
<1>4. end.name \in Nat /\ end.name % 100 = short /\ end.name \div 100 = device
  <2>1. ASSUME NEW d \in Nat, NEW e \in 0..99, NEW name, name = d * 100 + e
        PROVE  name \in Nat /\ name % 100 = e /\ name \div 100 = d
    BY <2>1
  <2>2. device \in Nat /\ short \in 0..99 /\ end.name = device * 100 + short
    BY <1>1, <1>2, <1>3
  <2> HIDE DEF end
  <2>3. QED
    BY <2>1, <2>2
<1>5. end.key \in Nat /\ (end.key = NoKey \/ end.key % 10 # 0)
  <2>1. CASE device = 0 \/ interface = 0
    BY <1>3, <2>1 DEF NoKey
  <2>2. CASE device >= 10 /\ interface \in 10..99
    <3> DEFINE d == device \div 10
               e == interface \div 10
    <3>1. d \in Nat /\ e \in 1..9
      BY <1>1, <2>2
    <3>2. end.key = d * 10 + e
      BY <1>1, <1>3, <2>2
    <3> HIDE DEF d, e
    <3>3. QED
      BY <3>1, <3>2
  <2>3. QED
    BY <1>1, <2>1, <2>2
<1>6. end \in Endpoint
  BY <1>3, <1>4, <1>5 DEF Endpoint
<1>7. QED
  BY <1>2, <1>4, <1>5, <1>6 DEF IsPort

\* The first line of an entry with a word is what fieldValue finds.
LEMMA FieldFound ==
  ASSUME NEW text, IsText(text), NEW kind, NEW i \in DOMAIN text, NEW block,
         ToSet(block) = EntryOf(text, kind, i), NEW word
  PROVE  LET value == FieldValue(text, block, word) IN
         /\ IF word \in DeviceWords THEN IsDeviceName(value.a) ELSE IsInterfaceName(value.a)
         /\ IsInterfaceName(value.b)
         /\ value.a # 0 <=> Names(text, kind, i, word)
<1> DEFINE at == {j \in ToSet(block) : text[j].word = word}
           value == FieldValue(text, block, word)
           N == Len(text)
<1>1. N \in Nat /\ DOMAIN text = 1..N
  BY ListLength DEF IsText
<1>2. EntryOf(text, kind, i) \subseteq 1..N
  <2>1. i \in 1..N
    BY <1>1
  <2>2. i .. N \subseteq 1..N
    BY <1>1, <2>1
  <2> HIDE DEF N
  <2>3. EntryOf(text, kind, i) \subseteq i .. N
    BY DEF EntryOf, N
  <2>4. QED
    BY <2>2, <2>3
<1>3. value = IF at = {} THEN [a |-> 0, b |-> 0] ELSE text[Min(at)]
  BY DEF FieldValue
<1>4. at \subseteq EntryOf(text, kind, i) /\ at \subseteq Nat
  <2>1. 1..N \subseteq Nat
    BY <1>1
  <2> HIDE DEF N
  <2>2. QED
    BY <1>2, <2>1
<1>5. CASE at = {}
  <2>1. ~Names(text, kind, i, word)
    BY <1>5 DEF Names
  <2>2. value.a = 0 /\ value.b = 0
    BY <1>3, <1>5
  <2>3. QED
    BY <2>1, <2>2 DEF IsDeviceName, IsInterfaceName
<1>6. CASE at # {}
  <2> DEFINE m == Min(at)
  <2> HIDE DEF at
  <2>1. PICK n \in at : \A k \in at : n <= k
    BY <1>4, <1>6, LeastNatural
  <2>2. m \in at /\ \A k \in at : m <= k
    BY <2>1 DEF Min
  <2> HIDE DEF m
  <2>3. value = text[m] /\ m \in DOMAIN text
    BY <1>1, <1>2, <1>3, <1>4, <1>6, <2>2 DEF m
  <2>4. m \in EntryOf(text, kind, i) /\ text[m].word = word
    BY <1>4, <2>2 DEF at
  <2>5. \A k \in EntryOf(text, kind, i) : text[k].word = word => k \in at
    BY DEF at
  <2>6. text[m].a # 0 => Names(text, kind, i, word)
    BY <2>2, <2>4, <2>5 DEF Names
  <2>7. ASSUME Names(text, kind, i, word) PROVE text[m].a # 0
    <3>1. PICK j \in EntryOf(text, kind, i) :
            /\ text[j].word = word /\ text[j].a # 0
            /\ \A k \in EntryOf(text, kind, i) : text[k].word = word => j <= k
      BY <2>7 DEF Names
    <3>2. j <= m /\ m <= j /\ j \in Int /\ m \in Int
      <4>1. j \in at /\ m \in at
        BY <2>2, <2>5, <3>1
      <4>2. j <= m /\ m <= j
        BY <2>2, <2>4, <3>1, <4>1
      <4>3. QED
        BY <1>4, <4>1, <4>2
    <3>3. j = m
      BY <3>2
    <3>4. QED
      BY <3>1, <3>3
  <2>8. QED
    BY <2>3, <2>4, <2>6, <2>7 DEF IsText, IsLine
<1>7. QED
  BY <1>5, <1>6

\* An entry has one line with the word that starts it.
LEMMA HeadFound ==
  ASSUME NEW text, IsText(text), NEW kind, NEW i \in DOMAIN text, text[i].word = FirstWord(kind),
         NEW block, ToSet(block) = EntryOf(text, kind, i)
  PROVE  FieldValue(text, block, FirstWord(kind)) = text[i]
<1> DEFINE N == Len(text)
<1>1. N \in Nat /\ i \in 1..N
  BY ListLength DEF IsText
<1>2. EntryOf(text, kind, i) = {j \in i .. N : \A k \in i + 1 .. j : text[k].word # FirstWord(kind)}
  BY DEF EntryOf
<1> HIDE DEF N
<1>3. {j \in ToSet(block) : text[j].word = FirstWord(kind)} = {i}
  <2>1. i \in i .. N /\ i + 1 .. i = {}
    BY <1>1
  <2>2. ASSUME NEW j \in i .. N, j # i PROVE j \in i + 1 .. j
    BY <1>1, <2>2
  <2>3. QED
    BY <1>2, <2>1, <2>2
<1>4. Min({i}) = i
  <2>1. i <= i
    BY <1>1
  <2>2. QED
    BY <2>1 DEF Min
<1>5. QED
  BY <1>3, <1>4 DEF FieldValue

-----------------------------------------------------------------------------
\* the reports of one output, one for each entry that names both ends
FileTold(reports, dir, kind, text) ==
  /\ IsList(reports)
  /\ \A n \in DOMAIN reports :
       /\ IsReport(reports[n]) /\ reports[n].dir = dir.name /\ reports[n].protocol = kind
       /\ reports[n].lines[1] \in NamedEntries(text, kind)
       /\ ToSet(reports[n].lines) = EntryOf(text, kind, reports[n].lines[1])
  /\ \A i \in NamedEntries(text, kind) : \E n \in DOMAIN reports : reports[n].lines[1] = i
  /\ \A m, n \in DOMAIN reports : reports[m].lines[1] = reports[n].lines[1] => m = n

\* Of the reports of an output's blocks, those with both ends are of the entries that name them.
LEMMA HeardTells ==
  ASSUME NEW dir, NEW kind, NEW text, IsText(text), NEW all, IsList(all),
         DOMAIN all = DOMAIN SplitBlocks(text, FirstWord(kind)),
         \A n \in DOMAIN all :
           /\ IsReport(all[n]) /\ all[n].dir = dir.name /\ all[n].protocol = kind
           /\ all[n].lines = SplitBlocks(text, FirstWord(kind))[n]
           /\ (all[n].local.name % 100 # 0 /\ all[n].remote.name \div 100 # 0)
                <=> all[n].lines[1] \in NamedEntries(text, kind)
  PROVE  FileTold(Heard(all), dir, kind, text)
<1> DEFINE blocks == SplitBlocks(text, FirstWord(kind))
           heads == {i \in DOMAIN text : text[i].word = FirstWord(kind)}
           hears(n) == all[n].local.name % 100 # 0 /\ all[n].remote.name \div 100 # 0
           places == {n \in DOMAIN all : hears(n)}
           t == Heard(all)
<1>1. /\ \A n \in DOMAIN blocks : /\ blocks[n][1] \in heads
                                  /\ ToSet(blocks[n]) = EntryOf(text, kind, blocks[n][1])
      /\ \A i \in heads : \E n \in DOMAIN blocks : blocks[n][1] = i
      /\ \A m, n \in DOMAIN blocks : blocks[m][1] = blocks[n][1] => m = n
  BY BlocksAreEntries DEF IsText
<1>2. NamedEntries(text, kind) \subseteq heads
  BY DEF NamedEntries
<1>3. PICK pos : Picks(t, all, places, pos)
  <2>1. places \subseteq DOMAIN all /\ t = Picked(all, places)
    BY DEF Heard
  <2> HIDE DEF places, t
  <2>2. QED
    BY <2>1, PickedPlaces
<1>4. \A n \in DOMAIN all : /\ all[n].lines = blocks[n]
                            /\ hears(n) <=> blocks[n][1] \in NamedEntries(text, kind)
                            /\ IsReport(all[n]) /\ all[n].dir = dir.name /\ all[n].protocol = kind
  OBVIOUS
<1>5. DOMAIN all = DOMAIN blocks
  OBVIOUS
<1>6. \A n : n \in places <=> n \in DOMAIN all /\ hears(n)
  OBVIOUS
<1> HIDE DEF blocks, heads, hears, places, t
<1>7. ASSUME NEW n \in DOMAIN t
      PROVE  /\ IsReport(t[n]) /\ t[n].dir = dir.name /\ t[n].protocol = kind
             /\ pos[n] \in DOMAIN blocks /\ t[n].lines = blocks[pos[n]]
             /\ t[n].lines[1] \in NamedEntries(text, kind)
             /\ ToSet(t[n].lines) = EntryOf(text, kind, t[n].lines[1])
  <2>1. pos[n] \in places /\ t[n] = all[pos[n]]
    BY <1>3 DEF Picks
  <2>2. QED
    BY <1>1, <1>4, <1>5, <1>6, <2>1
<1>8. ASSUME NEW i \in NamedEntries(text, kind)
      PROVE  \E n \in DOMAIN t : t[n].lines[1] = i
  <2>1. PICK m \in DOMAIN blocks : blocks[m][1] = i
    BY <1>1, <1>2
  <2>2. m \in places
    BY <1>4, <1>5, <1>6, <2>1
  <2>3. PICK n \in DOMAIN t : pos[n] = m
    BY <1>3, <2>2 DEF Picks
  <2>4. QED
    BY <1>7, <2>1, <2>3
<1>9. ASSUME NEW m \in DOMAIN t, NEW n \in DOMAIN t, t[m].lines[1] = t[n].lines[1]
      PROVE  m = n
  <2>1. pos[m] = pos[n]
    BY <1>1, <1>7, <1>9
  <2>2. QED
    BY <1>3, <2>1 DEF Picks
<1>10. IsList(t)
  BY <1>3 DEF Picks
<1>11. QED
  BY <1>7, <1>8, <1>9, <1>10 DEF FileTold, t

-----------------------------------------------------------------------------
\* A device is called by its hostname or by its directory.
LEMMA DeviceNamed ==
  ASSUME NEW dir, IsDirectory(dir), DeviceName(dir) # NoName
  PROVE  IsDeviceName(DeviceName(dir))
BY DEF IsDirectory, DeviceName, NoName

\* A report has ports at its ends, and is left out if the local or the remote name is missing.
LEMMA NeighborTyped ==
  ASSUME NEW dir, IsDirectory(dir), DeviceName(dir) # NoName, NEW local, NEW remote, NEW port,
         IsInterfaceName(local), IsDeviceName(remote), IsInterfaceName(port), NEW protocol, NEW lines
  PROVE  LET report == Neighbor(dir, local, remote, port, protocol, lines) IN
         /\ IsReport(report) /\ report.dir = dir.name /\ report.protocol = protocol /\ report.lines = lines
         /\ (report.local.name % 100 # 0 /\ report.remote.name \div 100 # 0) <=> (local # 0 /\ remote # 0)
<1> DEFINE report == Neighbor(dir, local, remote, port, protocol, lines)
<1>1. /\ report.local = End(DeviceName(dir), local) /\ report.remote = End(remote, port)
      /\ report.dir = dir.name /\ report.protocol = protocol /\ report.lines = lines
  BY DEF Neighbor
<1>2. /\ IsPort(End(DeviceName(dir), local)) /\ IsPort(End(remote, port))
      /\ End(DeviceName(dir), local).name % 100 # 0 <=> local # 0
      /\ End(remote, port).name \div 100 # 0 <=> remote # 0
  BY DeviceNamed, EndTyped
<1> HIDE DEF report
<1>3. /\ IsReport(report) /\ report.dir = dir.name /\ report.protocol = protocol /\ report.lines = lines
      /\ (report.local.name % 100 # 0 /\ report.remote.name \div 100 # 0) <=> (local # 0 /\ remote # 0)
  BY <1>1, <1>2 DEF IsReport
<1>4. QED
  BY <1>3 DEF report

\* An LLDP output tells of each entry that names both ends, once (discovery.go:159-174).
LEMMA LLDPTells ==
  ASSUME NEW dir, IsDirectory(dir), DeviceName(dir) # NoName, NEW text, IsText(text)
  PROVE  FileTold(ParseLLDP(dir, text), dir, "lldp", text)
<1> DEFINE word == FirstWord("lldp")
           blocks == SplitBlocks(text, word)
           name(block) == FieldValue(text, block, "system name").a
           chassis(block) == FieldValue(text, block, "chassis id").a
           local(block) == FieldValue(text, block, "local intf").a
           remote(block) == IF name(block) # 0 THEN name(block) ELSE chassis(block)
           port(block) == FieldValue(text, block, "port id").a
           all == [n \in DOMAIN blocks |-> Neighbor(dir, local(blocks[n]), remote(blocks[n]), port(blocks[n]), "lldp", blocks[n])]
<1>1. word = "local intf"
  BY DEF FirstWord
<1>2. ParseLLDP(dir, text) = Heard(all)
  BY <1>1 DEF ParseLLDP
<1>3. /\ IsList(blocks)
      /\ \A n \in DOMAIN blocks : /\ blocks[n][1] \in DOMAIN text /\ text[blocks[n][1]].word = word
                                  /\ ToSet(blocks[n]) = EntryOf(text, "lldp", blocks[n][1])
  BY BlocksAreEntries DEF IsText
<1>4. IsList(all)
  <2>1. Len(blocks) \in Nat /\ DOMAIN blocks = 1 .. Len(blocks)
    BY <1>3, ListLength
  <2>2. all = [n \in 1 .. Len(blocks) |-> all[n]]
    BY <2>1
  <2> HIDE DEF all, blocks
  <2>3. QED
    BY <2>1, <2>2, FunctionIsList
<1>5. ASSUME NEW n \in DOMAIN blocks
      PROVE  /\ IsReport(all[n]) /\ all[n].dir = dir.name /\ all[n].protocol = "lldp"
             /\ all[n].lines = blocks[n]
             /\ (all[n].local.name % 100 # 0 /\ all[n].remote.name \div 100 # 0)
                  <=> all[n].lines[1] \in NamedEntries(text, "lldp")
  <2> DEFINE block == blocks[n]
             i == block[1]
  <2>1. i \in DOMAIN text /\ text[i].word = word /\ ToSet(block) = EntryOf(text, "lldp", i)
    BY <1>3
  <2>2. all[n] = Neighbor(dir, local(block), remote(block), port(block), "lldp", block)
    OBVIOUS
  <2> HIDE DEF block, i, blocks, all
  <2>3. /\ IsDeviceName(name(block)) /\ IsDeviceName(chassis(block)) /\ IsInterfaceName(port(block))
        /\ name(block) # 0 <=> Names(text, "lldp", i, "system name")
        /\ chassis(block) # 0 <=> Names(text, "lldp", i, "chassis id")
    BY <2>1, FieldFound DEF DeviceWords
  <2>4. local(block) = text[i].a /\ IsInterfaceName(local(block))
    <3>1. FieldValue(text, block, word) = text[i]
      BY <2>1, HeadFound
    <3>2. QED
      BY <1>1, <2>1, <3>1 DEF IsText, IsLine, DeviceWords
  <2> HIDE DEF name, chassis, local, port
  <2>5. IsDeviceName(remote(block)) /\ (remote(block) # 0 <=> name(block) # 0 \/ chassis(block) # 0)
    BY <2>3
  <2> HIDE DEF remote
  <2>6. /\ IsReport(all[n]) /\ all[n].dir = dir.name /\ all[n].protocol = "lldp" /\ all[n].lines = block
        /\ (all[n].local.name % 100 # 0 /\ all[n].remote.name \div 100 # 0) <=> (local(block) # 0 /\ remote(block) # 0)
    <3>1. IsInterfaceName(local(block)) /\ IsDeviceName(remote(block)) /\ IsInterfaceName(port(block))
      BY <2>3, <2>4, <2>5
    <3>2. QED
      BY <2>2, <3>1, NeighborTyped
  <2>7. (local(block) # 0 /\ remote(block) # 0) <=> i \in NamedEntries(text, "lldp")
    BY <2>1, <2>3, <2>4, <2>5 DEF NamedEntries
  <2>8. QED
    BY <2>6, <2>7 DEF block, i
<1>6. DOMAIN all = DOMAIN blocks
  OBVIOUS
<1> HIDE DEF all
<1>7. FileTold(Heard(all), dir, "lldp", text)
  BY <1>4, <1>5, <1>6, HeardTells
<1>8. QED
  BY <1>2, <1>7

\* So does a CDP output (discovery.go:176-190).
LEMMA CDPTells ==
  ASSUME NEW dir, IsDirectory(dir), DeviceName(dir) # NoName, NEW text, IsText(text)
  PROVE  FileTold(ParseCDP(dir, text), dir, "cdp", text)
<1> DEFINE word == FirstWord("cdp")
           blocks == SplitBlocks(text, word)
           ports(block) == FieldValue(text, block, "interface")
           remote(block) == FieldValue(text, block, "device id").a
           all == [n \in DOMAIN blocks |-> Neighbor(dir, ports(blocks[n]).a, remote(blocks[n]), ports(blocks[n]).b, "cdp", blocks[n])]
<1>1. word = "device id"
  BY DEF FirstWord
<1>2. ParseCDP(dir, text) = Heard(all)
  BY <1>1 DEF ParseCDP
<1>3. /\ IsList(blocks)
      /\ \A n \in DOMAIN blocks : /\ blocks[n][1] \in DOMAIN text /\ text[blocks[n][1]].word = word
                                  /\ ToSet(blocks[n]) = EntryOf(text, "cdp", blocks[n][1])
  BY BlocksAreEntries DEF IsText
<1>4. IsList(all)
  <2>1. Len(blocks) \in Nat /\ DOMAIN blocks = 1 .. Len(blocks)
    BY <1>3, ListLength
  <2>2. all = [n \in 1 .. Len(blocks) |-> all[n]]
    BY <2>1
  <2> HIDE DEF all, blocks
  <2>3. QED
    BY <2>1, <2>2, FunctionIsList
<1>5. ASSUME NEW n \in DOMAIN blocks
      PROVE  /\ IsReport(all[n]) /\ all[n].dir = dir.name /\ all[n].protocol = "cdp"
             /\ all[n].lines = blocks[n]
             /\ (all[n].local.name % 100 # 0 /\ all[n].remote.name \div 100 # 0)
                  <=> all[n].lines[1] \in NamedEntries(text, "cdp")
  <2> DEFINE block == blocks[n]
             i == block[1]
  <2>1. i \in DOMAIN text /\ text[i].word = word /\ ToSet(block) = EntryOf(text, "cdp", i)
    BY <1>3
  <2>2. all[n] = Neighbor(dir, ports(block).a, remote(block), ports(block).b, "cdp", block)
    OBVIOUS
  <2> HIDE DEF block, i, blocks, all
  <2>3. /\ IsInterfaceName(ports(block).a) /\ IsInterfaceName(ports(block).b)
        /\ ports(block).a # 0 <=> Names(text, "cdp", i, "interface")
    BY <2>1, FieldFound DEF DeviceWords
  <2>4. remote(block) = text[i].a /\ IsDeviceName(remote(block))
    <3>1. FieldValue(text, block, word) = text[i]
      BY <2>1, HeadFound
    <3>2. QED
      BY <1>1, <2>1, <3>1 DEF IsText, IsLine, DeviceWords
  <2> HIDE DEF ports, remote
  <2>5. /\ IsReport(all[n]) /\ all[n].dir = dir.name /\ all[n].protocol = "cdp" /\ all[n].lines = block
        /\ (all[n].local.name % 100 # 0 /\ all[n].remote.name \div 100 # 0) <=> (ports(block).a # 0 /\ remote(block) # 0)
    BY <2>2, <2>3, <2>4, NeighborTyped
  <2>6. (ports(block).a # 0 /\ remote(block) # 0) <=> i \in NamedEntries(text, "cdp")
    BY <2>1, <2>3, <2>4 DEF NamedEntries
  <2>7. QED
    BY <2>5, <2>6 DEF block, i
<1>6. DOMAIN all = DOMAIN blocks
  OBVIOUS
<1> HIDE DEF all
<1>7. FileTold(Heard(all), dir, "cdp", text)
  BY <1>4, <1>5, <1>6, HeardTells
<1>8. QED
  BY <1>2, <1>7

-----------------------------------------------------------------------------
\* A block of a configuration is of its lines, and starts with its first.
LEMMA BlockInside ==
  ASSUME NEW text, IsList(text), NEW i \in DOMAIN text
  PROVE  /\ IsList(BlockLines(text, i)) /\ BlockLines(text, i)[1] = i
         /\ ToSet(BlockLines(text, i)) \subseteq DOMAIN text
<1> DEFINE N == Len(text)
           closing == {j \in i + 1 .. N : text[j].word = "!" \/ (text[j].word # None /\ ~text[j].indented)}
           end == BlockEnd(text, i)
<1>1. N \in Nat /\ DOMAIN text = 1..N /\ i \in 1..N
  BY ListLength
<1>2. end = IF closing = {} THEN N + 1
            ELSE Min(closing) + (IF text[Min(closing)].word = "!" THEN 1 ELSE 0)
  BY DEF BlockEnd
<1>3. closing \subseteq i + 1 .. N /\ closing \subseteq Nat
  BY <1>1
<1> HIDE DEF closing, end, N
<1>4. end \in i + 1 .. N + 1
  <2>1. CASE closing = {}
    BY <1>1, <1>2, <2>1
  <2>2. CASE closing # {}
    <3>1. PICK m \in closing : \A k \in closing : m <= k
      BY <1>3, <2>2, LeastNatural
    <3>2. Min(closing) \in i + 1 .. N
      BY <1>3, <3>1 DEF Min
    <3>3. end \in {Min(closing), Min(closing) + 1}
      BY <1>1, <1>2, <2>2, <3>2
    <3>4. QED
      BY <1>1, <3>2, <3>3
  <2>3. QED
    BY <2>1, <2>2
<1>5. BlockLines(text, i) = Lines(i, end - 1)
  BY DEF BlockLines, end
<1>6. i \in Nat /\ end - 1 \in Nat /\ i <= end - 1 /\ i .. end - 1 \subseteq 1..N
  BY <1>1, <1>4
<1>7. QED
  BY <1>1, <1>5, <1>6, LinesList

\* The blocks of a running configuration are of its lines.
LEMMA ConfigBlocksInside ==
  ASSUME NEW text, IsList(text)
  PROVE  /\ IsList(ConfigBlocks(text))
         /\ \A n \in DOMAIN ConfigBlocks(text) :
              /\ IsList(ConfigBlocks(text)[n]) /\ ConfigBlocks(text)[n][1] \in DOMAIN text
              /\ text[ConfigBlocks(text)[n][1]].word = "interface"
              /\ ToSet(ConfigBlocks(text)[n]) \subseteq DOMAIN text
<1>1. PICK S \in SUBSET {i \in DOMAIN text : text[i].word = "interface"} :
        ConfigBlocks(text) = [n \in DOMAIN InOrder(S) |-> BlockLines(text, InOrder(S)[n])]
  BY DEF ConfigBlocks
<1> DEFINE starts == InOrder(S)
           L == Len(starts)
           blocks == ConfigBlocks(text)
<1>2. Len(text) \in Nat /\ DOMAIN text = 1 .. Len(text)
  BY ListLength
<1>3. L \in Nat /\ DOMAIN starts = 1..L /\ \A n \in DOMAIN starts : starts[n] \in S
  BY <1>2, PlacesInOrder
<1>4. blocks = [n \in 1..L |-> BlockLines(text, starts[n])]
  BY <1>1, <1>3
<1> HIDE DEF starts, L, blocks
<1>5. \A n \in 1..L : starts[n] \in DOMAIN text /\ text[starts[n]].word = "interface"
  BY <1>1, <1>3
<1>6. \A n \in 1..L : /\ IsList(BlockLines(text, starts[n])) /\ BlockLines(text, starts[n])[1] = starts[n]
                      /\ ToSet(BlockLines(text, starts[n])) \subseteq DOMAIN text
  BY <1>5, BlockInside
<1>7. blocks = [n \in 1..L |-> blocks[n]] /\ DOMAIN blocks = 1..L
  BY <1>4
<1>8. IsList(blocks)
  BY <1>3, <1>7, FunctionIsList
<1>9. QED
  BY <1>4, <1>5, <1>6, <1>7, <1>8 DEF blocks

-----------------------------------------------------------------------------
(***************************************************************************)
(* What is read of a directory, whatever outputs it has.                   *)
(***************************************************************************)
\* What is in a flattened list is in one of the lists.
LEMMA FlattenMembers ==
  ASSUME NEW ss, IsList(ss), \A k \in DOMAIN ss : IsList(ss[k])
  PROVE  /\ IsList(FlattenSeq(ss))
         /\ \A n \in DOMAIN FlattenSeq(ss) : \E k \in DOMAIN ss : \E m \in DOMAIN ss[k] : FlattenSeq(ss)[n] = ss[k][m]
<1>1. IsList(FlattenSeq(ss)) /\ DOMAIN ss = 1 .. Len(ss)
  BY FlattenPlaces, ListLength
<1>2. PICK row, col : Spread(FlattenSeq(ss), ss, Len(ss), row, col)
  BY FlattenPlaces
<1>3. QED
  BY <1>1, <1>2 DEF Spread

\* A description makes a report of its own protocol, with ports at its ends.
LEMMA DescriptionsTyped ==
  ASSUME NEW dir, IsDirectory(dir), DeviceName(dir) # NoName, NEW text, IsText(text)
  PROVE  LET t == ParseDescriptions(dir, text) IN
         /\ IsList(t)
         /\ \A n \in DOMAIN t : IsReport(t[n]) /\ t[n].dir = dir.name /\ t[n].protocol = "interface_description"
<1> DEFINE blocks == ConfigBlocks(text)
           told(block) == {i \in ToSet(block) : text[i].word = "description" /\ text[i].a # 0 /\ text[i].b # 0}
           lines(block) == [i \in DOMAIN text |-> Neighbor(dir, text[block[1]].a, text[i].a, text[i].b, "interface_description", block)]
           read(block) == Picked(lines(block), told(block))
           ss == [n \in DOMAIN blocks |-> read(blocks[n])]
<1>1. ParseDescriptions(dir, text) = FlattenSeq(ss)
  BY DEF ParseDescriptions
<1>2. /\ IsList(blocks)
      /\ \A n \in DOMAIN blocks : /\ blocks[n][1] \in DOMAIN text /\ text[blocks[n][1]].word = "interface"
                                  /\ ToSet(blocks[n]) \subseteq DOMAIN text
  BY ConfigBlocksInside DEF IsText
<1>3. Len(blocks) \in Nat /\ DOMAIN blocks = 1 .. Len(blocks) /\ Len(text) \in Nat /\ DOMAIN text = 1 .. Len(text)
  BY <1>2, ListLength DEF IsText
<1>4. IsList(ss) /\ DOMAIN ss = DOMAIN blocks
  <2>1. ss = [n \in 1 .. Len(blocks) |-> ss[n]] /\ DOMAIN ss = DOMAIN blocks
    BY <1>3
  <2> HIDE DEF ss, blocks
  <2>2. QED
    BY <1>3, <2>1, FunctionIsList
<1>5. ASSUME NEW n \in DOMAIN blocks
      PROVE  /\ IsList(ss[n])
             /\ \A m \in DOMAIN ss[n] : /\ IsReport(ss[n][m]) /\ ss[n][m].dir = dir.name
                                        /\ ss[n][m].protocol = "interface_description"
  <2> DEFINE block == blocks[n]
             all == lines(block)
  <2>1. /\ ss[n] = Picked(all, told(block)) /\ block[1] \in DOMAIN text /\ text[block[1]].word = "interface"
        /\ ToSet(block) \subseteq DOMAIN text
    BY <1>2
  <2>2. DOMAIN all = DOMAIN text /\ told(block) \subseteq DOMAIN all
    BY <2>1
  <2>3. ASSUME NEW i \in told(block)
        PROVE  IsReport(all[i]) /\ all[i].dir = dir.name /\ all[i].protocol = "interface_description"
    <3>1. i \in DOMAIN text /\ text[i].word = "description"
      BY <2>1
    <3>2. all[i] = Neighbor(dir, text[block[1]].a, text[i].a, text[i].b, "interface_description", block)
      BY <3>1
    <3>3. IsInterfaceName(text[block[1]].a) /\ IsDeviceName(text[i].a) /\ IsInterfaceName(text[i].b)
      BY <2>1, <3>1 DEF IsText, IsLine, DeviceWords
    <3> HIDE DEF all, block, blocks, ss, told
    <3>4. QED
      BY <3>2, <3>3, NeighborTyped
  <2>4. IsList(all)
    <3>1. all = [i \in 1 .. Len(text) |-> all[i]]
      BY <1>3
    <3> HIDE DEF all
    <3>2. QED
      BY <1>3, <3>1, FunctionIsList
  <2> HIDE DEF all, block, blocks, ss, told
  <2>5. PICK pos : Picks(ss[n], all, told(block), pos)
    BY <2>1, <2>2, <2>4, PickedPlaces
  <2>6. QED
    BY <2>2, <2>3, <2>5 DEF Picks
<1> HIDE DEF ss, blocks
<1>6. \A k \in DOMAIN ss : IsList(ss[k])
  BY <1>4, <1>5
<1>7. /\ IsList(FlattenSeq(ss))
      /\ \A n \in DOMAIN FlattenSeq(ss) : \E k \in DOMAIN ss : \E m \in DOMAIN ss[k] : FlattenSeq(ss)[n] = ss[k][m]
  BY <1>4, <1>6, FlattenMembers
<1>8. \A n \in DOMAIN FlattenSeq(ss) : /\ IsReport(FlattenSeq(ss)[n]) /\ FlattenSeq(ss)[n].dir = dir.name
                                       /\ FlattenSeq(ss)[n].protocol = "interface_description"
  BY <1>4, <1>5, <1>7
<1>9. QED
  BY <1>1, <1>7, <1>8

\* What is read of one file.
LEMMA FileNeighborsTold ==
  ASSUME NEW dir, IsDirectory(dir), DeviceName(dir) # NoName, NEW kind \in DOMAIN dir.files
  PROVE  LET t == FileNeighbors(dir, kind, dir.files[kind]) IN
         /\ IsList(t)
         /\ \A n \in DOMAIN t : /\ IsReport(t[n]) /\ t[n].dir = dir.name
                                /\ t[n].protocol = IF kind \in {"lldp", "cdp"} THEN kind ELSE "interface_description"
         /\ kind \in {"lldp", "cdp"} => FileTold(t, dir, kind, dir.files[kind])
<1> DEFINE text == dir.files[kind]
           t == FileNeighbors(dir, kind, text)
<1>1. kind \notin {"arp", "mac_table", "interface_ip"} => IsText(text)
  BY DEF IsDirectory, IsText
<1>2. CASE kind = "lldp"
  <2>1. t = ParseLLDP(dir, text)
    BY <1>2 DEF FileNeighbors
  <2>2. FileTold(t, dir, kind, text)
    BY <1>1, <1>2, <2>1, LLDPTells
  <2>3. QED
    BY <1>2, <2>2 DEF FileTold
<1>3. CASE kind = "cdp"
  <2>1. t = ParseCDP(dir, text)
    BY <1>3 DEF FileNeighbors
  <2>2. FileTold(t, dir, kind, text)
    BY <1>1, <1>3, <2>1, CDPTells
  <2>3. QED
    BY <1>3, <2>2 DEF FileTold
<1>4. CASE kind = "running_config"
  <2>1. t = ParseDescriptions(dir, text)
    BY <1>4 DEF FileNeighbors
  <2>2. QED
    BY <1>1, <1>4, <2>1, DescriptionsTyped
<1>5. CASE kind \notin {"lldp", "cdp", "running_config"}
  <2>1. t = << >>
    BY <1>5 DEF FileNeighbors
  <2>2. QED
    BY <1>5, <2>1, EmptyIsList
<1>6. QED
  BY <1>2, <1>3, <1>4, <1>5

\* A directory's reports are of it, and those of its LLDP and CDP outputs tell their entries.
LEMMA NeighborsOfDirectory ==
  ASSUME NEW dir, IsDirectory(dir), DeviceName(dir) # NoName
  PROVE  LET read == ReadFiles(dir, FileNeighbors) IN
         /\ IsList(read)
         /\ \A n \in DOMAIN read : IsReport(read[n]) /\ read[n].dir = dir.name
         /\ \A kind \in {"lldp", "cdp"} \cap DOMAIN dir.files : DirectoryTold(read, dir, kind)
<1> DEFINE of(m) == CommandFiles[m]
           ss == [k \in DOMAIN CommandFiles |->
                    IF of(k) \in DOMAIN dir.files THEN FileNeighbors(dir, of(k), dir.files[of(k)]) ELSE << >>]
           read == ReadFiles(dir, FileNeighbors)
<1>1. read = FlattenSeq(ss)
  BY DEF ReadFiles
<1>2. /\ DOMAIN CommandFiles = 1..6 /\ of(1) = "lldp" /\ of(2) = "cdp"
      /\ \A k \in 1..6 : of(k) = "lldp" => k = 1
      /\ \A k \in 1..6 : of(k) = "cdp" => k = 2
  BY DEF CommandFiles
<1>3. \A k \in 1..6 : /\ of(k) \in DOMAIN dir.files => ss[k] = FileNeighbors(dir, of(k), dir.files[of(k)])
                      /\ of(k) \notin DOMAIN dir.files => ss[k] = << >>
  BY <1>2
<1>4. IsList(ss) /\ DOMAIN ss = 1..6 /\ Len(ss) = 6
  <2>1. ss = [k \in 1..6 |-> ss[k]] /\ 6 \in Nat
    BY <1>2
  <2> HIDE DEF ss, of
  <2>2. QED
    BY <2>1, FunctionIsList
<1> HIDE DEF ss, read, of
<1>5. ASSUME NEW k \in 1..6
      PROVE  /\ IsList(ss[k])
             /\ \A m \in DOMAIN ss[k] :
                  /\ IsReport(ss[k][m]) /\ ss[k][m].dir = dir.name
                  /\ of(k) \in DOMAIN dir.files
                  /\ ss[k][m].protocol = IF of(k) \in {"lldp", "cdp"} THEN of(k) ELSE "interface_description"
             /\ of(k) \in {"lldp", "cdp"} \cap DOMAIN dir.files => FileTold(ss[k], dir, of(k), dir.files[of(k)])
  <2>1. CASE of(k) \in DOMAIN dir.files
    <3> DEFINE kind == of(k)
    <3>1. ss[k] = FileNeighbors(dir, kind, dir.files[kind])
      BY <1>3, <2>1
    <3> HIDE DEF kind
    <3>2. kind \in DOMAIN dir.files
      BY <2>1 DEF kind
    <3>3. /\ IsList(ss[k])
          /\ \A m \in DOMAIN ss[k] : /\ IsReport(ss[k][m]) /\ ss[k][m].dir = dir.name
                                     /\ ss[k][m].protocol = IF kind \in {"lldp", "cdp"} THEN kind ELSE "interface_description"
          /\ kind \in {"lldp", "cdp"} => FileTold(ss[k], dir, kind, dir.files[kind])
      BY <3>1, <3>2, FileNeighborsTold
    <3>4. QED
      BY <3>2, <3>3 DEF kind
  <2>2. CASE of(k) \notin DOMAIN dir.files
    BY <1>3, <2>2, EmptyIsList
  <2>3. QED
    BY <2>1, <2>2
<1>6. IsList(read)
  BY <1>1, <1>4, <1>5, FlattenPlaces
<1>7. PICK row, col : Spread(read, ss, 6, row, col)
  BY <1>1, <1>4, <1>5, FlattenPlaces
<1>8. \A n \in DOMAIN read : row[n] \in 1..6 /\ col[n] \in DOMAIN ss[row[n]] /\ read[n] = ss[row[n]][col[n]]
  BY <1>7 DEF Spread
<1>9. \A n \in DOMAIN read : IsReport(read[n]) /\ read[n].dir = dir.name
  BY <1>5, <1>8
<1>10. ASSUME NEW kind \in {"lldp", "cdp"} \cap DOMAIN dir.files
       PROVE  DirectoryTold(read, dir, kind)
  <2>1. PICK k \in 1..6 : of(k) = kind /\ \A j \in 1..6 : of(j) = kind => j = k
    BY <1>2
  <2>2. FileTold(ss[k], dir, kind, dir.files[kind])
    BY <1>5, <2>1
  <2>3. ASSUME NEW n \in ReportsIn(read, dir, kind)
        PROVE  n \in DOMAIN read /\ row[n] = k /\ col[n] \in DOMAIN ss[k] /\ read[n] = ss[k][col[n]]
    <3>1. n \in DOMAIN read /\ read[n].protocol = kind
      BY DEF ReportsIn
    <3>2. of(row[n]) = kind
      BY <1>5, <1>8, <3>1
    <3>3. QED
      BY <1>8, <2>1, <3>1, <3>2
  <2>4. ASSUME NEW m \in DOMAIN ss[k]
        PROVE  \E n \in ReportsIn(read, dir, kind) : read[n] = ss[k][m]
    <3>1. PICK n \in DOMAIN read : row[n] = k /\ col[n] = m
      BY <1>7 DEF Spread
    <3>2. read[n] = ss[k][m]
      BY <1>8, <3>1
    <3>3. read[n].dir = dir.name /\ read[n].protocol = kind
      BY <1>5, <2>1, <3>2
    <3>4. QED
      BY <3>1, <3>2, <3>3 DEF ReportsIn
  <2>5. \A n \in ReportsIn(read, dir, kind) :
          /\ read[n].lines[1] \in NamedEntries(dir.files[kind], kind)
          /\ ToSet(read[n].lines) = EntryOf(dir.files[kind], kind, read[n].lines[1])
    BY <2>2, <2>3 DEF FileTold
  <2>6. \A i \in NamedEntries(dir.files[kind], kind) : \E n \in ReportsIn(read, dir, kind) : read[n].lines[1] = i
    BY <2>2, <2>4 DEF FileTold
  <2>7. ASSUME NEW m \in ReportsIn(read, dir, kind), NEW n \in ReportsIn(read, dir, kind),
               read[m].lines[1] = read[n].lines[1]
        PROVE  m = n
    <3>1. col[m] = col[n]
      BY <2>2, <2>3, <2>7 DEF FileTold
    <3>2. QED
      BY <1>7, <2>3, <3>1 DEF Spread
  <2>8. QED
    BY <2>5, <2>6, <2>7 DEF DirectoryTold
<1>11. QED
  BY <1>6, <1>9, <1>10 DEF read

-----------------------------------------------------------------------------
\* A row of the table has a port and a MAC address.
LEMMA RowTyped ==
  ASSUME NEW dir, IsDirectory(dir), DeviceName(dir) # NoName, NEW kind, NEW interface, IsInterfaceName(interface),
         NEW mac \in Nat, mac % 10 = 0
  PROVE  IsRow(Row(dir, kind, interface, mac))
<1> DEFINE row == Row(dir, kind, interface, mac)
<1>1. row.at = End(DeviceName(dir), interface) /\ row.mac = MacEnd(mac)
  BY DEF Row
<1>2. IsPort(End(DeviceName(dir), interface))
  BY DeviceNamed, EndTyped
<1>3. IsMac(MacEnd(mac))
  BY DEF MacEnd, IsMac, Endpoint
<1>4. QED
  BY <1>1, <1>2, <1>3 DEF IsRow

\* A list made of another, place by place.
LEMMA ListMapped ==
  ASSUME NEW text, IsList(text), NEW all, all = [i \in DOMAIN text |-> all[i]]
  PROVE  IsList(all) /\ DOMAIN all = DOMAIN text
<1>1. Len(text) \in Nat /\ DOMAIN text = 1 .. Len(text)
  BY ListLength
<1>2. QED
  BY <1>1, FunctionIsList

\* An ARP, MAC or interface table makes such rows.
LEMMA RowsTyped ==
  ASSUME NEW dir, IsDirectory(dir), DeviceName(dir) # NoName, NEW kind, NEW text, IsList(text),
         \A i \in DOMAIN text : IsLine(text[i]) /\ text[i].b \in Nat /\ text[i].b % 10 = 0,
         NEW word, word \notin DeviceWords
  PROVE  IsList(RowsOf(dir, kind, text, word)) /\ \A n \in DOMAIN RowsOf(dir, kind, text, word) : IsRow(RowsOf(dir, kind, text, word)[n])
<1> DEFINE all == [i \in DOMAIN text |-> Row(dir, kind, text[i].a, text[i].b)]
           places == {i \in DOMAIN text : text[i].word = word}
           t == RowsOf(dir, kind, text, word)
<1>1. t = Picked(all, places)
  BY DEF RowsOf
<1>2. \A i \in places : all[i] = Row(dir, kind, text[i].a, text[i].b) /\ text[i].word = word /\ i \in DOMAIN text
  OBVIOUS
<1>3. all = [i \in DOMAIN text |-> all[i]] /\ places \subseteq DOMAIN text
  OBVIOUS
<1> HIDE DEF all, places, t
<1>4. IsList(all) /\ DOMAIN all = DOMAIN text
  BY <1>3, ListMapped
<1>5. ASSUME NEW i \in places
      PROVE  IsRow(all[i])
  <2>1. IsInterfaceName(text[i].a) /\ text[i].b \in Nat /\ text[i].b % 10 = 0
    BY <1>2 DEF IsLine
  <2>2. QED
    BY <1>2, <2>1, RowTyped
<1>6. PICK pos : Picks(t, all, places, pos)
  BY <1>1, <1>3, <1>4, PickedPlaces
<1>7. IsList(t) /\ \A n \in DOMAIN t : IsRow(t[n])
  BY <1>5, <1>6 DEF Picks
<1>8. QED
  BY <1>7 DEF t

\* The addresses of a running configuration make such rows.
LEMMA ConfigRowsTyped ==
  ASSUME NEW dir, IsDirectory(dir), DeviceName(dir) # NoName, NEW text, IsText(text)
  PROVE  IsList(ConfigRows(dir, text)) /\ \A n \in DOMAIN ConfigRows(dir, text) : IsRow(ConfigRows(dir, text)[n])
<1> DEFINE blocks == ConfigBlocks(text)
           told(block) == {i \in ToSet(block) : text[i].word = "ip address"}
           lines(block) == [i \in DOMAIN text |-> Row(dir, "config_ip", text[block[1]].a, 0)]
           ss == [n \in DOMAIN blocks |-> Picked(lines(blocks[n]), told(blocks[n]))]
<1>1. ConfigRows(dir, text) = FlattenSeq(ss)
  BY DEF ConfigRows
<1>2. /\ IsList(blocks)
      /\ \A n \in DOMAIN blocks : /\ blocks[n][1] \in DOMAIN text /\ text[blocks[n][1]].word = "interface"
                                  /\ ToSet(blocks[n]) \subseteq DOMAIN text
  BY ConfigBlocksInside DEF IsText
<1>3. IsList(ss) /\ DOMAIN ss = DOMAIN blocks
  <2>1. ss = [n \in DOMAIN blocks |-> ss[n]]
    OBVIOUS
  <2> HIDE DEF ss, blocks
  <2>2. QED
    BY <1>2, <2>1, ListMapped
<1>4. ASSUME NEW n \in DOMAIN blocks
      PROVE  IsList(ss[n]) /\ \A m \in DOMAIN ss[n] : IsRow(ss[n][m])
  <2> DEFINE block == blocks[n]
             all == lines(block)
  <2>1. /\ ss[n] = Picked(all, told(block)) /\ block[1] \in DOMAIN text /\ text[block[1]].word = "interface"
        /\ ToSet(block) \subseteq DOMAIN text
    BY <1>2
  <2>2. told(block) \subseteq DOMAIN text
    BY <2>1
  <2>3. \A i \in DOMAIN text : all[i] = Row(dir, "config_ip", text[block[1]].a, 0)
    OBVIOUS
  <2>4. all = [i \in DOMAIN text |-> all[i]]
    OBVIOUS
  <2> HIDE DEF all, block, blocks, ss, told
  <2>5. IsRow(Row(dir, "config_ip", text[block[1]].a, 0))
    <3>1. IsInterfaceName(text[block[1]].a)
      BY <2>1 DEF IsText, IsLine, DeviceWords
    <3>2. 0 \in Nat /\ 0 % 10 = 0
      OBVIOUS
    <3>3. QED
      BY <3>1, <3>2, RowTyped
  <2>6. IsList(all) /\ DOMAIN all = DOMAIN text
    BY <2>4, ListMapped DEF IsText
  <2>7. PICK pos : Picks(ss[n], all, told(block), pos)
    BY <2>1, <2>2, <2>6, PickedPlaces
  <2>8. QED
    BY <2>2, <2>3, <2>5, <2>7 DEF Picks
<1> HIDE DEF ss, blocks
<1>5. \A k \in DOMAIN ss : IsList(ss[k])
  BY <1>3, <1>4
<1>6. /\ IsList(FlattenSeq(ss))
      /\ \A n \in DOMAIN FlattenSeq(ss) : \E k \in DOMAIN ss : \E m \in DOMAIN ss[k] : FlattenSeq(ss)[n] = ss[k][m]
  BY <1>3, <1>5, FlattenMembers
<1>7. \A n \in DOMAIN FlattenSeq(ss) : IsRow(FlattenSeq(ss)[n])
  BY <1>3, <1>4, <1>6
<1>8. QED
  BY <1>1, <1>6, <1>7

\* A directory's rows are such rows.
LEMMA RowsOfDirectory ==
  ASSUME NEW dir, IsDirectory(dir), DeviceName(dir) # NoName
  PROVE  LET read == ReadFiles(dir, FileAddresses) IN IsList(read) /\ \A n \in DOMAIN read : IsRow(read[n])
<1> DEFINE of(m) == CommandFiles[m]
           ss == [k \in DOMAIN CommandFiles |->
                    IF of(k) \in DOMAIN dir.files THEN FileAddresses(dir, of(k), dir.files[of(k)]) ELSE << >>]
           read == ReadFiles(dir, FileAddresses)
<1>1. read = FlattenSeq(ss)
  BY DEF ReadFiles
<1>2. DOMAIN ss = 1..6 /\ IsList(ss)
  <2>1. ss = [k \in 1..6 |-> ss[k]] /\ 6 \in Nat /\ DOMAIN ss = 1..6
    BY DEF CommandFiles
  <2> HIDE DEF ss
  <2>2. QED
    BY <2>1, FunctionIsList
<1>3. ASSUME NEW kind \in DOMAIN dir.files
      PROVE  LET t == FileAddresses(dir, kind, dir.files[kind]) IN IsList(t) /\ \A n \in DOMAIN t : IsRow(t[n])
  <2> DEFINE text == dir.files[kind]
             t == FileAddresses(dir, kind, text)
  <2>2. CASE kind \in {"arp", "mac_table", "interface_ip"}
    <3>1. PICK word \in {"internet", "dynamic", "row"} : \E name : t = RowsOf(dir, name, text, word)
      BY <2>2 DEF FileAddresses
    <3>2. IsList(text) /\ \A i \in DOMAIN text : IsLine(text[i]) /\ text[i].b \in Nat /\ text[i].b % 10 = 0
      BY <2>2 DEF IsDirectory
    <3>3. word \notin DeviceWords
      BY DEF DeviceWords
    <3> HIDE DEF t, text
    <3>4. IsList(t) /\ \A n \in DOMAIN t : IsRow(t[n])
      BY <3>1, <3>2, <3>3, RowsTyped
    <3>5. QED
      BY <3>4 DEF t, text
  <2>3. CASE kind = "running_config"
    <3>1. t = ConfigRows(dir, text) /\ IsText(text)
      BY <2>3 DEF FileAddresses, IsDirectory, IsText
    <3> HIDE DEF t, text
    <3>2. IsList(t) /\ \A n \in DOMAIN t : IsRow(t[n])
      BY <3>1, ConfigRowsTyped
    <3>3. QED
      BY <3>2 DEF t, text
  <2>4. CASE kind \notin {"arp", "mac_table", "interface_ip", "running_config"}
    <3>1. t = << >>
      BY <2>4 DEF FileAddresses
    <3>2. QED
      BY <3>1, EmptyIsList
  <2>5. QED
    BY <2>2, <2>3, <2>4
<1>4. ASSUME NEW k \in 1..6
      PROVE  IsList(ss[k]) /\ \A m \in DOMAIN ss[k] : IsRow(ss[k][m])
  <2>1. CASE of(k) \in DOMAIN dir.files
    <3>1. ss[k] = FileAddresses(dir, of(k), dir.files[of(k)])
      BY <1>2, <2>1
    <3> HIDE DEF ss, of
    <3>2. QED
      BY <1>3, <2>1, <3>1
  <2>2. CASE of(k) \notin DOMAIN dir.files
    <3>1. ss[k] = << >>
      BY <1>2, <2>2
    <3>2. QED
      BY <3>1, EmptyIsList
  <2>3. QED
    BY <2>1, <2>2
<1> HIDE DEF ss, of
<1>5. /\ IsList(FlattenSeq(ss))
      /\ \A n \in DOMAIN FlattenSeq(ss) : \E k \in DOMAIN ss : \E m \in DOMAIN ss[k] : FlattenSeq(ss)[n] = ss[k][m]
  BY <1>2, <1>4, FlattenMembers
<1>6. QED
  BY <1>1, <1>2, <1>4, <1>5

-----------------------------------------------------------------------------
(***************************************************************************)
(* Discovery and the topology together, for any directories.               *)
(***************************************************************************)
\* A directory's reports stay told when those of others join them.
LEMMA ToldBefore ==
  ASSUME NEW s, NEW t, IsList(s), IsList(t), NEW dir, NEW kind,
         \A n \in DOMAIN t : t[n].dir # dir.name, DirectoryTold(s, dir, kind)
  PROVE  DirectoryTold(s \o t, dir, kind)
<1>1. Len(s) \in Nat /\ DOMAIN s = 1 .. Len(s) /\ Len(t) \in Nat /\ DOMAIN t = 1 .. Len(t)
  BY ListLength
<1> DEFINE u == s \o t
<1>2. /\ IsList(u) /\ Len(u) = Len(s) + Len(t)
      /\ \A n \in 1 .. Len(s) : u[n] = s[n]
      /\ \A n \in DOMAIN u : n \in DOMAIN s \/ (n > Len(s) /\ n - Len(s) \in DOMAIN t /\ u[n] = t[n - Len(s)])
  BY ListsConcat
<1> HIDE DEF u
<1>3. DOMAIN u = 1 .. Len(u)
  BY <1>2, ListLength
<1>4. ReportsIn(u, dir, kind) = ReportsIn(s, dir, kind)
  BY <1>1, <1>2, <1>3 DEF ReportsIn
<1>5. \A n \in ReportsIn(s, dir, kind) : u[n] = s[n]
  BY <1>1, <1>2 DEF ReportsIn
<1>6. DirectoryTold(u, dir, kind)
  BY <1>4, <1>5 DEF DirectoryTold
<1>7. QED
  BY <1>6 DEF u

\* And those read of a directory stay told when they join others.
LEMMA ToldAfter ==
  ASSUME NEW s, NEW t, IsList(s), IsList(t), NEW dir, NEW kind,
         \A n \in DOMAIN s : s[n].dir # dir.name, DirectoryTold(t, dir, kind)
  PROVE  DirectoryTold(s \o t, dir, kind)
<1>1. Len(s) \in Nat /\ DOMAIN s = 1 .. Len(s) /\ Len(t) \in Nat /\ DOMAIN t = 1 .. Len(t)
  BY ListLength
<1> DEFINE u == s \o t
           L == Len(s)
<1>2. /\ IsList(u) /\ Len(u) = L + Len(t)
      /\ \A n \in 1 .. L : u[n] = s[n]
      /\ \A n \in 1 .. Len(t) : u[L + n] = t[n]
      /\ \A n \in DOMAIN u : n \in DOMAIN s \/ (n > L /\ n - L \in DOMAIN t /\ u[n] = t[n - L])
  BY ListsConcat
<1> HIDE DEF u
<1>3. DOMAIN u = 1 .. Len(u)
  BY <1>2, ListLength
<1>4. ASSUME NEW n \in ReportsIn(u, dir, kind)
      PROVE  n - L \in ReportsIn(t, dir, kind) /\ u[n] = t[n - L] /\ n \in Int
  <2>1. n \in DOMAIN u /\ u[n].dir = dir.name /\ u[n].protocol = kind /\ n \in Int
    BY <1>1, <1>2, <1>3 DEF ReportsIn
  <2>2. n \notin DOMAIN s
    BY <1>1, <1>2, <2>1
  <2>3. QED
    BY <1>2, <2>1, <2>2 DEF ReportsIn
<1>5. ASSUME NEW n \in ReportsIn(t, dir, kind)
      PROVE  L + n \in ReportsIn(u, dir, kind) /\ u[L + n] = t[n]
  BY <1>1, <1>2, <1>3 DEF ReportsIn
<1> HIDE DEF L
<1>6. \A n \in ReportsIn(u, dir, kind) :
        /\ u[n].lines[1] \in NamedEntries(dir.files[kind], kind)
        /\ ToSet(u[n].lines) = EntryOf(dir.files[kind], kind, u[n].lines[1])
  BY <1>4 DEF DirectoryTold
<1>7. \A i \in NamedEntries(dir.files[kind], kind) : \E n \in ReportsIn(u, dir, kind) : u[n].lines[1] = i
  <2>1. TAKE i \in NamedEntries(dir.files[kind], kind)
  <2>2. PICK n \in ReportsIn(t, dir, kind) : t[n].lines[1] = i
    BY DEF DirectoryTold
  <2>3. QED
    BY <1>5, <2>2
<1>8. ASSUME NEW m \in ReportsIn(u, dir, kind), NEW n \in ReportsIn(u, dir, kind),
             u[m].lines[1] = u[n].lines[1]
      PROVE  m = n
  <2>1. m - L = n - L
    BY <1>4, <1>8 DEF DirectoryTold
  <2>2. m \in Int /\ n \in Int /\ L \in Int
    BY <1>1, <1>4 DEF L
  <2>3. QED
    BY <2>1, <2>2
<1>9. DirectoryTold(u, dir, kind)
  BY <1>6, <1>7, <1>8 DEF DirectoryTold
<1>10. QED
  BY <1>9 DEF u

-----------------------------------------------------------------------------
\* What is left of a list after one more of it.
LEMMA RestOfList ==
  ASSUME NEW s, IsList(s), NEW last \in 0 .. Len(s), NEW rest,
         rest = [n \in 1 .. Len(s) - last |-> s[last + n]], rest # << >>
  PROVE  /\ last + 1 \in 1 .. Len(s) /\ Head(rest) = s[last + 1]
         /\ Tail(rest) = [n \in 1 .. Len(s) - (last + 1) |-> s[(last + 1) + n]]
<1> DEFINE k == Len(s) - last
<1>1. Len(s) \in Nat /\ k \in Nat /\ last \in Nat
  BY ListLength
<1>2. rest = [n \in 1..k |-> rest[n]] /\ \A n \in 1..k : rest[n] = s[last + n]
  OBVIOUS
<1>3. IsList(rest) /\ Len(rest) = k
  <2> HIDE DEF k
  <2>1. QED
    BY <1>1, <1>2, FunctionIsList
<1>4. k # 0
  BY <1>3, ListLength
<1>5. rest \in Seq(ToSet(rest))
  BY <1>3, ListLength
<1>6. Head(rest) = s[last + 1]
  <2>1. Head(rest) = rest[1]
    BY <1>5, rest # << >>
  <2>2. 1 \in 1..k
    BY <1>1, <1>4
  <2>3. QED
    BY <1>2, <2>1, <2>2
<1>7. Tail(rest) = [n \in 1 .. k - 1 |-> rest[n + 1]]
  <2> HIDE DEF k
  <2>1. QED
    BY <1>1, <1>3, <1>4, <1>5
<1>8. \A n \in 1 .. k - 1 : rest[n + 1] = s[(last + 1) + n]
  <2>1. TAKE n \in 1 .. k - 1
  <2>2. n + 1 \in 1..k /\ last + (n + 1) = (last + 1) + n
    BY <1>1
  <2>3. QED
    BY <1>2, <2>2
<1>9. k - 1 = Len(s) - (last + 1) /\ last + 1 \in 1 .. Len(s)
  BY <1>1, <1>4
<1> HIDE DEF k
<1>10. QED
  BY <1>6, <1>7, <1>8, <1>9

\* The directories are a list, and no two have one name.
LEMMA TreeIsList ==
  ASSUME tree = << >> \/ tree \in Trees
  PROVE  /\ IsList(tree) /\ DOMAIN tree = 1 .. Len(tree) /\ Len(tree) \in Nat
         /\ \A d \in DOMAIN tree : IsDirectory(tree[d])
         /\ \A d, e \in DOMAIN tree : tree[d].name = tree[e].name => d = e
<1>1. /\ IsList(tree)
      /\ \A d \in DOMAIN tree : IsDirectory(tree[d])
      /\ \A d, e \in DOMAIN tree : tree[d].name = tree[e].name => d = e
  BY TreesAssumption, EmptyIsList
<1>2. QED
  BY <1>1, ListLength

\* Reading one more directory tells it, and those before it stay told.
LEMMA ReadDeviceKeeps ==
  ASSUME DiscoveryInv, ReadDevice
  PROVE  DiscoveryInv'
<1> DEFINE dir == Head(toRead)
           told == ReadFiles(dir, FileNeighbors)
           rows == ReadFiles(dir, FileAddresses)
<1>1. /\ pc = "idle" /\ toRead # << >> /\ DeviceName(dir) # NoName
      /\ found' = found \o told /\ table' = table \o rows /\ toRead' = Tail(toRead)
      /\ tree' = tree /\ UNCHANGED topoVars
  BY DEF ReadDevice
<1>2. TopologyInv'
  BY <1>1, TopologyStep DEF DiscoveryInv
<1> HIDE DEF dir, told, rows
<1>3. /\ tree = << >> \/ tree \in Trees
      /\ IsList(found) /\ IsList(table)
      /\ \A n \in DOMAIN found : IsReport(found[n])
      /\ \A n \in DOMAIN table : IsRow(table[n])
  BY DEF DiscoveryInv, DirectoriesRead
<1>4. PICK last \in 0 .. Len(tree) :
        /\ toRead = [n \in 1 .. Len(tree) - last |-> tree[last + n]]
        /\ \A n \in DOMAIN found : \E d \in 1 .. last : found[n].dir = tree[d].name
        /\ \A d \in 1 .. last : \A kind \in {"lldp", "cdp"} \cap DOMAIN tree[d].files : DirectoryTold(found, tree[d], kind)
  BY DEF DiscoveryInv, DirectoriesRead
<1>5. /\ last + 1 \in 1 .. Len(tree) /\ dir = tree[last + 1] /\ last \in Nat
      /\ Tail(toRead) = [n \in 1 .. Len(tree) - (last + 1) |-> tree[(last + 1) + n]]
  <2>1. IsList(tree) /\ Len(tree) \in Nat
    BY <1>3, TreeIsList
  <2>2. last \in Nat
    BY <2>1
  <2>3. toRead = [n \in 1 .. Len(tree) - last |-> tree[last + n]] /\ toRead # << >>
    BY <1>1, <1>4
  <2>4. /\ last + 1 \in 1 .. Len(tree) /\ Head(toRead) = tree[last + 1]
        /\ Tail(toRead) = [n \in 1 .. Len(tree) - (last + 1) |-> tree[(last + 1) + n]]
    BY <2>1, <2>3, RestOfList
  <2>5. QED
    BY <2>2, <2>4 DEF dir
<1>6. IsDirectory(dir) /\ \A d \in 1 .. last : tree[d].name # dir.name
  BY <1>3, <1>5, TreeIsList
<1>7. /\ IsList(told) /\ \A n \in DOMAIN told : IsReport(told[n]) /\ told[n].dir = dir.name
      /\ \A kind \in {"lldp", "cdp"} \cap DOMAIN dir.files : DirectoryTold(told, dir, kind)
  BY <1>1, <1>6, NeighborsOfDirectory DEF told
<1>8. IsList(rows) /\ \A n \in DOMAIN rows : IsRow(rows[n])
  BY <1>1, <1>6, RowsOfDirectory DEF rows
<1>9. /\ IsList(found \o told)
      /\ \A n \in DOMAIN (found \o told) : \/ n \in DOMAIN found /\ (found \o told)[n] = found[n]
                                           \/ \E m \in DOMAIN told : (found \o told)[n] = told[m]
  BY <1>3, <1>7, ListsConcat, ListLength
<1>10. /\ IsList(table \o rows)
       /\ \A n \in DOMAIN (table \o rows) : \/ n \in DOMAIN table /\ (table \o rows)[n] = table[n]
                                            \/ \E m \in DOMAIN rows : (table \o rows)[n] = rows[m]
  BY <1>3, <1>8, ListsConcat, ListLength
<1>11. /\ \A n \in DOMAIN (found \o told) : IsReport((found \o told)[n])
       /\ \A n \in DOMAIN (table \o rows) : IsRow((table \o rows)[n])
  BY <1>3, <1>7, <1>8, <1>9, <1>10
<1>12. \A n \in DOMAIN (found \o told) : \E d \in 1 .. last + 1 : (found \o told)[n].dir = tree[d].name
  <2>1. TAKE n \in DOMAIN (found \o told)
  <2>2. CASE n \in DOMAIN found /\ (found \o told)[n] = found[n]
    <3>1. PICK d \in 1 .. last : found[n].dir = tree[d].name
      BY <1>4, <2>2
    <3>2. d \in 1 .. last + 1
      BY <1>5
    <3>3. QED
      BY <2>2, <3>1, <3>2
  <2>3. CASE \E m \in DOMAIN told : (found \o told)[n] = told[m]
    <3>1. last + 1 \in 1 .. last + 1 /\ (found \o told)[n].dir = tree[last + 1].name
      BY <1>5, <1>7, <2>3
    <3>2. QED
      BY <3>1
  <2>4. QED
    BY <1>9, <2>2, <2>3
<1>13. ASSUME NEW d \in 1 .. last + 1, NEW kind \in {"lldp", "cdp"} \cap DOMAIN tree[d].files
       PROVE  DirectoryTold(found \o told, tree[d], kind)
  <2>1. CASE d = last + 1
    <3>1. DirectoryTold(told, dir, kind) /\ dir = tree[d]
      BY <1>5, <1>7, <2>1
    <3>2. \A n \in DOMAIN found : found[n].dir # dir.name
      BY <1>4, <1>6
    <3>3. QED
      BY <1>3, <1>7, <3>1, <3>2, ToldAfter
  <2>2. CASE d \in 1 .. last
    <3>1. DirectoryTold(found, tree[d], kind)
      BY <1>4, <2>2
    <3>2. \A n \in DOMAIN told : told[n].dir # tree[d].name
      BY <1>6, <1>7, <2>2
    <3>3. QED
      BY <1>3, <1>7, <3>1, <3>2, ToldBefore
  <2>3. QED
    BY <1>5, <2>1, <2>2
<1>14. last + 1 \in 0 .. Len(tree)
  BY <1>5
<1>15. DirectoriesRead'
  <2>1. \A d \in 1 .. last + 1 : \A kind \in {"lldp", "cdp"} \cap DOMAIN tree[d].files : DirectoryTold(found \o told, tree[d], kind)
    BY <1>13
  <2>2. toRead' = [n \in 1 .. Len(tree) - (last + 1) |-> tree[(last + 1) + n]]
    BY <1>1, <1>5
  <2>3. /\ tree' = << >> \/ tree' \in Trees
        /\ IsList(found') /\ IsList(table')
        /\ \A n \in DOMAIN found' : IsReport(found'[n])
        /\ \A n \in DOMAIN table' : IsRow(table'[n])
    BY <1>1, <1>3, <1>9, <1>10, <1>11
  <2>4. \E end \in 0 .. Len(tree') :
          /\ toRead' = [n \in 1 .. Len(tree') - end |-> tree'[end + n]]
          /\ \A n \in DOMAIN found' : \E d \in 1 .. end : found'[n].dir = tree'[d].name
          /\ \A d \in 1 .. end : \A kind \in {"lldp", "cdp"} \cap DOMAIN tree'[d].files : DirectoryTold(found', tree'[d], kind)
    BY <1>1, <1>12, <1>14, <2>1, <2>2
  <2>5. QED
    BY <2>3, <2>4 DEF DirectoriesRead
<1>16. QED
  BY <1>2, <1>15 DEF DiscoveryInv

LEMMA DiscoveryKept ==
  ASSUME DirectoriesRead, UNCHANGED discoveryVars
  PROVE  DirectoriesRead'
BY DEF DirectoriesRead, discoveryVars

LEMMA DiscoverFailsKeeps ==
  ASSUME DiscoveryInv, DiscoverFails
  PROVE  DiscoveryInv'
BY DiscoveryKept DEF DiscoverFails, DiscoveryInv

\* Sorting moves the items of a list and makes none.
LEMMA SortedTyped ==
  ASSUME NEW s, IsList(s), NEW f \in Orders(DOMAIN s), NEW t, t = [n \in DOMAIN s |-> s[f[n]]]
  PROVE  IsList(t) /\ \A n \in DOMAIN t : \E m \in DOMAIN s : t[n] = s[m]
<1>1. f \in [DOMAIN s -> DOMAIN s]
  BY DEF Orders
<1>2. t = [n \in DOMAIN s |-> t[n]] /\ \A n \in DOMAIN s : f[n] \in DOMAIN s /\ t[n] = s[f[n]]
  BY <1>1
<1>3. IsList(t) /\ DOMAIN t = DOMAIN s
  BY <1>2, ListMapped
<1>4. QED
  BY <1>2, <1>3

\* What discovery hands over is what Build may be given.
LEMMA SortedGiven ==
  ASSUME NEW reports, NEW rows, IsList(reports), IsList(rows),
         \A n \in DOMAIN reports : IsReport(reports[n]), \A n \in DOMAIN rows : IsRow(rows[n])
  PROVE  Given(reports, rows)
<1>1. \A i \in DOMAIN reports : /\ reports[i].local \in Endpoint /\ reports[i].remote \in Endpoint
                                /\ reports[i].local.key = NoKey \/ reports[i].local.key % 10 # 0
                                /\ reports[i].remote.key = NoKey \/ reports[i].remote.key % 10 # 0
  BY DEF IsReport, IsPort
<1>2. \A n \in DOMAIN rows : rows[n].at \in Endpoint /\ rows[n].mac \in Endpoint /\ rows[n].mac.key % 10 = 0
  BY DEF IsRow, IsPort, IsMac
<1>3. QED
  BY <1>1, <1>2 DEF Given, IsList

LEMMA DiscoverBuildsKeeps ==
  ASSUME DiscoveryInv, DiscoverBuilds
  PROVE  DiscoveryInv'
<1>1. pc = "idle" /\ UNCHANGED discoveryVars
  BY DEF DiscoverBuilds
<1>2. PICK f \in Orders(DOMAIN found), g \in Orders(DOMAIN table) :
        BuildStarts([n \in DOMAIN found |-> found[f[n]]], [n \in DOMAIN table |-> table[g[n]]])
  BY DEF DiscoverBuilds, Sorted
<1> DEFINE reports == [n \in DOMAIN found |-> found[f[n]]]
           rows == [n \in DOMAIN table |-> table[g[n]]]
<1>3. reports = [n \in DOMAIN found |-> found[f[n]]] /\ rows = [n \in DOMAIN table |-> table[g[n]]]
  OBVIOUS
<1> HIDE DEF reports, rows
<1>4. /\ IsList(found) /\ IsList(table)
      /\ \A n \in DOMAIN found : IsReport(found[n])
      /\ \A n \in DOMAIN table : IsRow(table[n])
  BY DEF DiscoveryInv, DirectoriesRead
<1>5. IsList(reports) /\ \A n \in DOMAIN reports : IsReport(reports[n])
  BY <1>3, <1>4, SortedTyped
<1>6. IsList(rows) /\ \A n \in DOMAIN rows : IsRow(rows[n])
  BY <1>3, <1>4, SortedTyped
<1>7. Given(reports, rows)
  BY <1>5, <1>6, SortedGiven
<1>8. TopologyInv /\ BuildStarts(reports, rows)
  BY <1>1, <1>2, <1>3 DEF DiscoveryInv
<1>9. TopologyInv'
  BY <1>1, <1>7, <1>8, BuildStartsStep
<1>10. QED
  BY <1>1, <1>9, DiscoveryKept DEF DiscoveryInv

LEMMA TopologyKeeps ==
  ASSUME DiscoveryInv, UNCHANGED discoveryVars, TopologyNext \/ UNCHANGED topoVars
  PROVE  DiscoveryInv'
<1>1. DirectoriesRead'
  BY DiscoveryKept DEF DiscoveryInv
<1>2. CASE TopologyInv
  BY <1>1, <1>2, TopologyStep DEF DiscoveryInv
<1>3. CASE pc = "failed"
  <2>1. ~TopologyNext
    BY <1>3 DEF TopologyNext, VisitLocal, VisitRemote, GroupsDone, VisitLink, LinksDone, VisitAddress, SortAndReturn
  <2>2. pc' = "failed"
    BY <1>3, <2>1 DEF topoVars
  <2>3. QED
    BY <1>1, <2>2 DEF DiscoveryInv
<1>4. QED
  BY <1>2, <1>3 DEF DiscoveryInv

LEMMA DiscoveryStep == DiscoveryInv /\ [OfflineNext]_OfflineVars => DiscoveryInv'
<1>1. ASSUME DiscoveryInv, DiscoverNext
      PROVE  DiscoveryInv'
  BY <1>1, ReadDeviceKeeps, DiscoverFailsKeeps, DiscoverBuildsKeeps, TopologyKeeps DEF DiscoverNext
<1>2. ASSUME DiscoveryInv, UNCHANGED <<discoveryVars, topoVars>>
      PROVE  DiscoveryInv'
  BY <1>2, TopologyKeeps
<1>3. QED
  BY <1>1, <1>2 DEF OfflineNext, OfflineVars

LEMMA DiscoveryInit == OfflineInit => DiscoveryInv
<1>1. SUFFICES ASSUME NEW directories, directories = << >> \/ directories \in Trees, DiscoverInit(directories)
               PROVE  DiscoveryInv
  BY DEF OfflineInit
<1>2. /\ tree = directories /\ toRead = directories /\ found = << >> /\ table = << >> /\ TopologyIdle
  BY <1>1 DEF DiscoverInit
<1>3. tree = << >> \/ tree \in Trees
  BY <1>1, <1>2
<1>4. IsList(tree) /\ Len(tree) \in Nat /\ DOMAIN tree = 1 .. Len(tree)
  BY <1>3, TreeIsList
<1>5. tree = [n \in 1 .. Len(tree) - 0 |-> tree[0 + n]]
  <2>1. tree = [n \in 1 .. Len(tree) |-> tree[n]]
    BY <1>4 DEF IsList
  <2>2. \A n \in 1 .. Len(tree) : 0 + n = n
    BY <1>4
  <2>3. Len(tree) - 0 = Len(tree)
    BY <1>4
  <2>4. QED
    BY <2>1, <2>2, <2>3
<1>6. 0 \in 0 .. Len(tree) /\ 1 .. 0 = {}
  BY <1>4
<1>7. DirectoriesRead
  BY <1>2, <1>3, <1>5, <1>6, EmptyIsList DEF DirectoriesRead
<1>8. QED
  BY <1>2, <1>7, IdleInv DEF DiscoveryInv

-----------------------------------------------------------------------------
\* Of the directories read, the reports are those of the entries, one each.
LEMMA FilesTold == DiscoveryInv => NeighborsTellFiles
<1>1. SUFFICES ASSUME DiscoveryInv, NEW d \in DOMAIN tree, ToSet(toRead) \cap {tree[d]} = {},
                      NEW kind \in {"lldp", "cdp"} \cap DOMAIN tree[d].files
               PROVE  LET text    == tree[d].files[kind]
                          reports == ReportsIn(found, tree[d], kind)
                      IN /\ Cardinality(reports) = Cardinality(NamedEntries(text, kind))
                         /\ {found[n].lines[1] : n \in reports} = NamedEntries(text, kind)
                         /\ \A n \in reports : ToSet(found[n].lines) = EntryOf(text, kind, found[n].lines[1])
  BY DEF NeighborsTellFiles
<1> DEFINE text == tree[d].files[kind]
           reports == ReportsIn(found, tree[d], kind)
           entries == NamedEntries(text, kind)
<1>2. /\ Len(tree) \in Nat /\ DOMAIN tree = 1 .. Len(tree) /\ IsList(found)
  BY <1>1, TreeIsList DEF DiscoveryInv, DirectoriesRead
<1>3. PICK last \in 0 .. Len(tree) :
        /\ toRead = [n \in 1 .. Len(tree) - last |-> tree[last + n]]
        /\ \A e \in 1 .. last : \A k \in {"lldp", "cdp"} \cap DOMAIN tree[e].files : DirectoryTold(found, tree[e], k)
  BY <1>1 DEF DiscoveryInv, DirectoriesRead
<1>4. d \in 1 .. last
  <2>1. SUFFICES ASSUME d > last PROVE FALSE
    BY <1>2
  <2>2. d - last \in 1 .. Len(tree) - last /\ last + (d - last) = d
    BY <1>2, <2>1
  <2>3. d - last \in DOMAIN toRead /\ toRead[d - last] = tree[d]
    BY <1>3, <2>2
  <2>4. QED
    BY <1>1, <2>3 DEF ToSet
<1>5. DirectoryTold(found, tree[d], kind)
  BY <1>3, <1>4
<1>6. /\ \A n \in reports : found[n].lines[1] \in entries /\ ToSet(found[n].lines) = EntryOf(text, kind, found[n].lines[1])
      /\ \A i \in entries : \E n \in reports : found[n].lines[1] = i
      /\ \A m, n \in reports : found[m].lines[1] = found[n].lines[1] => m = n
  BY <1>5 DEF DirectoryTold
<1>7. IsFiniteSet(reports)
  <2>1. Len(found) \in Nat /\ DOMAIN found = 1 .. Len(found)
    BY <1>2, ListLength
  <2>2. IsFiniteSet(1 .. Len(found)) /\ reports \in SUBSET (1 .. Len(found))
    BY <2>1, IntervalFinite DEF ReportsIn
  <2> HIDE DEF reports
  <2>3. QED
    BY <2>2, FS_Subset
<1> HIDE DEF text, reports, entries
<1>8. Cardinality(reports) = Cardinality(entries)
  <2> DEFINE first == [n \in reports |-> found[n].lines[1]]
  <2>1. first \in [reports -> entries] /\ \A n \in reports : first[n] = found[n].lines[1]
    BY <1>6
  <2> HIDE DEF first
  <2>2. first \in Bijection(reports, entries)
    BY <1>6, <2>1 DEF Bijection, Injection, Surjection, IsInjective
  <2>3. ExistsBijection(reports, entries)
    BY <2>2 DEF ExistsBijection
  <2>4. QED
    BY <1>7, <2>3, FS_Bijection
<1>9. {found[n].lines[1] : n \in reports} = entries
  BY <1>6
<1>10. QED
  BY <1>6, <1>8, <1>9 DEF text, reports, entries

\* What Build returns tells the reports; a discovery that failed returns none.
LEMMA TopologyTold == DiscoveryInv => TopologyTellsReports
<1>1. SUFFICES ASSUME DiscoveryInv PROVE TopologyTellsReports
  OBVIOUS
<1>2. CASE TopologyInv
  BY <1>2, LinksTold, ConflictsTold, LinksOrdered DEF TopologyTellsReports
<1>3. CASE pc = "failed"
  BY <1>3 DEF TopologyTellsReports, LinksTellReports, ConflictsTellReports, LinksOnceInOrder
<1>4. QED
  BY <1>1, <1>2, <1>3 DEF DiscoveryInv

\* Whatever directories "netc discover" is given and however far it has come, each entry of their LLDP and
\* CDP outputs that names both ends makes one report, of its own lines (discovery.go:159-190).
THEOREM NeighborsAlwaysTell == OfflineSpec => []NeighborsTellFiles
<1>1. OfflineInit => DiscoveryInv
  BY DiscoveryInit
<1>2. DiscoveryInv /\ [OfflineNext]_OfflineVars => DiscoveryInv'
  BY DiscoveryStep
<1>3. DiscoveryInv => NeighborsTellFiles
  BY FilesTold
<1>4. QED
  BY <1>1, <1>2, <1>3, PTL DEF OfflineSpec

\* And the topology it prints says what those reports say, once: discovery hands over what Build may be
\* given, whatever the files and in whatever order the sorts leave equals (discovery.go:61-94, topology.go:16-51).
THEOREM DiscoverAlwaysTells == OfflineSpec => []TopologyTellsReports
<1>1. OfflineInit => DiscoveryInv
  BY DiscoveryInit
<1>2. DiscoveryInv /\ [OfflineNext]_OfflineVars => DiscoveryInv'
  BY DiscoveryStep
<1>3. DiscoveryInv => TopologyTellsReports
  BY TopologyTold
<1>4. QED
  BY <1>1, <1>2, <1>3, PTL DEF OfflineSpec

-----------------------------------------------------------------------------
(***************************************************************************)
(* The loop of the Cisco parser: a block's last line, and the loop as a function.*)
(***************************************************************************)

\* A block goes on to the first line that closes it.
LEMMA BlockReaches ==
  ASSUME NEW text, IsList(text), NEW h \in DOMAIN text
  PROVE  /\ BlockEnd(text, h) \in h + 1 .. Len(text) + 1
         /\ \A i \in h + 1 .. Len(text) : text[i].word # "!" => (i < BlockEnd(text, h) <=> i \in Own(text, h))
<1> DEFINE N == Len(text)
           closing == {j \in h + 1 .. N : text[j].word = "!" \/ (text[j].word # None /\ ~text[j].indented)}
           end == BlockEnd(text, h)
<1>1. N \in Nat /\ DOMAIN text = 1..N /\ h \in 1..N
  BY ListLength
<1>2. end = IF closing = {} THEN N + 1
            ELSE Min(closing) + (IF text[Min(closing)].word = "!" THEN 1 ELSE 0)
  BY DEF BlockEnd
<1>3. closing \subseteq Nat
  BY <1>1
<1>4. \A i \in h + 1 .. N : i \in Own(text, h) <=> \A k \in h + 1 .. i : k \notin closing
  BY <1>1 DEF Own, Closes
<1>5. \A i \in h + 1 .. N : \A k \in h + 1 .. i : k \in h + 1 .. N
  BY <1>1
<1>6. \A i \in closing : i \in h + 1 .. N
  OBVIOUS
<1>7. \A i \in h + 1 .. N : i \in closing <=> (text[i].word = "!" \/ (text[i].word # None /\ ~text[i].indented))
  OBVIOUS
<1> HIDE DEF closing, end, N
<1>8. CASE closing = {}
  <2>1. end = N + 1
    BY <1>2, <1>8
  <2>2. \A i \in h + 1 .. N : i \in Own(text, h) /\ i < end
    BY <1>1, <1>4, <1>8, <2>1
  <2>3. end \in h + 1 .. N + 1
    BY <1>1, <2>1
  <2>4. QED
    BY <2>2, <2>3 DEF end, N
<1>9. CASE closing # {}
  <2> DEFINE first == Min(closing)
  <2>1. first \in closing /\ \A k \in closing : first <= k
    <3>1. \E m \in closing : \A k \in closing : m <= k
      BY <1>3, <1>9, LeastNatural
    <3>2. QED
      BY <3>1 DEF Min
  <2>2. end = first + (IF text[first].word = "!" THEN 1 ELSE 0)
    BY <1>2, <1>9
  <2> HIDE DEF first
  <2>3. first \in h + 1 .. N
    BY <1>6, <2>1
  <2>4. end \in h + 1 .. N + 1
    BY <1>1, <2>2, <2>3
  <2>5. ASSUME NEW i \in h + 1 .. N, text[i].word # "!"
        PROVE  i < end <=> i \in Own(text, h)
    <3>1. CASE i < first
      <4>1. \A k \in h + 1 .. i : k \notin closing
        BY <1>1, <2>1, <2>3, <3>1, <2>5
      <4>2. i < end
        BY <1>1, <2>2, <2>3, <3>1, <2>5
      <4>3. QED
        BY <1>4, <2>5, <4>1, <4>2
    <3>2. CASE ~(i < first)
      <4>1. first \in h + 1 .. i
        BY <1>1, <2>3, <3>2, <2>5
      <4>2. i \notin Own(text, h)
        BY <1>4, <2>1, <2>5, <4>1
      <4>3. ~(i < end)
        <5>1. CASE i = first
          BY <2>2, <2>3, <2>5, <5>1, <1>1
        <5>2. CASE i # first
          BY <2>2, <2>3, <2>5, <3>2, <5>2, <1>1
        <5>3. QED
          BY <5>1, <5>2
      <4>4. QED
        BY <4>2, <4>3
    <3>3. QED
      BY <3>1, <3>2
  <2>6. QED
    BY <2>4, <2>5 DEF end, N
<1>10. QED
  BY <1>8, <1>9

-----------------------------------------------------------------------------
\* what the loop of the Cisco parser has done after each line
IsLoop(f, text, k) ==
  f = [n \in 0..k |-> IF n = 0 THEN Start
                      ELSE LET s == f[n - 1] IN IF n < s.next THEN s ELSE CiscoStep(text, s, n)]

\* The loop is defined at every line by the one before.
LEMMA LoopDefined ==
  ASSUME NEW text, NEW k \in Nat
  PROVE  \E f : IsLoop(f, text, k)
<1> DEFINE Turn(s, n) == IF n < s.next THEN s ELSE CiscoStep(text, s, n)
           Good(n) == \E f : f = [i \in 0..n |-> IF i = 0 THEN Start ELSE Turn(f[i - 1], i)]
           Bad == {n \in Nat : ~Good(n)}
<1> HIDE DEF Turn
<1>1. Good(0)
  <2> DEFINE f == [i \in 0..0 |-> Start]
  <2>1. f = [i \in 0..0 |-> IF i = 0 THEN Start ELSE Turn(f[i - 1], i)]
    OBVIOUS
  <2>2. QED
    BY <2>1
<1>2. ASSUME NEW n \in Nat, Good(n)
      PROVE  Good(n + 1)
  <2>1. PICK f : f = [i \in 0..n |-> IF i = 0 THEN Start ELSE Turn(f[i - 1], i)]
    BY <1>2
  <2> DEFINE g == [i \in 0 .. n + 1 |-> IF i = n + 1 THEN Turn(f[n], i) ELSE f[i]]
             h == [i \in 0 .. n + 1 |-> IF i = 0 THEN Start ELSE Turn(g[i - 1], i)]
  <2>2. ASSUME NEW i \in 0 .. n + 1
        PROVE  g[i] = h[i]
    <3>1. CASE i = n + 1
      <4>1. n \in 0 .. n + 1 /\ n # n + 1 /\ i # 0 /\ i - 1 = n
        BY <3>1
      <4>2. g[n] = f[n] /\ g[i] = Turn(f[n], i)
        BY <3>1, <4>1
      <4>3. h[i] = Turn(g[i - 1], i)
        <5> HIDE DEF g
        <5>1. QED
          BY <4>1
      <4> HIDE DEF g, h
      <4>4. QED
        BY <4>1, <4>2, <4>3
    <3>2. CASE i \in 0..n
      <4>1. g[i] = f[i] /\ (i # 0 => i - 1 \in 0..n)
        BY <3>2
      <4>2. i # 0 => g[i - 1] = f[i - 1]
        BY <4>1
      <4>3. f[i] = IF i = 0 THEN Start ELSE Turn(f[i - 1], i)
        BY <2>1, <3>2
      <4>4. h[i] = IF i = 0 THEN Start ELSE Turn(g[i - 1], i)
        OBVIOUS
      <4> HIDE DEF g, h
      <4>5. QED
        BY <4>1, <4>2, <4>3, <4>4
    <3>3. QED
      BY <3>1, <3>2
  <2>3. g = h
    BY <2>2
  <2>4. QED
    BY <2>3
<1>3. Bad = {}
  <2>1. SUFFICES ASSUME Bad # {} PROVE FALSE
    OBVIOUS
  <2> HIDE DEF Good
  <2>2. PICK n \in Bad : \A m \in Bad : n <= m
    BY <2>1, LeastNatural
  <2>3. n # 0 /\ n - 1 \in Nat /\ n - 1 \notin Bad /\ (n - 1) + 1 = n
    BY <1>1, <2>2
  <2>4. QED
    BY <1>2, <2>2, <2>3
<1> HIDE DEF Good
<1>4. Good(k)
  BY <1>3
<1>5. QED
  BY <1>4 DEF Good, IsLoop, Turn

\* The device of a Cisco configuration is what the loop has made after its last line.
LEMMA CiscoLoop ==
  ASSUME NEW text, IsList(text)
  PROVE  \E f : IsLoop(f, text, Len(text)) /\ CiscoDevice(text) = f[Len(text)].dev
<1> DEFINE k == Len(text)
           F == CHOOSE f : f = [n \in 0..k |-> IF n = 0 THEN Start
                                               ELSE LET s == f[n - 1] IN IF n < s.next THEN s ELSE CiscoStep(text, s, n)]
<1>1. CiscoDevice(text) = F[k].dev
  BY DEF CiscoDevice
<1>2. k \in Nat
  BY ListLength
<1> HIDE DEF k
<1>3. \E f : IsLoop(f, text, k)
  BY <1>2, LoopDefined
<1>4. IsLoop(F, text, k)
  BY <1>3 DEF IsLoop
<1>5. QED
  BY <1>1, <1>4 DEF k

\* What the parser makes of the community on a line, and of the lines outside the blocks that
\* name servers and communities.
GivenOn(ln) ==
  LET fields  == IF ln.word = "snmp-server" THEN ln.args ELSE << >>
      version == {n \in 3 .. Len(fields) - 1 : fields[n] = "version"}
  IN CASE Len(fields) > 1 /\ fields[1] = "community" -> fields[2]
       [] Len(fields) > 2 /\ fields[1] = "host" -> IF version = {} THEN fields[3] ELSE Field(fields, Min(version) + 2)
       [] OTHER -> None

ServersGiven(text, word) == {Rest(text[i]) : i \in {i \in Outside(text) : text[i].word = word}}

GivenLines(text, communities) ==
  {<<i>> : i \in {i \in Outside(text) : GivenOn(text[i]) \in communities \ {None}}}

\* One turn of the loop, as far as interfaces, VLANs, routes and services are concerned.
LEMMA SNMPTurn ==
  ASSUME NEW dev, DOMAIN dev = DOMAIN NoDevice, NEW ln, IsList(ln.args), ln.word = "snmp-server", NEW i
  PROVE  LET t == CiscoSNMP(dev, ln, i) IN
         /\ DOMAIN t = DOMAIN NoDevice
         /\ t.interfaces = dev.interfaces /\ t.vlans = dev.vlans /\ t.routes = dev.routes
         /\ t.ntp = dev.ntp /\ t.syslog = dev.syslog /\ t.hostname = dev.hostname
         /\ t.communities = IF GivenOn(ln) # None THEN Append(dev.communities, Target(GivenOn(ln), <<i>>))
                            ELSE dev.communities
<1> DEFINE args == ln.args
           known == Adding(dev, "statements", [kind |-> args[1], evidence |-> <<i>>])
           community == IF args[1] = "host" THEN HostCommunity(args) ELSE Field(args, 2)
           withHost == IF args[1] = "host" THEN Adding(known, "hosts", Target(args[2], <<i>>)) ELSE known
           t == CiscoSNMP(dev, ln, i)
           Same(u) == /\ DOMAIN u = DOMAIN NoDevice
                      /\ u.interfaces = dev.interfaces /\ u.vlans = dev.vlans /\ u.routes = dev.routes
                      /\ u.ntp = dev.ntp /\ u.syslog = dev.syslog /\ u.hostname = dev.hostname
<1>1. /\ Len(args) \in Nat /\ DOMAIN args = 1 .. Len(args)
  BY ListLength
<1>2. {"statements", "hosts", "communities", "interfaces", "vlans", "routes", "ntp", "syslog", "hostname"} \subseteq DOMAIN dev
  BY DEF NoDevice
<1>3. Same(known) /\ known.communities = dev.communities
  BY <1>2 DEF Adding
<1>4. Same(withHost) /\ withHost.communities = dev.communities
  <2> HIDE DEF known
  <2>1. {"hosts", "communities"} \subseteq DOMAIN known
    BY <1>3 DEF NoDevice
  <2>2. QED
    BY <1>3, <2>1, <1>2 DEF Adding
<1>5. t = IF Len(args) < 2 \/ args[1] \notin {"community", "host"} THEN known
          ELSE IF community = None THEN withHost
          ELSE Adding(withHost, "communities", Target(community, <<i>>))
  BY DEF CiscoSNMP
<1> DEFINE version == {n \in 3 .. Len(args) - 1 : args[n] = "version"}
<1>6. GivenOn(ln) =
        CASE Len(args) > 1 /\ args[1] = "community" -> args[2]
          [] Len(args) > 2 /\ args[1] = "host" -> IF version = {} THEN args[3] ELSE Field(args, Min(version) + 2)
          [] OTHER -> None
  BY DEF GivenOn
<1>7. HostCommunity(args) = IF version = {} THEN Field(args, 3) ELSE Field(args, Min(version) + 2)
  BY DEF HostCommunity
<1>8. CASE Len(args) < 2 \/ args[1] \notin {"community", "host"}
  <2>1. GivenOn(ln) = None
    <3> HIDE DEF args, version
    <3>1. QED
      BY <1>1, <1>6, <1>8
  <2>2. t = known
    BY <1>5, <1>8
  <2>3. QED
    BY <1>3, <2>1, <2>2
<1>9. CASE ~(Len(args) < 2) /\ args[1] \in {"community", "host"}
  <2>1. GivenOn(ln) = community
    <3>1. CASE args[1] = "community"
      <4>1. GivenOn(ln) = args[2]
        <5> HIDE DEF args, version
        <5>1. QED
          BY <1>1, <1>6, <1>9, <3>1
      <4>2. community = args[2]
        BY <1>1, <1>9, <3>1 DEF Field
      <4>3. QED
        BY <4>1, <4>2
    <3>2. CASE args[1] = "host"
      <4>1. community = HostCommunity(args)
        BY <3>2
      <4>2. CASE Len(args) > 2
        <5>1. GivenOn(ln) = IF version = {} THEN args[3] ELSE Field(args, Min(version) + 2)
          <6> HIDE DEF args, version
          <6>1. QED
            BY <1>1, <1>6, <3>2, <4>2
        <5>2. Field(args, 3) = args[3]
          BY <1>1, <4>2 DEF Field
        <5> HIDE DEF args, version, community
        <5>3. QED
          BY <1>7, <4>1, <5>1, <5>2
      <4>3. CASE ~(Len(args) > 2)
        <5>1. GivenOn(ln) = None
          <6> HIDE DEF args, version
          <6>1. QED
            BY <1>1, <1>6, <3>2, <4>3
        <5>2. version = {} /\ 3 \notin DOMAIN args
          BY <1>1, <4>3
        <5>3. Field(args, 3) = None
          BY <5>2 DEF Field
        <5> HIDE DEF args, version, community
        <5>4. QED
          BY <1>7, <4>1, <5>1, <5>2, <5>3
      <4>4. QED
        BY <4>2, <4>3
    <3>3. QED
      BY <1>9, <3>1, <3>2
  <2>2. t = IF community = None THEN withHost ELSE Adding(withHost, "communities", Target(community, <<i>>))
    BY <1>5, <1>9
  <2>3. "communities" \in DOMAIN withHost
    BY <1>4 DEF NoDevice
  <2> HIDE DEF withHost, community, t, known
  <2>4. CASE community = None
    BY <1>4, <2>1, <2>2, <2>4 DEF t
  <2>5. CASE community # None
    <3>1. t = [withHost EXCEPT !["communities"] = Append(@, Target(community, <<i>>))]
      BY <2>2, <2>5 DEF Adding
    <3>2. /\ Same(t) /\ t.communities = Append(dev.communities, Target(community, <<i>>))
      BY <1>4, <2>3, <3>1
    <3>3. QED
      BY <2>1, <2>5, <3>2 DEF t
  <2>6. QED
    BY <2>4, <2>5
<1>10. QED
  BY <1>8, <1>9

\* what a turn of the loop makes of interfaces, VLANs, routes and services
TurnOf(text, s, t, i) ==
  /\ t.next = IF text[i].word \in Headers THEN BlockEnd(text, i) ELSE i + 1
  /\ DOMAIN t.dev = DOMAIN NoDevice
  /\ t.dev.interfaces = IF text[i].word = "interface" THEN Append(s.dev.interfaces, CiscoInterface(text, i)) ELSE s.dev.interfaces
  /\ t.dev.vlans = IF text[i].word = "vlan" THEN s.dev.vlans \o CiscoVLANs(text, i) ELSE s.dev.vlans
  /\ t.dev.routes = IF text[i].word = "ip route" THEN s.dev.routes \o CiscoRoutes(text[i], i) ELSE s.dev.routes
  /\ t.dev.ntp = IF text[i].word = "ntp server" THEN Append(s.dev.ntp, Target(Rest(text[i]), <<i>>)) ELSE s.dev.ntp
  /\ t.dev.syslog = IF text[i].word = "logging host" THEN Append(s.dev.syslog, Target(Rest(text[i]), <<i>>)) ELSE s.dev.syslog
  /\ t.dev.communities = IF GivenOn(text[i]) # None THEN Append(s.dev.communities, Target(GivenOn(text[i]), <<i>>))
                         ELSE s.dev.communities

\* A turn makes what TurnOf says, whatever the line is.
LEMMA CiscoTurn ==
  ASSUME NEW text, NEW s, DOMAIN s.dev = DOMAIN NoDevice, NEW i, IsList(text[i].args)
  PROVE  TurnOf(text, s, CiscoStep(text, s, i), i)
<1> DEFINE ln == text[i]
           t == CiscoStep(text, s, i)
           dev == s.dev
<1>1. {"hostname", "evidence", "acls", "communities", "interfaces", "vlans", "routes", "ntp", "syslog"} \subseteq DOMAIN dev
  BY DEF NoDevice
<1>2. ln.word # "snmp-server" => GivenOn(ln) = None
  <2> DEFINE fields == IF ln.word = "snmp-server" THEN ln.args ELSE << >>
             version == {n \in 3 .. Len(fields) - 1 : fields[n] = "version"}
  <2>1. GivenOn(ln) =
          CASE Len(fields) > 1 /\ fields[1] = "community" -> fields[2]
            [] Len(fields) > 2 /\ fields[1] = "host" -> IF version = {} THEN fields[3] ELSE Field(fields, Min(version) + 2)
            [] OTHER -> None
    BY DEF GivenOn
  <2>2. ln.word # "snmp-server" => Len(fields) = 0
    OBVIOUS
  <2> HIDE DEF fields, version
  <2>3. QED
    BY <2>1, <2>2
<1> DEFINE A == AfterLine(i, [dev EXCEPT !.hostname = ln.args[1], !.evidence = <<i>>])
           B == AfterBlock(text, i, Adding(dev, "interfaces", CiscoInterface(text, i)))
           C == AfterBlock(text, i, AddingAll(dev, "vlans", CiscoVLANs(text, i)))
           D == AfterBlock(text, i, AddingAll(dev, "acls", CiscoNamedACLs(text, i)))
           E == AfterLine(i, AddingAll(dev, "routes", CiscoRoutes(ln, i)))
           F == AfterLine(i, [dev EXCEPT !.acls = AppendACL(@, ln, i)])
           G == AfterLine(i, Adding(dev, "ntp", Target(Rest(ln), <<i>>)))
           H == AfterLine(i, Adding(dev, "syslog", Target(Rest(ln), <<i>>)))
           I == AfterLine(i, CiscoSNMP(dev, ln, i))
           J == AfterLine(i, dev)
           Turned ==
             \/ ln.word = "hostname" /\ t = A
             \/ ln.word = "interface" /\ t = B
             \/ ln.word = "vlan" /\ t = C
             \/ ln.word = "ip access-list" /\ t = D
             \/ ln.word = "ip route" /\ t = E
             \/ ln.word = "access-list" /\ t = F
             \/ ln.word = "ntp server" /\ t = G
             \/ ln.word = "logging host" /\ t = H
             \/ ln.word = "snmp-server" /\ t = I
             \/ /\ ln.word \notin Headers \cup {"ip route", "ntp server", "logging host", "snmp-server"}
                /\ t = J
<1>3. Turned
  <2>1. t = CASE ln.word = "hostname"       -> A
              [] ln.word = "interface"      -> B
              [] ln.word = "vlan"           -> C
              [] ln.word = "ip access-list" -> D
              [] ln.word = "ip route"       -> E
              [] ln.word = "access-list"    -> F
              [] ln.word = "ntp server"     -> G
              [] ln.word = "logging host"   -> H
              [] ln.word = "snmp-server"    -> I
              [] OTHER                      -> J
    BY DEF CiscoStep
  <2> HIDE DEF ln, dev, t, A, B, C, D, E, F, G, H, I, J
  <2>2. QED
    BY <2>1 DEF Headers
<1>4. CASE ln.word = "snmp-server"
  <2>1. t = AfterLine(i, CiscoSNMP(dev, ln, i))
    BY <1>3, <1>4 DEF Headers
  <2>2. t.next = i + 1 /\ t.dev = CiscoSNMP(dev, ln, i)
    BY <2>1 DEF AfterLine
  <2> HIDE DEF ln, t, dev
  <2>3. DOMAIN dev = DOMAIN NoDevice /\ IsList(ln.args)
    BY DEF dev, ln
  <2>4. QED
    BY <1>4, <2>2, <2>3, SNMPTurn DEF TurnOf, Headers, ln, t, dev
<1> DEFINE Right(u) ==
             /\ u.next = IF ln.word \in Headers THEN BlockEnd(text, i) ELSE i + 1
             /\ DOMAIN u.dev = DOMAIN NoDevice
             /\ u.dev.interfaces = IF ln.word = "interface" THEN Append(dev.interfaces, CiscoInterface(text, i)) ELSE dev.interfaces
             /\ u.dev.vlans = IF ln.word = "vlan" THEN dev.vlans \o CiscoVLANs(text, i) ELSE dev.vlans
             /\ u.dev.routes = IF ln.word = "ip route" THEN dev.routes \o CiscoRoutes(ln, i) ELSE dev.routes
             /\ u.dev.ntp = IF ln.word = "ntp server" THEN Append(dev.ntp, Target(Rest(ln), <<i>>)) ELSE dev.ntp
             /\ u.dev.syslog = IF ln.word = "logging host" THEN Append(dev.syslog, Target(Rest(ln), <<i>>)) ELSE dev.syslog
             /\ u.dev.communities = dev.communities
<1>5. CASE ln.word # "snmp-server"
  <2>1. GivenOn(ln) = None
    BY <1>2, <1>5
  <2>2. DOMAIN dev = DOMAIN NoDevice
    OBVIOUS
  <2>3. Right(t)
    <3> HIDE DEF ln, t, dev
    <3> USE <1>1, <2>2
    <3>1. CASE ln.word = "hostname" /\ t = A
      BY <3>1 DEF Headers, AfterLine
    <3>2. CASE ln.word = "interface" /\ t = B
      BY <3>2 DEF Headers, AfterBlock, Adding
    <3>3. CASE ln.word = "vlan" /\ t = C
      BY <3>3 DEF Headers, AfterBlock, AddingAll
    <3>4. CASE ln.word = "ip access-list" /\ t = D
      BY <3>4 DEF Headers, AfterBlock, AddingAll
    <3>5. CASE ln.word = "ip route" /\ t = E
      BY <3>5 DEF Headers, AfterLine, AddingAll
    <3>6. CASE ln.word = "access-list" /\ t = F
      BY <3>6 DEF Headers, AfterLine
    <3>7. CASE ln.word = "ntp server" /\ t = G
      BY <3>7 DEF Headers, AfterLine, Adding
    <3>8. CASE ln.word = "logging host" /\ t = H
      BY <3>8 DEF Headers, AfterLine, Adding
    <3>9. CASE ln.word \notin Headers \cup {"ip route", "ntp server", "logging host", "snmp-server"} /\ t = J
      BY <3>9 DEF Headers, AfterLine
    <3>10. QED
      BY <1>3, <1>5, <3>1, <3>2, <3>3, <3>4, <3>5, <3>6, <3>7, <3>8, <3>9
  <2>4. QED
    BY <2>1, <2>3 DEF TurnOf
<1>6. QED
  BY <1>4, <1>5

-----------------------------------------------------------------------------
(***************************************************************************)
(* Where the loop is: at the lines outside the blocks, and only there.     *)
(***************************************************************************)

\* after n lines the loop is past n, at a line outside the blocks or past the last one
LoopPlace(f, text, n) ==
  /\ f[n].next \in Nat /\ n < f[n].next
  /\ \A i \in n + 1 .. Len(text) : text[i].word # "!" =>
       (i < f[n].next <=> \E h \in 1..n : text[h].word \in Headers /\ i \in Own(text, h))
  /\ DOMAIN f[n].dev = DOMAIN NoDevice

\* At the line it is at, the loop takes a turn; at any other it waits.
LEMMA LoopTurn ==
  ASSUME NEW text, NEW k \in Nat, NEW f, IsLoop(f, text, k), NEW n \in 1..k
  PROVE  f[n] = IF n < f[n - 1].next THEN f[n - 1] ELSE CiscoStep(text, f[n - 1], n)
<1> DEFINE Turn(s, i) == IF i < s.next THEN s ELSE CiscoStep(text, s, i)
<1> HIDE DEF Turn
<1>1. f = [i \in 0..k |-> IF i = 0 THEN Start ELSE Turn(f[i - 1], i)]
  BY DEF IsLoop, Turn
<1>2. f[n] = Turn(f[n - 1], n)
  BY <1>1
<1>3. QED
  BY <1>2 DEF Turn

\* It begins with no device, at the first line.
LEMMA LoopBegins ==
  ASSUME NEW text, NEW k \in Nat, NEW f, IsLoop(f, text, k)
  PROVE  f[0] = Start
<1> DEFINE Turn(s, i) == IF i < s.next THEN s ELSE CiscoStep(text, s, i)
<1> HIDE DEF Turn
<1>1. f = [i \in 0..k |-> IF i = 0 THEN Start ELSE Turn(f[i - 1], i)]
  BY DEF IsLoop, Turn
<1>2. QED
  BY <1>1

\* A line of a block within a block is one of the outer one.
LEMMA BlocksNest ==
  ASSUME NEW text, NEW g \in Nat, NEW h \in Own(text, g), NEW i \in Own(text, h)
  PROVE  i \in Own(text, g)
<1>1. /\ h \in g + 1 .. Len(text) /\ i \in h + 1 .. Len(text)
      /\ \A k \in g + 1 .. h : ~Closes(text[k])
      /\ \A k \in h + 1 .. i : ~Closes(text[k])
  BY DEF Own
<1>2. i \in g + 1 .. Len(text) /\ \A k \in g + 1 .. i : k \in g + 1 .. h \/ k \in h + 1 .. i
  BY <1>1
<1>3. QED
  BY <1>1, <1>2 DEF Own

\* A turn goes to the next line, or past the block it opens.
LEMMA TurnNext ==
  ASSUME NEW text, NEW s, DOMAIN s.dev = DOMAIN NoDevice, NEW n, IsList(text[n].args)
  PROVE  /\ CiscoStep(text, s, n).next = IF text[n].word \in Headers THEN BlockEnd(text, n) ELSE n + 1
         /\ DOMAIN CiscoStep(text, s, n).dev = DOMAIN NoDevice
<1>1. TurnOf(text, s, CiscoStep(text, s, n), n)
  BY CiscoTurn
<1>2. QED
  BY <1>1 DEF TurnOf

\* From a line outside the blocks a turn goes to another, and no such line is between.
LEMMA PlaceKept ==
  ASSUME NEW text, IsList(text), \A i \in DOMAIN text : IsList(text[i].args),
         NEW f, IsLoop(f, text, Len(text)), NEW n \in 1..Len(text), LoopPlace(f, text, n - 1)
  PROVE  LoopPlace(f, text, n)
<1> DEFINE N == Len(text)
           s == f[n - 1]
           t == f[n]
           In(i, m) == \E h \in 1..m : text[h].word \in Headers /\ i \in Own(text, h)
<1>1. N \in Nat /\ DOMAIN text = 1..N /\ n \in Nat /\ n - 1 \in Nat /\ n \in DOMAIN text /\ n - 1 + 1 = n /\ n \in n .. N
  BY ListLength
<1>2. /\ s.next \in Nat /\ n - 1 < s.next
      /\ \A i \in n .. N : text[i].word # "!" => (i < s.next <=> In(i, n - 1))
      /\ DOMAIN s.dev = DOMAIN NoDevice
  BY <1>1 DEF LoopPlace
<1>3. t = IF n < s.next THEN s ELSE CiscoStep(text, s, n)
  BY <1>1, LoopTurn
<1>4. ASSUME NEW i
      PROVE  In(i, n) <=> In(i, n - 1) \/ (text[n].word \in Headers /\ i \in Own(text, n))
  BY <1>1
<1>5. \A i \in n + 1 .. N : i \in n .. N
  BY <1>1
<1> SUFFICES /\ t.next \in Nat /\ n < t.next
             /\ \A i \in n + 1 .. N : text[i].word # "!" => (i < t.next <=> In(i, n))
             /\ DOMAIN t.dev = DOMAIN NoDevice
  BY DEF LoopPlace
<1> HIDE DEF N, s, t, In
<1>6. CASE n < s.next
  <2>1. t = s
    BY <1>3, <1>6
  <2>2. ASSUME NEW i \in n + 1 .. N, text[n].word \in Headers, i \in Own(text, n)
        PROVE  In(i, n - 1)
    <3>1. text[n].word # "!"
      BY <2>2 DEF Headers
    <3>2. In(n, n - 1)
      BY <1>1, <1>2, <1>6, <3>1
    <3>3. PICK h \in 1 .. n - 1 : text[h].word \in Headers /\ n \in Own(text, h)
      BY <3>2 DEF In
    <3>4. i \in Own(text, h)
      BY <2>2, <3>3, BlocksNest
    <3>5. QED
      BY <3>3, <3>4 DEF In
  <2>3. QED
    BY <1>1, <1>2, <1>4, <1>5, <1>6, <2>1, <2>2
<1>7. CASE ~(n < s.next)
  <2>1. t = CiscoStep(text, s, n)
    BY <1>3, <1>7
  <2>2. s.next = n
    BY <1>1, <1>2, <1>7
  <2>3. \A i \in n + 1 .. N : text[i].word # "!" => ~In(i, n - 1)
    BY <1>1, <1>2, <1>5, <2>2
  <2>4. /\ t.next = IF text[n].word \in Headers THEN BlockEnd(text, n) ELSE n + 1
        /\ DOMAIN t.dev = DOMAIN NoDevice
    <3>1. IsList(text[n].args) /\ DOMAIN s.dev = DOMAIN NoDevice
      BY <1>1, <1>2
    <3>2. QED
      BY <2>1, <3>1, TurnNext
  <2>5. /\ BlockEnd(text, n) \in n + 1 .. N + 1
        /\ \A i \in n + 1 .. N : text[i].word # "!" => (i < BlockEnd(text, n) <=> i \in Own(text, n))
    BY <1>1, BlockReaches DEF N
  <2>6. CASE text[n].word \in Headers
    BY <1>1, <1>4, <2>3, <2>4, <2>5, <2>6
  <2>7. CASE text[n].word \notin Headers
    BY <1>1, <1>4, <2>3, <2>4, <2>7
  <2>8. QED
    BY <2>6, <2>7
<1>8. QED
  BY <1>6, <1>7

\* So the loop is in its place after every line.
LEMMA LoopPlaces ==
  ASSUME NEW text, IsList(text), \A i \in DOMAIN text : IsList(text[i].args),
         NEW f, IsLoop(f, text, Len(text))
  PROVE  \A n \in 0..Len(text) : LoopPlace(f, text, n)
<1> DEFINE N == Len(text)
           Bad == {n \in 0..N : ~LoopPlace(f, text, n)}
<1>1. N \in Nat
  BY ListLength
<1>2. LoopPlace(f, text, 0)
  <2>1. f[0] = Start
    BY <1>1, LoopBegins
  <2>2. f[0].next = 1 /\ f[0].dev = NoDevice
    BY <2>1 DEF Start
  <2>3. \A i \in 1..N : ~(i < 1) /\ ~\E h \in 1..0 : text[h].word \in Headers /\ i \in Own(text, h)
    BY <1>1
  <2>4. QED
    BY <1>1, <2>2, <2>3 DEF LoopPlace
<1>3. Bad = {}
  <2>1. SUFFICES ASSUME Bad # {} PROVE FALSE
    OBVIOUS
  <2>2. Bad \subseteq Nat
    BY <1>1
  <2>3. PICK n \in Bad : \A m \in Bad : n <= m
    BY <2>1, <2>2, LeastNatural
  <2>4. n # 0 /\ n \in 1..N /\ n - 1 \in 0..N /\ n - 1 \notin Bad
    BY <1>1, <1>2, <2>3
  <2>5. LoopPlace(f, text, n - 1)
    BY <2>4
  <2>6. LoopPlace(f, text, n)
    BY <2>4, <2>5, PlaceKept
  <2>7. QED
    BY <2>3, <2>6
<1>4. QED
  BY <1>3

\* The loop turns on the lines outside the blocks.
LEMMA LoopReads ==
  ASSUME NEW text, IsList(text), \A i \in DOMAIN text : IsList(text[i].args),
         NEW f, IsLoop(f, text, Len(text)), NEW n \in 1..Len(text), text[n].word # "!"
  PROVE  n < f[n - 1].next <=> n \notin Outside(text)
<1>1. Len(text) \in Nat /\ n \in DOMAIN text /\ n - 1 \in 0..Len(text) /\ n - 1 + 1 = n /\ n \in n .. Len(text)
  BY ListLength
<1>2. LoopPlace(f, text, n - 1)
  BY <1>1, LoopPlaces
<1>3. n < f[n - 1].next <=> \E h \in 1 .. n - 1 : text[h].word \in Headers /\ n \in Own(text, h)
  BY <1>1, <1>2 DEF LoopPlace
<1>4. QED
  BY <1>1, <1>3 DEF Outside

-----------------------------------------------------------------------------
(***************************************************************************)
(* What the loop has read: the servers and communities of those lines.     *)
(***************************************************************************)

\* what the lines outside the blocks tell of servers and communities, up to one of them
ServersTo(text, n, word) == {Target(Rest(text[i]), <<i>>) : i \in {i \in Outside(text) : i <= n /\ text[i].word = word}}
CommunitiesTo(text, n)   == {Target(GivenOn(text[i]), <<i>>) : i \in {i \in Outside(text) : i <= n /\ GivenOn(text[i]) # None}}

\* what the device of the loop tells after n lines
LoopTold(f, text, n) ==
  /\ IsList(f[n].dev.ntp) /\ ToSet(f[n].dev.ntp) = ServersTo(text, n, "ntp server")
  /\ IsList(f[n].dev.syslog) /\ ToSet(f[n].dev.syslog) = ServersTo(text, n, "logging host")
  /\ IsList(f[n].dev.communities) /\ ToSet(f[n].dev.communities) = CommunitiesTo(text, n)

\* What is appended is one more member.
LEMMA AppendedMembers ==
  ASSUME NEW s, IsList(s), NEW e
  PROVE  IsList(Append(s, e)) /\ ToSet(Append(s, e)) = ToSet(s) \cup {e}
<1>1. /\ IsList(Append(s, e)) /\ Len(s) \in Nat
      /\ DOMAIN s = 1..Len(s) /\ DOMAIN Append(s, e) = 1..Len(s) + 1
      /\ \A n \in 1..Len(s) : Append(s, e)[n] = s[n]
      /\ Append(s, e)[Len(s) + 1] = e
  BY Appended
<1> DEFINE t == Append(s, e)
<1> HIDE DEF t
<1>2. /\ DOMAIN s = 1..Len(s) /\ DOMAIN t = 1..Len(s) + 1
      /\ \A n \in 1..Len(s) : t[n] = s[n]
      /\ t[Len(s) + 1] = e
  BY <1>1 DEF t
<1>3. \A n \in 1..Len(s) + 1 : n \in 1..Len(s) \/ n = Len(s) + 1
  BY <1>1
<1>4. \A n \in 1..Len(s) : n \in 1..Len(s) + 1
  BY <1>1
<1>5. Len(s) + 1 \in 1..Len(s) + 1
  BY <1>1
<1>6. ToSet(t) = ToSet(s) \cup {e}
  <2>1. ASSUME NEW x \in ToSet(t) PROVE x \in ToSet(s) \cup {e}
    BY <1>2, <1>3, <2>1 DEF ToSet
  <2>2. ASSUME NEW x \in ToSet(s) PROVE x \in ToSet(t)
    BY <1>2, <1>4, <2>2 DEF ToSet
  <2>3. e \in ToSet(t)
    BY <1>2, <1>5 DEF ToSet
  <2>4. QED
    BY <2>1, <2>2, <2>3
<1>7. QED
  BY <1>1, <1>6 DEF t

\* A line that opens a block names no community.
LEMMA NoCommunity ==
  ASSUME NEW ln, ln.word # "snmp-server"
  PROVE  GivenOn(ln) = None
<1> DEFINE fields == IF ln.word = "snmp-server" THEN ln.args ELSE << >>
           version == {n \in 3 .. Len(fields) - 1 : fields[n] = "version"}
<1>1. GivenOn(ln) =
        CASE Len(fields) > 1 /\ fields[1] = "community" -> fields[2]
          [] Len(fields) > 2 /\ fields[1] = "host" -> IF version = {} THEN fields[3] ELSE Field(fields, Min(version) + 2)
          [] OTHER -> None
  BY DEF GivenOn
<1>2. Len(fields) = 0
  OBVIOUS
<1> HIDE DEF fields, version
<1>3. QED
  BY <1>1, <1>2

\* one more line
LEMMA ToldWithLine ==
  ASSUME NEW text, IsList(text), NEW n \in 1..Len(text), NEW word
  PROVE  /\ ServersTo(text, n, word) =
              ServersTo(text, n - 1, word)
              \cup (IF n \in Outside(text) /\ text[n].word = word THEN {Target(Rest(text[n]), <<n>>)} ELSE {})
         /\ CommunitiesTo(text, n) =
              CommunitiesTo(text, n - 1)
              \cup (IF n \in Outside(text) /\ GivenOn(text[n]) # None THEN {Target(GivenOn(text[n]), <<n>>)} ELSE {})
<1>1. Len(text) \in Nat /\ DOMAIN text = 1..Len(text)
  BY ListLength
<1>2. Outside(text) \subseteq 1..Len(text)
  BY <1>1 DEF Outside
<1>3. \A i \in Outside(text) : i <= n <=> (i <= n - 1 \/ i = n)
  BY <1>1, <1>2
<1>4. \A i \in Outside(text) : i # n \/ ~(i <= n - 1)
  BY <1>1, <1>2
<1>5. QED
  BY <1>3, <1>4 DEF ServersTo, CommunitiesTo

\* After one more line the device tells one more line.
LEMMA ToldKept ==
  ASSUME NEW text, IsList(text), \A i \in DOMAIN text : IsList(text[i].args),
         NEW f, IsLoop(f, text, Len(text)), NEW n \in 1..Len(text), LoopTold(f, text, n - 1)
  PROVE  LoopTold(f, text, n)
<1> DEFINE s == f[n - 1]
           t == f[n]
           out == n \in Outside(text)
<1>1. Len(text) \in Nat /\ n \in DOMAIN text /\ n - 1 \in 0..Len(text) /\ IsList(text[n].args)
  BY ListLength
<1>2. t = IF n < s.next THEN s ELSE CiscoStep(text, s, n)
  BY <1>1, LoopTurn
<1>3. DOMAIN s.dev = DOMAIN NoDevice
  BY <1>1, LoopPlaces DEF LoopPlace
<1>4. text[n].word # "!" => (n < s.next <=> ~out)
  BY LoopReads
<1>5. text[n].word = "!" => text[n].word \notin {"ntp server", "logging host"} /\ GivenOn(text[n]) = None
  BY NoCommunity
<1>6. /\ IsList(s.dev.ntp) /\ ToSet(s.dev.ntp) = ServersTo(text, n - 1, "ntp server")
      /\ IsList(s.dev.syslog) /\ ToSet(s.dev.syslog) = ServersTo(text, n - 1, "logging host")
      /\ IsList(s.dev.communities) /\ ToSet(s.dev.communities) = CommunitiesTo(text, n - 1)
  BY DEF LoopTold
<1> DEFINE Ntp == IF out /\ text[n].word = "ntp server" THEN {Target(Rest(text[n]), <<n>>)} ELSE {}
           Log == IF out /\ text[n].word = "logging host" THEN {Target(Rest(text[n]), <<n>>)} ELSE {}
           Com == IF out /\ GivenOn(text[n]) # None THEN {Target(GivenOn(text[n]), <<n>>)} ELSE {}
<1>7. /\ ServersTo(text, n, "ntp server") = ServersTo(text, n - 1, "ntp server") \cup Ntp
      /\ ServersTo(text, n, "logging host") = ServersTo(text, n - 1, "logging host") \cup Log
      /\ CommunitiesTo(text, n) = CommunitiesTo(text, n - 1) \cup Com
  <2> DEFINE Line(word) == IF n \in Outside(text) /\ text[n].word = word THEN {Target(Rest(text[n]), <<n>>)} ELSE {}
  <2>0. \A word : ServersTo(text, n, word) = ServersTo(text, n - 1, word) \cup Line(word)
    BY ToldWithLine
  <2>1. ServersTo(text, n, "ntp server") = ServersTo(text, n - 1, "ntp server") \cup Ntp
    <3>1. Line("ntp server") = Ntp
      OBVIOUS
    <3> HIDE DEF Line, Ntp
    <3>2. QED
      BY <2>0, <3>1
  <2>2. ServersTo(text, n, "logging host") = ServersTo(text, n - 1, "logging host") \cup Log
    <3>1. Line("logging host") = Log
      OBVIOUS
    <3> HIDE DEF Line, Log
    <3>2. QED
      BY <2>0, <3>1
  <2>3. CommunitiesTo(text, n) = CommunitiesTo(text, n - 1) \cup Com
    BY ToldWithLine
  <2>4. QED
    BY <2>1, <2>2, <2>3
<1> SUFFICES /\ IsList(t.dev.ntp) /\ ToSet(t.dev.ntp) = ServersTo(text, n, "ntp server")
             /\ IsList(t.dev.syslog) /\ ToSet(t.dev.syslog) = ServersTo(text, n, "logging host")
             /\ IsList(t.dev.communities) /\ ToSet(t.dev.communities) = CommunitiesTo(text, n)
  BY DEF LoopTold
<1> HIDE DEF s, t, out
<1>8. CASE n < s.next
  <2>1. t = s
    BY <1>2, <1>8
  <2>2. ~out \/ text[n].word = "!"
    BY <1>4, <1>8
  <2>3. QED
    BY <1>5, <1>6, <1>7, <2>1, <2>2
<1>9. CASE ~(n < s.next)
  <2>1. t = CiscoStep(text, s, n)
    BY <1>2, <1>9
  <2>2. TurnOf(text, s, t, n)
    BY <1>1, <1>3, <2>1, CiscoTurn
  <2> DEFINE e == Target(Rest(text[n]), <<n>>)
             c == Target(GivenOn(text[n]), <<n>>)
  <2>3. /\ t.dev.ntp = IF text[n].word = "ntp server" THEN Append(s.dev.ntp, e) ELSE s.dev.ntp
        /\ t.dev.syslog = IF text[n].word = "logging host" THEN Append(s.dev.syslog, e) ELSE s.dev.syslog
        /\ t.dev.communities = IF GivenOn(text[n]) # None THEN Append(s.dev.communities, c) ELSE s.dev.communities
    BY <2>2 DEF TurnOf
  <2>4. out \/ text[n].word = "!"
    BY <1>4, <1>9
  <2> HIDE DEF e, c
  <2>5. /\ IsList(t.dev.ntp)
        /\ ToSet(t.dev.ntp) = ToSet(s.dev.ntp) \cup (IF text[n].word = "ntp server" THEN {e} ELSE {})
    BY <1>6, <2>3, AppendedMembers
  <2>6. /\ IsList(t.dev.syslog)
        /\ ToSet(t.dev.syslog) = ToSet(s.dev.syslog) \cup (IF text[n].word = "logging host" THEN {e} ELSE {})
    BY <1>6, <2>3, AppendedMembers
  <2>7. /\ IsList(t.dev.communities)
        /\ ToSet(t.dev.communities) = ToSet(s.dev.communities) \cup (IF GivenOn(text[n]) # None THEN {c} ELSE {})
    <3>1. CASE GivenOn(text[n]) = None
      BY <1>6, <2>3, <3>1
    <3>2. CASE GivenOn(text[n]) # None
      <4>1. t.dev.communities = Append(s.dev.communities, c)
        BY <2>3, <3>2
      <4>2. IsList(s.dev.communities)
        BY <1>6
      <4>3. /\ IsList(Append(s.dev.communities, c))
            /\ ToSet(Append(s.dev.communities, c)) = ToSet(s.dev.communities) \cup {c}
        BY <4>2, AppendedMembers
      <4>4. QED
        BY <3>2, <4>1, <4>3
    <3>3. QED
      BY <3>1, <3>2
  <2>8. QED
    BY <1>5, <1>6, <1>7, <2>4, <2>5, <2>6, <2>7 DEF e, c
<1>10. QED
  BY <1>8, <1>9

\* The servers and communities of a Cisco device are those of the lines outside the blocks.
LEMMA CiscoTells ==
  ASSUME NEW text, IsList(text), \A i \in DOMAIN text : IsList(text[i].args)
  PROVE  LET dev == CiscoDevice(text) IN
         /\ IsList(dev.ntp) /\ ToSet(dev.ntp) = ServersTo(text, Len(text), "ntp server")
         /\ IsList(dev.syslog) /\ ToSet(dev.syslog) = ServersTo(text, Len(text), "logging host")
         /\ IsList(dev.communities) /\ ToSet(dev.communities) = CommunitiesTo(text, Len(text))
<1> DEFINE N == Len(text)
<1>1. PICK f : IsLoop(f, text, N) /\ CiscoDevice(text) = f[N].dev
  BY CiscoLoop
<1>2. N \in Nat /\ DOMAIN text = 1..N
  BY ListLength
<1> DEFINE Bad == {n \in 0..N : ~LoopTold(f, text, n)}
<1>3. LoopTold(f, text, 0)
  <2>1. f[0].dev = NoDevice
    BY <1>1, <1>2, LoopBegins DEF Start
  <2>2. f[0].dev.ntp = << >> /\ f[0].dev.syslog = << >> /\ f[0].dev.communities = << >>
    BY <2>1 DEF NoDevice
  <2>3. IsList(<< >>) /\ ToSet(<< >>) = {}
    BY EmptyIsList DEF ToSet
  <2>4. Outside(text) \subseteq 1..N
    BY <1>2 DEF Outside
  <2>5. \A i \in Outside(text) : ~(i <= 0)
    BY <1>2, <2>4
  <2>6. ServersTo(text, 0, "ntp server") = {} /\ ServersTo(text, 0, "logging host") = {} /\ CommunitiesTo(text, 0) = {}
    BY <2>5 DEF ServersTo, CommunitiesTo
  <2>7. QED
    BY <2>2, <2>3, <2>6 DEF LoopTold
<1>4. Bad = {}
  <2>1. SUFFICES ASSUME Bad # {} PROVE FALSE
    OBVIOUS
  <2>2. Bad \subseteq Nat
    BY <1>2
  <2>3. PICK n \in Bad : \A m \in Bad : n <= m
    BY <2>1, <2>2, LeastNatural
  <2>4. n # 0 /\ n \in 1..N /\ n - 1 \in 0..N /\ n - 1 \notin Bad
    BY <1>2, <1>3, <2>3
  <2>5. LoopTold(f, text, n - 1)
    BY <2>4
  <2>6. LoopTold(f, text, n)
    BY <1>1, <2>4, <2>5, ToldKept
  <2>7. QED
    BY <2>3, <2>6
<1>5. LoopTold(f, text, N)
  BY <1>2, <1>4
<1>6. QED
  BY <1>1, <1>5 DEF LoopTold

-----------------------------------------------------------------------------
(***************************************************************************)
(* What the rules of a policy find of a device.                            *)
(***************************************************************************)

\* What is picked are the items at the places, no more.
LEMMA PickedMembers ==
  ASSUME NEW items, IsList(items), NEW places, places \subseteq DOMAIN items
  PROVE  IsList(Picked(items, places)) /\ ToSet(Picked(items, places)) = {items[i] : i \in places}
<1> DEFINE t == Picked(items, places)
<1>1. PICK pos : Picks(t, items, places, pos)
  BY PickedPlaces
<1> HIDE DEF t
<1>2. /\ IsList(t)
      /\ \A n \in DOMAIN t : pos[n] \in places /\ t[n] = items[pos[n]]
      /\ \A i \in places : \E n \in DOMAIN t : pos[n] = i
  BY <1>1 DEF Picks
<1>3. ToSet(t) = {items[i] : i \in places}
  BY <1>2 DEF ToSet
<1>4. QED
  BY <1>2, <1>3 DEF t

\* What is joined has the members of both.
LEMMA JoinedMembers ==
  ASSUME NEW s, NEW t, IsList(s), IsList(t)
  PROVE  IsList(s \o t) /\ ToSet(s \o t) = ToSet(s) \cup ToSet(t)
<1> DEFINE u == s \o t
<1>1. /\ IsList(u) /\ Len(u) = Len(s) + Len(t)
      /\ \A n \in 1 .. Len(s) : u[n] = s[n]
      /\ \A n \in 1 .. Len(t) : u[Len(s) + n] = t[n]
      /\ \A n \in DOMAIN u : n \in DOMAIN s \/ (n > Len(s) /\ n - Len(s) \in DOMAIN t /\ u[n] = t[n - Len(s)])
  BY ListsConcat
<1>2. /\ Len(s) \in Nat /\ DOMAIN s = 1..Len(s)
      /\ Len(t) \in Nat /\ DOMAIN t = 1..Len(t)
  BY ListLength
<1> HIDE DEF u
<1>3. DOMAIN u = 1..Len(u)
  BY <1>1, ListLength
<1>4. \A n \in 1..Len(s) : n \in DOMAIN u
  BY <1>1, <1>2, <1>3
<1>5. \A n \in 1..Len(t) : Len(s) + n \in DOMAIN u
  BY <1>1, <1>2, <1>3
<1>6. ASSUME NEW x \in ToSet(u) PROVE x \in ToSet(s) \cup ToSet(t)
  BY <1>1, <1>2, <1>6 DEF ToSet
<1>7. ASSUME NEW x \in ToSet(s) \cup ToSet(t) PROVE x \in ToSet(u)
  <2>1. CASE x \in ToSet(s)
    BY <1>1, <1>2, <1>4, <2>1 DEF ToSet
  <2>2. CASE x \in ToSet(t)
    <3>1. PICK n \in DOMAIN t : x = t[n]
      BY <2>2 DEF ToSet
    <3>2. u[Len(s) + n] = x /\ Len(s) + n \in DOMAIN u
      BY <1>1, <1>2, <1>5, <3>1
    <3>3. QED
      BY <3>2 DEF ToSet
  <2>3. QED
    BY <1>7, <2>1, <2>2
<1>8. ToSet(u) = ToSet(s) \cup ToSet(t)
  BY <1>6, <1>7
<1>9. QED
  BY <1>1, <1>8 DEF u

\* what the rules find of one device, in no order
Missed(dev, rule, required, actual) ==
  {Finding("warning", dev, rule, v, dev.evidence) : v \in ToSet(required) \ Values(actual)}
Forbidden(dev, rule, forbidden, actual) ==
  {Finding("critical", dev, rule, target.value, target.evidence) : target \in {target \in ToSet(actual) : target.value \in ToSet(forbidden)}}

\* Missing targets are the required values nothing has.
LEMMA MissingMembers ==
  ASSUME NEW dev, NEW rule, NEW required, IsList(required), NEW actual
  PROVE  /\ IsList(MissingTargets(dev, rule, required, actual))
         /\ ToSet(MissingTargets(dev, rule, required, actual)) = Missed(dev, rule, required, actual)
<1> DEFINE all == [n \in DOMAIN required |-> Finding("warning", dev, rule, required[n], dev.evidence)]
           places == {n \in DOMAIN required : required[n] \notin Values(actual)}
<1>1. MissingTargets(dev, rule, required, actual) = Picked(all, places)
  BY DEF MissingTargets
<1>2. IsList(all) /\ DOMAIN all = DOMAIN required
  <2>1. all = [n \in DOMAIN required |-> all[n]]
    OBVIOUS
  <2> HIDE DEF all
  <2>2. QED
    BY <2>1, ListMapped
<1>3. {all[n] : n \in places} = Missed(dev, rule, required, actual)
  <2>1. \A n \in places : all[n] = Finding("warning", dev, rule, required[n], dev.evidence)
    OBVIOUS
  <2>2. \A n \in places : required[n] \in ToSet(required) \ Values(actual)
    BY DEF ToSet
  <2>3. \A v \in ToSet(required) \ Values(actual) : \E n \in places : v = required[n]
    BY DEF ToSet
  <2> HIDE DEF all, places
  <2>4. QED
    BY <2>1, <2>2, <2>3 DEF Missed
<1>4. places \subseteq DOMAIN all
  BY <1>2
<1> HIDE DEF all, places
<1>5. QED
  BY <1>1, <1>2, <1>3, <1>4, PickedMembers

\* Forbidden targets are those that have a forbidden value.
LEMMA ForbiddenMembers ==
  ASSUME NEW dev, NEW rule, NEW forbidden, NEW actual, IsList(actual)
  PROVE  /\ IsList(ForbiddenTargets(dev, rule, forbidden, actual))
         /\ ToSet(ForbiddenTargets(dev, rule, forbidden, actual)) = Forbidden(dev, rule, forbidden, actual)
<1> DEFINE all == [n \in DOMAIN actual |-> Finding("critical", dev, rule, actual[n].value, actual[n].evidence)]
           places == {n \in DOMAIN actual : actual[n].value \in ToSet(forbidden)}
<1>1. ForbiddenTargets(dev, rule, forbidden, actual) = Picked(all, places)
  BY DEF ForbiddenTargets
<1>2. IsList(all) /\ DOMAIN all = DOMAIN actual
  <2>1. all = [n \in DOMAIN actual |-> all[n]]
    OBVIOUS
  <2> HIDE DEF all
  <2>2. QED
    BY <2>1, ListMapped
<1>3. {all[n] : n \in places} = Forbidden(dev, rule, forbidden, actual)
  <2> DEFINE told == {target \in ToSet(actual) : target.value \in ToSet(forbidden)}
  <2>1. \A n \in places : all[n] = Finding("critical", dev, rule, actual[n].value, actual[n].evidence)
    OBVIOUS
  <2>2. \A n \in places : actual[n] \in told
    BY DEF ToSet
  <2>3. \A target \in told : \E n \in places : target = actual[n]
    BY DEF ToSet
  <2>4. Forbidden(dev, rule, forbidden, actual) = {Finding("critical", dev, rule, target.value, target.evidence) : target \in told}
    BY DEF Forbidden
  <2> HIDE DEF all, places, told
  <2>5. QED
    BY <2>1, <2>2, <2>3, <2>4
<1>4. places \subseteq DOMAIN all
  BY <1>2
<1> HIDE DEF all, places
<1>5. QED
  BY <1>1, <1>2, <1>3, <1>4, PickedMembers

\* the rules of one device, one after the other
Checked(dev, policy) ==
  MissingTargets(dev, "ntp", policy.ntp, dev.ntp)
  \o MissingTargets(dev, "syslog", policy.syslog, dev.syslog)
  \o ForbiddenTargets(dev, "snmp community", policy.snmp, dev.communities)

\* findings that are these
AreFindings(findings, dev, policy) ==
  ToSet(findings) = Missed(dev, "ntp", policy.ntp, dev.ntp) \cup Missed(dev, "syslog", policy.syslog, dev.syslog)
                    \cup Forbidden(dev, "snmp community", policy.snmp, dev.communities)

\* The rules of one device find these, and nothing else.
LEMMA CheckedMembers ==
  ASSUME NEW dev, IsList(dev.communities), NEW policy, IsPolicy(policy)
  PROVE  IsList(Checked(dev, policy)) /\ AreFindings(Checked(dev, policy), dev, policy)
<1> DEFINE A == MissingTargets(dev, "ntp", policy.ntp, dev.ntp)
           B == MissingTargets(dev, "syslog", policy.syslog, dev.syslog)
           C == ForbiddenTargets(dev, "snmp community", policy.snmp, dev.communities)
<1>1. IsList(policy.ntp) /\ IsList(policy.syslog) /\ IsList(policy.snmp)
  BY DEF IsPolicy
<1>2. IsList(A) /\ ToSet(A) = Missed(dev, "ntp", policy.ntp, dev.ntp)
  BY <1>1, MissingMembers
<1>3. IsList(B) /\ ToSet(B) = Missed(dev, "syslog", policy.syslog, dev.syslog)
  BY <1>1, MissingMembers
<1>4. IsList(C) /\ ToSet(C) = Forbidden(dev, "snmp community", policy.snmp, dev.communities)
  BY <1>1, ForbiddenMembers
<1>5. Checked(dev, policy) = A \o B \o C
  BY DEF Checked
<1> HIDE DEF A, B, C
<1>6. IsList(A \o B) /\ ToSet(A \o B) = ToSet(A) \cup ToSet(B)
  BY <1>2, <1>3, JoinedMembers
<1>7. IsList(A \o B \o C) /\ ToSet(A \o B \o C) = ToSet(A \o B) \cup ToSet(C)
  BY <1>4, <1>6, JoinedMembers
<1>8. QED
  BY <1>2, <1>3, <1>4, <1>5, <1>6, <1>7 DEF AreFindings

\* A policy of the flags has its three lists.
LEMMA PolicyOfFlags ==
  ASSUME NEW policy, IsPolicy(policy), NEW flags, IsPolicy(flags)
  PROVE  IsPolicy(PolicyFromFlags(policy, flags))
BY DEF IsPolicy, PolicyFromFlags

\* The findings are those of the devices.
LEMMA PolicyChecked ==
  ASSUME NEW devices, IsList(devices), \A d \in DOMAIN devices : IsList(devices[d].communities),
         NEW policy, IsPolicy(policy)
  PROVE  /\ IsList(CheckPolicy(devices, policy))
         /\ Len(devices) = 1 => ToSet(CheckPolicy(devices, policy)) = ToSet(Checked(devices[1], policy))
<1> DEFINE ss == [d \in DOMAIN devices |-> Checked(devices[d], policy)]
           t == CheckPolicy(devices, policy)
<1>1. t = FlattenSeq(ss)
  BY DEF CheckPolicy, Checked
<1>2. IsList(ss) /\ DOMAIN ss = DOMAIN devices
  <2>1. ss = [d \in DOMAIN devices |-> ss[d]]
    OBVIOUS
  <2> HIDE DEF ss
  <2>2. QED
    BY <2>1, ListMapped
<1>3. \A d \in DOMAIN ss : IsList(ss[d])
  BY CheckedMembers
<1>4. Len(devices) = 1 => DOMAIN devices = 1..1 /\ ss[1] = Checked(devices[1], policy)
  <2>1. DOMAIN devices = 1..Len(devices)
    BY ListLength
  <2>2. QED
    BY <2>1
<1>5. Len(ss) \in Nat /\ DOMAIN ss = 1..Len(ss)
  BY <1>2, ListLength
<1> HIDE DEF ss, t
<1>6. /\ IsList(t)
      /\ \E row, col : Spread(t, ss, Len(ss), row, col)
  BY <1>1, <1>2, <1>3, FlattenPlaces
<1>7. PICK row, col : Spread(t, ss, Len(ss), row, col)
  BY <1>6
<1>8. /\ \A n \in DOMAIN t : /\ row[n] \in 1..Len(ss) /\ col[n] \in DOMAIN ss[row[n]]
                             /\ t[n] = ss[row[n]][col[n]]
      /\ \A j \in 1..Len(ss) : \A m \in DOMAIN ss[j] : \E n \in DOMAIN t : row[n] = j /\ col[n] = m
  BY <1>7 DEF Spread
<1>9. ASSUME Len(devices) = 1
      PROVE  ToSet(t) = ToSet(ss[1])
  <2>1. Len(ss) = 1
    BY <1>2, <1>4, <1>5, <1>9
  <2>2. \A n \in DOMAIN t : col[n] \in DOMAIN ss[1] /\ t[n] = ss[1][col[n]]
    BY <1>8, <2>1
  <2>3. \A m \in DOMAIN ss[1] : \E n \in DOMAIN t : t[n] = ss[1][m]
    BY <1>8, <2>1
  <2>4. QED
    BY <2>2, <2>3 DEF ToSet
<1>10. QED
  BY <1>4, <1>6, <1>9 DEF t

-----------------------------------------------------------------------------
(***************************************************************************)
(* Every answer is one of the devices its process loaded.                  *)
(***************************************************************************)

\* what AnswerInv says of one process
AnswerOf(p) ==
  /\ job(p).cmd = "none" => stage[p] = "done"
  /\ \A n \in DOMAIN loaded[p] : IsRecord(loaded[p][n], session)
  /\ stage[p] = "done" /\ job(p).cmd \in {"check", "summary", "query"} => answer[p] \in Answers(job(p), loaded[p])

\* A step of one process leaves the answers of the others.
LEMMA OthersAnswered ==
  ASSUME AnswerInv, NEW p \in Procs,
         session' = session, DOMAIN answer' = Procs,
         \A q \in Procs \ {p} : stage'[q] = stage[q] /\ loaded'[q] = loaded[q] /\ answer'[q] = answer[q],
         AnswerOf(p)'
  PROVE  AnswerInv'
<1>1. \A q \in Procs : job(q)' = job(q)
  BY DEF job
<1>2. ASSUME NEW q \in Procs
      PROVE  AnswerOf(q)'
  <2>1. CASE q = p
    BY <2>1
  <2>2. CASE q # p
    <3>1. AnswerOf(q)
      BY DEF AnswerInv, AnswerOf
    <3>2. job(q)' = job(q) /\ stage'[q] = stage[q] /\ loaded'[q] = loaded[q] /\ answer'[q] = answer[q]
      BY <1>1, <2>2
    <3>3. QED
      BY <3>1, <3>2 DEF AnswerOf
  <2>3. QED
    BY <2>1, <2>2
<1>3. \/ \E n \in DOMAIN Sessions : session' \in Sessions[n]
      \/ \A q \in Procs : job(q)'.cmd = "none"
  BY <1>1 DEF AnswerInv
<1>4. QED
  BY <1>2, <1>3 DEF AnswerInv, AnswerOf

\* No process has answered at first.
LEMMA AnswerInit == OfflineInit => AnswerInv
<1>1. ASSUME OfflineInit
      PROVE  /\ \A p \in Procs : stage[p] = (IF job(p).cmd = "none" THEN "done" ELSE "start") /\ loaded[p] = << >>
             /\ DOMAIN answer = Procs
             /\ \/ \E n \in DOMAIN Sessions : session \in Sessions[n]
                \/ \A p \in Procs : job(p).cmd = "none"
  BY <1>1 DEF OfflineInit, NetcInit, job
<1>2. QED
  BY <1>1 DEF AnswerInv

\* the steps that answer nothing and load nothing
LEMMA NothingAnswered ==
  ASSUME NetcInv, AnswerInv, NEW p \in Procs,
         \/ Begin(p) \/ AllParsed(p) \/ OpenInventory(p) \/ WriteCell(p) \/ WriteFails(p) \/ Written(p) \/ Crash(p)
         \/ OpenForReading(p)
  PROVE  AnswerInv'
<1>1. /\ session' = session /\ loaded' = loaded /\ DOMAIN answer' = Procs
      /\ \A q \in Procs \ {p} : stage'[q] = stage[q] /\ answer'[q] = answer[q]
  BY DEF Begin, AllParsed, OpenInventory, WriteCell, OpenForReading, WriteFails, Written, Crash, Become, AnswerInv, NetcInv, NetcTypeOK
<1>2. stage'[p] = "done" => job(p).cmd = "ingest"
  <2>1. CASE Written(p)
    BY <2>1 DEF Written, NetcInv, WritersKnown
  <2>2. CASE Begin(p) \/ AllParsed(p) \/ OpenInventory(p) \/ WriteCell(p) \/ WriteFails(p) \/ Crash(p) \/ OpenForReading(p)
    BY <2>2 DEF Begin, AllParsed, OpenInventory, WriteCell, OpenForReading, WriteFails, Crash, Become, NetcInv, NetcTypeOK
  <2>3. QED
    BY <2>1, <2>2
<1>3. stage[p] # "done"
  BY DEF Begin, AllParsed, OpenInventory, WriteCell, OpenForReading, WriteFails, Written, Crash
<1>4. AnswerOf(p)
  BY DEF AnswerInv, AnswerOf
<1>5. job(p)' = job(p)
  BY <1>1 DEF job
<1>6. AnswerOf(p)'
  BY <1>1, <1>2, <1>3, <1>4, <1>5 DEF AnswerOf
<1>7. QED
  BY <1>1, <1>6, OthersAnswered

\* A process answers from its file when it has parsed the last one.
LEMMA ParsedAnswered ==
  ASSUME NetcInv, AnswerInv, NEW p \in Procs, ParseNext(p)
  PROVE  AnswerInv'
<1>1. /\ stage[p] = "parse" /\ stage'[p] \in {"parse", "failed", "dead"} /\ todo[p] # << >>
      /\ session' = session /\ answer' = answer
      /\ \A q \in Procs \ {p} : stage'[q] = stage[q] /\ loaded'[q] = loaded[q]
  <2>1. /\ stage[p] = "parse" /\ todo[p] # << >> /\ session' = session /\ answer' = answer
        /\ \/ stage' = stage \/ stage' = [stage EXCEPT ![p] = "failed"] \/ stage' = [stage EXCEPT ![p] = "dead"]
        /\ loaded' = loaded \/ \E record : loaded' = [loaded EXCEPT ![p] = Append(@, record)]
    BY Zenon DEF ParseNext, Become
  <2>2. DOMAIN stage = Procs /\ DOMAIN loaded = Procs
    BY DEF NetcInv, NetcTypeOK
  <2>3. QED
    BY <2>1, <2>2
<1>2. AnswerOf(p)
  BY DEF AnswerInv, AnswerOf
<1>3. job(p)' = job(p) /\ job(p).cmd # "none"
  BY <1>1, <1>2 DEF job, AnswerOf
<1> DEFINE file == File(Head(todo[p]))
           vendor == Selected(job(p).vendor, file)
<1>4. \A n \in DOMAIN loaded'[p] : IsRecord(loaded'[p][n], session)
  <2>1. CASE loaded'[p] = loaded[p]
    BY <1>2, <2>1 DEF AnswerOf
  <2>2. CASE /\ IsThere(Head(todo[p])) /\ vendor \in Vendors
             /\ \E dev \in ParseFile(vendor, file.text) :
                  loaded' = [loaded EXCEPT ![p] = Append(@, [dev |-> dev, text |-> file.text, vendor |-> vendor])]
    <3>1. file \in Readings(session)
      BY <2>2 DEF Readings, File, IsThere, ToSet
    <3>2. PICK dev \in ParseFile(vendor, file.text) :
             loaded' = [loaded EXCEPT ![p] = Append(@, [dev |-> dev, text |-> file.text, vendor |-> vendor])]
      BY <2>2
    <3> DEFINE record == [dev |-> dev, text |-> file.text, vendor |-> vendor]
    <3>3. record.dev = dev /\ record.text = file.text /\ record.vendor = vendor
      OBVIOUS
    <3>4. loaded'[p] = Append(loaded[p], record)
      BY <3>2 DEF NetcInv, NetcTypeOK
    <3> HIDE DEF record
    <3>5. IsRecord(record, session)
      <4>1. record.dev \in ParseFile(record.vendor, record.text)
        <5> HIDE DEF file, vendor
        <5>1. QED
          BY <3>2, <3>3
      <4>2. record.vendor = Selected(session.jobs[p].vendor, file) /\ session.jobs[p].cmd # "none"
        BY <1>3, <3>3 DEF job
      <4> HIDE DEF file, vendor
      <4>3. record.vendor \in Vendors
        BY <2>2, <3>3
      <4>4. QED
        BY <3>1, <3>3, <4>1, <4>2, <4>3 DEF IsRecord
    <3>6. IsList(loaded[p])
      BY DEF NetcInv, NetcTypeOK
    <3>7. /\ DOMAIN loaded'[p] = 1..Len(loaded[p]) + 1
          /\ Len(loaded[p]) \in Nat /\ DOMAIN loaded[p] = 1..Len(loaded[p])
          /\ \A n \in 1..Len(loaded[p]) : loaded'[p][n] = loaded[p][n]
          /\ loaded'[p][Len(loaded[p]) + 1] = record
      BY <3>4, <3>6, Appended
    <3>8. \A n \in DOMAIN loaded'[p] : n \in 1..Len(loaded[p]) \/ n = Len(loaded[p]) + 1
      BY <3>7
    <3>9. QED
      BY <1>2, <3>5, <3>7, <3>8 DEF AnswerOf
  <2>3. QED
    BY <2>1, <2>2 DEF ParseNext
<1>5. AnswerOf(p)'
  BY <1>1, <1>3, <1>4 DEF AnswerOf
<1>6. QED
  BY <1>1, <1>5, OthersAnswered DEF AnswerInv

\* A process that reads the inventory loads what it decodes.
LEMMA ReadAnswered ==
  ASSUME NetcInv, AnswerInv, NEW p \in Procs, ReadCell(p) \/ ReadEnd(p)
  PROVE  AnswerInv'
<1>1. /\ stage[p] = "scan" /\ stage'[p] \in {"scan", "answer", "failed", "garbled"}
      /\ session' = session /\ answer' = answer
      /\ \A q \in Procs \ {p} : stage'[q] = stage[q] /\ loaded'[q] = loaded[q]
  BY OthersUnread
<1>2. \A q \in Procs : AnswerOf(q)
  BY DEF AnswerInv, AnswerOf
<1>3. job(p)' = job(p) /\ job(p).cmd # "none"
  BY <1>1, <1>2 DEF job, AnswerOf
<1>4. \A n \in DOMAIN loaded'[p] : IsRecord(loaded'[p][n], session)
  <2>1. CASE loaded' = loaded
    BY <1>2, <2>1 DEF AnswerOf
  <2>2. ASSUME NEW line, line = handle[p].line, NEW to \in {"scan", "answer"}, Decode(p, line, to)
        PROVE  \A n \in DOMAIN loaded'[p] : IsRecord(loaded'[p][n], session)
    <3>1. IsList(loaded[p]) /\ IsList(line) /\ (\A m \in DOMAIN line : IsCell(line[m])) /\ to \in Stages
      BY <1>1, <2>2 DEF NetcInv, NetcTypeOK, CellsOfIngests, Stages
    <3>2. \/ /\ line[1].by \in Procs /\ HasIngested(line[1].by) /\ line[1].nth \in DOMAIN loaded[line[1].by]
             /\ loaded'[p] = Append(loaded[p], loaded[line[1].by][line[1].nth])
          \/ loaded'[p] = loaded[p]
      BY <2>2, <3>1, Decoded
    <3>3. \A n \in DOMAIN loaded'[p] :
            \/ n \in DOMAIN loaded[p] /\ loaded'[p][n] = loaded[p][n]
            \/ \E q \in Procs : HasIngested(q) /\ \E m \in DOMAIN loaded[q] : loaded'[p][n] = loaded[q][m]
      BY <3>1, <3>2, DecodedFrom
    <3>4. QED
      BY <1>2, <3>3 DEF AnswerOf
  <2>3. QED
    BY <2>1, <2>2 DEF ReadCell, ReadEnd
<1>5. AnswerOf(p)'
  BY <1>1, <1>3, <1>4 DEF AnswerOf
<1>6. QED
  BY <1>1, <1>5, OthersAnswered DEF AnswerInv

\* A process that loaded devices answers from them.
LEMMA AnswerAnswered ==
  ASSUME NetcInv, AnswerInv, NEW p \in Procs, Answer(p)
  PROVE  AnswerInv'
<1>1. /\ stage[p] = "answer" /\ stage'[p] \in {"done", "failed"}
      /\ session' = session /\ loaded' = loaded /\ DOMAIN answer' = Procs
      /\ \A q \in Procs \ {p} : stage'[q] = stage[q] /\ answer'[q] = answer[q]
  BY DEF Answer, Become, AnswerInv, NetcInv, NetcTypeOK
<1>2. AnswerOf(p)
  BY DEF AnswerInv, AnswerOf
<1>3. job(p)' = job(p) /\ job(p).cmd # "none"
  BY <1>1, <1>2 DEF job, AnswerOf
<1>4. stage'[p] = "done" => answer'[p] \in Answers(job(p), loaded[p])
  BY DEF Answer, Become, AnswerInv, NetcInv, NetcTypeOK
<1>5. AnswerOf(p)'
  BY <1>1, <1>2, <1>3, <1>4 DEF AnswerOf
<1>6. QED
  BY <1>1, <1>5, OthersAnswered

\* Every step keeps each answer one of the devices loaded.
LEMMA AnswerStep == NetcInv /\ AnswerInv /\ [OfflineNext]_OfflineVars => AnswerInv'
<1>1. ASSUME NetcInv, AnswerInv, NetcNext
      PROVE  AnswerInv'
  BY <1>1, NothingAnswered, ParsedAnswered, ReadAnswered, AnswerAnswered DEF NetcNext
<1>2. ASSUME AnswerInv, UNCHANGED netcVars
      PROVE  AnswerInv'
  BY <1>2 DEF AnswerInv, netcVars, job
<1>3. QED
  BY <1>1, <1>2 DEF OfflineNext, OfflineVars

-----------------------------------------------------------------------------
(***************************************************************************)
(* The counts of a summary.                                                *)
(***************************************************************************)

\* The counts of the findings by severity, and those by rule, add up to the findings.
LEMMA CountsAddUp ==
  ASSUME NEW findings, IsList(findings), NEW field
  PROVE  FoldFunction(+, 0, CountBy(findings, field)) = Len(findings)
<1> DEFINE places == DOMAIN findings
           D == {findings[n][field] : n \in places}
           counts == CountBy(findings, field)
           Of(T) == {n \in places : findings[n][field] \in T}
           Some(T) == CHOOSE x \in T : TRUE
           I == CHOOSE iter : iter = [T \in SUBSET D |-> IF T = {} THEN 0
                                                          ELSE counts[Some(T)] + iter[T \ {Some(T)}]]
           W == [T \in SUBSET D |-> Cardinality(Of(T))]
<1>1. FoldFunction(+, 0, counts) = I[D]
  <2>1. DOMAIN counts = D
    BY DEF CountBy
  <2>2. FoldFunction(+, 0, counts) = (CHOOSE iter : iter = [T \in SUBSET DOMAIN counts |-> IF T = {} THEN 0
                                                          ELSE counts[Some(T)] + iter[T \ {Some(T)}]])[DOMAIN counts]
    <3> HIDE DEF counts
    <3>1. QED
      BY DEF FoldFunction, FoldFunctionOnSet, MapThenFoldSet
  <2>3. QED
    BY <2>1, <2>2
<1>2. Len(findings) \in Nat /\ places = 1..Len(findings)
  BY ListLength
<1>3. IsFiniteSet(places) /\ Cardinality(places) = Len(findings)
  BY <1>2, IntervalFinite
<1>4. \A T : IsFiniteSet(Of(T)) /\ Cardinality(Of(T)) \in Nat
  <2>1. \A T : Of(T) \in SUBSET places
    OBVIOUS
  <2> HIDE DEF Of
  <2>2. \A T : IsFiniteSet(Of(T))
    BY <1>3, <2>1, FS_Subset
  <2>3. QED
    BY <2>2, FS_CardinalityType
<1>5. IsFiniteSet(D)
  <2> DEFINE g == [n \in places |-> findings[n][field]]
  <2>1. D = {g[n] : n \in places}
    OBVIOUS
  <2>2. DOMAIN g = places
    OBVIOUS
  <2> HIDE DEF g, D, places
  <2>3. QED
    BY <1>3, <2>1, <2>2, ImageFinite
<1>6. \A v \in D : counts[v] = Cardinality(Of({v}))
  <2>1. \A v \in D : counts[v] = Cardinality({n \in places : findings[n][field] = v})
    BY DEF CountBy
  <2>2. \A v : {n \in places : findings[n][field] = v} = Of({v})
    OBVIOUS
  <2> HIDE DEF counts, Of, D, places
  <2>3. QED
    BY <2>1, <2>2
<1>7. \A T : T # {} => Some(T) \in T
  OBVIOUS
<1>8. ASSUME NEW T \in SUBSET D, T # {}
      PROVE  /\ T \ {Some(T)} \in SUBSET D
             /\ Cardinality(Of(T)) = counts[Some(T)] + Cardinality(Of(T \ {Some(T)}))
  <2> DEFINE x == Some(T)
             A == Of({x})
             B == Of(T \ {x})
  <2>1. x \in T
    BY <1>7, <1>8
  <2> HIDE DEF x
  <2>2. A \cap B = {} /\ Of(T) = A \cup B
    BY <2>1
  <2>3. /\ IsFiniteSet(A) /\ IsFiniteSet(B)
        /\ Cardinality(A) \in Nat /\ Cardinality(B) \in Nat
    BY <1>4
  <2>4. counts[x] = Cardinality(A)
    <3>1. x \in D
      BY <2>1
    <3> HIDE DEF counts, Of, D
    <3>2. QED
      BY <1>6, <3>1
  <2>5. Cardinality(A \cup B) = Cardinality(A) + Cardinality(B) - Cardinality(A \cap B)
    <3> HIDE DEF A, B
    <3>1. QED
      BY <2>3, FS_Union
  <2>6. Cardinality(A \cap B) = 0
    BY <2>2, FS_EmptySet
  <2>7. Cardinality(Of(T)) = counts[x] + Cardinality(B)
    <3> HIDE DEF A, B, counts, Of
    <3>1. QED
      BY <2>2, <2>3, <2>4, <2>5, <2>6
  <2>8. QED
    BY <2>7 DEF x
<1>9. Cardinality(Of({})) = 0
  <2>1. Of({}) = {}
    OBVIOUS
  <2>2. QED
    BY <2>1, FS_EmptySet
<1> DEFINE Made(iter) == iter = [T \in SUBSET D |-> IF T = {} THEN 0 ELSE counts[Some(T)] + iter[T \ {Some(T)}]]
<1> HIDE DEF counts, Of, Some, D
<1>10. Made(W)
  <2>1. \A T \in SUBSET D : W[T] = IF T = {} THEN 0 ELSE counts[Some(T)] + W[T \ {Some(T)}]
    BY <1>8, <1>9
  <2>2. W = [T \in SUBSET D |-> W[T]]
    OBVIOUS
  <2> HIDE DEF W
  <2>3. QED
    BY <2>1, <2>2
<1>11. Made(I)
  <2>1. \E iter : Made(iter)
    BY <1>10
  <2>2. QED
    BY <2>1
<1> HIDE DEF W, I
<1>12. \A T \in SUBSET D : I[T] = W[T]
  <2> DEFINE Bad == {T \in SUBSET D : I[T] # W[T]}
             Sizes == {Cardinality(T) : T \in Bad}
  <2>1. SUFFICES ASSUME Bad # {} PROVE FALSE
    OBVIOUS
  <2>2. \A T \in SUBSET D : IsFiniteSet(T) /\ Cardinality(T) \in Nat
    BY <1>5, FS_Subset, FS_CardinalityType
  <2>3. Sizes \subseteq Nat /\ Sizes # {}
    BY <2>1, <2>2
  <2>4. PICK T \in Bad : \A U \in Bad : Cardinality(T) <= Cardinality(U)
    <3> HIDE DEF Sizes
    <3>1. PICK c \in Sizes : \A d \in Sizes : c <= d
      BY <2>3, LeastNatural
    <3>2. QED
      BY <3>1 DEF Sizes
  <2>5. /\ I[T] = IF T = {} THEN 0 ELSE counts[Some(T)] + I[T \ {Some(T)}]
        /\ W[T] = IF T = {} THEN 0 ELSE counts[Some(T)] + W[T \ {Some(T)}]
    BY <1>10, <1>11
  <2>6. T # {}
    BY <2>5
  <2>7. Some(T) \in T /\ T \ {Some(T)} \in SUBSET D
    BY <1>7, <1>8, <2>6
  <2>8. Cardinality(T \ {Some(T)}) = Cardinality(T) - 1
    BY <2>2, <2>7, FS_RemoveElement
  <2>9. T \ {Some(T)} \notin Bad
    BY <2>2, <2>4, <2>7, <2>8
  <2>10. QED
    BY <2>4, <2>5, <2>6, <2>7, <2>9
<1>13. Of(D) = places
  BY DEF Of, D
<1>14. W[D] = Len(findings)
  <2>1. W[D] = Cardinality(Of(D))
    BY DEF W
  <2>2. QED
    BY <1>3, <1>13, <2>1
<1>15. FoldFunction(+, 0, counts) = Len(findings)
  <2>1. I[D] = W[D]
    BY <1>12
  <2>2. QED
    BY <1>1, <1>14, <2>1, Zenon
<1>16. QED
  BY <1>15, Zenon DEF counts

-----------------------------------------------------------------------------
(***************************************************************************)
(* What the findings of one Cisco configuration say of its lines.          *)
(***************************************************************************)

\* warnings of one rule, and findings at some lines
Warnings(F, rule, values) == (\A f \in F : f.severity = "warning" /\ f.rule = rule) /\ {f.value : f \in F} = values
FoundAt(F, evidence)      == (\A f \in F : f.severity = "critical") /\ {f.evidence : f \in F} = evidence

\* the lines of the targets that have some value
GivenBy(targets, values) == {target.evidence : target \in {target \in ToSet(targets) : target.value \in values}}

\* Warnings tell the required values nobody has.
LEMMA MissedTells ==
  ASSUME NEW dev, NEW rule, NEW P, NEW A
  PROVE  Warnings(Missed(dev, rule, P, A), rule, ToSet(P) \ Values(A))
<1> DEFINE V == ToSet(P) \ Values(A)
           Of(v) == Finding("warning", dev, rule, v, dev.evidence)
<1>1. Missed(dev, rule, P, A) = {Of(v) : v \in V}
  BY DEF Missed
<1>2. \A v : Of(v).severity = "warning" /\ Of(v).rule = rule /\ Of(v).value = v
  BY DEF Finding
<1> HIDE DEF V, Of
<1>3. QED
  BY <1>1, <1>2 DEF V, Warnings

\* Criticals tell the lines of the forbidden ones.
LEMMA ForbiddenTells ==
  ASSUME NEW dev, NEW rule, NEW R, NEW C
  PROVE  FoundAt(Forbidden(dev, rule, R, C),
                 GivenBy(C, ToSet(R)))
<1> DEFINE told == {target \in ToSet(C) : target.value \in ToSet(R)}
           Of(target) == Finding("critical", dev, rule, target.value, target.evidence)
<1>1. Forbidden(dev, rule, R, C) = {Of(target) : target \in told}
  BY DEF Forbidden
<1>2. \A target : Of(target).severity = "critical" /\ Of(target).evidence = target.evidence
  BY DEF Finding
<1> HIDE DEF told, Of
<1>3. QED
  BY <1>1, <1>2 DEF told, FoundAt, GivenBy

\* What is told of the findings of one device.
LEMMA FindingsOfOne ==
  ASSUME NEW dev, NEW policy, NEW findings, AreFindings(findings, dev, policy)
  PROVE  /\ Warned(findings, "ntp") = ToSet(policy.ntp) \ Values(dev.ntp)
         /\ Warned(findings, "syslog") = ToSet(policy.syslog) \ Values(dev.syslog)
         /\ CriticalLines(findings) = GivenBy(dev.communities, ToSet(policy.snmp))
<1> DEFINE P == policy.ntp
           Q == policy.syslog
           R == policy.snmp
           A == dev.ntp
           B == dev.syslog
           C == dev.communities
           F == ToSet(findings)
           ntp == Missed(dev, "ntp", P, A)
           syslog == Missed(dev, "syslog", Q, B)
           snmp == Forbidden(dev, "snmp community", R, C)
           V == ToSet(P) \ Values(A)
           W == ToSet(Q) \ Values(B)
           lines == GivenBy(C, ToSet(R))
<1>1. Warnings(ntp, "ntp", V)
  BY MissedTells
<1>2. Warnings(syslog, "syslog", W)
  BY MissedTells
<1>3. FoundAt(snmp, lines)
  BY ForbiddenTells
<1>4. F = ntp \cup syslog \cup snmp
  BY DEF AreFindings
<1> HIDE DEF ntp, syslog, snmp, lines, V, W
<1> USE DEF Warnings, FoundAt
<1>5. {f \in F : f.severity = "warning" /\ f.rule = "ntp"} = ntp
  BY <1>1, <1>2, <1>3, <1>4
<1>6. {f \in F : f.severity = "warning" /\ f.rule = "syslog"} = syslog
  BY <1>1, <1>2, <1>3, <1>4
<1>7. {f \in F : f.severity = "critical"} = snmp
  BY <1>1, <1>2, <1>3, <1>4
<1>8. QED
  BY <1>1, <1>2, <1>3, <1>5, <1>6, <1>7 DEF lines, V, W, Warned, CriticalLines

\* The values and the lines of what a Cisco device has.
LEMMA CiscoServers ==
  ASSUME NEW text, IsList(text), NEW word, NEW targets,
         ToSet(targets) = ServersTo(text, Len(text), word)
  PROVE  Values(targets) = ServersGiven(text, word)
<1>1. \A i \in Outside(text) : i <= Len(text)
  <2>1. Len(text) \in Nat /\ DOMAIN text = 1..Len(text)
    BY ListLength
  <2>2. QED
    BY <2>1 DEF Outside
<1> DEFINE at == {i \in Outside(text) : text[i].word = word}
<1>2. ToSet(targets) = {Target(Rest(text[i]), <<i>>) : i \in at}
  BY <1>1 DEF ServersTo
<1>3. Values(targets) = {target.value : target \in ToSet(targets)}
  BY DEF Values, ToSet
<1>4. \A i : Target(Rest(text[i]), <<i>>).value = Rest(text[i])
  BY DEF Target
<1> HIDE DEF at
<1> DEFINE Of(i) == Target(Rest(text[i]), <<i>>)
           all == ToSet(targets)
<1>5. {target.value : target \in all} = {Rest(text[i]) : i \in at}
  <2>1. all = {Of(i) : i \in at} /\ \A i : Of(i).value = Rest(text[i])
    BY <1>2, <1>4
  <2> HIDE DEF Of, all
  <2>2. QED
    BY <2>1
<1>6. QED
  BY <1>3, <1>5 DEF at, ServersGiven

\* And the communities it has are those of the lines outside the blocks.
LEMMA CiscoCommunities ==
  ASSUME NEW text, IsList(text), NEW targets, ToSet(targets) = CommunitiesTo(text, Len(text)), NEW S
  PROVE  GivenBy(targets, S) = GivenLines(text, S)
<1>1. \A i \in Outside(text) : i <= Len(text)
  <2>1. Len(text) \in Nat /\ DOMAIN text = 1..Len(text)
    BY ListLength
  <2>2. QED
    BY <2>1 DEF Outside
<1> DEFINE at == {i \in Outside(text) : GivenOn(text[i]) # None}
<1>2. ToSet(targets) = {Target(GivenOn(text[i]), <<i>>) : i \in at}
  BY <1>1 DEF CommunitiesTo
<1>3. \A i : Target(GivenOn(text[i]), <<i>>).value = GivenOn(text[i]) /\ Target(GivenOn(text[i]), <<i>>).evidence = <<i>>
  BY DEF Target
<1>4. {target.evidence : target \in {target \in ToSet(targets) : target.value \in S}}
        = {<<i>> : i \in {i \in at : GivenOn(text[i]) \in S}}
  <2> DEFINE Of(i) == Target(GivenOn(text[i]), <<i>>)
             all == ToSet(targets)
  <2>1. all = {Of(i) : i \in at} /\ \A i : Of(i).value = GivenOn(text[i]) /\ Of(i).evidence = <<i>>
    BY <1>2, <1>3
  <2> HIDE DEF at, Of, all
  <2>2. \A target \in {target \in all : target.value \in S} : \E i \in {i \in at : GivenOn(text[i]) \in S} : target.evidence = <<i>>
    BY <2>1
  <2>3. \A i \in {i \in at : GivenOn(text[i]) \in S} : \E target \in {target \in all : target.value \in S} : target.evidence = <<i>>
    BY <2>1
  <2>4. {target.evidence : target \in {target \in all : target.value \in S}} = {<<i>> : i \in {i \in at : GivenOn(text[i]) \in S}}
    BY <2>2, <2>3
  <2>5. QED
    BY <2>4 DEF all
<1>5. {i \in at : GivenOn(text[i]) \in S} = {i \in Outside(text) : GivenOn(text[i]) \in S \ {None}}
  OBVIOUS
<1>6. QED
  BY <1>4, <1>5 DEF GivenBy, GivenLines

\* A record of a session: its text is a configuration, and its device is one.
LEMMA RecordTyped ==
  ASSUME AnswerInv, NEW q \in Procs, job(q).cmd # "none", NEW record, IsRecord(record, session)
  PROVE  IsConfig(record.text) /\ IsDevice(record.dev)
<1>1. PICK n \in DOMAIN Sessions : session \in Sessions[n]
  BY DEF AnswerInv
<1>2. PICK p \in Procs, file \in Readings(session) :
        /\ session.jobs[p].cmd # "none"
        /\ record.text = file.text
        /\ record.vendor = Selected(session.jobs[p].vendor, file) /\ record.vendor \in Vendors
  BY DEF IsRecord
<1>3. record.dev \in ParseFile(record.vendor, record.text)
  BY DEF IsRecord
<1>4. IsConfig(file.text)
  BY <1>1, SessionsAssumption
<1>5. \A dev \in ParseFile(Selected(session.jobs[p].vendor, file), file.text) : IsDevice(dev)
  BY <1>1, <1>2, SessionsAssumption
<1>6. QED
  BY <1>2, <1>3, <1>4, <1>5

\* The lists of a Cisco record are those its text says.
LEMMA CiscoRecord ==
  ASSUME NEW record, record.vendor = "cisco", record.dev \in ParseFile(record.vendor, record.text)
  PROVE  record.dev = CiscoDevice(record.text)
<1> DEFINE text == record.text
<1>1. ParseFile("cisco", text) = {CiscoDevice(text)}
  <2> DEFINE ios == {IosLikeDevice(text)}
             vlan == VlanCentricDevices("cisco", text)
             vrp == {VrpDevice(text)}
             junos == {JunosDevice(text)}
             set == VendorDevices("cisco", text)
             ros == RouterOSDevices(text)
             sros == {SROSDevice(text)}
             forti == FortiDevices(text)
             cisco == {CiscoDevice(text)}
  <2>1. ParseFile("cisco", text) =
          CASE "cisco" = "cisco"               -> cisco
            [] "cisco" \in IosLikeVendors      -> ios
            [] "cisco" \in VlanCentricVendors  -> vlan
            [] "cisco" \in VrpVendors          -> vrp
            [] "cisco" = "juniper"             -> junos
            [] "cisco" \in SetVendors          -> set
            [] "cisco" = "mikrotik-routeros"   -> ros
            [] "cisco" = "nokia-sros"          -> sros
            [] "cisco" = "fortinet-fortigate"  -> forti
    BY Zenon DEF ParseFile
  <2> HIDE DEF ios, vlan, vrp, junos, set, ros, sros, forti, cisco
  <2>2. ParseFile("cisco", text) = cisco
    BY <2>1 DEF IosLikeVendors, VlanCentricVendors, VrpVendors, SetVendors
  <2>3. QED
    BY <2>2 DEF cisco
<1>2. QED
  BY <1>1

\* The answers of "check" and "summary" are of these devices.
LEMMA CheckAnswers ==
  ASSUME AnswerInv, NetcInv, NEW p \in Procs, stage[p] = "done"
  PROVE  LET devices  == [n \in DOMAIN loaded[p] |-> loaded[p][n].dev]
             findings == CheckPolicy(devices, PolicyFromFlags(job(p).policy, job(p).flags))
         IN /\ job(p).cmd = "check" => answer[p] = Limited(findings, job(p).limit)
            /\ job(p).cmd = "summary" => answer[p] = FindingSummary(findings)
<1> DEFINE devices == [n \in DOMAIN loaded[p] |-> loaded[p][n].dev]
           findings == CheckPolicy(devices, PolicyFromFlags(job(p).policy, job(p).flags))
<1>1. job(p).cmd \in {"check", "summary"} => answer[p] \in Answers(job(p), loaded[p])
  BY DEF AnswerInv
<1>2. job(p).cmd = "check" => Answers(job(p), loaded[p]) = {Limited(findings, job(p).limit)}
  <2> HIDE DEF devices
  <2>1. QED
    BY DEF Answers, devices
<1>3. job(p).cmd = "summary" => Answers(job(p), loaded[p]) = {FindingSummary(findings)}
  <2> HIDE DEF devices
  <2>1. QED
    BY DEF Answers, devices
<1> HIDE DEF devices, findings
<1>4. QED
  BY <1>1, <1>2, <1>3 DEF devices, findings

-----------------------------------------------------------------------------
(***************************************************************************)
(* Every check tells what the configurations say.                          *)
(***************************************************************************)

\* No limit is asked for unless it is a flag.
LEMMA NotLimited ==
  ASSUME NEW results
  PROVE  Limited(results, 0) = results
BY DEF Limited

\* A "check" or a "summary" has a policy and flags, and devices.
LEMMA CheckTyped ==
  ASSUME AnswerInv, NetcInv, NEW p \in Procs, job(p).cmd \in {"check", "summary"}
  PROVE  LET devices == [n \in DOMAIN loaded[p] |-> loaded[p][n].dev] IN
         /\ IsPolicy(PolicyFromFlags(job(p).policy, job(p).flags))
         /\ IsList(devices)
         /\ \A d \in DOMAIN devices : IsList(devices[d].communities)
<1> DEFINE devices == [n \in DOMAIN loaded[p] |-> loaded[p][n].dev]
<1>1. PICK k \in DOMAIN Sessions : session \in Sessions[k]
  BY DEF AnswerInv
<1>2. IsPolicy(session.jobs[p].policy) /\ IsPolicy(session.jobs[p].flags)
  BY <1>1, SessionsAssumption DEF job
<1>3. IsPolicy(PolicyFromFlags(job(p).policy, job(p).flags))
  BY <1>2, PolicyOfFlags DEF job
<1>4. IsList(loaded[p])
  BY DEF NetcInv, NetcTypeOK
<1>5. IsList(devices) /\ DOMAIN devices = DOMAIN loaded[p]
  <2>1. devices = [n \in DOMAIN loaded[p] |-> devices[n]]
    OBVIOUS
  <2> HIDE DEF devices
  <2>2. QED
    BY <1>4, <2>1, ListMapped
<1>6. ASSUME NEW d \in DOMAIN loaded[p]
      PROVE  IsList(devices[d].communities)
  <2>1. IsRecord(loaded[p][d], session)
    BY DEF AnswerInv
  <2>2. IsDevice(loaded[p][d].dev)
    BY <2>1, RecordTyped
  <2>3. devices[d] = loaded[p][d].dev
    OBVIOUS
  <2> HIDE DEF devices
  <2>4. QED
    BY <2>2, <2>3 DEF IsDevice
<1> HIDE DEF devices
<1>7. QED
  BY <1>3, <1>5, <1>6 DEF devices

\* the summary
LEMMA SummaryAddsUp ==
  ASSUME AnswerInv, NetcInv, NEW p \in Procs, Printed(p, {"summary"}),
         NEW counts \in {answer[p].severity, answer[p].rule}
  PROVE  answer[p].findings = FoldFunction(+, 0, counts)
<1> DEFINE devices == [n \in DOMAIN loaded[p] |-> loaded[p][n].dev]
           findings == CheckPolicy(devices, PolicyFromFlags(job(p).policy, job(p).flags))
<1>1. stage[p] = "done" /\ job(p).cmd = "summary"
  BY DEF Printed
<1>2. answer[p] = FindingSummary(findings)
  BY <1>1, CheckAnswers
<1>3. IsList(findings)
  <2> DEFINE policy == PolicyFromFlags(job(p).policy, job(p).flags)
  <2>1. IsPolicy(policy) /\ IsList(devices) /\ \A d \in DOMAIN devices : IsList(devices[d].communities)
    BY <1>1, CheckTyped
  <2> HIDE DEF devices, policy
  <2>2. QED
    BY <2>1, PolicyChecked DEF policy
<1> HIDE DEF findings
<1>4. /\ answer[p].findings = Len(findings)
      /\ answer[p].severity = CountBy(findings, "severity")
      /\ answer[p].rule = CountBy(findings, "rule")
  BY <1>2 DEF FindingSummary
<1>5. /\ FoldFunction(+, 0, CountBy(findings, "severity")) = Len(findings)
      /\ FoldFunction(+, 0, CountBy(findings, "rule")) = Len(findings)
  BY <1>3, CountsAddUp
<1>6. CASE counts = CountBy(findings, "severity")
  BY <1>4, <1>5, <1>6, Zenon
<1>7. CASE counts = CountBy(findings, "rule")
  BY <1>4, <1>5, <1>7, Zenon
<1>8. QED
  BY <1>4, <1>6, <1>7, Zenon

\* the check of one Cisco configuration, as its parser has read the lines
LEMMA CheckTellsGiven ==
  ASSUME AnswerInv, NetcInv, NEW p \in Procs, Printed(p, {"check"}),
         [n \in DOMAIN loaded[p] |-> loaded[p][n].vendor] = <<"cisco">>
  PROVE  LET text   == loaded[p][1].text
             policy == PolicyFromFlags(job(p).policy, job(p).flags)
         IN /\ Warned(answer[p], "ntp") = ToSet(policy.ntp) \ ServersGiven(text, "ntp server")
            /\ Warned(answer[p], "syslog") = ToSet(policy.syslog) \ ServersGiven(text, "logging host")
            /\ CriticalLines(answer[p]) = GivenLines(text, ToSet(policy.snmp))
            /\ IsList(text) /\ \A i \in DOMAIN text : IsList(text[i].args)
<1> DEFINE record  == loaded[p][1]
           text    == record.text
           dev     == record.dev
           policy  == PolicyFromFlags(job(p).policy, job(p).flags)
           devices == [n \in DOMAIN loaded[p] |-> loaded[p][n].dev]
           vendors == [n \in DOMAIN loaded[p] |-> loaded[p][n].vendor]
<1>1. stage[p] = "done" /\ job(p).cmd = "check" /\ job(p).limit = 0
  BY DEF Printed
<1>2. DOMAIN loaded[p] = 1..1 /\ record.vendor = "cisco"
  <2>1. vendors = <<"cisco">>
    OBVIOUS
  <2>2. DOMAIN vendors = 1..1 /\ vendors[1] = "cisco"
    <3> HIDE DEF vendors
    <3>1. QED
      BY <2>1
  <2>3. DOMAIN vendors = DOMAIN loaded[p]
    OBVIOUS
  <2>4. 1 \in DOMAIN loaded[p]
    BY <2>2, <2>3
  <2>5. vendors[1] = record.vendor
    BY <2>4
  <2>6. QED
    BY <2>2, <2>3, <2>5
<1>3. IsRecord(record, session)
  BY <1>2 DEF AnswerInv
<1>4. IsConfig(text) /\ IsDevice(dev)
  BY <1>1, <1>3, RecordTyped
<1>5. dev = CiscoDevice(text)
  BY <1>2, <1>3, CiscoRecord DEF IsRecord
<1>6. /\ IsList(text)
      /\ \A i \in DOMAIN text : IsList(text[i].args)
  BY <1>4 DEF IsConfig
<1>7. /\ IsList(devices) /\ \A d \in DOMAIN devices : IsList(devices[d].communities)
      /\ IsPolicy(policy)
  BY <1>1, CheckTyped
<1>8. Len(devices) = 1 /\ devices[1] = dev
  <2>1. DOMAIN devices = 1..1 /\ devices[1] = dev
    BY <1>2
  <2>2. Len(devices) \in Nat /\ DOMAIN devices = 1 .. Len(devices)
    BY <1>7, ListLength
  <2> HIDE DEF devices
  <2>3. 1 \in 1 .. Len(devices) /\ (Len(devices) \in 1 .. Len(devices) => Len(devices) \in 1..1)
    BY <2>1, <2>2
  <2>4. QED
    BY <2>1, <2>2, <2>3
<1>9. answer[p] = CheckPolicy(devices, policy)
  <2>1. answer[p] = Limited(CheckPolicy(devices, policy), job(p).limit)
    BY <1>1, CheckAnswers
  <2> HIDE DEF devices, policy
  <2>2. QED
    BY <1>1, <2>1, NotLimited
<1> HIDE DEF record, devices, vendors
<1>10. AreFindings(answer[p], dev, policy)
  <2> HIDE DEF policy, dev
  <2>1. ToSet(answer[p]) = ToSet(Checked(devices[1], policy))
    BY <1>7, <1>8, <1>9, PolicyChecked
  <2>2. IsList(dev.communities)
    BY <1>4 DEF IsDevice
  <2>3. QED
    BY <1>7, <1>8, <2>1, <2>2, CheckedMembers DEF AreFindings
<1> HIDE DEF text, dev, policy
<1>11. /\ Warned(answer[p], "ntp") = ToSet(policy.ntp) \ Values(dev.ntp)
       /\ Warned(answer[p], "syslog") = ToSet(policy.syslog) \ Values(dev.syslog)
       /\ CriticalLines(answer[p]) = GivenBy(dev.communities, ToSet(policy.snmp))
  BY <1>10, FindingsOfOne
<1>12. /\ ToSet(dev.ntp) = ServersTo(text, Len(text), "ntp server")
       /\ ToSet(dev.syslog) = ServersTo(text, Len(text), "logging host")
       /\ ToSet(dev.communities) = CommunitiesTo(text, Len(text))
  BY <1>5, <1>6, CiscoTells
<1>13. Values(dev.ntp) = ServersGiven(text, "ntp server")
  BY <1>6, <1>12, CiscoServers
<1>14. Values(dev.syslog) = ServersGiven(text, "logging host")
  BY <1>6, <1>12, CiscoServers
<1>15. GivenBy(dev.communities, ToSet(policy.snmp)) = GivenLines(text, ToSet(policy.snmp))
  BY <1>6, <1>12, CiscoCommunities
<1>16. QED
  BY <1>6, <1>11, <1>13, <1>14, <1>15 DEF text, record, policy

\* The parser takes the community of a plain line for what it is.
LEMMA PlainGiven ==
  ASSUME NEW ln, IsList(ln.args), PlainSNMP(ln)
  PROVE  GivenOn(ln) = CommunityOn(ln)
<1> DEFINE args == ln.args
           n == PastKind(args)
           version == {m \in 3 .. Len(args) - 1 : args[m] = "version"}
           given == CASE Len(args) > 1 /\ args[1] = "community" -> args[2]
                      [] Len(args) > 2 /\ args[1] = "host" -> IF version = {} THEN args[3] ELSE Field(args, Min(version) + 2)
                      [] OTHER -> None
           place == IF Field(args, n) = "version" THEN PastWord(args, n + 2, Levels, 1) ELSE n
           said == CASE Field(args, 1) = "community" -> Field(args, 2)
                     [] Field(args, 1) = "host" -> Field(args, place)
                     [] OTHER -> None
<1>1. Len(args) \in Nat /\ DOMAIN args = 1 .. Len(args)
  BY ListLength
<1>2. CASE ln.word # "snmp-server"
  <2>1. GivenOn(ln) = None
    BY <1>2, NoCommunity
  <2>2. CommunityOn(ln) = CASE Field(<< >>, 1) = "community" -> Field(<< >>, 2)
                            [] Field(<< >>, 1) = "host" -> Field(<< >>, IF Field(<< >>, PastKind(<< >>)) = "version"
                                                                      THEN PastWord(<< >>, PastKind(<< >>) + 2, Levels, 1)
                                                                      ELSE PastKind(<< >>))
                            [] OTHER -> None
    BY <1>2 DEF CommunityOn
  <2>3. Field(<< >>, 1) = None
    BY DEF Field
  <2>4. CommunityOn(ln) = None
    BY <2>2, <2>3 DEF None
  <2>5. QED
    BY <2>1, <2>4
<1>3. CASE ln.word = "snmp-server"
  <2>1. GivenOn(ln) = given
    BY <1>3 DEF GivenOn
  <2>2. CommunityOn(ln) = said
    BY <1>3 DEF CommunityOn
  <2>3. /\ Field(args, 1) = IF Len(args) > 0 THEN args[1] ELSE None
        /\ Field(args, 2) = IF Len(args) > 1 THEN args[2] ELSE None
        /\ Field(args, 3) = IF Len(args) > 2 THEN args[3] ELSE None
    BY <1>1 DEF Field
  <2>4. ~("community" = "host") /\ None # "community" /\ None # "host" /\ None # "version"
    BY DEF None
  <2>5. n \in Nat /\ n >= 3
    BY DEF PastKind, PastWord
  <2>6. Field(args, 1) = "host" =>
          /\ \A m \in 3 .. n - 1 : args[m] # "version"
          /\ IF Field(args, n) = "version" THEN n < Len(args) /\ Field(args, n + 2) \notin Levels
             ELSE n = 3 /\ \A m \in DOMAIN args : m > 2 => args[m] # "version"
    BY <1>3 DEF PlainSNMP
  <2> HIDE DEF args, n
  <2>7. CASE Field(args, 1) = "community"
    <3>1. Len(args) > 0 /\ args[1] = "community"
      BY <2>3, <2>4, <2>7
    <3>2. said = Field(args, 2)
      BY <2>7
    <3>3. given = Field(args, 2)
      BY <1>1, <2>3, <2>4, <3>1
    <3>4. QED
      BY <2>1, <2>2, <3>2, <3>3
  <2>8. CASE Field(args, 1) = "host"
    <3>1. Len(args) > 0 /\ args[1] = "host"
      BY <2>3, <2>4, <2>8
    <3>2. said = Field(args, place)
      BY <2>4, <2>8
    <3>3. CASE Field(args, n) = "version"
      <4>1. n < Len(args) /\ Field(args, n + 2) \notin Levels /\ \A m \in 3 .. n - 1 : args[m] # "version"
        BY <2>6, <2>8, <3>3
      <4>2. args[n] = "version"
        BY <1>1, <2>4, <2>5, <3>3, <4>1 DEF Field
      <4>3. n \in version /\ \A m \in version : n <= m
        BY <1>1, <2>5, <4>1, <4>2
      <4>4. Min(version) = n
        <5>1. Min(version) \in version /\ \A m \in version : Min(version) <= m
          BY <4>3 DEF Min
        <5>2. \A m \in version : m \in Nat
          BY <1>1
        <5>3. Min(version) \in Nat /\ Min(version) <= n /\ n <= Min(version)
          BY <2>5, <4>3, <5>1, <5>2
        <5> HIDE DEF version
        <5>4. QED
          BY <2>5, <5>3
      <4>5. given = Field(args, n + 2)
        <5>1. version # {} /\ Len(args) > 2
          BY <1>1, <2>5, <4>1, <4>3
        <5> HIDE DEF version
        <5>2. QED
          BY <2>4, <3>1, <4>4, <5>1
      <4>6. place = n + 2
        BY <3>3, <4>1 DEF PastWord
      <4>7. QED
        BY <2>1, <2>2, <3>2, <4>5, <4>6
    <3>4. CASE Field(args, n) # "version"
      <4>1. n = 3 /\ \A m \in DOMAIN args : m > 2 => args[m] # "version"
        BY <2>6, <2>8, <3>4
      <4>2. version = {}
        BY <1>1, <4>1
      <4>3. given = Field(args, 3)
        <5> HIDE DEF version
        <5>1. QED
          BY <1>1, <2>3, <2>4, <3>1, <4>2
      <4>4. place = 3
        BY <3>4, <4>1
      <4>5. QED
        BY <2>1, <2>2, <3>2, <4>3, <4>4
    <3>5. QED
      BY <3>3, <3>4
  <2>9. CASE Field(args, 1) # "community" /\ Field(args, 1) # "host"
    <3>1. said = None
      BY <2>9
    <3>2. given = None
      <4> HIDE DEF version
      <4>1. QED
        BY <1>1, <2>3, <2>4, <2>9
    <3>3. QED
      BY <2>1, <2>2, <3>1, <3>2
  <2>10. QED
    BY <2>7, <2>8, <2>9
<1>4. QED
  BY <1>2, <1>3

\* the check of one Cisco configuration, as its lines say
LEMMA CheckTellsText ==
  ASSUME AnswerInv, NetcInv, NEW p \in Procs, Printed(p, {"check"}),
         [n \in DOMAIN loaded[p] |-> loaded[p][n].vendor] = <<"cisco">>
  PROVE  LET text   == loaded[p][1].text
             policy == PolicyFromFlags(job(p).policy, job(p).flags)
             critical == CriticalLines(answer[p])
             WarnsOfAbsent(rule, word) ==
               (\A ln \in LinesOf(text, word) : ServerAlone(ln)) =>
                 Warned(answer[p], rule) = ToSet(policy[rule]) \ ServersSaid(text, word)
         IN /\ WarnsOfAbsent("ntp", "ntp server")
            /\ WarnsOfAbsent("syslog", "logging host")
            /\ critical \subseteq {<<i>> : i \in Outside(text)}
            /\ \A i \in Outside(text) : PlainSNMP(text[i]) =>
                 (<<i>> \in critical <=> CommunityOn(text[i]) \in ToSet(policy.snmp) \ {None})
<1> DEFINE text     == loaded[p][1].text
           policy   == PolicyFromFlags(job(p).policy, job(p).flags)
           critical == CriticalLines(answer[p])
<1>1. /\ Warned(answer[p], "ntp") = ToSet(policy.ntp) \ ServersGiven(text, "ntp server")
      /\ Warned(answer[p], "syslog") = ToSet(policy.syslog) \ ServersGiven(text, "logging host")
      /\ critical = GivenLines(text, ToSet(policy.snmp))
      /\ IsList(text) /\ \A i \in DOMAIN text : IsList(text[i].args)
  BY CheckTellsGiven
<1> HIDE DEF text, policy, critical
<1>2. ASSUME NEW word, \A ln \in LinesOf(text, word) : ServerAlone(ln)
      PROVE  ServersGiven(text, word) = ServersSaid(text, word)
  <2> DEFINE at == {i \in Outside(text) : text[i].word = word}
  <2>1. \A i \in at : Rest(text[i]) = text[i].args[1]
    BY <1>2 DEF LinesOf, ServerAlone, Rest
  <2>2. ServersSaid(text, word) = {text[i].args[1] : i \in at}
    BY DEF ServersSaid, LinesOf
  <2>3. ServersGiven(text, word) = {Rest(text[i]) : i \in at}
    BY DEF ServersGiven
  <2> HIDE DEF at
  <2>4. QED
    BY <2>1, <2>2, <2>3
<1>3. /\ policy["ntp"] = policy.ntp /\ policy["syslog"] = policy.syslog
  OBVIOUS
<1>4. critical \subseteq {<<i>> : i \in Outside(text)}
  BY <1>1 DEF GivenLines
<1>5. ASSUME NEW i \in Outside(text), PlainSNMP(text[i])
      PROVE  <<i>> \in critical <=> CommunityOn(text[i]) \in ToSet(policy.snmp) \ {None}
  <2>1. i \in DOMAIN text
    BY DEF Outside
  <2>2. GivenOn(text[i]) = CommunityOn(text[i])
    BY <1>1, <1>5, <2>1, PlainGiven
  <2>3. \A j : <<j>> = <<i>> => j = i
    OBVIOUS
  <2>4. <<i>> \in critical <=> GivenOn(text[i]) \in ToSet(policy.snmp) \ {None}
    BY <1>1, <2>3 DEF GivenLines
  <2>5. QED
    BY <2>2, <2>4
<1>6. QED
  BY <1>1, <1>2, <1>3, <1>4, <1>5 DEF text, policy, critical

\* The invariants imply that the findings are exact.
LEMMA FindingsTold == NetcInv /\ AnswerInv => FindingsExact
BY CheckTellsText, SummaryAddsUp DEF FindingsExact

\* Whatever configurations, records and policy "check" and "summary" are given: of a device of one Cisco text,
\* the warnings are the servers required that no line outside its blocks names, where these lines have no
\* options; the criticals are at lines outside its blocks, and where SNMP hosts are written plainly they are
\* those that grant a forbidden community; and the counts of a summary add up to its findings
\* (compliance.go:29-95, summary.go, cisco.go:50-105, 279-351).
THEOREM FindingsAlwaysExact == OfflineSpec => []FindingsExact
<1>1. OfflineInit => NetcInv /\ AnswerInv
  BY InitInv, AnswerInit
<1>2. NetcInv /\ AnswerInv /\ [OfflineNext]_OfflineVars => (NetcInv /\ AnswerInv)'
  BY StepInv, AnswerStep
<1>3. NetcInv /\ AnswerInv => FindingsExact
  BY FindingsTold
<1>4. QED
  BY <1>1, <1>2, <1>3, PTL DEF OfflineSpec

=============================================================================
