--------------------------------- MODULE Netc ---------------------------------
(***************************************************************************)
(* The offline commands of cmd/netc: they parse configuration files, or    *)
(* read the inventory an "ingest" wrote, and answer. Processes run side by *)
(* side on the same files, and any of them may die between two writes.     *)
(***************************************************************************)
EXTENDS Registry, Analyses, Query

CONSTANT Procs   \* the processes, each running one command

VARIABLES
  session,    \* what does not change meanwhile: [files, jobs], the content of each path as
              \* [hint, text], and the command of each process:
              \* [cmd, vendor, inputs, question, policy, flags, limit]
  stage,      \* how far each process is
  todo,       \* the paths it has still to parse
  loaded,     \* the devices it has: [dev, text, vendor], the text standing for the raw blocks
  inventory,  \* the inventory file: [there, cells]
  handle,     \* of each process, the offset it has come to there, the cell it writes next, and
              \* the cells of the line it reads: [at, next, line]
  authors,    \* history: the processes whose records the inventory may hold
  source,     \* history: those of what each process reads, or that emptied it meanwhile
  answer      \* what it printed

netcVars == <<session, stage, todo, loaded, inventory, handle, authors, source, answer>>
storeVars == <<inventory, handle, authors, source>>

\* "garbled" goes on with a device that nobody wrote, and its answer says nothing more
Stages == {"start", "parse", "read", "scan", "open", "write", "answer", "done", "failed", "garbled", "dead"}

NoFile == [there |-> FALSE, cells |-> << >>]
Unsaid == "nothing"

\* the path of the inventory, and a directory that holds every file, the inventory too
Inventory == 0
Directory == -1

job(p) == session.jobs[p]

\* expandInput: the files of a path that are there; a JSONL path stands for itself
Expanded(input) ==
  IF input = Directory
  THEN (IF inventory.there THEN <<Inventory>> ELSE << >>) \o Lines(1, Len(session.files))
  ELSE <<input>>

\* "parse" and "diff" take their paths as they are, and a file stands for itself
Inputs(p) ==
  IF job(p).cmd \in {"parse", "diff"} \/ Directory \notin ToSet(job(p).inputs) THEN job(p).inputs
  ELSE FlattenSeq([n \in DOMAIN job(p).inputs |-> Expanded(job(p).inputs[n])])

Become(p, to) == stage' = [stage EXCEPT ![p] = to]

\* the commands begin with their inputs; one lone inventory is read, except by those that
\* parse whatever they are given
Begin(p) ==
  /\ stage[p] = "start"
  /\ Become(p, IF Inputs(p) = <<Inventory>> /\ job(p).cmd \notin {"ingest", "parse", "diff"} THEN "read"
               ELSE IF Inputs(p) = << >> THEN "failed" ELSE "parse")
  /\ todo' = [todo EXCEPT ![p] = Inputs(p)]
  /\ UNCHANGED <<session, loaded, storeVars, answer>>

\* a file as a parser sees it: no parser knows a line of the inventory
File(path) ==
  IF path = Inventory THEN [hint |-> None, text |-> << >>] ELSE session.files[path]

IsThere(path) == IF path = Inventory THEN inventory.there ELSE path \in DOMAIN session.files

\* parseFiles, one file: a parser that panics takes the process with it
ParseNext(p) ==
  /\ stage[p] = "parse" /\ todo[p] # << >>
  /\ LET file   == File(Head(todo[p]))
         vendor == Selected(job(p).vendor, file)
         isRead == IsThere(Head(todo[p])) /\ vendor \in Vendors
     IN \/ /\ isRead
           /\ \E dev \in ParseFile(vendor, file.text) :
                loaded' = [loaded EXCEPT ![p] = Append(@, [dev |-> dev, text |-> file.text, vendor |-> vendor])]
           /\ todo' = [todo EXCEPT ![p] = Tail(@)]
           /\ UNCHANGED stage
        \/ /\ isRead /\ ParseFile(vendor, file.text) = {}
           /\ Become(p, "dead")
           /\ UNCHANGED <<loaded, todo>>
        \/ /\ ~isRead
           /\ Become(p, "failed")
           /\ UNCHANGED <<loaded, todo>>
  /\ UNCHANGED <<session, storeVars, answer>>

AllParsed(p) ==
  /\ stage[p] = "parse" /\ todo[p] = << >>
  /\ Become(p, IF job(p).cmd = "ingest" THEN "open" ELSE "answer")
  /\ UNCHANGED <<session, todo, loaded, storeVars, answer>>

-----------------------------------------------------------------------------
\* The inventory is read and written byte by byte: a cell of it is a part of a record, the last
\* part of which is the newline. The longer the record the wider it is.
Cell(q, nth, part) == [by |-> q, nth |-> nth, part |-> part]

\* the zeros a file has where nothing was written
Hole(p) == Cell(p, 0, 0)

Parts(cell) == 2 + Len(loaded[cell.by][cell.nth].text)

IsNewline(cell) == cell.nth # 0 /\ cell.part = Parts(cell)

\* the cell a writer goes on with
Following(cell) ==
  IF cell.part = Parts(cell) THEN Cell(cell.by, cell.nth + 1, 1) ELSE Cell(cell.by, cell.nth, cell.part + 1)

\* write at an offset, over what is there, or beyond the end
Stored(cells, at, cell) ==
  [m \in 1 .. (IF at < Len(cells) THEN Len(cells) ELSE at + 1) |->
     IF m = at + 1 THEN cell ELSE IF m <= Len(cells) THEN cells[m] ELSE Hole(cell.by)]

Handle(at, next, line) == [at |-> at, next |-> next, line |-> line]

\* Mutant of Created: the file is opened without truncating it
CreatedAppend(file) == [file EXCEPT !.there = TRUE]

\* os.Create
Created(file) == [there |-> TRUE, cells |-> << >>]

\* WriteRecordsJSONL takes no lock: it empties the inventory whoever reads or writes it, and
\* each writer goes on from its own offset.
OpenInventory(p) ==
  /\ stage[p] = "open"
  /\ Become(p, "write")
  /\ inventory' = Created(inventory)
  /\ handle' = [handle EXCEPT ![p] = Handle(0, Cell(p, 1, 1), << >>)]
  /\ authors' = {p} \cup {q \in Procs : stage[q] = "write"}
  /\ source' = [q \in Procs |-> IF stage[q] = "scan" THEN source[q] \cup {p} ELSE source[q]]
  /\ UNCHANGED <<session, todo, loaded, answer>>

WriteCell(p) ==
  /\ stage[p] = "write" /\ handle[p].next.nth <= Len(loaded[p])
  /\ inventory' = [there |-> TRUE, cells |-> Stored(inventory.cells, handle[p].at, handle[p].next)]
  /\ handle' = [handle EXCEPT ![p] = Handle(handle[p].at + 1, Following(handle[p].next), << >>)]
  /\ UNCHANGED <<session, stage, todo, loaded, authors, source, answer>>

\* a write that fails leaves what it had written
WriteFails(p) ==
  /\ stage[p] = "write" /\ handle[p].next.nth <= Len(loaded[p])
  /\ Become(p, "failed")
  /\ UNCHANGED <<session, todo, loaded, inventory, handle, authors, source, answer>>

\* ingestCmd and collectIngestCmd tell what they wrote
Written(p) ==
  /\ stage[p] = "write" /\ handle[p].next.nth > Len(loaded[p])
  /\ Become(p, "done")
  /\ answer' = [answer EXCEPT ![p] = InventorySummary([n \in DOMAIN loaded[p] |-> loaded[p][n].dev])]
  /\ UNCHANGED <<session, todo, loaded, inventory, handle, authors, source>>

Crash(p) ==
  /\ stage[p] \in {"open", "write"}
  /\ Become(p, "dead")
  /\ UNCHANGED <<session, todo, loaded, inventory, handle, authors, source, answer>>

\* ReadRecordsJSONL, of the inventory
OpenForReading(p) ==
  /\ stage[p] = "read"
  /\ Become(p, IF inventory.there THEN "scan" ELSE "failed")
  /\ handle' = [handle EXCEPT ![p] = Handle(0, Cell(p, 1, 1), << >>)]
  /\ source' = [source EXCEPT ![p] = authors]
  /\ UNCHANGED <<session, todo, loaded, inventory, authors, answer>>

\* a line begins as one record does, and it is all of it
OfOne(line)   == \A m \in DOMAIN line : line[m] = Cell(line[1].by, line[1].nth, m)
IsWhole(line) == line # << >> /\ OfOne(line) /\ line[1].nth # 0 /\ Len(line) + 1 = Parts(line[1])

\* A line of the parts of several may be JSON all the same, of a device nobody wrote.
IsMixed(line) == ~OfOne(line) /\ \A m \in DOMAIN line : line[m].nth # 0

\* json.Unmarshal of a line: the record, or an error, or something else
Decode(p, line, to) ==
  \/ /\ IsWhole(line)
     /\ loaded' = [loaded EXCEPT ![p] = Append(@, loaded[line[1].by][line[1].nth])]
     /\ Become(p, to)
  \/ /\ ~IsWhole(line) /\ Become(p, "failed")
     /\ UNCHANGED loaded
  \/ /\ IsMixed(line) /\ Become(p, "garbled")
     /\ UNCHANGED loaded

ReadCell(p) ==
  LET cell == inventory.cells[handle[p].at + 1] IN
  /\ stage[p] = "scan" /\ handle[p].at < Len(inventory.cells)
  /\ IF IsNewline(cell)
     THEN Decode(p, handle[p].line, "scan")
     ELSE UNCHANGED <<stage, loaded>>
  /\ handle' = [handle EXCEPT ![p] =
       Handle(handle[p].at + 1, handle[p].next, IF IsNewline(cell) THEN << >> ELSE Append(handle[p].line, cell))]
  /\ UNCHANGED <<session, todo, inventory, authors, source, answer>>

\* the end of the file, as it is then; what follows the last newline is a line too
ReadEnd(p) ==
  /\ stage[p] = "scan" /\ handle[p].at >= Len(inventory.cells)
  /\ IF handle[p].line = << >>
     THEN Become(p, "answer") /\ UNCHANGED loaded
     ELSE Decode(p, handle[p].line, "answer")
  /\ UNCHANGED <<session, todo, inventory, handle, authors, source, answer>>

-----------------------------------------------------------------------------
Limited(results, limit) == IF limit > 0 /\ Len(results) > limit THEN SubSeq(results, 1, limit) ELSE results

\* what a command may answer, of the devices it has
Answers(j, inv) ==
  LET devices == [n \in DOMAIN inv |-> inv[n].dev] IN
  CASE j.cmd = "parse"     -> {devices[1]}
    [] j.cmd = "inventory" -> {InventorySummary(devices)}
    [] j.cmd = "diff"      -> DiffDevices(devices[1], devices[2])
    [] j.cmd = "check"     -> {Limited(CheckPolicy(devices, PolicyFromFlags(j.policy, j.flags)), j.limit)}
    [] j.cmd = "summary"   -> {FindingSummary(CheckPolicy(devices, PolicyFromFlags(j.policy, j.flags)))}
    [] j.cmd = "query"     -> {Limited(RunQuery(inv, ParseQuery(j.question)), j.limit)}

Answer(p) ==
  /\ stage[p] = "answer"
  /\ IF job(p).cmd = "query" /\ ParseQuery(job(p).question) = NotUnderstood
     THEN Become(p, "failed") /\ UNCHANGED answer
     ELSE /\ Become(p, "done")
          /\ \E printed \in Answers(job(p), loaded[p]) : answer' = [answer EXCEPT ![p] = printed]
  /\ UNCHANGED <<session, todo, loaded, storeVars>>

-----------------------------------------------------------------------------
NetcInit(sessions) ==
  /\ session \in sessions
  /\ stage = [p \in Procs |-> IF job(p).cmd = "none" THEN "done" ELSE "start"]
  /\ todo = [p \in Procs |-> << >>]
  /\ loaded = [p \in Procs |-> << >>]
  /\ inventory = NoFile
  /\ handle = [p \in Procs |-> Handle(0, Cell(p, 1, 1), << >>)]
  /\ authors = {}
  /\ source = [p \in Procs |-> {}]
  /\ answer = [p \in Procs |-> Unsaid]

NetcNext ==
  \E p \in Procs :
    \/ Begin(p) \/ ParseNext(p) \/ AllParsed(p)
    \/ OpenInventory(p) \/ WriteCell(p) \/ WriteFails(p) \/ Written(p) \/ Crash(p)
    \/ OpenForReading(p) \/ ReadCell(p) \/ ReadEnd(p) \/ Answer(p)
=============================================================================
