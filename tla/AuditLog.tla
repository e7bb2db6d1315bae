------------------------------ MODULE AuditLog ------------------------------
(***************************************************************************)
(* The audit log of the diagnostics service (internal/diag/audit.go).      *)
(*                                                                         *)
(* AuditLog.Append draws the entry's identifier from an atomic counter and *)
(* then executes  a.entries = append(a.entries, entry)  with no lock. The  *)
(* slice is three words (pointer, length, capacity) in front of a backing  *)
(* array, and handlers run concurrently on one log, so the append is the   *)
(* sequence of memory steps the Go compiler emits for it:                  *)
(*   Load   read the slice header;                                         *)
(*   Grow   when the array is full: copy it to one of twice the capacity   *)
(*          and store the new pointer and capacity;                        *)
(*   Store  store the new length;                                          *)
(*   Fill   write one part of the element, which is many words long: an    *)
(*          append writes them one after the other, in an order that is    *)
(*          the compiler's, and another append may write between two.      *)
(* A part is the identifier or one field of the rest. Left out are loads   *)
(* and stores that tear a header or a single field, and writes that reach  *)
(* an array while Grow copies it: every outcome of the model is one of the *)
(* program, and the program has more.                                      *)
(***************************************************************************)
EXTENDS Naturals, Sequences

CONSTANTS
  Writers,      \* the goroutines that append
  Fields,       \* the fields of an entry besides its identifier
  Payloads,     \* what they record: functions on Fields
  MaxAppends    \* bound: appends started over the whole run

ASSUME MaxAppendsAssumption == MaxAppends \in Nat

ASSUME FieldsAssumption ==
  /\ "id" \notin Fields
  /\ Payloads \subseteq [Fields -> UNION {{p[f] : f \in Fields} : p \in Payloads}]

VARIABLES
  seq,        \* AuditLog.seq, the atomic counter
  slice,      \* AuditLog.entries: the header [ptr, len, cap]
  heap,       \* the backing arrays ever allocated; slice.ptr = 0 is a nil slice
  step,       \* step[w]: the next memory step of w's append, "idle" outside
  local,      \* local[w]: the header w read
  entry,      \* entry[w]: the entry w is appending
  unwritten,  \* unwritten[w]: the parts of it that are not in the slot yet
  contended,  \* contended[w]: another append overlapped w's (history)
  appended    \* entries whose Append returned, with their contention (history)

auditVars == <<seq, slice, heap, step, local, entry, unwritten,
               contended, appended>>

Header == [ptr : Nat, len : Nat, cap : Nat]
Nil    == [ptr |-> 0, len |-> 0, cap |-> 0]
Words  == UNION {{p[f] : f \in Fields} : p \in Payloads}
Parts  == {"id"} \cup Fields
Entry  == [id : Nat, payload : Payloads]
Slot   == [id : Nat, payload : [Fields -> Words \cup {""}]]
Blank  == [id |-> 0, payload |-> [f \in Fields |-> ""]]  \* the zero AuditEntry
Steps  == {"idle", "load", "grow", "store", "fill"}

InAppend(w) == step[w] \notin {"idle", "load"}

AuditInit ==
  /\ seq = 0
  /\ slice = Nil
  /\ heap = << >>
  /\ step = [w \in Writers |-> "idle"]
  /\ local = [w \in Writers |-> Nil]
  /\ entry = [w \in Writers |-> Blank]
  /\ unwritten = [w \in Writers |-> {}]
  /\ contended = [w \in Writers |-> FALSE]
  /\ appended = {}

\* Mutants of NewAuditID: the entry is not filled in, the identifier is the
\* length of the log, the counter's old value is used.
NewAuditIDUnset(w, payload) ==
  /\ step[w] = "idle"
  /\ seq < MaxAppends
  /\ seq' = seq + 1
  /\ step' = [step EXCEPT ![w] = "load"]
  /\ UNCHANGED <<slice, heap, local, entry, unwritten, contended, appended>>

NewAuditIDOfLength(w, payload) ==
  /\ step[w] = "idle"
  /\ seq < MaxAppends
  /\ seq' = seq + 1
  /\ entry' = [entry EXCEPT ![w] = [id |-> slice.len + 1, payload |-> payload]]
  /\ step' = [step EXCEPT ![w] = "load"]
  /\ UNCHANGED <<slice, heap, local, unwritten, contended, appended>>

\* newAuditID: atomic.AddUint64. Identifiers differ in the counter's value;
\* the random suffix adds nothing to that.
NewAuditID(w, payload) ==
  /\ step[w] = "idle"
  /\ seq < MaxAppends
  /\ seq' = seq + 1
  /\ entry' = [entry EXCEPT ![w] = [id |-> seq + 1, payload |-> payload]]
  /\ step' = [step EXCEPT ![w] = "load"]
  /\ UNCHANGED <<slice, heap, local, unwritten, contended, appended>>

\* Mutant of Full: off by one
FullLate(header) == header.len > header.cap

\* Two appends may leave a length beyond the capacity, hence >= .
Full(header) == header.len >= header.cap

Load(w) ==
  /\ step[w] = "load"
  /\ local' = [local EXCEPT ![w] = slice]
  /\ step' = [step EXCEPT ![w] = IF Full(slice) THEN "grow" ELSE "store"]
  /\ contended' = LET others == {v \in Writers : InAppend(v)}
                  IN  [v \in Writers |-> IF v = w THEN others # {}
                                                  ELSE contended[v] \/ v \in others]
  /\ UNCHANGED <<seq, slice, heap, entry, unwritten, appended>>

\* growslice for so short a slice: twice the capacity, or what is needed
NewCap(header) == IF header.len + 1 > 2 * header.cap THEN header.len + 1
                                                     ELSE 2 * header.cap

\* Slot i of the array a header names. A slot beyond the array (the words of
\* the header come from two appends) reads as blank.
SlotAt(header, i) ==
  IF header.ptr # 0 /\ i <= Len(heap[header.ptr]) THEN heap[header.ptr][i]
                                                  ELSE Blank

Grow(w) ==
  /\ step[w] = "grow"
  /\ LET cap  == NewCap(local[w])
         copy == [i \in 1..cap |->
                    IF i <= local[w].len THEN SlotAt(local[w], i) ELSE Blank]
     IN  /\ heap' = Append(heap, copy)
         /\ local' = [local EXCEPT ![w] = [ptr |-> Len(heap) + 1,
                                           len |-> local[w].len, cap |-> cap]]
         /\ slice' = [ptr |-> Len(heap) + 1, len |-> slice.len, cap |-> cap]
  /\ step' = [step EXCEPT ![w] = "store"]
  /\ UNCHANGED <<seq, entry, unwritten, contended, appended>>

Store(w) ==
  /\ step[w] = "store"
  /\ slice' = [ptr |-> slice.ptr, len |-> local[w].len + 1, cap |-> slice.cap]
  /\ step' = [step EXCEPT ![w] = "fill"]
  /\ unwritten' = [unwritten EXCEPT ![w] = Parts]
  /\ UNCHANGED <<seq, heap, local, entry, contended, appended>>

\* A slot with part p of entry e written over it
Stored(slot, p, e) ==
  IF p = "id" THEN [id |-> e.id, payload |-> slot.payload]
              ELSE [id |-> slot.id, payload |-> [slot.payload EXCEPT ![p] = e.payload[p]]]

\* The element is written in the array the writer holds, which need not be the
\* one slice.ptr names by then.
Fill(w) ==
  /\ step[w] = "fill"
  /\ \E p \in unwritten[w] :
       /\ unwritten' = [unwritten EXCEPT ![w] = @ \ {p}]
       /\ heap' = [heap EXCEPT ![local[w].ptr][local[w].len + 1] =
                                  Stored(@, p, entry[w])]
  /\ UNCHANGED <<seq, slice, step, local, entry, contended, appended>>

\* Append returns the identifier; its frame is gone.
Return(w) ==
  /\ step[w] = "fill"
  /\ unwritten[w] = {}
  /\ appended' = appended \cup {[entry |-> entry[w], contended |-> contended[w]]}
  /\ step' = [step EXCEPT ![w] = "idle"]
  /\ local' = [local EXCEPT ![w] = Nil]
  /\ entry' = [entry EXCEPT ![w] = Blank]
  /\ contended' = [contended EXCEPT ![w] = FALSE]
  /\ UNCHANGED <<seq, slice, heap, unwritten>>

AppendStep(w) == Load(w) \/ Grow(w) \/ Store(w) \/ Fill(w) \/ Return(w)

AuditNext ==
  \/ \E w \in Writers, p \in Payloads : NewAuditID(w, p)
  \/ \E w \in Writers : AppendStep(w)

AuditSpec == AuditInit /\ [][AuditNext]_auditVars

-----------------------------------------------------------------------------
\* Mutant of Entries: newest first
EntriesNewestFirst == [i \in 1..slice.len |-> SlotAt(slice, slice.len + 1 - i)]

\* AuditLog.Entries: the first len slots of the array the header names.
Entries == [i \in 1..slice.len |-> SlotAt(slice, i)]

Recorded(e) == \E i \in DOMAIN Entries : Entries[i] = e

AuditTypeOK ==
  /\ seq \in 0..MaxAppends
  /\ slice \in Header
  /\ heap \in Seq(Seq(Slot))
  /\ step \in [Writers -> Steps]
  /\ local \in [Writers -> Header]
  /\ entry \in [Writers -> Entry \cup {Blank}]
  /\ unwritten \in [Writers -> SUBSET Parts]
  /\ \A w \in Writers : step[w] # "idle" => entry[w] \in Entry
  /\ contended \in [Writers -> BOOLEAN]
  /\ appended \subseteq [entry : Entry, contended : BOOLEAN]

\* No two appends, finished or in progress, carry the same identifier: an
\* audit_id in a DiagResult names at most one attempt (newAuditID is atomic).
AuditIdsUnique ==
  /\ \A a, b \in appended : a.entry.id = b.entry.id => a = b
  /\ \A v, w \in Writers : 
       step[v] # "idle" /\ step[w] # "idle" /\ entry[v].id = entry[w].id => v = w
  /\ \A a \in appended, w \in Writers : 
       step[w] # "idle" => a.entry.id # entry[w].id

\* Every identifier in use was drawn from the counter (makes AuditIdsUnique
\* inductive: the next one is new).
IdsDrawn ==
  /\ \A a \in appended : a.entry.id \in 1..seq
  /\ \A w \in Writers : step[w] # "idle" => entry[w].id \in 1..seq

\* Part p of a slot is the one of entry e.
Agrees(slot, e, p) ==
  IF p = "id" THEN slot.id = e.id ELSE slot.payload[p] = e.payload[p]

\* The entries of the appends that have written part p of theirs.
Writing(p) ==
  {a.entry : a \in appended}
    \cup {entry[w] : w \in {v \in Writers : step[v] = "fill" /\ p \notin unwritten[v]}}

\* Each part of each slot is blank or was written by an append, of its own entry;
\* two parts of one slot may be of two appends.
SlotsAppended ==
  \A k \in DOMAIN heap : \A i \in DOMAIN heap[k] : \A p \in Parts :
    Agrees(heap[k][i], Blank, p) \/ \E e \in Writing(p) : Agrees(heap[k][i], e, p)

\* An entry whose append overlapped no other append stays in the log for ever:
\* no later append, contended or not, overwrites it, cuts it off or leaves it
\* behind in an abandoned array (audit.go: a.entries = append(a.entries, entry)).
UncontendedEntryKept ==
  \A a \in appended : ~a.contended => Recorded(a.entry)

\* ... and nothing else of the log goes by its identifier.
UncontendedEntryWhole ==
  \A a \in appended : ~a.contended =>
    \A i \in DOMAIN Entries : Entries[i].id = a.entry.id => Entries[i] = a.entry

\* What the documents promise of every attempt: its audit_id is the identifier
\* of an entry of the log (docs/diag-json-schema.md, docs/agent-prompts/
\* diag-engine.md). The unlocked append does not keep it.
AuditComplete == \A a \in appended : Recorded(a.entry)

-----------------------------------------------------------------------------
(***************************************************************************)
(* The inductive strengthening of UncontendedEntryKept.                    *)
(***************************************************************************)
\* The array a header names exists and is as long as the header's capacity:
\* pointer and capacity are only ever stored together.
WellFormed(header) ==
  IF header.ptr = 0 THEN header.cap = 0
                    ELSE /\ header.ptr \in 1..Len(heap)
                         /\ Len(heap[header.ptr]) = header.cap

HeadersWellFormed ==
  /\ WellFormed(slice)
  /\ \A w \in Writers : WellFormed(local[w])
  /\ \A w \in Writers : step[w] \in {"store", "fill"} => local[w].len < local[w].cap

\* A writer whose append is uncontended so far is alone, and the slice is what
\* it read and wrote itself.
UncontendedAlone ==
  \A w \in Writers : InAppend(w) /\ ~contended[w] =>
    /\ \A v \in Writers \ {w} : ~InAppend(v)
    /\ slice.ptr = local[w].ptr
    /\ slice.cap = local[w].cap
    /\ slice.len = local[w].len + (IF step[w] = "fill" THEN 1 ELSE 0)

\* Entry e sits in slot i of the slice and in slot i of the array of every
\* writer in the middle of an append, below the slot that writer will fill.
Anchored(e, i) ==
  /\ i \in 1..slice.len
  /\ SlotAt(slice, i) = e
  /\ \A w \in Writers : InAppend(w) => /\ i <= local[w].len
                                       /\ SlotAt(local[w], i) = e

UncontendedAnchored ==
  \A a \in appended : ~a.contended => \E i \in 1..slice.len : Anchored(a.entry, i)

\* An identifier is only found in the slot its append writes, and in the copies
\* of it; no copy of the slot is made while an uncontended append is at work.
IdsPlaced ==
  \A w \in Writers : step[w] # "idle" =>
    \A k \in DOMAIN heap : \A i \in DOMAIN heap[k] :
      heap[k][i].id = entry[w].id =>
        /\ step[w] = "fill" /\ "id" \notin unwritten[w]
        /\ ~contended[w] => k = local[w].ptr /\ i = local[w].len + 1

\* The slot of an uncontended append has the parts written so far.
UncontendedWrites ==
  \A w \in Writers : step[w] = "fill" /\ ~contended[w] =>
    \A p \in Parts \ unwritten[w] :
      Agrees(SlotAt(local[w], local[w].len + 1), entry[w], p)

\* An uncontended entry has one place, the same in every array that has it.
UncontendedPlaced ==
  \A a \in appended : ~a.contended => \E i \in 1..slice.len :
    /\ Anchored(a.entry, i)
    /\ \A k \in DOMAIN heap : \A j \in DOMAIN heap[k] :
         heap[k][j].id = a.entry.id => j = i /\ heap[k][j] = a.entry

AuditInv ==
  /\ AuditTypeOK
  /\ HeadersWellFormed
  /\ UncontendedAlone
  /\ UncontendedWrites
  /\ UncontendedAnchored

-----------------------------------------------------------------------------
(***************************************************************************)
(* With one writer the log is the append-only trail the documents promise. *)
(***************************************************************************)
\* The entries written so far: all that the length counts but the one that is
\* still being written.
Written ==
  slice.len - (IF \E w \in Writers : step[w] = "fill" /\ unwritten[w] # {} THEN 1 ELSE 0)

Published == [i \in 1..Written |-> Entries[i]]

Trail == INSTANCE AuditTrail WITH trail <- Published
\* One goroutine alone (netc diag, or a server handling one request at a time)
\* keeps the promise: entries are only added, at the end, numbered in order.
SerialTrail == Trail!Spec

\* One goroutine at most appends, as SerialTrail asks.
OneWriter == \A v, w \in Writers : v = w

\* No append of a lone writer is contended.
NoneContended ==
  /\ \A w \in Writers : ~contended[w]
  /\ \A a \in appended : ~a.contended

\* A lone writer's counter and the length of the log move together: an append
\* that has not written its entry yet has drawn the identifier that comes next.
Unpublished(w) == step[w] \in {"load", "grow", "store"} \/ (step[w] = "fill" /\ unwritten[w] # {})

NumberedInOrder ==
  /\ \A w \in Writers : step[w] # "idle" => entry[w].id = seq
  /\ seq = Written + (IF \E w \in Writers : Unpublished(w) THEN 1 ELSE 0)

\* The inductive strengthening of SerialTrail, of a log with one writer.
SerialInv == NoneContended /\ NumberedInOrder
=============================================================================
