-------------------------- MODULE DiagServiceProofs --------------------------
(* Proofs about the audit log, for any set of goroutines and any number of     *)
(* appends, and about the service that writes it, for any sessions, requests,  *)
(* inventory and runner.                                                       *)
EXTENDS DiagService, TLAPS

-----------------------------------------------------------------------------
(***************************************************************************)
(* The audit log alone: its variables and its actions are the part of the  *)
(* service that AuditLog declares.                                         *)
(***************************************************************************)
\* Entries and blanks are what a slot may hold.
LEMMA EntryIsSlot ==
  /\ Entry \subseteq Slot /\ Blank \in Slot
  /\ Payloads \subseteq [Fields -> Words] /\ "id" \in Parts /\ Blank.id = 0
<1>1. Payloads \subseteq [Fields -> Words]
  BY FieldsAssumption DEF Words
<1>2. [Fields -> Words] \subseteq [Fields -> Words \cup {""}]
  OBVIOUS
<1>3. QED
  BY <1>1, <1>2 DEF Entry, Slot, Blank, Parts

\* Writing a part leaves a slot, ...
LEMMA StoredType ==
  ASSUME NEW slot \in Slot, NEW q \in Parts, NEW e \in Entry
  PROVE  Stored(slot, q, e) \in Slot
<1>1. e \in Slot
  BY EntryIsSlot
<1>2. CASE q = "id"
  BY <1>1, <1>2 DEF Stored, Slot
<1>3. CASE q # "id"
  <2>1. q \in Fields /\ e.payload[q] \in Words \cup {""}
    BY <1>1, <1>3 DEF Parts, Slot
  <2>2. [slot.payload EXCEPT ![q] = e.payload[q]] \in [Fields -> Words \cup {""}]
    BY <2>1 DEF Slot
  <2>3. QED
    BY <1>3, <2>2 DEF Stored, Slot
<1>4. QED
  BY <1>2, <1>3

\* ... that has this part of the entry and keeps its others.
LEMMA StoredPart ==
  ASSUME NEW slot \in Slot, NEW q \in Parts, NEW e \in Entry, NEW p \in Parts, NEW x
  PROVE  /\ p = q => Agrees(Stored(slot, q, e), e, p)
         /\ p = q => (Agrees(Stored(slot, q, e), x, p) <=> Agrees(e, x, p))
         /\ p # q => (Agrees(Stored(slot, q, e), x, p) <=> Agrees(slot, x, p))
         /\ q # "id" => Stored(slot, q, e).id = slot.id
         /\ q = "id" => Stored(slot, q, e).id = e.id
<1>1. CASE q = "id"
  BY <1>1 DEF Stored, Agrees
<1>2. CASE q # "id"
  <2>1. q \in Fields /\ slot.payload \in [Fields -> Words \cup {""}]
    BY <1>2 DEF Parts, Slot
  <2> DEFINE new == [slot.payload EXCEPT ![q] = e.payload[q]]
  <2>2. new[q] = e.payload[q] /\ \A f \in Fields : f # q => new[f] = slot.payload[f]
    BY <2>1
  <2>3. Stored(slot, q, e) = [id |-> slot.id, payload |-> new]
    BY <1>2 DEF Stored
  <2>4. Stored(slot, q, e).id = slot.id /\ Stored(slot, q, e).payload = new
    BY <2>3
  <2> HIDE DEF new
  <2>5. CASE p = "id"
    BY <1>2, <2>4, <2>5 DEF Agrees
  <2>6. CASE p # "id"
    <3>1. p \in Fields
      BY <2>6 DEF Parts
    <3>2. QED
      BY <1>2, <2>2, <2>4, <2>6, <3>1 DEF Agrees
  <2>7. QED
    BY <2>5, <2>6
<1>3. QED
  BY <1>1, <1>2

LEMMA StoredId ==
  ASSUME NEW slot \in Slot, NEW q \in Parts, NEW e \in Entry
  PROVE  /\ q # "id" => Stored(slot, q, e).id = slot.id
         /\ q = "id" => Stored(slot, q, e).id = e.id
BY StoredPart

LEMMA SlotWhole ==
  ASSUME NEW slot \in Slot
  PROVE  /\ slot.payload \in [Fields -> Words \cup {""}]
         /\ slot = [id |-> slot.id, payload |-> slot.payload]
BY DEF Slot

\* A slot that has every part of an entry is the entry.
LEMMA WholeSlot ==
  ASSUME NEW slot \in Slot, NEW e \in Entry, \A p \in Parts : Agrees(slot, e, p)
  PROVE  slot = e
<1>1. e \in Slot
  BY EntryIsSlot
<1>2. slot.id = e.id
  BY EntryIsSlot DEF Agrees
<1>3. ASSUME NEW f \in Fields
      PROVE  slot.payload[f] = e.payload[f]
  <2>1. f \in Parts /\ f # "id"
    BY FieldsAssumption DEF Parts
  <2>2. Agrees(slot, e, f)
    BY <2>1
  <2>3. QED
    BY <2>1, <2>2 DEF Agrees
<1>4. slot.payload \in [Fields -> Words \cup {""}] /\ e.payload \in [Fields -> Words \cup {""}]
  BY <1>1, SlotWhole
<1>5. slot.payload = e.payload
  <2> DEFINE a == slot.payload
             b == e.payload
  <2>1. a \in [Fields -> Words \cup {""}] /\ b \in [Fields -> Words \cup {""}]
    BY <1>4
  <2>2. \A f \in Fields : a[f] = b[f]
    BY <1>3
  <2> HIDE DEF a, b
  <2>3. a = [f \in Fields |-> a[f]] /\ b = [f \in Fields |-> b[f]]
    BY <2>1
  <2>4. [f \in Fields |-> a[f]] = [f \in Fields |-> b[f]]
    BY <2>2
  <2>5. QED
    BY <2>3, <2>4, Zenon DEF a, b
<1>6. [id |-> slot.id, payload |-> slot.payload] = [id |-> e.id, payload |-> e.payload]
  BY <1>2, <1>5
<1>7. slot = [id |-> slot.id, payload |-> slot.payload] /\ e = [id |-> e.id, payload |-> e.payload]
  BY <1>1, SlotWhole
<1>8. QED
  BY <1>6, <1>7, Zenon

\* What Fill changes of the heap: part q of one slot.
Filled(w, q) ==
  /\ q \in unwritten[w] /\ q \in Parts
  /\ unwritten' = [unwritten EXCEPT ![w] = unwritten[w] \ {q}]
  /\ local[w].ptr \in 1..Len(heap)
  /\ local[w].len + 1 \in 1..Len(heap[local[w].ptr])
  /\ heap' \in Seq(Seq(Slot))
  /\ Len(heap') = Len(heap)
  /\ \A k \in 1..Len(heap) : Len(heap'[k]) = Len(heap[k])
  /\ \A k \in 1..Len(heap) : \A i \in 1..Len(heap[k]) :
       /\ heap[k][i] \in Slot
       /\ heap'[k][i] = IF k = local[w].ptr /\ i = local[w].len + 1
                        THEN Stored(heap[k][i], q, entry[w]) ELSE heap[k][i]

\* Unfolding the two-level update of Fill once: every array keeps its length,
\* and only the filled slot of the filled array changes.
LEMMA FillHeap ==
  ASSUME AuditTypeOK, HeadersWellFormed, NEW w \in Writers, Fill(w)
  PROVE  \E q \in Parts : Filled(w, q)
<1> USE DEF AuditTypeOK, Header
<1>1. /\ local[w] \in Header /\ WellFormed(local[w])
      /\ local[w].len < local[w].cap
  BY DEF Fill, HeadersWellFormed
<1>2. /\ local[w].ptr \in 1..Len(heap)
      /\ local[w].len + 1 \in 1..Len(heap[local[w].ptr])
  BY <1>1 DEF WellFormed
<1> DEFINE k0 == local[w].ptr
           i0 == local[w].len + 1
<1>3. PICK q \in unwritten[w] :
        /\ unwritten' = [unwritten EXCEPT ![w] = unwritten[w] \ {q}]
        /\ heap' = [heap EXCEPT ![k0] =
                      [heap[k0] EXCEPT ![i0] = Stored(heap[k0][i0], q, entry[w])]]
  BY <1>2 DEF Fill
<1>4. entry[w] \in Entry /\ q \in Parts
  BY <1>3 DEF Fill
<1>5. heap[k0] \in Seq(Slot) /\ heap[k0][i0] \in Slot
  BY <1>2
<1> DEFINE put == Stored(heap[k0][i0], q, entry[w])
           new == [heap[k0] EXCEPT ![i0] = put]
<1>6. put \in Slot
  BY <1>4, <1>5, StoredType
<1> HIDE DEF put
<1>7. /\ new \in Seq(Slot)
      /\ Len(new) = Len(heap[k0])
      /\ \A i \in 1..Len(heap[k0]) : new[i] = IF i = i0 THEN put ELSE heap[k0][i]
  BY <1>2, <1>5, <1>6
<1>8. heap' = [heap EXCEPT ![k0] = new]
  BY <1>3 DEF put
<1> HIDE DEF new, k0, i0
<1>9. k0 \in 1..Len(heap) /\ i0 \in 1..Len(heap[k0])
  BY <1>2 DEF k0, i0
<1>10. /\ heap' \in Seq(Seq(Slot)) /\ Len(heap') = Len(heap)
       /\ \A k \in 1..Len(heap) : heap'[k] = IF k = k0 THEN new ELSE heap[k]
  BY <1>7, <1>8, <1>9
<1>11. \A k \in 1..Len(heap) : Len(heap'[k]) = Len(heap[k])
  BY <1>7, <1>10
<1>12. ASSUME NEW k \in 1..Len(heap), NEW i \in 1..Len(heap[k])
       PROVE  /\ heap[k][i] \in Slot
              /\ k = k0 /\ i = i0 => heap'[k][i] = put
              /\ ~(k = k0 /\ i = i0) => heap'[k][i] = heap[k][i]
  <2>1. heap[k] \in Seq(Slot)
    OBVIOUS
  <2>2. heap[k][i] \in Slot
    BY <2>1
  <2>3. CASE k = k0
    BY <1>7, <1>10, <2>2, <2>3
  <2>4. CASE k # k0
    BY <1>10, <2>2, <2>4
  <2>5. QED
    BY <2>3, <2>4
<1>13. \A k \in 1..Len(heap) : \A i \in 1..Len(heap[k]) :
         /\ heap[k][i] \in Slot
         /\ heap'[k][i] = IF k = local[w].ptr /\ i = local[w].len + 1
                          THEN Stored(heap[k][i], q, entry[w]) ELSE heap[k][i]
  <2>1. SUFFICES ASSUME NEW k \in 1..Len(heap), NEW i \in 1..Len(heap[k])
                 PROVE  /\ heap[k][i] \in Slot
                        /\ heap'[k][i] = IF k = local[w].ptr /\ i = local[w].len + 1
                                         THEN Stored(heap[k][i], q, entry[w]) ELSE heap[k][i]
    OBVIOUS
  <2>2. CASE k = k0 /\ i = i0
    BY <1>12, <2>2 DEF put, k0, i0
  <2>3. CASE ~(k = k0 /\ i = i0)
    BY <1>12, <2>3 DEF k0, i0
  <2>4. QED
    BY <2>2, <2>3
<1>14. Filled(w, q)
  BY <1>2, <1>3, <1>4, <1>10, <1>11, <1>13 DEF Filled
<1>15. QED
  BY <1>4, <1>14

\* A slot of a well-formed header holds an entry or is blank.
LEMMA SlotType ==
  ASSUME AuditTypeOK, NEW h \in Header, WellFormed(h), NEW i \in Nat, i >= 1
  PROVE  SlotAt(h, i) \in Slot
<1>1. CASE h.ptr # 0 /\ i <= Len(heap[h.ptr])
  <2>1. h.ptr \in 1..Len(heap)
    BY <1>1 DEF WellFormed
  <2>2. heap[h.ptr] \in Seq(Slot)
    BY <2>1 DEF AuditTypeOK
  <2>3. QED
    BY <1>1, <2>2 DEF SlotAt
<1>2. CASE ~(h.ptr # 0 /\ i <= Len(heap[h.ptr]))
  BY <1>2, EntryIsSlot DEF SlotAt
<1>3. QED
  BY <1>1, <1>2

\* Grow adds one array, the copy of the writer's slots, and touches no other.
LEMMA GrowHeap ==
  ASSUME AuditTypeOK, HeadersWellFormed, NEW w \in Writers, Grow(w)
  PROVE  LET cap == NewCap(local[w]) IN
         /\ cap \in Nat /\ local[w].len < cap
         /\ heap' \in Seq(Seq(Slot))
         /\ Len(heap') = Len(heap) + 1
         /\ \A p \in 1..Len(heap) : heap'[p] = heap[p]
         /\ Len(heap'[Len(heap) + 1]) = cap
         /\ \A i \in 1..local[w].len : heap'[Len(heap) + 1][i] = SlotAt(local[w], i)
<1> DEFINE cap == NewCap(local[w])
           copy == [i \in 1..cap |->
                      IF i <= local[w].len THEN SlotAt(local[w], i) ELSE Blank]
<1>1. local[w] \in Header /\ WellFormed(local[w])
  BY DEF AuditTypeOK, HeadersWellFormed
<1>2. cap \in Nat /\ local[w].len < cap /\ local[w].len \in Nat
  BY <1>1 DEF NewCap, Header
<1> HIDE DEF cap
<1>3. \A i \in 1..cap : SlotAt(local[w], i) \in Slot /\ Blank \in Slot
  BY <1>1, <1>2, SlotType, EntryIsSlot
<1>4. copy \in Seq(Slot) /\ Len(copy) = cap
  BY <1>2, <1>3
<1>5. \A i \in 1..local[w].len : copy[i] = SlotAt(local[w], i)
  BY <1>1, <1>2
<1>6. heap' = Append(heap, copy)
  BY DEF Grow, cap
<1>7. heap \in Seq(Seq(Slot))
  BY DEF AuditTypeOK
<1> HIDE DEF copy
<1>8. QED
  BY <1>2, <1>4, <1>5, <1>6, <1>7 DEF cap

-----------------------------------------------------------------------------
\* Type correctness of the log's memory model.
LEMMA AuditTypeStep ==
  ASSUME AuditTypeOK, HeadersWellFormed, [AuditNext]_auditVars
  PROVE  AuditTypeOK'
<1> USE DEF AuditTypeOK, Steps
<1>1. ASSUME NEW w \in Writers, NEW p \in Payloads, NewAuditID(w, p)
      PROVE  AuditTypeOK'
  <2>1. [id |-> seq + 1, payload |-> p] \in Entry /\ seq + 1 \in 0..MaxAppends
    BY <1>1, MaxAppendsAssumption DEF NewAuditID, Entry
  <2>2. QED
    BY <1>1, <2>1 DEF NewAuditID
<1>2. ASSUME NEW w \in Writers, Load(w)
      PROVE  AuditTypeOK'
  <2>1. contended' \in [Writers -> BOOLEAN]
    BY <1>2 DEF Load
  <2>2. QED
    BY <1>2, <2>1 DEF Load
<1>3. ASSUME NEW w \in Writers, Grow(w)
      PROVE  AuditTypeOK'
  <2>1. /\ heap' \in Seq(Seq(Slot))
        /\ NewCap(local[w]) \in Nat
    BY <1>3, GrowHeap
  <2>2. Len(heap) + 1 \in Nat /\ local[w].len \in Nat /\ slice.len \in Nat
    BY DEF Header
  <2>3. slice' \in Header /\ local' \in [Writers -> Header]
    BY <1>3, <2>1, <2>2 DEF Grow, Header
  <2>4. QED
    BY <1>3, <2>1, <2>3 DEF Grow
<1>4. ASSUME NEW w \in Writers, Store(w)
      PROVE  AuditTypeOK'
  <2>1. slice' \in Header
    BY <1>4 DEF Store, Header
  <2>2. unwritten' \in [Writers -> SUBSET Parts]
    BY <1>4 DEF Store
  <2>3. QED
    BY <1>4, <2>1, <2>2 DEF Store
<1>5. ASSUME NEW w \in Writers, Fill(w)
      PROVE  AuditTypeOK'
  <2>1. PICK q \in Parts : Filled(w, q)
    BY <1>5, FillHeap
  <2>2. heap' \in Seq(Seq(Slot)) /\ unwritten' \in [Writers -> SUBSET Parts]
    BY <2>1 DEF Filled
  <2>3. QED
    BY <1>5, <2>2 DEF Fill
<1>8. ASSUME NEW w \in Writers, Return(w)
      PROVE  AuditTypeOK'
  <2>1. /\ local' \in [Writers -> Header]
        /\ entry' \in [Writers -> Entry \cup {Blank}]
        /\ contended' \in [Writers -> BOOLEAN]
    BY <1>8 DEF Return, Nil, Header
  <2>2. [entry |-> entry[w], contended |-> contended[w]]
          \in [entry : Entry, contended : BOOLEAN]
    BY <1>8 DEF Return
  <2>3. QED
    BY <1>8, <2>1, <2>2 DEF Return
<1>6. CASE UNCHANGED auditVars
  BY <1>6 DEF auditVars
<1>7. QED
  BY <1>1, <1>2, <1>3, <1>4, <1>5, <1>6, <1>8 DEF AuditNext, AppendStep

\* Headers keep naming existing arrays of their capacity: arrays are never
\* freed and never change length.
LEMMA HeadersStep ==
  ASSUME AuditTypeOK, HeadersWellFormed, [AuditNext]_auditVars
  PROVE  HeadersWellFormed'
<1> USE DEF HeadersWellFormed
<1>0. /\ slice \in Header /\ local \in [Writers -> Header]
      /\ heap \in Seq(Seq(Slot))
      /\ step \in [Writers -> Steps]
  BY DEF AuditTypeOK
<1>1. ASSUME NEW w \in Writers, NEW p \in Payloads, NewAuditID(w, p)
      PROVE  HeadersWellFormed'
  BY <1>0, <1>1 DEF NewAuditID, WellFormed
<1>2. ASSUME NEW w \in Writers, Load(w)
      PROVE  HeadersWellFormed'
  BY <1>0, <1>2 DEF Load, WellFormed, Full, Header
<1>3. ASSUME NEW w \in Writers, Grow(w)
      PROVE  HeadersWellFormed'
  <2> DEFINE cap == NewCap(local[w])
  <2>1. /\ cap \in Nat /\ local[w].len < cap
        /\ heap' \in Seq(Seq(Slot))
        /\ Len(heap') = Len(heap) + 1
        /\ \A q \in 1..Len(heap) : heap'[q] = heap[q]
        /\ Len(heap'[Len(heap) + 1]) = cap
    BY <1>3, GrowHeap
  <2>2. ASSUME NEW h \in Header, WellFormed(h)
        PROVE  WellFormed(h)'
    BY <1>0, <2>1, <2>2 DEF WellFormed
  <2>3. /\ local' = [local EXCEPT ![w] = [ptr |-> Len(heap) + 1,
                                         len |-> local[w].len, cap |-> cap]]
        /\ slice' = [ptr |-> Len(heap) + 1, len |-> slice.len, cap |-> cap]
        /\ step' = [step EXCEPT ![w] = "store"]
    BY <1>3 DEF Grow
  <2> HIDE DEF cap
  <2>4. WellFormed(slice)'
    BY <1>0, <2>1, <2>3 DEF WellFormed
  <2>5. ASSUME NEW v \in Writers PROVE WellFormed(local[v])'
    <3>1. CASE v = w
      BY <1>0, <2>1, <2>3, <3>1 DEF WellFormed
    <3>2. CASE v # w
      <4>1. local'[v] = local[v] /\ local[v] \in Header
        BY <1>0, <2>3, <3>2
      <4> DEFINE h == local[v]
      <4>2. h \in Header /\ WellFormed(h)
        BY <4>1
      <4> HIDE DEF h
      <4>3. WellFormed(h)'
        BY <1>0, <2>1, <2>3, <4>1, <4>2 DEF WellFormed, h
      <4>4. QED
        BY <4>3 DEF h
    <3>3. QED
      BY <3>1, <3>2
  <2>6. ASSUME NEW v \in Writers, step'[v] \in {"store", "fill"}
        PROVE  local'[v].len < local'[v].cap
    BY <1>0, <2>1, <2>3, <2>6
  <2>7. QED
    BY <2>4, <2>5, <2>6
<1>4. ASSUME NEW w \in Writers, Store(w)
      PROVE  HeadersWellFormed'
  BY <1>0, <1>4 DEF Store, WellFormed, Header
<1>5. ASSUME NEW w \in Writers, Fill(w)
      PROVE  HeadersWellFormed'
  <2>1. /\ Len(heap') = Len(heap)
        /\ \A q \in 1..Len(heap) : Len(heap'[q]) = Len(heap[q])
    BY <1>5, FillHeap DEF Filled
  <2>2. QED
    BY <1>0, <1>5, <2>1 DEF Fill, WellFormed, Header
<1>8. ASSUME NEW w \in Writers, Return(w)
      PROVE  HeadersWellFormed'
  BY <1>0, <1>8 DEF Return, WellFormed, Header, Nil
<1>6. CASE UNCHANGED auditVars
  BY <1>6 DEF auditVars, WellFormed
<1>7. QED
  BY <1>1, <1>2, <1>3, <1>4, <1>5, <1>6, <1>8 DEF AuditNext, AppendStep

\* An uncontended writer stays alone with the slice it read.
LEMMA AloneStep ==
  ASSUME AuditTypeOK, UncontendedAlone, [AuditNext]_auditVars
  PROVE  UncontendedAlone'
<1> USE DEF UncontendedAlone, InAppend
<1>0. /\ slice \in Header /\ local \in [Writers -> Header]
      /\ step \in [Writers -> Steps] /\ contended \in [Writers -> BOOLEAN]
  BY DEF AuditTypeOK
<1>1. ASSUME NEW w \in Writers, NEW p \in Payloads, NewAuditID(w, p)
      PROVE  UncontendedAlone'
  BY <1>0, <1>1 DEF NewAuditID
<1>2. ASSUME NEW w \in Writers, Load(w)
      PROVE  UncontendedAlone'
  <2>1. /\ local' = [local EXCEPT ![w] = slice] /\ slice' = slice
        /\ step' = [step EXCEPT ![w] = IF Full(slice) THEN "grow" ELSE "store"]
    BY <1>2 DEF Load
  <2>2. contended' = [v \in Writers |->
                        IF v = w THEN \E x \in Writers : InAppend(x)
                                 ELSE contended[v] \/ InAppend(v)]
    BY <1>2 DEF Load
  <2>3. SUFFICES ASSUME NEW v \in Writers, InAppend(v)', ~contended'[v]
                 PROVE  /\ \A x \in Writers \ {v} : ~InAppend(x)'
                        /\ slice'.ptr = local'[v].ptr
                        /\ slice'.cap = local'[v].cap
                        /\ slice'.len = local'[v].len
                                         + (IF step'[v] = "fill" THEN 1 ELSE 0)
    OBVIOUS
  <2>4. v = w
    BY <1>0, <2>1, <2>2, <2>3
  <2>5. \A x \in Writers : ~InAppend(x)
    BY <2>2, <2>3, <2>4
  <2>6. step'[w] # "fill" /\ local'[w] = slice
    BY <1>0, <2>1
  <2>7. slice.len + 0 = slice.len
    BY <1>0 DEF Header
  <2>8. QED
    BY <1>0, <2>1, <2>4, <2>5, <2>6, <2>7
<1>3. ASSUME NEW w \in Writers, Grow(w)
      PROVE  UncontendedAlone'
  BY <1>0, <1>3 DEF Grow, Header
<1>4. ASSUME NEW w \in Writers, Store(w)
      PROVE  UncontendedAlone'
  BY <1>0, <1>4 DEF Store, Header
<1>5. ASSUME NEW w \in Writers, Fill(w)
      PROVE  UncontendedAlone'
  BY <1>0, <1>5 DEF Fill
<1>8. ASSUME NEW w \in Writers, Return(w)
      PROVE  UncontendedAlone'
  BY <1>0, <1>8 DEF Return
<1>6. CASE UNCHANGED auditVars
  BY <1>6 DEF auditVars
<1>7. QED
  BY <1>1, <1>2, <1>3, <1>4, <1>5, <1>6, <1>8 DEF AuditNext, AppendStep

\* An anchored entry stays anchored, in the same slot, whatever any goroutine
\* does: copies keep it, the length never falls to it, fills go above it.
LEMMA AnchoredStep ==
  ASSUME AuditTypeOK, HeadersWellFormed, [AuditNext]_auditVars,
         NEW e, NEW i \in Nat, Anchored(e, i)
  PROVE  Anchored(e, i)'
<1> USE DEF Anchored, InAppend
<1>0. /\ slice \in Header /\ local \in [Writers -> Header]
      /\ heap \in Seq(Seq(Slot))
      /\ step \in [Writers -> Steps]
  BY DEF AuditTypeOK
<1>1. ASSUME NEW w \in Writers, NEW p \in Payloads, NewAuditID(w, p)
      PROVE  Anchored(e, i)'
  BY <1>0, <1>1 DEF NewAuditID, SlotAt
<1>2. ASSUME NEW w \in Writers, Load(w)
      PROVE  Anchored(e, i)'
  <2>1. /\ slice' = slice /\ heap' = heap /\ step' \in [Writers -> Steps \cup {"grow", "store"}]
        /\ local'[w] = slice
        /\ \A x \in Writers : x # w => local'[x] = local[x] /\ step'[x] = step[x]
    BY <1>0, <1>2 DEF Load, Steps
  <2>2. SlotAt(slice, i)' = e /\ SlotAt(local[w], i)' = e
    BY <2>1 DEF SlotAt
  <2>3. ASSUME NEW x \in Writers, x # w, InAppend(x)'
        PROVE  i <= local'[x].len /\ SlotAt(local[x], i)' = e
    BY <2>1, <2>3 DEF SlotAt
  <2>4. QED
    BY <1>0, <2>1, <2>2, <2>3 DEF Header
<1>3. ASSUME NEW w \in Writers, Grow(w)
      PROVE  Anchored(e, i)'
  <2> DEFINE cap == NewCap(local[w])
  <2>1. /\ cap \in Nat /\ local[w].len < cap
        /\ heap' \in Seq(Seq(Slot))
        /\ Len(heap') = Len(heap) + 1
        /\ \A q \in 1..Len(heap) : heap'[q] = heap[q]
        /\ Len(heap'[Len(heap) + 1]) = cap
        /\ \A j \in 1..local[w].len : heap'[Len(heap) + 1][j] = SlotAt(local[w], j)
    BY <1>3, GrowHeap
  <2>2. /\ local' = [local EXCEPT ![w] = [ptr |-> Len(heap) + 1,
                                         len |-> local[w].len, cap |-> cap]]
        /\ slice' = [ptr |-> Len(heap) + 1, len |-> slice.len, cap |-> cap]
        /\ step' = [step EXCEPT ![w] = "store"] /\ step[w] = "grow"
    BY <1>3 DEF Grow
  <2> HIDE DEF cap
  <2>3. i \in 1..local[w].len /\ SlotAt(local[w], i) = e
    <3>1. i <= local[w].len /\ SlotAt(local[w], i) = e
      BY <2>2
    <3>2. i >= 1 /\ local[w].len \in Nat
      BY <1>0 DEF Header
    <3>3. QED
      BY <3>1, <3>2
  <2>4. heap'[Len(heap) + 1][i] = e
    BY <2>1, <2>3
  <2>5. i <= Len(heap'[Len(heap) + 1]) /\ Len(heap) + 1 # 0
    BY <1>0, <2>1, <2>3 DEF Header
  <2>6. i \in 1..slice'.len /\ SlotAt(slice, i)' = e
    BY <1>0, <2>2, <2>4, <2>5 DEF SlotAt
  <2>7. ASSUME NEW v \in Writers, InAppend(v)'
        PROVE  i <= local'[v].len /\ SlotAt(local[v], i)' = e
    <3>1. CASE v = w
      BY <1>0, <2>2, <2>3, <2>4, <2>5, <3>1 DEF SlotAt
    <3>2. CASE v # w
      <4>1. local'[v] = local[v] /\ InAppend(v)
        BY <1>0, <2>2, <2>7, <3>2
      <4>2. i <= local[v].len /\ SlotAt(local[v], i) = e /\ WellFormed(local[v])
        BY <4>1 DEF HeadersWellFormed
      <4>3. local[v].ptr = 0 \/ local[v].ptr \in 1..Len(heap)
        BY <4>2 DEF WellFormed
      <4>4. CASE local[v].ptr = 0
        BY <4>1, <4>2, <4>4 DEF SlotAt
      <4>5. CASE local[v].ptr \in 1..Len(heap)
        BY <2>1, <4>1, <4>2, <4>5 DEF SlotAt
      <4>6. QED
        BY <4>3, <4>4, <4>5
    <3>3. QED
      BY <3>1, <3>2
  <2>8. QED
    BY <2>6, <2>7
<1>4. ASSUME NEW w \in Writers, Store(w)
      PROVE  Anchored(e, i)'
  <2>1. local[w].len \in Nat /\ i <= local[w].len
    BY <1>0, <1>4 DEF Store, Header
  <2>2. slice'.len = local[w].len + 1 /\ slice'.ptr = slice.ptr
    BY <1>4 DEF Store
  <2>3. QED
    BY <1>0, <1>4, <2>1, <2>2 DEF Store, SlotAt
<1>5. ASSUME NEW w \in Writers, Fill(w)
      PROVE  Anchored(e, i)'
  <2>1. /\ Len(heap') = Len(heap)
        /\ \A k \in 1..Len(heap) : Len(heap'[k]) = Len(heap[k])
        /\ \A k \in 1..Len(heap) : \A j \in 1..Len(heap[k]) :
             \/ k = local[w].ptr /\ j = local[w].len + 1
             \/ heap'[k][j] = heap[k][j]
    BY <1>5, FillHeap DEF Filled
  <2>2. local[w].len \in Nat /\ i <= local[w].len /\ i >= 1
    <3>1. i <= local[w].len
      BY <1>5 DEF Fill
    <3>2. i >= 1 /\ local[w].len \in Nat
      BY <1>0 DEF Header
    <3>3. QED
      BY <3>1, <3>2
  <2>3. ASSUME NEW h \in Header, WellFormed(h), SlotAt(h, i) = e
        PROVE  IF h.ptr # 0 /\ i <= Len(heap'[h.ptr]) THEN heap'[h.ptr][i] = e
                                                       ELSE Blank = e
    <3> HIDE DEF Anchored, InAppend
    <3>1. CASE h.ptr = 0
      BY <2>3, <3>1 DEF SlotAt
    <3>2. CASE h.ptr # 0
      <4>1. h.ptr \in 1..Len(heap)
        BY <2>3, <3>2 DEF WellFormed
      <4>2. heap[h.ptr] \in Seq(Slot) /\ Len(heap[h.ptr]) \in Nat
        BY <1>0, <4>1
      <4>3. Len(heap'[h.ptr]) = Len(heap[h.ptr])
        BY <2>1, <4>1
      <4>4. SlotAt(h, i) = IF i <= Len(heap[h.ptr]) THEN heap[h.ptr][i] ELSE Blank
        BY <3>2 DEF SlotAt
      <4>5. CASE i <= Len(heap[h.ptr])
        <5>1. i \in 1..Len(heap[h.ptr])
          BY <2>2, <4>2, <4>5
        <5>2. ~(h.ptr = local[w].ptr /\ i = local[w].len + 1)
          BY <2>2
        <5>3. heap'[h.ptr][i] = heap[h.ptr][i]
          BY <2>1, <4>1, <5>1, <5>2
        <5>4. QED
          BY <2>3, <3>2, <4>3, <4>4, <4>5, <5>3
      <4>6. CASE ~(i <= Len(heap[h.ptr]))
        BY <2>3, <4>3, <4>4, <4>6
      <4>7. QED
        BY <4>5, <4>6
    <3>3. QED
      BY <3>1, <3>2
  <2>4. slice' = slice /\ local' = local /\ step' = step
    BY <1>5 DEF Fill
  <2>5. SlotAt(slice, i)' = e
    BY <1>0, <2>3, <2>4 DEF SlotAt, HeadersWellFormed
  <2>6. ASSUME NEW v \in Writers, InAppend(v)'
        PROVE  i <= local'[v].len /\ SlotAt(local[v], i)' = e
    <3>1. InAppend(v)
      BY <1>0, <2>4, <2>6
    <3>2. SlotAt(local[v], i) = e /\ WellFormed(local[v]) /\ local[v] \in Header
      BY <1>0, <3>1 DEF HeadersWellFormed
    <3>3. IF local[v].ptr # 0 /\ i <= Len(heap'[local[v].ptr])
          THEN heap'[local[v].ptr][i] = e ELSE Blank = e
      BY <2>3, <3>2
    <3>4. QED
      BY <2>4, <3>1, <3>3 DEF SlotAt
  <2>7. QED
    BY <2>4, <2>5, <2>6
<1>6. CASE UNCHANGED auditVars
  BY <1>6 DEF auditVars, SlotAt
<1>8. ASSUME NEW w \in Writers, Return(w)
      PROVE  Anchored(e, i)'
  <2>1. /\ slice' = slice /\ heap' = heap /\ step' = [step EXCEPT ![w] = "idle"]
        /\ \A v \in Writers \ {w} : local'[v] = local[v]
    BY <1>0, <1>8 DEF Return
  <2>2. \A v \in Writers : InAppend(v)' => v # w /\ InAppend(v)
    BY <1>0, <2>1
  <2>3. QED
    BY <1>0, <2>1, <2>2 DEF SlotAt
<1>7. QED
  BY <1>1, <1>2, <1>3, <1>4, <1>5, <1>6, <1>8 DEF AuditNext, AppendStep

\* An uncontended writer's slot has what it wrote: nobody else writes meanwhile.
LEMMA WritesStep ==
  ASSUME AuditTypeOK, HeadersWellFormed, UncontendedAlone, UncontendedWrites,
         [AuditNext]_auditVars
  PROVE  UncontendedWrites'
<1>0. /\ step \in [Writers -> Steps] /\ unwritten \in [Writers -> SUBSET Parts]
      /\ entry \in [Writers -> Entry \cup {Blank}] /\ local \in [Writers -> Header]
      /\ heap \in Seq(Seq(Slot)) /\ contended \in [Writers -> BOOLEAN]
      /\ \A w \in Writers : step[w] # "idle" => entry[w] \in Entry
  BY DEF AuditTypeOK
<1>1. SUFFICES ASSUME NEW v \in Writers, step'[v] = "fill", ~contended'[v],
                      NEW p \in Parts \ unwritten'[v]
               PROVE  Agrees(SlotAt(local[v], local[v].len + 1), entry[v], p)'
  BY DEF UncontendedWrites
\* steps of others leave an uncontended append alone
<1>2. ASSUME step' = step, UNCHANGED <<heap, local, entry, unwritten, contended>>
      PROVE  Agrees(SlotAt(local[v], local[v].len + 1), entry[v], p)'
  BY <1>1, <1>2 DEF UncontendedWrites, SlotAt, Agrees
<1>3. ASSUME step[v] = "fill", ~contended[v], NEW w \in Writers, w # v, InAppend(w)
      PROVE  FALSE
  BY <1>3 DEF UncontendedAlone, InAppend
<1>4. ASSUME step[v] = "fill", ~contended[v], p \notin unwritten[v],
             local'[v] = local[v], entry'[v] = entry[v], heap' = heap
      PROVE  Agrees(SlotAt(local[v], local[v].len + 1), entry[v], p)'
  BY <1>4 DEF UncontendedWrites, SlotAt, Agrees
<1>5. ASSUME NEW w \in Writers, NEW q \in Payloads, NewAuditID(w, q)
      PROVE  Agrees(SlotAt(local[v], local[v].len + 1), entry[v], p)'
  BY <1>0, <1>1, <1>4, <1>5 DEF NewAuditID
<1>6. ASSUME NEW w \in Writers, Load(w)
      PROVE  Agrees(SlotAt(local[v], local[v].len + 1), entry[v], p)'
  <2>1. v # w /\ step[v] = "fill"
    BY <1>0, <1>1, <1>6 DEF Load
  <2>2. InAppend(v)
    BY <2>1 DEF InAppend
  <2>3. contended'[v]
    BY <1>6, <2>1, <2>2 DEF Load
  <2>4. QED
    BY <1>1, <2>3
<1>7. ASSUME NEW w \in Writers, Grow(w)
      PROVE  Agrees(SlotAt(local[v], local[v].len + 1), entry[v], p)'
  BY <1>0, <1>1, <1>3, <1>7 DEF Grow, InAppend
<1>8. ASSUME NEW w \in Writers, Store(w)
      PROVE  Agrees(SlotAt(local[v], local[v].len + 1), entry[v], p)'
  <2>1. v = w
    BY <1>0, <1>1, <1>3, <1>8 DEF Store, InAppend
  <2>2. unwritten'[v] = Parts
    BY <1>0, <1>8, <2>1 DEF Store
  <2>3. QED
    BY <1>1, <2>2
<1>9. ASSUME NEW w \in Writers, Fill(w)
      PROVE  Agrees(SlotAt(local[v], local[v].len + 1), entry[v], p)'
  <2>1. PICK q \in Parts : Filled(w, q)
    BY <1>9, FillHeap
  <2>2. v = w /\ step[v] = "fill" /\ ~contended[v] /\ local' = local /\ entry' = entry
    BY <1>1, <1>3, <1>9 DEF Fill, InAppend
  <2> DEFINE k == local[v].ptr
             i == local[v].len + 1
  <2>3. /\ k \in 1..Len(heap) /\ i \in 1..Len(heap[k]) /\ heap[k][i] \in Slot
        /\ heap'[k][i] = Stored(heap[k][i], q, entry[v])
        /\ Len(heap'[k]) = Len(heap[k])
        /\ unwritten'[v] = unwritten[v] \ {q}
    BY <1>0, <2>1, <2>2 DEF Filled
  <2>4. entry[v] \in Entry
    BY <1>0, <2>2
  <2>5. /\ SlotAt(local[v], local[v].len + 1) = heap[k][i]
        /\ SlotAt(local[v], local[v].len + 1)' = heap'[k][i]
    BY <2>2, <2>3 DEF SlotAt
  <2>6. CASE p = q
    <3>1. Agrees(Stored(heap[k][i], q, entry[v]), entry[v], p)
      BY <2>3, <2>4, <2>6, StoredPart
    <3>2. QED
      BY <2>2, <2>3, <2>5, <3>1 DEF Agrees
  <2>7. CASE p # q
    <3>1. p \in Parts \ unwritten[v]
      BY <1>1, <2>3, <2>7
    <3>2. Agrees(heap[k][i], entry[v], p)
      BY <2>2, <2>5, <3>1 DEF UncontendedWrites
    <3>3. Agrees(Stored(heap[k][i], q, entry[v]), entry[v], p)
      BY <2>3, <2>4, <2>7, <3>1, <3>2, StoredPart
    <3>4. QED
      BY <2>2, <2>3, <2>5, <3>3 DEF Agrees
  <2>8. QED
    BY <2>6, <2>7
<1>10. ASSUME NEW w \in Writers, Return(w)
       PROVE  Agrees(SlotAt(local[v], local[v].len + 1), entry[v], p)'
  BY <1>0, <1>1, <1>4, <1>10 DEF Return
<1>11. CASE UNCHANGED auditVars
  BY <1>2, <1>11 DEF auditVars
<1>12. QED
  BY <1>5, <1>6, <1>7, <1>8, <1>9, <1>10, <1>11 DEF AuditNext, AppendStep

\* So its slot is its entry when it returns.
LEMMA ReturnWhole ==
  ASSUME AuditTypeOK, HeadersWellFormed, UncontendedWrites,
         NEW w \in Writers, Return(w), ~contended[w]
  PROVE  /\ SlotAt(local[w], local[w].len + 1) = entry[w] /\ entry[w] \in Entry
         /\ local[w].ptr \in 1..Len(heap) /\ local[w].len \in Nat
         /\ local[w].len + 1 \in 1..Len(heap[local[w].ptr])
<1>1. /\ local[w] \in Header /\ WellFormed(local[w]) /\ local[w].len < local[w].cap
      /\ entry[w] \in Entry
  BY DEF Return, HeadersWellFormed, AuditTypeOK
<1>2. /\ local[w].ptr \in 1..Len(heap)
      /\ local[w].len + 1 \in 1..Len(heap[local[w].ptr])
      /\ local[w].len \in Nat /\ local[w].len + 1 >= 1
  BY <1>1 DEF WellFormed, Header
<1>3. SlotAt(local[w], local[w].len + 1) \in Slot
  BY <1>1, <1>2, SlotType
<1>4. \A p \in Parts : Agrees(SlotAt(local[w], local[w].len + 1), entry[w], p)
  BY DEF Return, UncontendedWrites
<1>5. QED
  BY <1>1, <1>2, <1>3, <1>4, WholeSlot

\* The entry of an uncontended append is anchored the moment it returns.
LEMMA ReturnAnchors ==
  ASSUME AuditTypeOK, HeadersWellFormed, UncontendedAlone, UncontendedWrites,
         NEW w \in Writers, Return(w), ~contended[w], NEW e, e = entry[w]
  PROVE  \E i \in 1..slice'.len : i = local[w].len + 1 /\ Anchored(e, i)'
<1>1. /\ slice.ptr = local[w].ptr /\ slice.len = local[w].len + 1
      /\ \A v \in Writers \ {w} : ~InAppend(v)
  BY DEF UncontendedAlone, InAppend, Return
<1>2. PICK i \in Nat : i = local[w].len + 1 /\ SlotAt(local[w], i) = e
  BY ReturnWhole
<1>3. /\ slice' = slice /\ heap' = heap
      /\ step' = [step EXCEPT ![w] = "idle"] /\ step \in [Writers -> Steps]
  BY DEF Return, AuditTypeOK
<1>4. SlotAt(slice, i)' = e
  BY <1>1, <1>2, <1>3 DEF SlotAt
<1>5. \A v \in Writers : ~InAppend(v)'
  BY <1>1, <1>3 DEF InAppend
<1>6. i \in 1..slice'.len
  <2>1. local[w].len \in Nat
    BY ReturnWhole
  <2>2. QED
    BY <1>1, <1>2, <1>3, <2>1
<1>7. Anchored(e, i)'
  BY <1>4, <1>5, <1>6 DEF Anchored
<1>8. QED
  BY <1>2, <1>6, <1>7

LEMMA UncontendedStep ==
  ASSUME AuditTypeOK, HeadersWellFormed, UncontendedAlone, UncontendedWrites,
         UncontendedAnchored, [AuditNext]_auditVars
  PROVE  UncontendedAnchored'
<1>1. SUFFICES ASSUME NEW a \in appended', ~a.contended
               PROVE  \E i \in 1..slice'.len : Anchored(a.entry, i)'
  BY DEF UncontendedAnchored
<1>2. CASE a \in appended
  <2>1. PICK i \in 1..slice.len : Anchored(a.entry, i)
    BY <1>1, <1>2 DEF UncontendedAnchored
  <2>2. i \in Nat
    OBVIOUS
  <2>3. Anchored(a.entry, i)'
    BY <2>1, <2>2, AnchoredStep
  <2>4. i \in 1..slice'.len
    BY <2>3 DEF Anchored
  <2>5. QED
    BY <2>3, <2>4
<1>3. CASE a \notin appended
  <2>1. PICK w \in Writers : Return(w)
    BY <1>1, <1>3 DEF AuditNext, AppendStep, NewAuditID, Load, Grow, Store, Fill, auditVars
  <2>2. a = [entry |-> entry[w], contended |-> contended[w]]
    BY <1>1, <1>3, <2>1 DEF Return
  <2>3. a.entry = entry[w] /\ ~contended[w]
    BY <1>1, <2>2
  <2>4. \A e : e = entry[w] => \E i \in 1..slice'.len : Anchored(e, i)'
    BY <2>1, <2>3, ReturnAnchors
  <2>5. QED
    BY <2>3, <2>4
<1>4. QED
  BY <1>2, <1>3

-----------------------------------------------------------------------------
LEMMA AuditInvInit ==
  ASSUME AuditInit
  PROVE  AuditInv
<1>1. AuditTypeOK
  BY MaxAppendsAssumption DEF AuditInit, AuditTypeOK, Nil, Header, Steps
<1>2. HeadersWellFormed
  BY DEF AuditInit, HeadersWellFormed, WellFormed, Nil
<1>3. UncontendedAlone /\ UncontendedWrites /\ UncontendedAnchored
  BY DEF AuditInit, UncontendedAlone, UncontendedWrites, UncontendedAnchored, InAppend
<1>4. QED
  BY <1>1, <1>2, <1>3 DEF AuditInv

LEMMA AuditInvStep ==
  ASSUME AuditInv, [AuditNext]_auditVars
  PROVE  AuditInv'
BY AuditTypeStep, HeadersStep, AloneStep, WritesStep, UncontendedStep DEF AuditInv

LEMMA AuditInvariant == AuditSpec => []AuditInv
<1>1. AuditInit => AuditInv
  BY AuditInvInit
<1>2. AuditInv /\ [AuditNext]_auditVars => AuditInv'
  BY AuditInvStep
<1>3. QED
  BY <1>1, <1>2, PTL DEF AuditSpec

\* Every state of the log has the declared types (audit.go), for any number of
\* goroutines and appends.
THEOREM AuditTypeCorrect == AuditSpec => []AuditTypeOK
BY AuditInvariant, PTL DEF AuditInv

\* The damage the unlocked append of audit.go can do is confined: an entry whose
\* append overlapped no other is in the log for ever after.
THEOREM UncontendedKept == AuditSpec => []UncontendedEntryKept
<1>1. AuditInv => UncontendedEntryKept
  BY DEF AuditInv, UncontendedEntryKept, UncontendedAnchored, Anchored, Recorded, Entries
<1>2. QED
  BY <1>1, AuditInvariant, PTL

\* The identifiers drawn so far and no other are in use.
IdInv == IdsDrawn /\ AuditIdsUnique

LEMMA IdInvariant == AuditSpec => []IdInv
<1> USE DEF IdInv
<1>1. AuditInit => IdInv
  BY DEF AuditInit, IdsDrawn, AuditIdsUnique
<1>2. AuditTypeOK /\ IdInv /\ [AuditNext]_auditVars => IdInv'
  <2> SUFFICES ASSUME AuditTypeOK, IdInv, [AuditNext]_auditVars
               PROVE  IdInv'
    OBVIOUS
  <2> USE DEF IdsDrawn, AuditIdsUnique
  <2>0. /\ seq \in Nat /\ step \in [Writers -> Steps]
        /\ entry \in [Writers -> Entry \cup {Blank}]
        /\ \A w \in Writers : step[w] # "idle" => entry[w].id \in Nat
        /\ \A a \in appended : a.entry.id \in Nat
    BY MaxAppendsAssumption DEF AuditTypeOK, Entry
  <2>1. ASSUME NEW w \in Writers, NEW p \in Payloads, NewAuditID(w, p)
        PROVE  IdInv'
    <3>1. /\ seq' = seq + 1 /\ appended' = appended
          /\ entry' = [entry EXCEPT ![w] = [id |-> seq + 1, payload |-> p]]
          /\ step' = [step EXCEPT ![w] = "load"]
      BY <2>1 DEF NewAuditID
    <3>2. /\ entry'[w].id = seq + 1
          /\ \A v \in Writers \ {w} : entry'[v] = entry[v] /\ step'[v] = step[v]
      BY <2>0, <3>1
    <3>3. QED
      BY <2>0, <3>1, <3>2
  <2>2. ASSUME NEW w \in Writers, Load(w) \/ Grow(w) \/ Store(w) \/ Fill(w)
        PROVE  IdInv'
    <3>1. /\ seq' = seq /\ appended' = appended /\ entry' = entry
          /\ \A v \in Writers : step'[v] # "idle" => step[v] # "idle"
      BY <2>0, <2>2 DEF Load, Grow, Store, Fill
    <3>2. QED
      BY <3>1
  <2>3. ASSUME NEW w \in Writers, Return(w)
        PROVE  IdInv'
    <3>1. /\ seq' = seq /\ step[w] # "idle"
          /\ step' = [step EXCEPT ![w] = "idle"]
          /\ \A v \in Writers \ {w} : entry'[v] = entry[v]
          /\ appended' = appended \cup {[entry |-> entry[w], contended |-> contended[w]]}
      BY <2>0, <2>3 DEF Return
    <3>2. \A v \in Writers : step'[v] # "idle" =>
            v # w /\ step[v] # "idle" /\ entry'[v] = entry[v]
      BY <2>0, <3>1
    <3>3. QED
      BY <3>1, <3>2
  <2>4. CASE UNCHANGED auditVars
    BY <2>4 DEF auditVars
  <2>5. QED
    BY <2>1, <2>2, <2>3, <2>4 DEF AuditNext, AppendStep
<1>3. QED
  BY <1>1, <1>2, AuditTypeCorrect, PTL DEF AuditSpec

\* The atomic counter of newAuditID gives every attempt an identifier of its own,
\* however the goroutines interleave.
THEOREM IdsUnique == AuditSpec => []AuditIdsUnique
BY IdInvariant, PTL DEF IdInv

-----------------------------------------------------------------------------
\* An entry whose append has written a part stays among those of that part.
LEMMA WritingGrows ==
  ASSUME AuditTypeOK, [AuditNext]_auditVars, NEW p \in Parts, NEW e \in Writing(p)
  PROVE  e \in Writing(p)'
<1>0. /\ step \in [Writers -> Steps] /\ unwritten \in [Writers -> SUBSET Parts]
      /\ entry \in [Writers -> Entry \cup {Blank}]
  BY DEF AuditTypeOK
<1>1. appended \subseteq appended'
  BY DEF AuditNext, AppendStep, NewAuditID, Load, Grow, Store, Fill, Return, auditVars
<1>2. CASE \E a \in appended : e = a.entry
  BY <1>1, <1>2 DEF Writing
<1>3. ASSUME NEW v \in Writers, step[v] = "fill", p \notin unwritten[v], e = entry[v]
      PROVE  e \in Writing(p)'
  <2>1. CASE Return(v)
    <3> DEFINE new == [entry |-> entry[v], contended |-> contended[v]]
    <3>1. new \in appended' /\ new.entry = e
      BY <1>3, <2>1 DEF Return
    <3> HIDE DEF new
    <3>2. QED
      BY <3>1 DEF Writing
  <2>2. CASE ~Return(v)
    <3>1. step'[v] = "fill" /\ p \notin unwritten'[v] /\ entry'[v] = entry[v]
      <4>1. ASSUME NEW w \in Writers, NEW q \in Payloads, NewAuditID(w, q)
            PROVE  step'[v] = "fill" /\ p \notin unwritten'[v] /\ entry'[v] = entry[v]
        BY <1>0, <1>3, <4>1 DEF NewAuditID
      <4>2. ASSUME NEW w \in Writers, Load(w) \/ Grow(w) \/ Store(w) \/ Fill(w)
            PROVE  step'[v] = "fill" /\ p \notin unwritten'[v] /\ entry'[v] = entry[v]
        BY <1>0, <1>3, <4>2 DEF Load, Grow, Store, Fill
      <4>3. ASSUME NEW w \in Writers, Return(w)
            PROVE  step'[v] = "fill" /\ p \notin unwritten'[v] /\ entry'[v] = entry[v]
        BY <1>0, <1>3, <2>2, <4>3 DEF Return
      <4>4. CASE UNCHANGED auditVars
        BY <1>3, <4>4 DEF auditVars
      <4>5. QED
        BY <4>1, <4>2, <4>3, <4>4 DEF AuditNext, AppendStep
    <3>2. QED
      BY <1>3, <3>1 DEF Writing
  <2>3. QED
    BY <2>1, <2>2
<1>4. QED
  BY <1>2, <1>3 DEF Writing

\* The slots after a Grow are slots of before, each at its place, and blanks.
LEMMA GrowSlots ==
  ASSUME AuditTypeOK, HeadersWellFormed, NEW w \in Writers, Grow(w),
         NEW k \in DOMAIN heap', NEW i \in DOMAIN heap'[k]
  PROVE  \/ heap'[k][i] = Blank
         \/ k \in DOMAIN heap /\ i \in DOMAIN heap[k] /\ heap'[k][i] = heap[k][i]
         \/ /\ local[w].ptr \in DOMAIN heap /\ i \in DOMAIN heap[local[w].ptr]
            /\ heap'[k][i] = heap[local[w].ptr][i]
<1> DEFINE cap  == NewCap(local[w])
           copy == [j \in 1..cap |-> IF j <= local[w].len THEN SlotAt(local[w], j) ELSE Blank]
<1>1. heap' = Append(heap, copy) /\ heap \in Seq(Seq(Slot))
  BY DEF Grow, AuditTypeOK
<1>2. cap \in Nat
  BY GrowHeap
<1>3. (k \in DOMAIN heap /\ heap'[k] = heap[k]) \/ heap'[k] = copy
  <2> HIDE DEF copy
  <2>1. QED
    BY <1>1
<1>4. CASE heap'[k] = copy
  <2>1. i \in 1..cap
    BY <1>4
  <2>2. CASE i <= local[w].len /\ local[w].ptr # 0 /\ i <= Len(heap[local[w].ptr])
    <3>1. heap'[k][i] = heap[local[w].ptr][i]
      BY <1>4, <2>1, <2>2 DEF SlotAt
    <3>2. local[w].ptr \in 1..Len(heap)
      BY <2>2 DEF HeadersWellFormed, WellFormed
    <3> HIDE DEF cap, copy
    <3>3. heap[local[w].ptr] \in Seq(Slot)
      BY <1>1, <3>2
    <3>4. i \in DOMAIN heap[local[w].ptr]
      BY <1>2, <2>1, <2>2, <3>3
    <3>5. QED
      BY <1>1, <3>1, <3>2, <3>4
  <2>3. CASE ~(i <= local[w].len /\ local[w].ptr # 0 /\ i <= Len(heap[local[w].ptr]))
    BY <1>4, <2>1, <2>3 DEF SlotAt
  <2>4. QED
    BY <2>2, <2>3
<1>5. QED
  BY <1>3, <1>4

\* The slots after a Fill are those of before, one of them with a part written.
LEMMA FillSlots ==
  ASSUME AuditTypeOK, NEW w \in Writers, NEW q \in Parts, Filled(w, q),
         NEW k \in DOMAIN heap', NEW i \in DOMAIN heap'[k]
  PROVE  /\ k \in DOMAIN heap /\ i \in DOMAIN heap[k] /\ heap[k][i] \in Slot
         /\ heap'[k][i] = IF k = local[w].ptr /\ i = local[w].len + 1
                          THEN Stored(heap[k][i], q, entry[w]) ELSE heap[k][i]
<1>1. heap \in Seq(Seq(Slot)) /\ heap' \in Seq(Seq(Slot))
  BY DEF AuditTypeOK, Filled
<1>2. k \in 1..Len(heap)
  BY <1>1 DEF Filled
<1>3. heap'[k] \in Seq(Slot) /\ heap[k] \in Seq(Slot)
  BY <1>1, <1>2 DEF Filled
<1>4. i \in 1..Len(heap[k])
  BY <1>2, <1>3 DEF Filled
<1>5. QED
  BY <1>1, <1>2, <1>3, <1>4 DEF Filled

\* A part that is blank or some append's own
Given(slot, p) == Agrees(slot, Blank, p) \/ \E e \in Writing(p) : Agrees(slot, e, p)

LEMMA SlotsStep ==
  ASSUME AuditInv, SlotsAppended, [AuditNext]_auditVars
  PROVE  SlotsAppended'
<1> USE DEF AuditInv
<1>1. ASSUME NEW x, NEW p \in Parts, Given(x, p)
      PROVE  Given(x, p)'
  BY <1>1, WritingGrows DEF Given
<1>2. ASSUME NEW k \in DOMAIN heap, NEW i \in DOMAIN heap[k], NEW p \in Parts
      PROVE  Given(heap[k][i], p)
  BY <1>2 DEF SlotsAppended, Given
<1>3. SUFFICES ASSUME NEW k \in DOMAIN heap', NEW i \in DOMAIN heap'[k], NEW p \in Parts,
                      NEW x, x = heap'[k][i]
               PROVE  Given(x, p)'
  BY DEF SlotsAppended, Given
<1>4. CASE heap' = heap
  BY <1>1, <1>2, <1>3, <1>4
<1>5. ASSUME NEW w \in Writers, Grow(w)
      PROVE  Given(x, p)'
  <2>1. Given(Blank, p)
    BY DEF Given, Agrees
  <2>2. Given(x, p)
    BY <1>2, <1>3, <1>5, <2>1, GrowSlots
  <2>3. QED
    BY <1>1, <2>2
<1>6. ASSUME NEW w \in Writers, Fill(w)
      PROVE  Given(x, p)'
  <2>1. PICK q \in Parts : Filled(w, q)
    BY <1>6, FillHeap
  <2>2. /\ k \in DOMAIN heap /\ i \in DOMAIN heap[k] /\ heap[k][i] \in Slot
        /\ x = heap[k][i] \/ x = Stored(heap[k][i], q, entry[w])
    BY <1>3, <2>1, FillSlots
  <2>3. entry[w] \in Entry /\ step'[w] = "fill" /\ entry' = entry /\ step[w] = "fill"
    BY <1>6 DEF Fill, AuditTypeOK
  <2>4. CASE x = heap[k][i]
    BY <1>1, <1>2, <2>2, <2>4
  <2>5. CASE x = Stored(heap[k][i], q, entry[w]) /\ p # q
    <3>1. Given(heap[k][i], p)
      BY <1>2, <2>2
    <3>2. Given(x, p)
      BY <2>2, <2>3, <2>5, <3>1, StoredPart DEF Given
    <3>3. QED
      BY <1>1, <3>2
  <2>6. CASE x = Stored(heap[k][i], q, entry[w]) /\ p = q
    <3>1. PICK e : e = entry[w]
      OBVIOUS
    <3>2. Agrees(x, e, p)
      BY <2>2, <2>3, <2>6, <3>1, StoredPart
    <3>3. q \notin unwritten'[w]
      BY <2>1 DEF Filled, AuditTypeOK
    <3>4. e \in Writing(p)'
      BY <2>3, <2>6, <3>1, <3>3 DEF Writing
    <3>5. QED
      BY <3>2, <3>4 DEF Given
  <2>7. QED
    BY <2>2, <2>4, <2>5, <2>6
<1>7. QED
  BY <1>4, <1>5, <1>6 DEF AuditNext, AppendStep, NewAuditID, Load, Store, Return, auditVars

\* Whatever the appends overwrite, cut off, mix or abandon, each part of each slot of the log
\* is blank or was written there by an append, as its entry has it (audit.go:38).
THEOREM LogHoldsAppended == AuditSpec => []SlotsAppended
<1>1. AuditInit => SlotsAppended
  BY DEF AuditInit, SlotsAppended
<1>2. AuditInv /\ SlotsAppended /\ [AuditNext]_auditVars => SlotsAppended'
  BY SlotsStep
<1>3. QED
  BY <1>1, <1>2, AuditInvariant, PTL DEF AuditSpec

-----------------------------------------------------------------------------
PlacedInv == IdsPlaced /\ UncontendedPlaced

\* No slot has an identifier that has not been drawn.
LEMMA HeapIds ==
  ASSUME AuditTypeOK, SlotsAppended, IdsDrawn,
         NEW k \in DOMAIN heap, NEW i \in DOMAIN heap[k]
  PROVE  heap[k][i].id \in 0..seq
<1>1. seq \in Nat
  BY MaxAppendsAssumption DEF AuditTypeOK
<1>2. Agrees(heap[k][i], Blank, "id") \/ \E e \in Writing("id") : Agrees(heap[k][i], e, "id")
  BY EntryIsSlot DEF SlotsAppended
<1>3. \A e \in Writing("id") : e.id \in 1..seq
  BY DEF Writing, IdsDrawn
<1>4. QED
  BY <1>1, <1>2, <1>3 DEF Agrees, Blank

LEMMA IdsPlacedStep ==
  ASSUME AuditInv, SlotsAppended, IdInv, IdsPlaced, [AuditNext]_auditVars
  PROVE  IdsPlaced'
<1> USE DEF AuditInv, IdInv
<1>0. /\ step \in [Writers -> Steps] /\ unwritten \in [Writers -> SUBSET Parts]
      /\ entry \in [Writers -> Entry \cup {Blank}] /\ local \in [Writers -> Header]
      /\ contended \in [Writers -> BOOLEAN] /\ seq \in Nat
      /\ \A w \in Writers : step[w] # "idle" => entry[w] \in Entry /\ entry[w].id \in 1..seq
  BY MaxAppendsAssumption DEF AuditTypeOK, IdsDrawn
<1>1. SUFFICES ASSUME NEW v \in Writers, step'[v] # "idle",
                      NEW k \in DOMAIN heap', NEW i \in DOMAIN heap'[k],
                      heap'[k][i].id = entry'[v].id
               PROVE  /\ step'[v] = "fill" /\ "id" \notin unwritten'[v]
                      /\ ~contended'[v] => k = local'[v].ptr /\ i = local'[v].len + 1
  BY DEF IdsPlaced
<1> DEFINE Goal == /\ step'[v] = "fill" /\ "id" \notin unwritten'[v]
                   /\ ~contended'[v] => k = local'[v].ptr /\ i = local'[v].len + 1
\* what the invariant says of a slot of before
<1>2. ASSUME step[v] # "idle", NEW k0 \in DOMAIN heap, NEW i0 \in DOMAIN heap[k0],
             heap[k0][i0].id = entry[v].id
      PROVE  /\ step[v] = "fill" /\ "id" \notin unwritten[v]
             /\ ~contended[v] => k0 = local[v].ptr /\ i0 = local[v].len + 1
  BY <1>2 DEF IdsPlaced
<1>3. ASSUME NEW w \in Writers, NEW q \in Payloads, NewAuditID(w, q)
      PROVE  Goal
  <2>1. /\ heap' = heap /\ unwritten' = unwritten /\ contended' = contended /\ local' = local
        /\ entry' = [entry EXCEPT ![w] = [id |-> seq + 1, payload |-> q]]
        /\ step' = [step EXCEPT ![w] = "load"]
    BY <1>3 DEF NewAuditID
  <2>2. heap[k][i].id \in 0..seq
    BY <1>1, <2>1, HeapIds
  <2>3. v # w
    BY <1>0, <1>1, <2>1, <2>2
  <2>4. QED
    BY <1>0, <1>1, <1>2, <2>1, <2>3
<1>4. ASSUME NEW w \in Writers, Load(w)
      PROVE  Goal
  <2>1. /\ heap' = heap /\ unwritten' = unwritten /\ entry' = entry /\ step[w] = "load"
        /\ \A x \in Writers \ {w} : /\ step'[x] = step[x] /\ local'[x] = local[x]
                                    /\ contended[x] => contended'[x]
    BY <1>0, <1>4 DEF Load
  <2>2. step[v] # "idle"
    BY <1>1, <2>1
  <2>3. step[v] = "fill" /\ v # w
    BY <1>1, <1>2, <2>1, <2>2
  <2>4. QED
    BY <1>0, <1>1, <1>2, <2>1, <2>2, <2>3
<1>5. ASSUME NEW w \in Writers, Grow(w)
      PROVE  Goal
  <2>1. /\ unwritten' = unwritten /\ entry' = entry /\ step[w] = "grow" /\ contended' = contended
        /\ \A x \in Writers \ {w} : step'[x] = step[x] /\ local'[x] = local[x]
    BY <1>0, <1>5 DEF Grow
  <2>2. step[v] # "idle" /\ entry[v].id \in 1..seq
    BY <1>0, <1>1, <2>1
  <2>3. heap'[k][i] # Blank
    <3>1. heap'[k][i].id = entry[v].id /\ seq \in Nat
      BY <1>1, <2>1, MaxAppendsAssumption DEF AuditTypeOK
    <3>2. heap'[k][i].id # 0
      BY <2>2, <3>1
    <3>3. QED
      BY <3>2, EntryIsSlot
  <2>4. CASE k \in DOMAIN heap /\ i \in DOMAIN heap[k] /\ heap'[k][i] = heap[k][i]
    <3>1. step[v] = "fill" /\ v # w
      BY <1>1, <1>2, <2>1, <2>2, <2>4
    <3>2. QED
      BY <1>1, <1>2, <2>1, <2>2, <2>4, <3>1
  <2>5. CASE /\ local[w].ptr \in DOMAIN heap /\ i \in DOMAIN heap[local[w].ptr]
             /\ heap'[k][i] = heap[local[w].ptr][i]
    <3>1. step[v] = "fill" /\ v # w /\ "id" \notin unwritten[v]
      BY <1>1, <1>2, <2>1, <2>2, <2>5
    <3>2. contended[v]
      BY <1>0, <2>1, <3>1 DEF UncontendedAlone, InAppend
    <3>3. QED
      BY <2>1, <3>1, <3>2
  <2>6. QED
    BY <1>1, <1>5, <2>3, <2>4, <2>5, GrowSlots
<1>6. ASSUME NEW w \in Writers, Store(w)
      PROVE  Goal
  <2>1. /\ heap' = heap /\ entry' = entry /\ step[w] = "store" /\ contended' = contended
        /\ local' = local
        /\ \A x \in Writers \ {w} : step'[x] = step[x] /\ unwritten'[x] = unwritten[x]
    BY <1>0, <1>6 DEF Store
  <2>2. step[v] # "idle"
    BY <1>1, <2>1
  <2>3. step[v] = "fill" /\ v # w
    BY <1>1, <1>2, <2>1, <2>2
  <2>4. QED
    BY <1>1, <1>2, <2>1, <2>2, <2>3
<1>7. ASSUME NEW w \in Writers, Fill(w)
      PROVE  Goal
  <2>1. PICK q \in Parts : Filled(w, q)
    BY <1>7, FillHeap
  <2>2. /\ entry' = entry /\ step' = step /\ contended' = contended /\ local' = local
        /\ step[w] = "fill" /\ step[v] # "idle"
        /\ unwritten' = [unwritten EXCEPT ![w] = unwritten[w] \ {q}]
    BY <1>1, <1>7, <2>1 DEF Fill, Filled
  <2>3. /\ k \in DOMAIN heap /\ i \in DOMAIN heap[k] /\ heap[k][i] \in Slot
        /\ heap'[k][i] = IF k = local[w].ptr /\ i = local[w].len + 1
                         THEN Stored(heap[k][i], q, entry[w]) ELSE heap[k][i]
    BY <1>1, <2>1, FillSlots
  <2>4. CASE heap[k][i].id = entry[v].id
    <3>1. /\ step[v] = "fill" /\ "id" \notin unwritten[v]
          /\ ~contended[v] => k = local[v].ptr /\ i = local[v].len + 1
      BY <1>2, <2>2, <2>3, <2>4
    <3>2. "id" \notin unwritten'[v]
      BY <1>0, <2>2, <3>1
    <3>3. QED
      BY <2>2, <3>1, <3>2
  <2>5. CASE heap[k][i].id # entry[v].id
    <3>1. /\ k = local[w].ptr /\ i = local[w].len + 1
          /\ heap'[k][i] = Stored(heap[k][i], q, entry[w])
      BY <1>1, <2>2, <2>3, <2>5
    <3>2. q = "id" /\ entry[w].id = entry[v].id
      BY <1>0, <1>1, <2>2, <2>3, <2>5, <3>1, StoredId
    <3>3. v = w
      BY <2>2, <3>2 DEF AuditIdsUnique
    <3>4. QED
      BY <1>0, <2>2, <3>1, <3>2, <3>3
  <2>6. QED
    BY <2>4, <2>5
<1>8. ASSUME NEW w \in Writers, Return(w)
      PROVE  Goal
  BY <1>0, <1>1, <1>2, <1>8 DEF Return
<1>9. CASE UNCHANGED auditVars
  BY <1>1, <1>2, <1>9 DEF auditVars
<1>10. QED
  BY <1>3, <1>4, <1>5, <1>6, <1>7, <1>8, <1>9 DEF AuditNext, AppendStep

\* Entry e has place i and no other: it is anchored there and every slot with its
\* identifier is a copy at that place.
Placed(e, i) ==
  /\ Anchored(e, i)
  /\ \A k \in DOMAIN heap : \A j \in DOMAIN heap[k] :
       heap[k][j].id = e.id => j = i /\ heap[k][j] = e

LEMMA PlacedKept ==
  ASSUME AuditInv, IdInv, [AuditNext]_auditVars, NEW a \in appended,
         NEW e, e = a.entry, NEW i \in Nat, Placed(e, i)
  PROVE  Placed(e, i)'
<1> USE DEF AuditInv, IdInv
<1>1. Anchored(e, i)'
  BY AnchoredStep DEF Placed
<1>2. SUFFICES ASSUME NEW k \in DOMAIN heap', NEW j \in DOMAIN heap'[k], heap'[k][j].id = e.id
               PROVE  j = i /\ heap'[k][j] = e
  BY <1>1 DEF Placed
<1>3. e.id # 0
  <2>1. e.id \in 1..seq /\ seq \in Nat
    BY MaxAppendsAssumption DEF IdsDrawn, AuditTypeOK
  <2>2. QED
    BY <2>1
<1>4. CASE heap' = heap
  BY <1>2, <1>4 DEF Placed
<1>5. ASSUME NEW w \in Writers, Grow(w)
      PROVE  j = i /\ heap'[k][j] = e
  <2>1. heap'[k][j] # Blank
    BY <1>2, <1>3, EntryIsSlot
  <2>2. QED
    BY <1>2, <1>5, <2>1, GrowSlots DEF Placed
<1>6. ASSUME NEW w \in Writers, Fill(w)
      PROVE  j = i /\ heap'[k][j] = e
  <2>1. PICK q \in Parts : Filled(w, q)
    BY <1>6, FillHeap
  <2>2. /\ k \in DOMAIN heap /\ j \in DOMAIN heap[k] /\ heap[k][j] \in Slot
        /\ heap'[k][j] = IF k = local[w].ptr /\ j = local[w].len + 1
                         THEN Stored(heap[k][j], q, entry[w]) ELSE heap[k][j]
    BY <1>2, <2>1, FillSlots
  <2>3. /\ step[w] = "fill" /\ entry[w] \in Entry /\ entry[w].id # e.id
        /\ i <= local[w].len /\ local[w].len \in Nat
    BY <1>6 DEF Fill, AuditTypeOK, Header, AuditIdsUnique, Placed, Anchored, InAppend
  <2>4. CASE heap'[k][j] = heap[k][j]
    BY <1>2, <2>2, <2>4 DEF Placed
  <2>5. CASE heap'[k][j] # heap[k][j]
    <3>1. j = local[w].len + 1 /\ heap'[k][j] = Stored(heap[k][j], q, entry[w])
      BY <2>2, <2>5
    <3>2. heap[k][j].id = e.id
      BY <1>2, <2>2, <2>3, <3>1, StoredId
    <3>3. j = i
      BY <2>2, <3>2 DEF Placed
    <3>4. QED
      BY <2>3, <3>1, <3>3
  <2>6. QED
    BY <2>4, <2>5
<1>7. QED
  BY <1>4, <1>5, <1>6 DEF AuditNext, AppendStep, NewAuditID, Load, Store, Return, auditVars

LEMMA PlacedStep ==
  ASSUME AuditInv, SlotsAppended, IdInv, PlacedInv, [AuditNext]_auditVars
  PROVE  PlacedInv'
<1>1. IdsPlaced'
  BY IdsPlacedStep DEF PlacedInv
<1>2. ASSUME NEW a \in appended', ~a.contended
      PROVE  \E i \in 1..slice'.len : Placed(a.entry, i)'
  <2>1. CASE a \in appended
    <3>1. PICK i \in 1..slice.len : Placed(a.entry, i)
      BY <1>2, <2>1 DEF PlacedInv, UncontendedPlaced, Placed
    <3>2. i \in Nat
      OBVIOUS
    <3>3. PICK e : e = a.entry
      OBVIOUS
    <3>4. Placed(e, i)'
      BY <2>1, <3>1, <3>2, <3>3, PlacedKept
    <3>5. i \in 1..slice'.len
      BY <3>4 DEF Placed, Anchored
    <3>6. QED
      BY <3>3, <3>4, <3>5
  <2>2. CASE a \notin appended
    <3>1. PICK w \in Writers : Return(w)
      BY <1>2, <2>2 DEF AuditNext, AppendStep, NewAuditID, Load, Grow, Store, Fill, auditVars
    <3>2. a = [entry |-> entry[w], contended |-> contended[w]]
      BY <1>2, <2>2, <3>1 DEF Return
    <3>3. a.entry = entry[w] /\ ~contended[w]
      BY <1>2, <3>2
    <3>4. PICK e : e = entry[w]
      OBVIOUS
    <3>5. PICK i \in 1..slice'.len : i = local[w].len + 1 /\ Anchored(e, i)'
      BY <3>1, <3>3, <3>4, ReturnAnchors DEF AuditInv
    <3>6. /\ SlotAt(local[w], i) = e
          /\ local[w].ptr # 0 /\ i <= Len(heap[local[w].ptr])
      <4>1. /\ SlotAt(local[w], local[w].len + 1) = entry[w]
            /\ local[w].ptr \in 1..Len(heap) /\ local[w].len \in Nat
            /\ local[w].len + 1 \in 1..Len(heap[local[w].ptr])
        BY <3>1, <3>3, ReturnWhole DEF AuditInv
      <4>2. QED
        BY <3>4, <3>5, <4>1
    <3>7. heap[local[w].ptr][i] = e
      BY <3>6 DEF SlotAt
    <3>8. heap' = heap /\ step[w] # "idle"
      BY <3>1 DEF Return
    <3>9. \A k \in DOMAIN heap : \A j \in DOMAIN heap[k] :
            heap[k][j].id = e.id => j = i /\ heap[k][j] = e
      BY <3>3, <3>4, <3>5, <3>7, <3>8 DEF PlacedInv, IdsPlaced
    <3>10. Placed(e, i)'
      BY <3>5, <3>8, <3>9 DEF Placed
    <3>11. QED
      BY <3>3, <3>4, <3>5, <3>10
  <2>3. QED
    BY <2>1, <2>2
<1>3. UncontendedPlaced'
  BY <1>2 DEF UncontendedPlaced, Placed
<1>4. QED
  BY <1>1, <1>3 DEF PlacedInv

\* An entry whose append met no other is whole wherever the log has its identifier: the
\* writes of later appends, and of those that overlap each other, go elsewhere.
THEOREM UncontendedWhole == AuditSpec => []UncontendedEntryWhole
<1>1. AuditInit => PlacedInv
  BY DEF AuditInit, PlacedInv, IdsPlaced, UncontendedPlaced
<1>2. AuditInv /\ SlotsAppended /\ IdInv /\ PlacedInv /\ [AuditNext]_auditVars => PlacedInv'
  BY PlacedStep
<1>3. AuditInv /\ IdInv /\ PlacedInv => UncontendedEntryWhole
  <2>1. SUFFICES ASSUME AuditInv, IdInv, PlacedInv, NEW a \in appended, ~a.contended,
                        NEW i \in DOMAIN Entries, Entries[i].id = a.entry.id
                 PROVE  Entries[i] = a.entry
    BY DEF UncontendedEntryWhole
  <2>2. /\ i \in 1..slice.len /\ slice.len \in Nat /\ Entries[i] = SlotAt(slice, i)
    <3>1. slice \in Header
      BY <2>1 DEF AuditInv, AuditTypeOK
    <3>2. QED
      BY <2>1, <3>1 DEF Entries, Header
  <2>3. Entries[i].id # 0
    <3>1. a.entry.id \in 1..seq /\ seq \in Nat
      BY <2>1, MaxAppendsAssumption DEF IdInv, IdsDrawn, AuditInv, AuditTypeOK
    <3>2. QED
      BY <2>1, <3>1
  <2>4. /\ slice.ptr # 0 /\ i <= Len(heap[slice.ptr]) /\ Entries[i] = heap[slice.ptr][i]
    BY <2>2, <2>3, EntryIsSlot DEF SlotAt
  <2>5. slice.ptr \in 1..Len(heap)
    BY <2>1, <2>4 DEF AuditInv, HeadersWellFormed, WellFormed
  <2>6. slice.ptr \in DOMAIN heap /\ i \in DOMAIN heap[slice.ptr]
    <3>1. heap \in Seq(Seq(Slot))
      BY <2>1 DEF AuditInv, AuditTypeOK
    <3>2. heap[slice.ptr] \in Seq(Slot)
      BY <2>5, <3>1
    <3>3. QED
      BY <2>2, <2>4, <2>5, <3>1, <3>2
  <2>7. QED
    BY <2>1, <2>4, <2>6 DEF PlacedInv, UncontendedPlaced
<1>4. QED
  BY <1>1, <1>2, <1>3, AuditInvariant, LogHoldsAppended, IdInvariant, PTL DEF AuditSpec

-----------------------------------------------------------------------------
\* What a reader sees: the written slots, in order.
View == [i \in 1..Written |-> SlotAt(slice, i)]

ViewPublished == Written \in Nat /\ Published = View

\* An uncontended entry is whole in its slot once its last part is written.
WholeWritten ==
  \A w \in Writers : step[w] = "fill" /\ unwritten[w] = {} /\ ~contended[w] =>
    SlotAt(local[w], local[w].len + 1) = entry[w]

\* A lone writer's append still has its entry to write.
AtWork(w) == step[w] = "fill" /\ unwritten[w] # {}

\* Of a lone writer the existential quantifiers of SerialInv speak of that writer.
LEMMA LoneWriter ==
  ASSUME OneWriter, AuditInv, SerialInv, NEW w \in Writers
  PROVE  /\ Written = slice.len - (IF AtWork(w) THEN 1 ELSE 0)
         /\ seq = Written + (IF Unpublished(w) THEN 1 ELSE 0)
         /\ Written \in Nat /\ Written <= slice.len
         /\ InAppend(w) => /\ slice.ptr = local[w].ptr /\ slice.cap = local[w].cap
                           /\ slice.len = local[w].len + (IF step[w] = "fill" THEN 1 ELSE 0)
         /\ slice \in Header /\ local[w] \in Header
<1>1. \A v \in Writers : v = w
  BY DEF OneWriter
<1>2. /\ (\E v \in Writers : step[v] = "fill" /\ unwritten[v] # {}) <=> AtWork(w)
      /\ (\E v \in Writers : Unpublished(v)) <=> Unpublished(w)
  BY <1>1 DEF AtWork
<1>3. Written = slice.len - (IF AtWork(w) THEN 1 ELSE 0)
  BY <1>2 DEF Written
<1>4. seq = Written + (IF Unpublished(w) THEN 1 ELSE 0)
  BY <1>2 DEF SerialInv, NumberedInOrder
<1>5. /\ slice \in Header /\ local[w] \in Header
      /\ slice.len \in Nat /\ local[w].len \in Nat
  BY DEF AuditInv, AuditTypeOK, Header
<1>6. InAppend(w) => /\ slice.ptr = local[w].ptr /\ slice.cap = local[w].cap
                     /\ slice.len = local[w].len + (IF step[w] = "fill" THEN 1 ELSE 0)
  BY DEF AuditInv, UncontendedAlone, SerialInv, NoneContended
<1>7. AtWork(w) => InAppend(w) /\ step[w] = "fill"
  BY DEF InAppend, AtWork
<1>8. QED
  BY <1>3, <1>4, <1>5, <1>6, <1>7

LEMMA PublishedIsView ==
  ASSUME AuditInv, Written \in Nat, Written <= slice.len
  PROVE  ViewPublished
<1>1. slice.len \in Nat
  BY DEF AuditInv, AuditTypeOK, Header
<1>2. \A i \in 1..Written : Entries[i] = SlotAt(slice, i)
  BY <1>1 DEF Entries
<1>3. QED
  BY <1>2 DEF ViewPublished, View, Published

\* Without a writer nothing is ever written.
LEMMA SerialView ==
  ASSUME OneWriter, AuditInv, SerialInv
  PROVE  ViewPublished
<1>1. CASE \E w \in Writers : TRUE
  BY <1>1, LoneWriter, PublishedIsView
<1>2. CASE ~ \E w \in Writers : TRUE
  <2>1. slice.len \in Nat
    BY DEF AuditInv, AuditTypeOK, Header
  <2>2. Written = slice.len
    BY <1>2, <2>1 DEF Written
  <2>3. QED
    BY <2>1, <2>2, PublishedIsView
<1>3. QED
  BY <1>1, <1>2

LEMMA WrittenWhole ==
  ASSUME AuditInv
  PROVE  WholeWritten
<1>1. SUFFICES ASSUME NEW w \in Writers, step[w] = "fill", unwritten[w] = {}, ~contended[w]
               PROVE  SlotAt(local[w], local[w].len + 1) = entry[w]
  BY DEF WholeWritten
<1>2. /\ local[w] \in Header /\ WellFormed(local[w]) /\ local[w].len < local[w].cap
      /\ entry[w] \in Entry
  BY <1>1 DEF AuditInv, HeadersWellFormed, AuditTypeOK
<1>3. local[w].len + 1 \in Nat /\ local[w].len + 1 >= 1
  BY <1>2 DEF Header
<1>4. SlotAt(local[w], local[w].len + 1) \in Slot
  BY <1>2, <1>3, SlotType DEF AuditInv
<1>5. \A p \in Parts : Agrees(SlotAt(local[w], local[w].len + 1), entry[w], p)
  BY <1>1 DEF AuditInv, UncontendedWrites
<1>6. QED
  BY <1>2, <1>4, <1>5, WholeSlot

LEMMA NoneContendedStep ==
  ASSUME OneWriter, AuditInv, NoneContended, [AuditNext]_auditVars
  PROVE  NoneContended'
<1> USE DEF NoneContended
<1>1. ASSUME NEW w \in Writers, Load(w)
      PROVE  NoneContended'
  <2>1. \A v \in Writers : v = w /\ ~InAppend(v)
    BY <1>1 DEF OneWriter, Load, InAppend
  <2>2. contended' = [v \in Writers |-> FALSE] /\ appended' = appended
    BY <1>1, <2>1 DEF Load
  <2>3. QED
    BY <2>2
<1>2. ASSUME NEW w \in Writers, Return(w)
      PROVE  NoneContended'
  <2>1. /\ contended' = [contended EXCEPT ![w] = FALSE] /\ contended \in [Writers -> BOOLEAN]
        /\ \A a \in appended' : a \in appended \/ a.contended = contended[w]
    BY <1>2 DEF Return, AuditInv, AuditTypeOK
  <2>2. QED
    BY <2>1
<1>3. ASSUME contended' = contended, appended' = appended
      PROVE  NoneContended'
  BY <1>3
<1>4. QED
  BY <1>1, <1>2, <1>3 DEF AuditNext, AppendStep, NewAuditID, Grow, Store, Fill, auditVars

\* How a step of a lone writer changes what a reader sees: not at all, but for the
\* last Fill, which shows the entry in the next slot.
SameView ==
  /\ Written' = Written
  /\ \A i \in 1..Written : SlotAt(slice, i)' = SlotAt(slice, i)

\* The counters of the next state, of a lone writer
LEMMA LoneNext ==
  ASSUME OneWriter, NEW w \in Writers
  PROVE  /\ Written' = slice'.len - (IF AtWork(w)' THEN 1 ELSE 0)
         /\ NumberedInOrder' <=>
              /\ step'[w] # "idle" => entry'[w].id = seq'
              /\ seq' = Written' + (IF Unpublished(w)' THEN 1 ELSE 0)
<1>1. \A v \in Writers : v = w
  BY DEF OneWriter
<1>2. /\ (\E v \in Writers : step'[v] = "fill" /\ unwritten'[v] # {}) <=> AtWork(w)'
      /\ (\E v \in Writers : Unpublished(v)') <=> Unpublished(w)'
  BY <1>1 DEF AtWork
<1>3. Written' = slice'.len - (IF AtWork(w)' THEN 1 ELSE 0)
  BY <1>2 DEF Written
<1>4. (\A v \in Writers : step'[v] # "idle" => entry'[v].id = seq')
        <=> (step'[w] # "idle" => entry'[w].id = seq')
  BY <1>1
<1>5. QED
  BY <1>2, <1>3, <1>4 DEF NumberedInOrder

LEMMA StutterSteps ==
  ASSUME OneWriter, AuditInv, SerialInv, NEW w \in Writers,
         (\E p \in Payloads : NewAuditID(w, p)) \/ Load(w) \/ Grow(w) \/ Store(w) \/ Return(w)
  PROVE  SameView /\ NumberedInOrder'
<1> USE DEF SameView
<1>0. /\ Written = slice.len - (IF AtWork(w) THEN 1 ELSE 0)
      /\ seq = Written + (IF Unpublished(w) THEN 1 ELSE 0)
      /\ Written \in Nat /\ seq \in Nat
      /\ InAppend(w) => /\ slice.ptr = local[w].ptr /\ slice.cap = local[w].cap
                        /\ slice.len = local[w].len + (IF step[w] = "fill" THEN 1 ELSE 0)
      /\ slice.len \in Nat /\ local[w].len \in Nat
      /\ step \in [Writers -> Steps] /\ entry \in [Writers -> Entry \cup {Blank}]
      /\ local \in [Writers -> Header]
      /\ unwritten \in [Writers -> SUBSET Parts]
      /\ heap \in Seq(Seq(Slot))
  BY LoneWriter, MaxAppendsAssumption DEF Header, AuditInv, AuditTypeOK
<1>1. /\ Written' = slice'.len - (IF AtWork(w)' THEN 1 ELSE 0)
      /\ NumberedInOrder' <=>
           /\ step'[w] # "idle" => entry'[w].id = seq'
           /\ seq' = Written' + (IF Unpublished(w)' THEN 1 ELSE 0)
  BY LoneNext
<1>2. step[w] # "idle" => entry[w].id = seq
  BY DEF SerialInv, NumberedInOrder
<1>4. ASSUME NEW p \in Payloads, NewAuditID(w, p)
      PROVE  SameView /\ NumberedInOrder'
  <2>1. /\ slice' = slice /\ heap' = heap /\ seq' = seq + 1
        /\ step[w] = "idle" /\ step'[w] = "load" /\ entry'[w].id = seq + 1
    BY <1>0, <1>4 DEF NewAuditID
  <2>2. ~AtWork(w) /\ ~AtWork(w)' /\ ~Unpublished(w) /\ Unpublished(w)'
    BY <2>1 DEF AtWork, Unpublished
  <2>3. SameView
    BY <1>0, <1>1, <2>1, <2>2 DEF SlotAt
  <2>4. QED
    BY <1>0, <1>1, <2>1, <2>2, <2>3
<1>5. CASE Load(w)
  <2>1. /\ slice' = slice /\ heap' = heap /\ seq' = seq /\ entry' = entry
        /\ step[w] = "load" /\ step'[w] \in {"grow", "store"}
    BY <1>0, <1>5 DEF Load
  <2>2. ~AtWork(w) /\ ~AtWork(w)' /\ Unpublished(w) /\ Unpublished(w)'
    BY <2>1 DEF AtWork, Unpublished
  <2>3. SameView
    BY <1>0, <1>1, <2>1, <2>2 DEF SlotAt
  <2>4. QED
    BY <1>0, <1>1, <1>2, <2>1, <2>2, <2>3
<1>6. CASE Grow(w)
  <2> DEFINE cap  == NewCap(local[w])
             copy == [i \in 1..cap |->
                        IF i <= local[w].len THEN SlotAt(local[w], i) ELSE Blank]
  <2>1. /\ heap' = Append(heap, copy)
        /\ slice' = [ptr |-> Len(heap) + 1, len |-> slice.len, cap |-> cap]
        /\ seq' = seq /\ entry' = entry
        /\ step[w] = "grow" /\ step'[w] = "store"
    BY <1>0, <1>6 DEF Grow
  <2>2. ~AtWork(w) /\ ~AtWork(w)' /\ Unpublished(w) /\ Unpublished(w)'
    BY <2>1 DEF AtWork, Unpublished
  <2>3. /\ local[w].len = Written /\ local[w].ptr = slice.ptr /\ Written = slice.len
    BY <1>0, <2>1, <2>2 DEF InAppend
  <2>4. cap \in Nat /\ Written < cap
    BY <1>6, <2>3, GrowHeap DEF AuditInv
  <2>5. /\ heap' \in Seq(Seq(Slot)) /\ Len(heap') = Len(heap) + 1
        /\ heap'[Len(heap) + 1] = copy
    BY <1>0, <1>6, <2>1, GrowHeap DEF AuditInv
  <2>6. \A i \in 1..cap : copy[i] = IF i <= Written THEN SlotAt(slice, i) ELSE Blank
    BY <2>3 DEF SlotAt
  <2>7. DOMAIN copy = 1..cap /\ Len(copy) = cap
    BY <2>4
  <2> HIDE DEF cap, copy
  <2>8. \A i \in 1..cap : SlotAt(slice, i)' = copy[i]
    BY <1>0, <2>1, <2>4, <2>5, <2>7 DEF SlotAt
  <2>9. Written' = Written
    BY <1>0, <1>1, <2>1, <2>2, <2>3
  <2>10. SameView
    <3>1. ASSUME NEW i \in 1..Written
          PROVE  SlotAt(slice, i)' = SlotAt(slice, i)
      <4>1. i \in 1..cap /\ i <= Written
        BY <1>0, <2>3, <2>4 DEF Header
      <4>2. QED
        BY <2>6, <2>8, <4>1
    <3>2. QED
      BY <2>9, <3>1 DEF SameView
  <2>11. QED
    BY <1>0, <1>1, <1>2, <2>1, <2>2, <2>9, <2>10
<1>7. CASE Store(w)
  <2>1. /\ slice' = [ptr |-> slice.ptr, len |-> local[w].len + 1, cap |-> slice.cap]
        /\ heap' = heap /\ seq' = seq /\ entry' = entry
        /\ step[w] = "store" /\ step'[w] = "fill" /\ unwritten'[w] = Parts
    BY <1>0, <1>7 DEF Store
  <2>2. ~AtWork(w) /\ AtWork(w)' /\ Unpublished(w) /\ Unpublished(w)'
    BY <2>1, EntryIsSlot DEF AtWork, Unpublished
  <2>3. Written' = Written
    BY <1>0, <1>1, <2>1, <2>2 DEF InAppend
  <2>4. SameView
    BY <2>1, <2>3 DEF SlotAt
  <2>5. QED
    BY <1>0, <1>1, <1>2, <2>1, <2>2, <2>3, <2>4
<1>8. CASE Return(w)
  <2>1. /\ slice' = slice /\ heap' = heap /\ seq' = seq
        /\ step[w] = "fill" /\ unwritten[w] = {} /\ step'[w] = "idle"
    BY <1>0, <1>8 DEF Return
  <2>2. ~AtWork(w) /\ ~AtWork(w)' /\ ~Unpublished(w) /\ ~Unpublished(w)'
    BY <2>1 DEF AtWork, Unpublished
  <2>3. SameView
    BY <1>0, <1>1, <2>1, <2>2 DEF SlotAt
  <2>4. QED
    BY <1>0, <1>1, <2>1, <2>2, <2>3
<1>9. QED
  BY <1>4, <1>5, <1>6, <1>7, <1>8

\* Part by part the entry goes into the slot behind those a reader sees; with its last
\* part the reader sees it.
LEMMA FillStep ==
  ASSUME OneWriter, AuditInv, SerialInv, WholeWritten', NEW w \in Writers, Fill(w)
  PROVE  /\ NumberedInOrder'
         /\ \/ SameView
            \/ /\ Written' = Written + 1 /\ Written \in Nat
               /\ \A i \in 1..Written : SlotAt(slice, i)' = SlotAt(slice, i)
               /\ \A i \in Nat : i = Written + 1 => SlotAt(slice, i)' = entry[w]
               /\ entry[w] \in Entry /\ entry[w].id = Written + 1
<1>1. PICK q \in Parts : Filled(w, q)
  BY FillHeap DEF AuditInv
<1>2. /\ step[w] = "fill" /\ step' = step /\ slice' = slice /\ seq' = seq /\ entry' = entry
      /\ local' = local /\ contended' = contended
      /\ unwritten[w] # {} /\ unwritten'[w] = unwritten[w] \ {q}
  BY <1>1 DEF Fill, Filled, AuditInv, AuditTypeOK
<1>3. AtWork(w) /\ Unpublished(w) /\ InAppend(w)
  BY <1>2 DEF AtWork, Unpublished, InAppend
<1>4. /\ Written = local[w].len /\ seq = Written + 1 /\ Written \in Nat
      /\ slice.len = Written + 1 /\ slice.ptr = local[w].ptr
  <2>1. /\ Written = slice.len - 1 /\ seq = Written + 1 /\ Written \in Nat
        /\ slice.ptr = local[w].ptr /\ slice.len = local[w].len + 1
        /\ slice.len \in Nat /\ local[w].len \in Nat
    BY <1>2, <1>3, LoneWriter DEF Header
  <2>2. QED
    BY <2>1
<1>5. entry[w] \in Entry /\ entry[w].id = seq
  BY <1>2 DEF AuditInv, AuditTypeOK, SerialInv, NumberedInOrder
<1>6. \A i \in 1..Written : SlotAt(slice, i)' = SlotAt(slice, i)
  <2>1. slice.ptr \in 1..Len(heap) /\ slice.ptr # 0
    BY <1>1, <1>4 DEF Filled
  <2>2. Len(heap'[slice.ptr]) = Len(heap[slice.ptr]) /\ Len(heap[slice.ptr]) \in Nat
    BY <1>1, <2>1 DEF Filled, AuditInv, AuditTypeOK
  <2>3. \A i \in 1..Len(heap[slice.ptr]) : i <= Written => heap'[slice.ptr][i] = heap[slice.ptr][i]
    <3>1. ASSUME NEW i \in 1..Len(heap[slice.ptr]), i <= Written
          PROVE  heap'[slice.ptr][i] = heap[slice.ptr][i]
      <4>1. i # local[w].len + 1
        BY <1>4, <2>2, <3>1
      <4>2. QED
        BY <1>1, <2>1, <4>1 DEF Filled
    <3>2. QED
      BY <3>1
  <2>4. QED
    BY <1>2, <1>4, <2>1, <2>2, <2>3 DEF SlotAt
<1>7. /\ Written' = slice.len - (IF AtWork(w)' THEN 1 ELSE 0)
      /\ NumberedInOrder' <=> seq = Written' + (IF Unpublished(w)' THEN 1 ELSE 0)
  BY <1>2, <1>5, LoneNext
<1>8. CASE unwritten'[w] # {}
  <2>1. AtWork(w)' /\ Unpublished(w)'
    BY <1>2, <1>8 DEF AtWork, Unpublished
  <2>2. Written' = Written
    BY <1>4, <1>7, <2>1
  <2>3. QED
    BY <1>4, <1>6, <1>7, <2>1, <2>2 DEF SameView
<1>9. CASE unwritten'[w] = {}
  <2>1. ~AtWork(w)' /\ ~Unpublished(w)'
    BY <1>2, <1>9 DEF AtWork, Unpublished
  <2>2. Written' = Written + 1
    BY <1>4, <1>7, <2>1
  <2>3. ~contended'[w]
    BY <1>2 DEF SerialInv, NoneContended
  <2>4. SlotAt(local[w], local[w].len + 1)' = entry'[w]
    BY <1>2, <1>9, <2>3 DEF WholeWritten
  <2>5. \A i \in Nat : i = Written + 1 => SlotAt(slice, i)' = entry[w]
    BY <1>2, <1>4, <2>4 DEF SlotAt
  <2>6. QED
    BY <1>4, <1>5, <1>6, <1>7, <2>1, <2>2, <2>5
<1>10. QED
  BY <1>8, <1>9

LEMMA SerialStep ==
  ASSUME OneWriter, AuditInv, SerialInv, WholeWritten', [AuditNext]_auditVars
  PROVE  SerialInv'
<1>1. NoneContended'
  BY NoneContendedStep DEF SerialInv
<1>2. NumberedInOrder'
  <2>1. CASE UNCHANGED auditVars
    BY <2>1 DEF auditVars, SerialInv, NumberedInOrder, Written, Unpublished
  <2>2. QED
    BY <2>1, StutterSteps, FillStep DEF AuditNext, AppendStep
<1>3. QED
  BY <1>1, <1>2 DEF SerialInv

\* Every memory step is a Record of the trail or leaves it alone.
LEMMA TrailStep ==
  ASSUME OneWriter, AuditInv, SerialInv, [AuditNext]_auditVars,
         ViewPublished, ViewPublished', WholeWritten'
  PROVE  [Trail!Next]_Published
<1>1. CASE UNCHANGED auditVars
  BY <1>1 DEF auditVars, Published, Written, Entries, SlotAt
<1>2. ASSUME SameView
      PROVE  Published' = Published
  BY <1>2 DEF SameView, ViewPublished, View
<1>3. ASSUME NEW w \in Writers, Fill(w), ~SameView
      PROVE  Trail!Next
  <2>1. /\ Written' = Written + 1 /\ Written \in Nat
        /\ \A i \in 1..Written : SlotAt(slice, i)' = SlotAt(slice, i)
        /\ \A i \in Nat : i = Written + 1 => SlotAt(slice, i)' = entry[w]
        /\ entry[w] \in Entry /\ entry[w].id = Written + 1
    BY <1>3, FillStep
  <2>2. PICK p \in Payloads : entry[w] = [id |-> Written + 1, payload |-> p]
    BY <2>1 DEF Entry
  <2>3. Published = [i \in 1..Written |-> SlotAt(slice, i)]
    BY DEF ViewPublished, View
  <2>4. Published' = [i \in 1..(Written + 1) |-> SlotAt(slice, i)']
    BY <2>1 DEF ViewPublished, View
  <2>5. Published' = Append(Published, entry[w]) /\ Len(Published) = Written
    <3>1. \A i \in 1..(Written + 1) :
            SlotAt(slice, i)' = IF i <= Written THEN Published[i] ELSE entry[w]
      BY <2>1, <2>3
    <3> DEFINE pub == Published
    <3>2. DOMAIN pub = 1..Written /\ pub = [i \in 1..Written |-> pub[i]]
      BY <2>3
    <3>3. \A i \in 1..Written : SlotAt(slice, i) \in Slot
      <4>1. slice \in Header /\ WellFormed(slice) /\ AuditTypeOK
        BY DEF AuditInv, AuditTypeOK, HeadersWellFormed
      <4>2. QED
        BY <2>1, <4>1, SlotType
    <3>4. pub \in Seq(Slot) /\ Len(pub) = Written
      BY <2>1, <2>3, <3>3
    <3>5. Append(pub, entry[w]) = [i \in 1..(Written + 1) |->
                                     IF i <= Written THEN pub[i] ELSE entry[w]]
      BY <2>1, <3>4
    <3>6. QED
      BY <2>4, <3>1, <3>4, <3>5
  <2>6. Trail!Record(p)
    BY <2>2, <2>5 DEF Trail!Record
  <2>7. QED
    BY <2>6 DEF Trail!Next
<1>4. QED
  BY <1>1, <1>2, <1>3, StutterSteps DEF AuditNext, AppendStep

\* One goroutine at a time gets from audit.go what the documents promise of the log: it is
\* the append-only trail of AuditTrail, numbered in order, whatever it appends.
THEOREM LoneWriterTrail ==
  ASSUME OneWriter
  PROVE  AuditSpec => SerialTrail
<1>1. AuditInit => SerialInv
  BY DEF AuditInit, SerialInv, NoneContended, NumberedInOrder, Written, Nil, Unpublished
<1>2. AuditInv /\ SerialInv /\ WholeWritten' /\ [AuditNext]_auditVars => SerialInv'
  BY SerialStep
<1>3. AuditInv /\ SerialInv => ViewPublished
  BY SerialView
<1>7. AuditInv => WholeWritten
  BY WrittenWhole
<1>4. AuditInit => Trail!Init
  <2>1. ASSUME AuditInit PROVE Published = << >>
    <3>1. slice.len = 0
      BY <2>1 DEF AuditInit, Nil
    <3>2. \A w \in Writers : step[w] # "fill"
      BY <2>1 DEF AuditInit
    <3>3. Written = 0
      <4>1. ~ \E w \in Writers : step[w] = "fill" /\ unwritten[w] # {}
        BY <3>2
      <4>2. Written = slice.len - 0
        BY <4>1, Zenon DEF Written
      <4>3. QED
        BY <3>1, <4>2
    <3>4. QED
      BY <3>3 DEF Published
  <2>2. QED
    BY <2>1 DEF Trail!Init
<1>5. AuditInv /\ SerialInv /\ ViewPublished /\ ViewPublished' /\ WholeWritten'
        /\ [AuditNext]_auditVars => [Trail!Next]_Published
  BY TrailStep
<1>6. QED
  BY <1>1, <1>2, <1>3, <1>4, <1>5, <1>7, AuditInvariant, PTL DEF AuditSpec, SerialTrail, Trail!Spec

-----------------------------------------------------------------------------
(***************************************************************************)
(* The service.                                                            *)
(***************************************************************************)
LEMMA ClassCases ==
  ASSUME NEW r
  PROVE  ClassOf(r) \in Classes
BY DEF ClassOf, Classes

\* statusFromRun never answers denied or needs_approval.
LEMMA RunStatus ==
  ASSUME NEW c \in {"live", "expired", "cancelled"}, NEW o \in Outcome, NEW k
  PROVE  StatusFromRun(c, o, k) \in {"ok", "unreachable", "timeout", "error"}
<1>1. o.err \in {"none", "timeout", "unreachable", "other"} /\ o.exit \in {-1, 0, 1}
  BY DEF Outcome, Errors
<1>2. QED
  BY <1>1 DEF StatusFromRun

-----------------------------------------------------------------------------
\* Every step of the service is a step of the audit log or leaves it alone, so
\* what is proved of the log holds in the service.
LEMMA ServiceAuditStep ==
  ASSUME TypeOK, [Next]_vars
  PROVE  [AuditNext]_auditVars
<1>1. ASSUME NEW s \in Sessions, Audit(s)
      PROVE  AuditNext
  <2>1. AuditPayload(s) \in Payloads
    <3>1. /\ request[s] \in Requests /\ status[s] \in Statuses
          /\ runner \in Runners
      BY DEF TypeOK
    <3>2. ClassOf(request[s]) \in Classes
      BY ClassCases
    <3>3. RunnerLabel(request[s]) \in Runners \cup {r.runner : r \in Requests}
      BY <3>1 DEF RunnerLabel
    <3>4. QED
      BY <3>1, <3>2, <3>3, DiagServiceAssumption DEF AuditPayload
  <2>2. NewAuditID(s, AuditPayload(s)) /\ s \in Writers
    BY <1>1 DEF Audit, Sessions
  <2>3. QED
    BY <2>1, <2>2 DEF AuditNext
<1>2. ASSUME NEW s \in Sessions, Appending(s) \/ Reply(s)
      PROVE  AuditNext
  BY <1>2 DEF Appending, Reply, AuditNext, AppendStep, Sessions
<1>3. ASSUME NEW s \in Sessions,
             Arrival(s) \/ RunnerStep(s) \/ Expire(s) \/ Disconnect(s) \/ Conclude(s)
      PROVE  UNCHANGED auditVars
  BY <1>3 DEF Arrival, Receive, Reject, Refuse, NoRunner, Start, RunnerStep, Returns,
              Connect, DialFails, Answer, Killed, Expire, Disconnect, Conclude
<1>4. CASE UNCHANGED vars
  BY <1>4 DEF vars
<1>5. QED
  BY <1>1, <1>2, <1>3, <1>4 DEF Next, Handler

-----------------------------------------------------------------------------
LEMMA ServiceTypeInit ==
  ASSUME Init
  PROVE  TypeOK
<1>1. (CHOOSE r \in Requests : TRUE) \in Requests
  BY DiagServiceAssumption
<1>2. AuditTypeOK
  BY AuditInvInit DEF Init, AuditInv
<1>3. QED
  BY <1>1, <1>2, DiagServiceAssumption
  DEF Init, AuditInit, TypeOK, Sessions, PcValues, Outcome, Errors, NoRun, Statuses

LEMMA ServiceTypeStep ==
  ASSUME TypeOK, AuditInv, [Next]_vars
  PROVE  TypeOK'
<1>a. AuditTypeOK'
  BY ServiceAuditStep, AuditInvStep DEF AuditInv
<1>b. NoRun \in Outcome
  BY DEF NoRun, Outcome, Errors
<1>c. MaxRequests \in Nat
  BY DiagServiceAssumption
<1>d. ASSUME NEW s \in Sessions, NEW r \in Requests, Receive(s, r)
      PROVE  /\ served' \in [Sessions -> 0..MaxRequests] /\ served'[s] \in Nat
             /\ request' \in [Sessions -> Requests]
             /\ UNCHANGED <<auditVars, step, runner, ctx, run, answered>>
  BY <1>d, <1>c DEF Receive, TypeOK, auditVars
<1>1. ASSUME NEW s \in Sessions, NEW r \in Requests, Reject(s, r)
      PROVE  TypeOK'
  BY <1>1, <1>a, <1>d DEF TypeOK, Reject
<1>2. ASSUME NEW s \in Sessions, NEW r \in Requests, Refuse(s, r)
      PROVE  TypeOK'
  <2>1. Refusal(r) \in Statuses
    BY <1>2 DEF Refuse, Refusal, Statuses
  <2>2. pc[s] = "idle"
    BY <1>2 DEF Refuse, Receive
  <2>3. QED
    BY <2>1, <2>2, <1>2, <1>a, <1>d DEF TypeOK, Refuse, PcValues
<1>3. ASSUME NEW s \in Sessions, NEW r \in Requests, NoRunner(s, r)
      PROVE  TypeOK'
  <2>1. pc[s] = "idle"
    BY <1>3 DEF NoRunner, Receive
  <2>2. QED
    BY <2>1, <1>3, <1>a, <1>d DEF TypeOK, NoRunner, PcValues, Statuses
<1>4. ASSUME NEW s \in Sessions, NEW r \in Requests, Start(s, r)
      PROVE  TypeOK'
  <2>1. served'[s] \in Nat /\ pc[s] = "idle"
    BY <1>4, <1>d DEF Start, Receive
  <2>2. [by |-> Ticket(s)', request |-> r] \in [by : Sessions \X Nat, request : Requests]
    BY <2>1 DEF Ticket
  <2>3. sent' \subseteq [by : Sessions \X Nat, request : Requests]
    BY <2>2, <1>4 DEF TypeOK, Start
  <2>4. QED
    BY <2>1, <2>3, <1>4, <1>a, <1>d DEF TypeOK, Start, PcValues
<1>5. ASSUME NEW s \in Sessions, Expire(s) \/ Disconnect(s) \/ Connect(s)
      PROVE  TypeOK'
  BY <1>5, <1>a DEF TypeOK, Expire, Disconnect, Connect, auditVars, PcValues
<1>6. ASSUME NEW s \in Sessions, DialFails(s) \/ Answer(s) \/ Killed(s)
      PROVE  TypeOK'
  <2>1. PICK o \in Outcome : Returns(s, o) /\ pc[s] \in {"dial", "run"}
    BY <1>6 DEF DialFails, Answer, Killed, AnswersOf, Outcome, Errors
  <2>2. QED
    BY <2>1, <1>a DEF TypeOK, Returns, auditVars, PcValues
<1>7. ASSUME NEW s \in Sessions, Conclude(s)
      PROVE  TypeOK'
  <2>1. StatusFromRun(ctx[s], run[s], request[s].kind) \in Statuses
    BY RunStatus DEF TypeOK, Statuses
  <2>2. QED
    BY <2>1, <1>7, <1>a, <1>b DEF TypeOK, Conclude, auditVars, PcValues
<1>8. ASSUME NEW s \in Sessions, Audit(s)
      PROVE  TypeOK'
  BY <1>8, <1>a DEF TypeOK, Audit, NewAuditID, PcValues, Sessions, AuditTypeOK, Steps
<1>9. ASSUME NEW s \in Sessions, Appending(s)
      PROVE  TypeOK'
  BY <1>9, <1>a DEF TypeOK, Appending, Load, Grow, Store, Fill, diagVars, Sessions, AuditTypeOK, Steps
<1>10. ASSUME NEW s \in Sessions, Reply(s)
       PROVE  TypeOK'
  <2>1. entry[s] \in Entry
    BY <1>10 DEF Reply, Return, TypeOK, AuditTypeOK, Sessions
  <2>2. Ticket(s) \in Sessions \X Nat
    BY DiagServiceAssumption DEF Ticket, TypeOK
  <2>3. answered' \subseteq [by : Sessions \X Nat, request : Requests,
                            status : Statuses, entry : Entry, contended : BOOLEAN]
    BY <2>1, <2>2, <1>10 DEF Reply, TypeOK, AuditTypeOK, Sessions
  <2>4. QED
    BY <2>3, <1>10, <1>a DEF TypeOK, Reply, Return, PcValues, Sessions, AuditTypeOK, Steps
<1>11. CASE UNCHANGED vars
  BY <1>11, <1>a DEF vars, auditVars, diagVars, TypeOK
<1>12. QED
  BY <1>1, <1>2, <1>3, <1>4, <1>5, <1>6, <1>7, <1>8, <1>9, <1>10, <1>11
  DEF Next, Arrival, RunnerStep, Handler

-----------------------------------------------------------------------------
ServiceInv == TypeOK /\ AuditInv

LEMMA ServiceInvariant == Spec => []ServiceInv
<1>1. Init => ServiceInv
  BY ServiceTypeInit, AuditInvInit DEF Init, ServiceInv
<1>2. ServiceInv /\ [Next]_vars => ServiceInv'
  BY ServiceTypeStep, ServiceAuditStep, AuditInvStep DEF ServiceInv
<1>3. QED
  BY <1>1, <1>2, PTL DEF Spec

\* Every state of the service has the declared types, and a session is inside
\* AuditLog.Append exactly when Diagnose is (service.go: audit calls Append last).
THEOREM ServiceTypeCorrect == Spec => []TypeOK
BY ServiceInvariant, PTL DEF ServiceInv

\* The concurrent service only uses its log the way audit.go allows: with its
\* sessions hidden it is an AuditLog under AuditSpec.
THEOREM ServiceUsesLog == Spec => AuditSpec
<1>1. Init => AuditInit
  BY DEF Init
<1>2. ServiceInv /\ [Next]_vars => [AuditNext]_auditVars
  BY ServiceAuditStep DEF ServiceInv
<1>3. QED
  BY <1>1, <1>2, ServiceInvariant, PTL DEF Spec, AuditSpec

\* So an answer whose append overlapped no other keeps its audit entry for ever,
\* for any number of handlers and requests.
THEOREM ServiceKeepsUncontended == Spec => []UncontendedEntryKept
BY ServiceUsesLog, UncontendedKept, PTL

\* So a service that handles one request at a time, whatever is asked, keeps the
\* append-only trail of the documents.
THEOREM SerialServiceTrail ==
  ASSUME OneWriter
  PROVE  Spec => SerialTrail
BY ServiceUsesLog, LoneWriterTrail, PTL

\* Whatever the requests, the approvals and the interleaving, nothing reaches a
\* device that the class switch of Diagnose should have stopped.
THEOREM AuthorisedOnly == Spec => []OnlyAuthorisedSent
<1>1. Init => OnlyAuthorisedSent
  BY DEF Init, OnlyAuthorisedSent
<1>2. OnlyAuthorisedSent /\ [Next]_vars => OnlyAuthorisedSent'
  <2> SUFFICES ASSUME OnlyAuthorisedSent, [Next]_vars PROVE OnlyAuthorisedSent'
    OBVIOUS
  <2>1. ASSUME NEW s \in Sessions, NEW r \in Requests, Start(s, r)
        PROVE  OnlyAuthorisedSent'
    <3>1. /\ RenderedText(r) = "config" => ConfigWriteCap
          /\ r.kind = "exec" /\ ~Approved(r) => ConfigWriteCap /\ RenderedText(r) = "config"
      <4>1. /\ ClassOf(r) = "config" => ConfigWriteCap
            /\ ClassOf(r) = "exec" => Approved(r)
        BY <2>1 DEF Start, Refusal
      <4>2. RenderedText(r) = "config" => ClassOf(r) = "config"
        BY DEF ClassOf
      <4>3. r.kind = "exec" /\ RenderedText(r) # "config" => ClassOf(r) = "exec"
        BY DEF ClassOf
      <4>4. QED
        BY <4>1, <4>2, <4>3
    <3>2. PICK t : sent' = sent \cup {[by |-> t, request |-> r]}
      BY <2>1 DEF Start
    <3>3. \A c \in sent' : c \in sent \/ c.request = r
      BY <3>2
    <3>4. QED
      BY <3>1, <3>3 DEF OnlyAuthorisedSent
  <2>2. ASSUME sent' = sent
        PROVE  OnlyAuthorisedSent'
    BY <2>2 DEF OnlyAuthorisedSent
  <2>3. ASSUME NEW s \in Sessions, Arrival(s)
        PROVE  OnlyAuthorisedSent'
    BY <2>1, <2>2, <2>3 DEF Arrival, Reject, Refuse, NoRunner
  <2>4. ASSUME NEW s \in Sessions,
               RunnerStep(s) \/ Expire(s) \/ Disconnect(s) \/ Handler(s)
        PROVE  OnlyAuthorisedSent'
    BY <2>2, <2>4 DEF RunnerStep, Handler, Expire, Disconnect, Connect, DialFails, Answer,
                      Killed, Returns, Conclude, Audit, Appending, Reply, diagVars
  <2>5. CASE UNCHANGED vars
    BY <2>2, <2>5 DEF vars, diagVars
  <2>6. QED
    BY <2>3, <2>4, <2>5 DEF Next
<1>3. QED
  BY <1>1, <1>2, PTL DEF Spec

-----------------------------------------------------------------------------
SentInv == TicketsTaken /\ StatusTellsSent

\* A ticket drawn by Receive is new to sent and to answered.
LEMMA FreshTicket ==
  ASSUME TypeOK, TicketsTaken, NEW s \in Sessions, NEW r \in Requests, Receive(s, r)
  PROVE  /\ Ticket(s)' = <<s, served[s] + 1>>
         /\ \A c \in sent : c.by # Ticket(s)'
         /\ \A a \in answered : a.by # Ticket(s)'
         /\ served[s] \in Nat /\ served' = [served EXCEPT ![s] = served[s] + 1]
         /\ \A c \in sent : c.by[2] <= served'[c.by[1]]
         /\ \A a \in answered : a.by[2] <= served'[a.by[1]]
<1>1. /\ served \in [Sessions -> Nat] /\ served' = [served EXCEPT ![s] = served[s] + 1]
  BY DiagServiceAssumption DEF TypeOK, Receive
<1>2. Ticket(s)' = <<s, served[s] + 1>>
  BY <1>1 DEF Ticket
<1>3. ASSUME NEW c \in sent \cup answered
      PROVE  /\ c.by[1] \in Sessions /\ c.by[2] \in Nat
             /\ c.by[2] <= served[c.by[1]]
  BY <1>3 DEF TypeOK, TicketsTaken
<1>4. ASSUME NEW c \in sent \cup answered
      PROVE  c.by # <<s, served[s] + 1>> /\ c.by[2] <= served'[c.by[1]]
  BY <1>1, <1>3, <1>4
<1>5. QED
  BY <1>1, <1>2, <1>4

\* A session elsewhere keeps its ticket, its request and its status.
LEMMA OthersKept ==
  ASSUME TypeOK, NEW s \in Sessions, NEW r \in Requests, Receive(s, r),
         NEW other \in Sessions \ {s}
  PROVE  Ticket(other)' = Ticket(other) /\ request'[other] = request[other]
BY DEF TypeOK, Receive, Ticket

LEMMA ArrivalStep ==
  ASSUME TypeOK, SentInv, NEW s \in Sessions, NEW r \in Requests,
         Reject(s, r) \/ Refuse(s, r) \/ NoRunner(s, r) \/ Start(s, r)
  PROVE  SentInv'
<1> DEFINE t == <<s, served[s] + 1>>
<1>0. Receive(s, r)
  BY DEF Reject, Refuse, NoRunner, Start
<1>1. /\ Ticket(s)' = t /\ answered' = answered /\ pc[s] = "idle"
      /\ request' = [request EXCEPT ![s] = r] /\ request'[s] = r
      /\ \A c \in sent : c.by # t /\ c.by[2] <= served'[c.by[1]]
      /\ \A a \in answered : a.by # t /\ a.by[2] <= served'[a.by[1]]
      /\ t[1] = s /\ t[2] <= served'[s]
  <2>1. /\ Ticket(s)' = t
        /\ \A c \in sent : c.by # Ticket(s)'
        /\ \A a \in answered : a.by # Ticket(s)'
        /\ served[s] \in Nat /\ served' = [served EXCEPT ![s] = served[s] + 1]
        /\ \A c \in sent : c.by[2] <= served'[c.by[1]]
        /\ \A a \in answered : a.by[2] <= served'[a.by[1]]
    BY <1>0, FreshTicket DEF SentInv
  <2>2. /\ answered' = answered /\ pc[s] = "idle"
        /\ request' = [request EXCEPT ![s] = r] /\ request'[s] = r
    BY <1>0 DEF Receive, TypeOK
  <2>3. t[1] = s /\ t[2] <= served'[s]
    BY <2>1 DEF TypeOK
  <2>4. QED
    BY <2>1, <2>2, <2>3
<1>2. \A o \in Sessions \ {s} : /\ Ticket(o)' = Ticket(o) /\ Ticket(o) # t
                                /\ request'[o] = request[o]
  BY <1>0, OthersKept DEF Ticket
<1>3. ASSUME sent' = sent, \A o \in Sessions \ {s} : pc'[o] = pc[o] /\ status'[o] = status[o],
             pc'[s] \in {"idle", "audit"},
             pc'[s] = "audit" => status'[s] \in {"denied", "needs_approval", "error"}
      PROVE  SentInv'
  <2>1. StatusTellsSent'
    BY <1>1, <1>3 DEF SentInv, StatusTellsSent
  <2>2. TicketsTaken'
    <3> HIDE DEF t
    <3>1. ASSUME NEW o \in Sessions, pc'[o] \in {"dial", "run", "returned"}
          PROVE  [by |-> Ticket(o)', request |-> request'[o]] \in sent'
      BY <1>2, <1>3, <3>1 DEF SentInv, TicketsTaken
    <3>2. ASSUME NEW o \in Sessions, pc'[o] \in {"audit", "append"}
          PROVE  /\ status'[o] \in {"denied", "needs_approval"} =>
                      \A c \in sent' : c.by # Ticket(o)'
                 /\ status'[o] \in {"ok", "unreachable", "timeout"} =>
                      [by |-> Ticket(o)', request |-> request'[o]] \in sent'
      <4>1. CASE o = s
        BY <1>1, <1>3, <3>2, <4>1
      <4>2. CASE o # s
        BY <1>2, <1>3, <3>2, <4>2 DEF SentInv, TicketsTaken
      <4>3. QED
        BY <4>1, <4>2
    <3>3. QED
      BY <1>1, <1>3, <3>1, <3>2 DEF TicketsTaken
  <2>3. QED
    BY <2>1, <2>2 DEF SentInv
<1>4. CASE Reject(s, r)
  BY <1>1, <1>3, <1>4 DEF Reject
<1>5. CASE Refuse(s, r)
  <2>1. Refusal(r) \in {"denied", "needs_approval"}
    BY <1>5 DEF Refuse, Refusal
  <2>2. QED
    BY <1>3, <1>5, <2>1 DEF Refuse, TypeOK
<1>6. CASE NoRunner(s, r)
  BY <1>3, <1>6 DEF NoRunner, TypeOK
<1>7. CASE Start(s, r)
  <2> DEFINE new == [by |-> t, request |-> r]
  <2>1. /\ sent' = sent \cup {new} /\ new.by = t /\ new \in sent'
        /\ status' = status
        /\ \A o \in Sessions \ {s} : pc'[o] = pc[o]
        /\ pc'[s] \in {"dial", "run"}
    BY <1>1, <1>7 DEF Start, TypeOK
  <2> HIDE DEF new
  <2>2. StatusTellsSent'
    <3> HIDE DEF t
    <3>1. QED
      BY <1>1, <2>1 DEF SentInv, StatusTellsSent
  <2>3. TicketsTaken'
    <3>1. [by |-> Ticket(s)', request |-> request'[s]] = new
      BY <1>1 DEF new
    <3>2. \A c \in sent' : c.by[2] <= served'[c.by[1]]
      BY <1>1, <2>1
    <3> HIDE DEF t
    <3>3. ASSUME NEW o \in Sessions, pc'[o] \in {"dial", "run", "returned"}
          PROVE  [by |-> Ticket(o)', request |-> request'[o]] \in sent'
      <4>1. CASE o = s
        BY <2>1, <3>1, <4>1
      <4>2. CASE o # s
        BY <1>2, <2>1, <3>3, <4>2 DEF SentInv, TicketsTaken
      <4>3. QED
        BY <4>1, <4>2
    <3>4. ASSUME NEW o \in Sessions, pc'[o] \in {"audit", "append"}
          PROVE  /\ status'[o] \in {"denied", "needs_approval"} =>
                      \A c \in sent' : c.by # Ticket(o)'
                 /\ status'[o] \in {"ok", "unreachable", "timeout"} =>
                      [by |-> Ticket(o)', request |-> request'[o]] \in sent'
      <4>1. o # s
        BY <2>1, <3>4
      <4>2. QED
        BY <1>2, <2>1, <3>4, <4>1 DEF SentInv, TicketsTaken
    <3>5. QED
      BY <1>1, <3>2, <3>3, <3>4 DEF TicketsTaken
  <2>4. QED
    BY <2>2, <2>3 DEF SentInv
<1>8. QED
  BY <1>4, <1>5, <1>6, <1>7

LEMMA SentStep ==
  ASSUME TypeOK, SentInv, [Next]_vars
  PROVE  SentInv'
<1>1. ASSUME NEW s \in Sessions, Arrival(s)
      PROVE  SentInv'
  BY <1>1, ArrivalStep DEF Arrival
\* between Start and the reply a session's ticket, request and sent stay
<1>2. ASSUME served' = served, request' = request, sent' = sent,
             answered' = answered,
             \A o \in Sessions : \/ pc'[o] = pc[o] /\ status'[o] = status[o]
                                 \/ /\ pc[o] \in {"dial", "run", "returned"}
                                    /\ \/ pc'[o] \in {"dial", "run", "returned"}
                                       \/ status'[o] \notin {"denied", "needs_approval"}
                                 \/ /\ pc[o] = "audit" /\ pc'[o] = "append"
                                    /\ status'[o] = status[o]
      PROVE  SentInv'
  <2>1. \A o \in Sessions : Ticket(o)' = Ticket(o)
    BY <1>2 DEF Ticket
  <2>2. StatusTellsSent'
    BY <1>2 DEF SentInv, StatusTellsSent
  <2>3. ASSUME NEW o \in Sessions, pc'[o] \in {"dial", "run", "returned"}
        PROVE  [by |-> Ticket(o), request |-> request[o]] \in sent
    BY <1>2, <2>3 DEF SentInv, TicketsTaken
  <2>4. ASSUME NEW o \in Sessions, pc'[o] \in {"audit", "append"}
        PROVE  /\ status'[o] \in {"denied", "needs_approval"} => \A c \in sent : c.by # Ticket(o)
               /\ status'[o] \in {"ok", "unreachable", "timeout"} =>
                    [by |-> Ticket(o), request |-> request[o]] \in sent
    BY <1>2, <2>4 DEF SentInv, TicketsTaken
  <2>5. TicketsTaken'
    <3>1. /\ \A c \in sent : c.by[2] <= served[c.by[1]]
          /\ \A a \in answered : a.by[2] <= served[a.by[1]]
      BY DEF SentInv, TicketsTaken
    <3>2. QED
      BY <1>2, <2>1, <2>3, <2>4, <3>1 DEF TicketsTaken
  <2>6. QED
    BY <2>2, <2>5 DEF SentInv
<1>3. ASSUME NEW s \in Sessions, RunnerStep(s) \/ Expire(s) \/ Disconnect(s)
      PROVE  SentInv'
  <2>1. /\ served' = served /\ request' = request /\ sent' = sent /\ answered' = answered
        /\ status' = status
        /\ \A o \in Sessions : \/ pc'[o] = pc[o]
                               \/ /\ pc[o] \in {"dial", "run", "returned"}
                                  /\ pc'[o] \in {"dial", "run", "returned"}
    BY <1>3 DEF RunnerStep, Expire, Disconnect, Connect, DialFails, Answer, Killed, Returns,
                TypeOK
  <2>2. QED
    BY <1>2, <2>1
<1>4. ASSUME NEW s \in Sessions, Conclude(s)
      PROVE  SentInv'
  <2>1. StatusFromRun(ctx[s], run[s], request[s].kind)
          \in {"ok", "unreachable", "timeout", "error"}
    BY RunStatus DEF TypeOK
  <2>2. /\ served' = served /\ request' = request /\ sent' = sent /\ answered' = answered
        /\ pc[s] = "returned" /\ status'[s] \notin {"denied", "needs_approval"}
        /\ \A o \in Sessions \ {s} : pc'[o] = pc[o] /\ status'[o] = status[o]
    BY <1>4, <2>1 DEF Conclude, TypeOK
  <2>3. QED
    BY <1>2, <2>2
<1>5. ASSUME NEW s \in Sessions, Audit(s) \/ Appending(s)
      PROVE  SentInv'
  <2>1. /\ served' = served /\ request' = request /\ sent' = sent /\ answered' = answered
        /\ status' = status
        /\ \A o \in Sessions : \/ pc'[o] = pc[o]
                               \/ pc[o] = "audit" /\ pc'[o] = "append"
    <3>1. CASE Audit(s)
      BY <3>1 DEF Audit, TypeOK
    <3>2. CASE Appending(s)
      BY <3>2 DEF Appending, diagVars
    <3>3. QED
      BY <1>5, <3>1, <3>2
  <2>2. QED
    BY <1>2, <2>1
<1>6. ASSUME NEW s \in Sessions, Reply(s)
      PROVE  SentInv'
  <2> DEFINE a == [by |-> Ticket(s), request |-> request[s], status |-> status[s],
                   entry |-> entry[s], contended |-> contended[s]]
  <2>1. /\ served' = served /\ request' = request /\ sent' = sent /\ status' = status
        /\ \A o \in Sessions : pc'[o] = pc[o] \/ pc'[o] = "idle"
        /\ answered' = answered \cup {a}
    BY <1>6 DEF Reply, TypeOK
  <2>2. pc[s] = "append"
    BY <1>6 DEF Reply, Return, TypeOK
  <2>3. a.by[2] <= served[a.by[1]]
    <3>1. a.by = <<s, served[s]>> /\ served[s] \in Nat
      BY DiagServiceAssumption DEF Ticket, TypeOK
    <3>2. QED
      BY <3>1
  <2>4. /\ a.status \in {"denied", "needs_approval"} => \A c \in sent : c.by # a.by
        /\ a.status \in {"ok", "unreachable", "timeout"} =>
             [by |-> a.by, request |-> a.request] \in sent
    BY <2>2 DEF SentInv, TicketsTaken
  <2> HIDE DEF a
  <2>5. StatusTellsSent'
    BY <2>1, <2>4 DEF SentInv, StatusTellsSent
  <2>6. \A o \in Sessions : Ticket(o)' = Ticket(o)
    BY <2>1 DEF Ticket
  <2>7. TicketsTaken'
    BY <2>1, <2>3, <2>6 DEF SentInv, TicketsTaken
  <2>8. QED
    BY <2>5, <2>7 DEF SentInv
<1>7. CASE UNCHANGED vars
  <2>1. /\ served' = served /\ request' = request /\ sent' = sent /\ answered' = answered
        /\ pc' = pc /\ status' = status
    BY <1>7 DEF vars, diagVars
  <2>2. QED
    BY <2>1 DEF SentInv, StatusTellsSent, TicketsTaken, Ticket
<1>8. QED
  BY <1>1, <1>3, <1>4, <1>5, <1>6, <1>7 DEF Next, Handler

LEMMA SentInvariant == Spec => []SentInv
<1>1. Init => SentInv
  BY DEF Init, SentInv, StatusTellsSent, TicketsTaken
<1>2. TypeOK /\ SentInv /\ [Next]_vars => SentInv'
  BY SentStep
<1>3. QED
  BY <1>1, <1>2, ServiceTypeCorrect, PTL DEF Spec

\* However handlers, deadlines and runners interleave, the status a client reads
\* tells whether its command was sent, and no command is sent twice.
THEOREM StatusSound == Spec => []StatusTellsSent
BY SentInvariant, PTL DEF SentInv

-----------------------------------------------------------------------------
\* Steps that append nothing leave what the entries tell.
LEMMA TellKept ==
  ASSUME TypeOK, EntriesTell, runner' = runner, entry' = entry,
         answered' = answered, appended' = appended,
         \A s \in Sessions : pc'[s] = "append" =>
           pc[s] = "append" /\ request'[s] = request[s] /\ status'[s] = status[s]
  PROVE  EntriesTell'
<1>1. ASSUME NEW s \in Sessions, pc'[s] = "append"
      PROVE  entry'[s].payload = AuditPayload(s)'
  <2>1. pc[s] = "append" /\ request'[s] = request[s] /\ status'[s] = status[s]
    BY <1>1
  <2>2. AuditPayload(s)' = AuditPayload(s)
    BY <2>1 DEF AuditPayload, RunnerLabel
  <2>3. QED
    BY <2>1, <2>2 DEF EntriesTell
<1>2. QED
  BY <1>1 DEF EntriesTell

LEMMA TellStep ==
  ASSUME TypeOK, EntriesTell, [Next]_vars
  PROVE  EntriesTell'
<1>1. ASSUME NEW s \in Sessions, Arrival(s)
      PROVE  EntriesTell'
  <2>1. PICK r \in Requests : Receive(s, r) /\ pc[s] = "idle"
                              /\ (pc' = pc \/ \E to \in PcValues \ {"append"} : pc' = [pc EXCEPT ![s] = to])
                              /\ (status' = status \/ \E to : status' = [status EXCEPT ![s] = to])
    BY <1>1 DEF Arrival, Reject, Refuse, NoRunner, Start, Receive, PcValues
  <2>2. /\ entry' = entry /\ appended' = appended /\ answered' = answered /\ runner' = runner
        /\ request' = [request EXCEPT ![s] = r]
    BY <2>1 DEF Receive, auditVars
  <2>3. \A o \in Sessions : pc'[o] = "append" =>
          pc[o] = "append" /\ request'[o] = request[o] /\ status'[o] = status[o]
    BY <2>1, <2>2 DEF TypeOK
  <2>4. QED
    BY <2>2, <2>3, TellKept
<1>2. ASSUME NEW s \in Sessions, RunnerStep(s) \/ Expire(s) \/ Disconnect(s)
      PROVE  EntriesTell'
  <2>1. /\ entry' = entry /\ appended' = appended /\ answered' = answered /\ runner' = runner
        /\ request' = request /\ status' = status
        /\ \A o \in Sessions : pc'[o] = "append" => pc[o] = "append"
    BY <1>2 DEF RunnerStep, Expire, Disconnect, Connect, DialFails, Answer, Killed, Returns,
                TypeOK, auditVars
  <2>2. QED
    BY <2>1, TellKept
<1>3. ASSUME NEW s \in Sessions, Conclude(s)
      PROVE  EntriesTell'
  <2>1. /\ entry' = entry /\ appended' = appended /\ answered' = answered /\ runner' = runner
        /\ request' = request
        /\ \A o \in Sessions : pc'[o] = "append" => pc[o] = "append" /\ status'[o] = status[o]
    BY <1>3 DEF Conclude, TypeOK, auditVars
  <2>2. QED
    BY <2>1, TellKept
<1>4. ASSUME NEW s \in Sessions, Audit(s)
      PROVE  EntriesTell'
  <2>1. /\ pc' = [pc EXCEPT ![s] = "append"]
        /\ entry' = [entry EXCEPT ![s] = [id |-> seq + 1, payload |-> AuditPayload(s)]]
        /\ UNCHANGED <<runner, request, status, answered, appended>>
    BY <1>4 DEF Audit, NewAuditID
  <2>2. /\ entry'[s].payload = AuditPayload(s)
        /\ \A o \in Sessions \ {s} : pc'[o] = pc[o] /\ entry'[o] = entry[o]
    BY <2>1 DEF TypeOK, AuditTypeOK, Sessions
  <2>3. \A o \in Sessions : AuditPayload(o)' = AuditPayload(o)
    BY <2>1 DEF AuditPayload, RunnerLabel
  <2>4. QED
    BY <2>1, <2>2, <2>3 DEF EntriesTell
<1>5. ASSUME NEW s \in Sessions, Appending(s)
      PROVE  EntriesTell'
  <2>1. UNCHANGED <<runner, request, status, answered, pc>> /\ entry' = entry /\ appended' = appended
    BY <1>5 DEF Appending, Load, Grow, Store, Fill, diagVars
  <2>2. QED
    BY <2>1, TellKept
<1>6. ASSUME NEW s \in Sessions, Reply(s)
      PROVE  EntriesTell'
  <2> DEFINE a == [by |-> Ticket(s), request |-> request[s], status |-> status[s],
                   entry |-> entry[s], contended |-> contended[s]]
             b == [entry |-> entry[s], contended |-> contended[s]]
  <2>1. /\ answered' = answered \cup {a} /\ appended' = appended \cup {b}
        /\ UNCHANGED <<runner, request, status>>
        /\ \A o \in Sessions : pc'[o] = "append" => pc[o] = "append" /\ entry'[o] = entry[o]
    BY <1>6 DEF Reply, Return, TypeOK, AuditTypeOK, Sessions
  <2>2. pc[s] = "append"
    BY <1>6 DEF Reply, Return, TypeOK
  <2>3. /\ a.entry.payload.target = a.request.target
        /\ a.entry.payload.class = ClassOf(a.request)
        /\ a.entry.payload.status = a.status
    <3>1. a.entry.payload = AuditPayload(s) /\ a.request = request[s] /\ a.status = status[s]
      BY <2>2 DEF EntriesTell
    <3> HIDE DEF a
    <3>2. QED
      BY <3>1, DiagServiceAssumption DEF AuditPayload, EntryOf
  <2>4. [entry |-> a.entry, contended |-> a.contended] \in appended'
    BY <2>1
  <2>5. \A o \in Sessions : AuditPayload(o)' = AuditPayload(o)
    BY <2>1 DEF AuditPayload, RunnerLabel
  <2> HIDE DEF a, b
  <2>6. \A o \in Sessions : pc'[o] = "append" => entry'[o].payload = AuditPayload(o)'
    BY <2>1, <2>5 DEF EntriesTell
  <2>7. \A c \in answered' :
          /\ c.entry.payload.target = c.request.target
          /\ c.entry.payload.class = ClassOf(c.request)
          /\ c.entry.payload.status = c.status
          /\ [entry |-> c.entry, contended |-> c.contended] \in appended'
    BY <2>1, <2>3, <2>4 DEF EntriesTell
  <2>8. QED
    BY <2>6, <2>7 DEF EntriesTell
<1>7. CASE UNCHANGED vars
  <2>1. UNCHANGED <<runner, entry, answered, appended, pc, request, status>>
    BY <1>7 DEF vars, auditVars, diagVars
  <2>2. QED
    BY <2>1, TellKept
<1>8. QED
  BY <1>1, <1>2, <1>3, <1>4, <1>5, <1>6, <1>7 DEF Next, Handler

LEMMA EntriesInvariant == Spec => []EntriesTell
<1>1. Init => EntriesTell
  BY DEF Init, EntriesTell
<1>2. TypeOK /\ EntriesTell /\ [Next]_vars => EntriesTell'
  BY TellStep
<1>3. QED
  BY <1>1, <1>2, ServiceTypeCorrect, PTL DEF Spec

\* An answer whose append met no other is told by the log as its client was told: any entry
\* under its audit_id is about its request and has its status, whatever the unlocked appends
\* of other sessions do to each other and to the array.
THEOREM AuditNeverMisleads == Spec => []AuditMatchesAnswer
<1>1. UncontendedEntryWhole /\ EntriesTell => AuditMatchesAnswer
  <2>1. SUFFICES ASSUME UncontendedEntryWhole, EntriesTell, NEW a \in answered, ~a.contended,
                        NEW i \in DOMAIN Entries, Entries[i].id = a.entry.id
                 PROVE  Tells(i, a)
    BY DEF AuditMatchesAnswer
  <2>2. PICK b \in appended : b.entry = a.entry /\ b.contended = a.contended
    <3> DEFINE b == [entry |-> a.entry, contended |-> a.contended]
    <3>1. b \in appended /\ b.entry = a.entry /\ b.contended = a.contended
      BY <2>1 DEF EntriesTell
    <3>2. QED
      BY <3>1
  <2>3. Entries[i] = a.entry
    BY <2>1, <2>2 DEF UncontendedEntryWhole
  <2>4. QED
    BY <2>1, <2>3 DEF EntriesTell, Tells
<1>2. QED
  BY <1>1, EntriesInvariant, ServiceUsesLog, UncontendedWhole, PTL

-----------------------------------------------------------------------------
\* Whatever interleaves, a session that has moved on from a command it sent has answered it.
SentAnswered ==
  \A c \in sent :
    c.by[2] < served[c.by[1]] \/ pc[c.by[1]] = "idle" => \E a \in answered : a.by = c.by

LEMMA SentAnsweredStep ==
  ASSUME TypeOK, SentInv, SentAnswered, [Next]_vars
  PROVE  SentAnswered'
<1>0. /\ \A c \in sent : /\ c.by[1] \in Sessions /\ c.by[2] \in Nat
                         /\ c.by = <<c.by[1], c.by[2]>>
                         /\ c.by[2] <= served[c.by[1]]
      /\ served \in [Sessions -> Nat] /\ pc \in [Sessions -> PcValues]
  BY DiagServiceAssumption DEF TypeOK, SentInv, TicketsTaken
\* steps at which no session becomes idle or takes a request
<1>1. ASSUME sent' = sent, served' = served, answered' = answered,
             \A s \in Sessions : pc'[s] = "idle" => pc[s] = "idle"
      PROVE  SentAnswered'
  BY <1>0, <1>1 DEF SentAnswered
<1>2. ASSUME NEW s \in Sessions, NEW r \in Requests,
             Reject(s, r) \/ Refuse(s, r) \/ NoRunner(s, r) \/ Start(s, r)
      PROVE  SentAnswered'
  <2>1. /\ served' = [served EXCEPT ![s] = served[s] + 1] /\ answered' = answered
        /\ pc[s] = "idle"
        /\ \A o \in Sessions \ {s} : pc'[o] = pc[o]
    BY <1>0, <1>2 DEF Reject, Refuse, NoRunner, Start, Receive
  <2>2. \A c \in sent : c.by[1] = s => \E a \in answered : a.by = c.by
    BY <1>0, <2>1 DEF SentAnswered
  <2>3. \A c \in sent : c.by[1] # s =>
          /\ served'[c.by[1]] = served[c.by[1]]
          /\ pc'[c.by[1]] = pc[c.by[1]]
    BY <1>0, <2>1
  <2>4. ASSUME NEW c \in sent, c.by[2] < served'[c.by[1]] \/ pc'[c.by[1]] = "idle"
        PROVE  \E a \in answered : a.by = c.by
    BY <2>2, <2>3, <2>4 DEF SentAnswered
  <2>5. ASSUME NEW c \in sent', c \notin sent
        PROVE  ~(c.by[2] < served'[c.by[1]] \/ pc'[c.by[1]] = "idle")
    <3>1. Start(s, r)
      BY <1>2, <2>5 DEF Reject, Refuse, NoRunner
    <3>2. c = [by |-> Ticket(s)', request |-> r] /\ pc'[s] \in {"dial", "run"}
      BY <1>0, <2>5, <3>1 DEF Start
    <3>3. c.by[1] = s /\ c.by[2] = served'[s] /\ served'[s] \in Nat
      BY <1>0, <2>1, <3>2 DEF Ticket
    <3>4. QED
      BY <3>2, <3>3
  <2>6. QED
    BY <2>1, <2>4, <2>5 DEF SentAnswered
<1>3. ASSUME NEW s \in Sessions, RunnerStep(s) \/ Expire(s) \/ Disconnect(s)
      PROVE  SentAnswered'
  BY <1>0, <1>1, <1>3 DEF RunnerStep, Expire, Disconnect, Connect, DialFails, Answer,
                          Killed, Returns
<1>4. ASSUME NEW s \in Sessions, Conclude(s) \/ Audit(s) \/ Appending(s)
      PROVE  SentAnswered'
  BY <1>0, <1>1, <1>4 DEF Conclude, Audit, Appending, diagVars
<1>5. ASSUME NEW s \in Sessions, Reply(s)
      PROVE  SentAnswered'
  <2> DEFINE new == [by |-> Ticket(s), request |-> request[s], status |-> status[s],
                     entry |-> entry[s], contended |-> contended[s]]
  <2>1. /\ sent' = sent /\ served' = served /\ answered' = answered \cup {new}
        /\ new \in answered' /\ new.by = <<s, served[s]>>
        /\ \A o \in Sessions \ {s} : pc'[o] = pc[o]
    BY <1>0, <1>5 DEF Reply, Ticket
  <2> HIDE DEF new
  <2>2. ASSUME NEW c \in sent, c.by[2] < served[c.by[1]] \/ pc'[c.by[1]] = "idle"
        PROVE  \E a \in answered' : a.by = c.by
    <3>1. CASE c.by[1] = s /\ c.by[2] = served[s]
      BY <1>0, <2>1, <3>1
    <3>2. CASE c.by[1] = s /\ c.by[2] # served[s]
      <4>1. c.by[2] < served[c.by[1]]
        BY <1>0, <3>2
      <4>2. QED
        BY <2>1, <4>1 DEF SentAnswered
    <3>3. CASE c.by[1] # s
      BY <1>0, <2>1, <2>2, <3>3 DEF SentAnswered
    <3>4. QED
      BY <3>1, <3>2, <3>3
  <2>3. QED
    BY <2>1, <2>2 DEF SentAnswered
<1>6. CASE UNCHANGED vars
  BY <1>1, <1>6 DEF vars, diagVars
<1>7. QED
  BY <1>2, <1>3, <1>4, <1>5, <1>6 DEF Next, Arrival, Handler

\* No early return skips an answer: every command a session sent before its present
\* request is answered, for any number of sessions (service.go: Diagnose after Run).
THEOREM SentIsAnswered == Spec => []SentAnswered
<1>1. Init => SentAnswered
  BY DEF Init, SentAnswered
<1>2. TypeOK /\ SentInv /\ SentAnswered /\ [Next]_vars => SentAnswered'
  BY SentAnsweredStep
<1>3. QED
  BY <1>1, <1>2, ServiceTypeCorrect, SentInvariant, PTL DEF Spec

\* A service that handles one request at a time runs no command without a trace: the entry
\* of every command it sent is in the log once its answer is out, and stays there.
THEOREM SerialSentAudited ==
  ASSUME OneWriter
  PROVE  Spec => []SentIsAudited
<1>1. SentAnswered /\ EntriesTell /\ NoneContended /\ UncontendedEntryKept => SentIsAudited
  <2>1. SUFFICES ASSUME SentAnswered, EntriesTell, NoneContended, UncontendedEntryKept,
                        NEW c \in sent, NEW s \in Sessions, c.by[1] = s,
                        c.by[2] < served[s] \/ pc[s] = "idle"
                 PROVE  \E a \in answered : a.by = c.by /\ Recorded(a.entry)
    BY DEF SentIsAudited
  <2>2. PICK a \in answered : a.by = c.by
    BY <2>1 DEF SentAnswered
  <2>3. PICK b \in appended : b.entry = a.entry
    <3> DEFINE b == [entry |-> a.entry, contended |-> a.contended]
    <3>1. b \in appended /\ b.entry = a.entry
      BY <2>1 DEF EntriesTell
    <3>2. QED
      BY <3>1
  <2>4. Recorded(a.entry)
    BY <2>1, <2>3 DEF NoneContended, UncontendedEntryKept
  <2>5. QED
    BY <2>2, <2>4
<1>2. AuditSpec => []NoneContended
  <2>1. AuditInit => NoneContended
    BY DEF AuditInit, NoneContended
  <2>2. AuditInv /\ NoneContended /\ [AuditNext]_auditVars => NoneContended'
    BY NoneContendedStep
  <2>3. QED
    BY <2>1, <2>2, AuditInvariant, PTL DEF AuditSpec
<1>3. QED
  BY <1>1, <1>2, ServiceUsesLog, SentIsAnswered, EntriesInvariant, UncontendedKept, PTL
=============================================================================
