----------------------------- MODULE AuditTrail -----------------------------
(***************************************************************************)
(* What the documents promise of the audit log: an append-only sequence in *)
(* which every attempt has an entry of its own, numbered in order          *)
(* (docs/agent-prompts/diag-engine.md, SECURITY.md "Audit").               *)
(***************************************************************************)
EXTENDS Naturals, Sequences

CONSTANT Payloads

VARIABLE trail

Init == trail = << >>

\* An attempt is recorded: one new entry, at the end, with the next identifier.
Record(p) == trail' = Append(trail, [id |-> Len(trail) + 1, payload |-> p])

Next == \E p \in Payloads : Record(p)

Spec == Init /\ [][Next]_trail
=============================================================================
