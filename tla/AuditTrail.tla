----------------------------- MODULE AuditTrail -----------------------------
(***************************************************************************)
(* The hash-chained audit trail: append, windows, replay and paging        *)
(* (mobula-controller/src/store.rs, mobula-core/src/audit.rs).  A trail is *)
(* a sequence of rows [event, chain_hash]; the seq of a row is its         *)
(* position.  A hash is modelled by what it was computed from, so two      *)
(* hashes are equal exactly when their inputs are.                         *)
(***************************************************************************)
EXTENDS Integers, Sequences, FiniteSets

GenesisHash == << "genesis" >>
AuditChainHash(prev, event) == Append(prev, event)

RecordAudit(trail, event) ==
    LET prev == IF trail = << >> THEN GenesisHash
                ELSE trail[Len(trail)].chain_hash
    IN  Append(trail, [event |-> event,
                       chain_hash |-> AuditChainHash(prev, event)])

\* At most limit rows from seq from, and the hash they chain from.
AuditChain(trail, from, limit) ==
    [head |-> IF from <= 1 \/ trail = << >> THEN GenesisHash
              ELSE trail[IF from - 1 > Len(trail) THEN Len(trail)
                         ELSE from - 1].chain_hash,
     rows |-> SubSeq(trail, from,
                     IF from + limit - 1 > Len(trail) THEN Len(trail)
                     ELSE from + limit - 1)]

\* The position in rows of the first row that does not replay; 0 if none.
FirstBroken(head, rows) ==
    LET Prev(i) == IF i = 1 THEN head ELSE rows[i - 1].chain_hash
        broken == {i \in DOMAIN rows :
                    AuditChainHash(Prev(i), rows[i].event) # rows[i].chain_hash}
    IN  IF broken = {} THEN 0 ELSE CHOOSE i \in broken : \A j \in broken : i <= j

\* Row i replays from the row before it.
Chained(trail, i) ==
    trail[i].chain_hash =
        AuditChainHash(IF i = 1 THEN GenesisHash ELSE trail[i - 1].chain_hash,
                       trail[i].event)

NoCursor == 0

\* A filter is [subject, decision, from, to], "any" or 0 where it is absent.
Matches(filter, event) ==
    /\ filter.subject \in {"any", event.subject}
    /\ filter.decision \in {"any", event.decision}
    /\ filter.from <= event.ts
    /\ filter.to = 0 \/ event.ts <= filter.to

\* Mutant: the page after a cursor starts with the cursor's row.
FoundOverlaps(trail, filter, cursor) ==
    {i \in DOMAIN trail :
        (cursor = NoCursor \/ i <= cursor) /\ Matches(filter, trail[i].event)}

\* The matching rows before the cursor.
Found(trail, filter, cursor) ==
    {i \in DOMAIN trail :
        (cursor = NoCursor \/ i < cursor) /\ Matches(filter, trail[i].event)}

\* The rows of found that fewer than limit others are newer than.
Newest(found, limit) ==
    {i \in found : Cardinality({j \in found : j > i}) < limit}

Oldest(rows) == CHOOSE i \in rows : \A j \in rows : i <= j

\* One page: the seqs of the newest matching rows before the cursor, and its
\* oldest as the cursor of the next page where there are more.  A page is
\* served newest first, so it is given by the set of its seqs.
ListAudit(trail, filter, cursor, limit) ==
    LET found == Found(trail, filter, cursor)
        rows == Newest(found, limit)
    IN  [rows |-> rows,
         next |-> IF Cardinality(found) > limit THEN Oldest(rows) ELSE NoCursor]
=============================================================================
