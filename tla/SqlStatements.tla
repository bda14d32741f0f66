--------------------------- MODULE SqlStatements ----------------------------
(***************************************************************************)
(* What the single statements of mobula-controller/src/store_sqlite.rs and *)
(* store_postgres.rs do to a table.  A row is a record, a SET clause the   *)
(* record of the columns it assigns.                                       *)
(***************************************************************************)
EXTENDS Integers, Tables

\* INSERT ... ON CONFLICT DO NOTHING
InsertNew(t, key, row) == IF key \in DOMAIN t THEN t ELSE Put(t, key, row)

\* row with the columns of set
Assigned(row, set) ==
    [f \in DOMAIN row |-> IF f \in DOMAIN set THEN set[f] ELSE row[f]]

\* UPDATE ... SET set WHERE the key is in hit
UpdateWhere(t, hit, set) ==
    [k \in DOMAIN t |-> IF k \in hit THEN Assigned(t[k], set) ELSE t[k]]

\* INSERT ... ON CONFLICT DO UPDATE SET set
InsertOrUpdate(t, key, row, set) ==
    IF key \in DOMAIN t THEN UpdateWhere(t, {key}, set) ELSE Put(t, key, row)

-----------------------------------------------------------------------------
(* The statements' rows, with the column defaults of the schema.           *)

UserRow(k, at) ==
    [password |-> k.password, role |-> k.role, disabled |-> FALSE,
     created_at |-> at, failed_logins |-> 0, locked_until |-> -1]

TokenRow(k) ==
    [username |-> k.username, expires_at |-> k.expires_at, revoked |-> FALSE,
     last_used_at |-> -1]

JobRow(k) ==
    [cluster |-> k.cluster, submitter |-> k.submitter, status |-> k.status,
     duration |-> k.duration, submitted_at |-> k.submitted_at]

PoolRow(spec, generation, at) ==
    [spec |-> spec, generation |-> generation, observed |-> "none",
     observed_at |-> -1, created_at |-> at]

\* WHERE prefix = ? AND username = ?
OwnedToken(t, prefix, username) ==
    {p \in DOMAIN t : p = prefix /\ t[p].username = username}
=============================================================================
