---------------------------- MODULE EnvelopeStore ----------------------------
(***************************************************************************)
(* What every store.Repository implementation (memory, PostgreSQL,         *)
(* MariaDB) computes on one storage key or on the whole table, as          *)
(* constant operators over a table of records and NoRecord. Of a record    *)
(* they look at expiresAt only.                                            *)
(***************************************************************************)
EXTENDS Naturals, FiniteSets

CONSTANTS
    Keys,       \* storage keys ([16]byte)
    NoRecord    \* "there is no row with this key"

\* time.Unix(0, 0), the "now" of lookups that must also see expired rows.
Epoch == 0

\* The zero time.Time / SQL NULL of a record that never expires.
NoExpiry == 0

------------------------------------------------------------------------------
HasExpired(now, expiresAt) == expiresAt /= NoExpiry /\ now >= expiresAt

\* Mutated form: the lookup forgets the expiry condition.
Visible_Unfiltered(table, k, now) == table[k]

\* The row Get, GetMetadata and Consume find at time now, or NoRecord.
Visible(table, k, now) ==
    IF table[k] = NoRecord \/ HasExpired(now, table[k].expiresAt)
    THEN NoRecord
    ELSE table[k]

Expired(table, now) ==
    {k \in Keys : table[k] /= NoRecord /\ HasExpired(now, table[k].expiresAt)}

\* Mutated form: an off-by-one in the limit.
ExpiredBatches_OffByOne(table, now, batch) ==
    {S \in SUBSET Expired(table, now) : Cardinality(S) < batch}

\* The key sets DeleteExpired may delete: the batch oldest expired rows, ties
\* broken arbitrarily (sort.Slice is not stable; ORDER BY has one key).
ExpiredBatches(table, now, batch) ==
    LET E == Expired(table, now)
        Older(S) == \A k \in S, l \in E \ S :
                        table[k].expiresAt <= table[l].expiresAt
    IN  {S \in SUBSET E :
            /\ Cardinality(S) = IF Cardinality(E) <= batch THEN Cardinality(E) ELSE batch
            /\ Older(S)}

Insert(table, k, rec) == [table EXCEPT ![k] = rec]

Delete(table, S) == [k \in Keys |-> IF k \in S THEN NoRecord ELSE table[k]]
==============================================================================
