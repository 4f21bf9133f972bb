------------------------------ MODULE MCDatabase ------------------------------
\* The database for TLC: servers that migrate its schema, the scanner that cuts a
\* migration into statements, and the repositories that use the schema. They share no
\* variable here: in a behaviour one of them runs, the others rest in an initial state.
EXTENDS SqlRepository

CONSTANTS
    OneKey, Writers, Cleaners, Late,    \* what the calls of a phase are confined to
    Servers, OldServers, NoServer,  \* the old ones are of the release before the second migration
    MaxRetries, MaxFaults, MaxLexemes

ASSUME ServersAssumption == NoServer \notin Servers

VARIABLES
    mode, db, view, lock, at, entry, statement, attempt, reason, faults,
    script, open,
    phase       \* "migrate", "split", "serve" or "clean"

migrationVars == <<mode, db, view, lock, at, entry, statement, attempt, reason, faults>>
scannerVars == <<script, open>>
all == <<vars, backend, migrationVars, scannerVars, phase>>

\* A rolling upgrade: servers of both releases.
M == INSTANCE SchemaMigrations WITH
    pc <- at, Release <- [s \in Servers |-> IF s \in OldServers THEN 1 ELSE 2],
    Modes <- {"postgres", "cockroach", "mariadb"}

Scanner == INSTANCE MigrationStatements

Input(hash, payload, flags, nonce, ciphertext) ==
    [hash |-> hash, payload |-> payload, flags |-> flags, nonce |-> nonce,
     ciphertext |-> ciphertext]

\* A burn-after-read envelope, a CAPTCHA-protected one, and the inputs the checks
\* are for: no payload, half a key, flags beyond the PostgreSQL column.
MCInputs == {
    Input("h1", TRUE, 2, Nil, 0),
    Input("h2", TRUE, 3, NonceSize, 1),
    Input("h3", FALSE, 0, Nil, Nil),
    Input("h3", TRUE, 1, NonceSize, Nil),
    Input("h3", TRUE, MaxInt32 + 1, Nil, Nil)}

Begins(r) == pc[r] = "idle" /\ pc'[r] /= "idle"

\* Any calls of three callers on one key; the expiry of a refused create is of no
\* interest.
AnyCalls ==
    \A r \in Callers : Begins(r) =>
        /\ r \in Writers \cup Cleaners
        /\ IF call'[r].op = "sweep" THEN call'[r].batch <= 1 ELSE call'[r].key = OneKey
        /\ call'[r].op = "create" /\ pc'[r] = "done" => call'[r].expiresAt = 0

\* Two keys, stored or stored again, next to a cleanup and another delete. Broken
\* connections are left to the other calls.
CleanupCalls ==
    /\ broken' = {}
    /\ \A r \in Callers : Begins(r) =>
        IF r \in Writers THEN pc'[r] = "insert" /\ call'[r].input.hash = "h1"
        ELSE /\ call'[r].op \in IF r \in Cleaners THEN {"sweep"} ELSE {"consume", "sweep"}
             /\ call'[r].op = "sweep" => pc'[r] = "sweep" /\ call'[r].now = Late

MCInit ==
    /\ Init /\ M!Init /\ Scanner!Init
    /\ \/ phase = "migrate" /\ backend = "postgres"
       \/ phase = "split" /\ backend = "postgres" /\ mode = "cockroach"
       \/ phase = "serve" /\ mode = "postgres"
       \/ phase = "clean" /\ mode = "postgres" /\ backend = "postgres"

MCNext ==
    /\ \/ phase = "migrate" /\ M!Next /\ UNCHANGED <<vars, backend, scannerVars>>
       \/ phase = "split" /\ Scanner!Next /\ UNCHANGED <<vars, backend, migrationVars>>
       \/ phase = "serve" /\ Next /\ AnyCalls /\ UNCHANGED <<migrationVars, scannerVars>>
       \/ phase = "clean" /\ Next /\ CleanupCalls /\ UNCHANGED <<migrationVars, scannerVars>>
    /\ UNCHANGED phase

\* The fairness of SchemaMigrations.
MCSpec ==
    /\ MCInit /\ [][MCNext]_all
    /\ \A s \in Servers :
        /\ WF_M!vars(phase = "migrate" /\ M!Step(s))
        /\ SF_M!vars(phase = "migrate" /\ M!Acquire(s))

------------------------------------------------------------------------------
\* The properties of the migrations; those of the repositories are SqlRepository's.

\* After Apply returned nil the schema of the server's release is there and stays
\* there, and a recorded version has been applied.
ServedSchemaStays == M!ServedSchemaStays

\* No Apply fails on what another server, or an earlier try, did to the schema.
NoHomemadeFailure == M!NoHomemadeFailure

\* Every server gets through Apply in the end.
Converges == phase = "migrate" => M!Converges

\* splitMigrationStatements cuts a migration without the lexemes it is known to misread
\* at its statement terminators and nowhere else, and refuses one that ends inside a
\* construct.
SplitsAtTerminators == phase = "split" => Scanner!SplitsAtTerminators
==============================================================================
