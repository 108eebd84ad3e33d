---------------------------- MODULE StoreSwitch ----------------------------
(***************************************************************************)
(* `rsry bead migrate --to sqlite --commit` (src/bead_migrate.rs, main.rs  *)
(* bead_migrate_run): the store of a repository is rebuilt in SQLite,      *)
(* compared with the Dolt store and swapped in by two renames, while the   *)
(* clients that share .beads/ go on writing.  Which store a client opens   *)
(* is decided by the files it finds (src/bead_backend.rs).                 *)
(*                                                                         *)
(* A bead is the number of the last write of its fields, of its dependency *)
(* edges and the numbers of its comments.  One migration runs at a time;   *)
(* it may fail anywhere and be run again.                                  *)
(***************************************************************************)
EXTENDS Integers, FiniteSets

CONSTANTS
    SwBeads,
    SwFirst,       \* the beads there are from the start
    Daemon0,       \* a client that pools its connection
    Command,       \* a client that connects anew for every write
    SwMaxWrites,   \* bound: writes by the clients
    SwMaxRuns,     \* bound: migrations started
    SwMaxFaults    \* bound: crashes, failed reads, servers that do not stop

ASSUME StoreSwitchAssumption ==
    /\ SwFirst \subseteq SwBeads /\ Daemon0 # Command
    /\ {SwMaxWrites, SwMaxRuns, SwMaxFaults} \subseteq Nat

SwClients == {Daemon0, Command}

VARIABLES
    swDolt,     \* the Dolt data
    swPlace,    \* where it lies: "dolt", "dolt.bak" or "aside"
    swBuilt,    \* beads.db.new
    swDb,       \* beads.db
    swConn,     \* client -> the connection it holds
    swStep,     \* the migration
    swTodo,     \* the beads that the loop of this step has left
    swAcked,    \* the beads as their writers know them
    swLate,     \* what was written to Dolt after the migration had read it
    swWrites, swRuns, swFaults

storeSwitchVars == <<swDolt, swPlace, swBuilt, swDb, swConn, swStep, swTodo,
                     swAcked, swLate, swWrites, swRuns, swFaults>>
swClientVars == <<swDolt, swConn, swAcked, swLate, swWrites>>

NoBead == [fields |-> 0, edges |-> 0, notes |-> {}]
NoStore == <<>>        \* there is no such file
EmptyStore == [b \in SwBeads |-> NoBead]
Present(store) == {b \in SwBeads : store[b] # NoBead}

\* detect_backend
Backend ==
    CASE swPlace = "dolt" /\ swDb # NoStore -> "Ambiguous"
      [] swPlace = "dolt" /\ swDb = NoStore -> "Dolt"
      [] swPlace # "dolt" /\ swDb # NoStore -> "Sqlite"
      [] OTHER -> "Uninitialized"

Fault == swFaults < SwMaxFaults /\ swFaults' = swFaults + 1
-----------------------------------------------------------------------------
(* Clients *)

\* connect_bead_store: an ambiguous directory is refused, a Dolt store needs a
\* server (started if there is none), an uninitialised one is made.  The pool
\* reconnects only where a Dolt store lies (is_dolt_port_stale).
Connect(c) ==
    /\ \/ swConn[c] = "none"
       \/ swConn[c] = "dead" /\ swPlace = "dolt"
    /\ Backend # "Ambiguous"
    /\ swConn' = [swConn EXCEPT ![c] =
                     IF Backend = "Dolt" THEN "dolt" ELSE "sqlite"]
    /\ swDb' = IF Backend = "Uninitialized" THEN EmptyStore ELSE swDb
    /\ UNCHANGED <<swDolt, swPlace, swBuilt, swStep, swTodo, swAcked, swLate,
                   swWrites, swRuns, swFaults>>

\* The parts of a bead that the migration has read by now, never to look again.
Read(b) ==
    LET copied   == \/ swStep \notin {"idle", "copying", "wiring"}
                    \/ swStep = "wiring" /\ b \notin swTodo
        compared == swStep \in {"verifying", "stopped", "placed"}
        wired    == \/ swStep \in {"stopped", "placed"}
                    \/ swStep = "verifying" /\ b \notin swTodo
    IN  IF swPlace # "dolt" \/ swDb # NoStore THEN {"fields", "edges", "notes"}
        ELSE {part \in {"fields", "edges", "notes"} :
                \/ part = "notes" /\ copied
                \/ part = "fields" /\ compared
                \/ part = "edges" /\ wired}

Written(r, part, n) ==
    CASE part = "fields" -> [r EXCEPT !.fields = n]
      [] part = "edges"  -> [r EXCEPT !.edges = n]
      [] part = "notes"  -> [r EXCEPT !.notes = @ \cup {n}]

\* A write of a bead that the client finds, or of a new one's fields.
Write(c, b, part) ==
    /\ swWrites < SwMaxWrites /\ swWrites' = swWrites + 1
    /\ swConn[c] \in {"dolt", "sqlite"}
    /\ LET store == IF swConn[c] = "dolt" THEN swDolt ELSE swDb
           after == [store EXCEPT ![b] = Written(@, part, swWrites')]
       IN  /\ IF part # "fields" THEN b \in Present(store)
                                 ELSE swAcked[b] = NoBead \/ b \in Present(store)
           /\ swDolt' = IF swConn[c] = "dolt" THEN after ELSE swDolt
           /\ swDb' = IF swConn[c] = "sqlite" THEN after ELSE swDb
    /\ swAcked' = [swAcked EXCEPT ![b] = Written(@, part, swWrites')]
    /\ swLate' = IF swConn[c] = "sqlite"
                   THEN IF part = "notes" THEN swLate ELSE swLate \ {<<b, part>>}
                   ELSE IF part \in Read(b) THEN swLate \cup {<<b, part>>}
                                            ELSE swLate
    /\ swConn' = IF c = Command THEN [swConn EXCEPT ![c] = "none"] ELSE swConn
    /\ UNCHANGED <<swPlace, swBuilt, swStep, swTodo, swRuns, swFaults>>

\* What the refusal asks for: one of the two stores is moved aside by hand.
MoveAside ==
    /\ Backend = "Ambiguous" /\ swStep = "idle"
    /\ \/ swPlace' = "aside" /\ UNCHANGED swDb
       \/ swDb' = NoStore /\ UNCHANGED swPlace
    /\ UNCHANGED <<swClientVars, swBuilt, swStep, swTodo, swRuns,
                   swFaults>>
-----------------------------------------------------------------------------
(* The migration *)

MigrationStep(from, to) == swStep = from /\ swStep' = to
SwFilesAlone == UNCHANGED <<swPlace, swDb, swClientVars>>

\* classify, cleanup_built, connect: only a plain Dolt store is migrated.
StartMigration ==
    /\ MigrationStep("idle", "copying")
    /\ swRuns < SwMaxRuns /\ swRuns' = swRuns + 1
    /\ Backend = "Dolt"
    /\ swBuilt' = EmptyStore
    /\ swLate' = {} /\ swTodo' = {}
    /\ UNCHANGED <<swPlace, swDb, swDolt, swConn, swAcked, swWrites, swFaults>>

\* Pass 1: the beads of one listing.
CopyBeads ==
    /\ MigrationStep("copying", "wiring")
    /\ swBuilt' = [b \in SwBeads |-> [NoBead EXCEPT !.fields = swDolt[b].fields]]
    /\ swTodo' = Present(swDolt)
    /\ SwFilesAlone /\ UNCHANGED <<swRuns, swFaults>>

\* Pass 2: dependency edges and comments, bead by bead.  Comments that cannot
\* be read are left out (unwrap_or_default).
WireBead(b) ==
    /\ swStep = "wiring" /\ b \in swTodo
    /\ swTodo' = swTodo \ {b}
    /\ \/ /\ swBuilt' = [swBuilt EXCEPT ![b].edges = swDolt[b].edges,
                                        ![b].notes = swDolt[b].notes]
          /\ UNCHANGED <<swFaults, swLate>>
       \/ /\ swBuilt' = [swBuilt EXCEPT ![b].edges = swDolt[b].edges]
          /\ Fault /\ swLate' = swLate \cup {<<b, "notes">>}
    /\ UNCHANGED <<swStep, swPlace, swDb, swDolt, swConn, swAcked, swWrites,
                   swRuns>>

\* cleanup_built: a mismatch leaves the source as it is.
Abort ==
    /\ swStep' = "idle" /\ swBuilt' = NoStore /\ swTodo' = {}

\* Faulty: the beads are counted.
CountMatches ==
    Cardinality(Present(swDolt)) = Cardinality(Present(swBuilt))

\* verify_migration: a second listing, field by field ...
FieldsMatch == \A b \in Present(swDolt) : swBuilt[b].fields = swDolt[b].fields

Verify ==
    /\ swStep = "wiring" /\ swTodo = {}
    /\ IF FieldsMatch THEN /\ swStep' = "verifying"
                           /\ swTodo' = Present(swDolt)
                           /\ UNCHANGED swBuilt
                      ELSE Abort
    /\ SwFilesAlone /\ UNCHANGED <<swRuns, swFaults>>

\* ... and the edges bead by bead.  Comments are not compared.
VerifyEdges(b) ==
    /\ swStep = "verifying" /\ b \in swTodo
    /\ IF swBuilt[b].edges = swDolt[b].edges
         THEN swTodo' = swTodo \ {b} /\ UNCHANGED <<swStep, swBuilt>>
         ELSE Abort
    /\ SwFilesAlone /\ UNCHANGED <<swRuns, swFaults>>

\* stop_dolt_server: best effort; the port file goes in any case.
StopServer ==
    /\ MigrationStep("verifying", "stopped") /\ swTodo = {}
    /\ \/ /\ swConn' = [c \in SwClients |->
                          IF swConn[c] = "dolt" THEN "dead" ELSE swConn[c]]
          /\ UNCHANGED swFaults
       \/ Fault /\ UNCHANGED swConn
    /\ UNCHANGED <<swPlace, swDb, swBuilt, swDolt, swAcked, swLate, swWrites,
                   swTodo, swRuns>>

\* swap_dolt_to_sqlite: the checks, and beads.db.new becomes beads.db ...
PlaceBuilt ==
    /\ swStep = "stopped" /\ swTodo' = {}
    /\ IF swPlace = "dolt" /\ swBuilt # NoStore
         THEN swDb' = swBuilt /\ swBuilt' = NoStore /\ swStep' = "placed"
         ELSE swStep' = "idle" /\ UNCHANGED <<swDb, swBuilt>>
    /\ UNCHANGED <<swPlace, swClientVars, swRuns, swFaults>>

\* ... and dolt becomes dolt.bak; flip_metadata only rewrites a description.
Switch ==
    /\ MigrationStep("placed", "idle")
    /\ swPlace' = "dolt.bak"
    /\ UNCHANGED <<swDb, swBuilt, swTodo, swClientVars, swRuns,
                   swFaults>>

\* An error or the end of the process, wherever it is; an error before the
\* swap cleans up.
MigrationFails ==
    /\ swStep # "idle" /\ Fault
    /\ swStep' = "idle" /\ swTodo' = {}
    /\ swBuilt' \in {swBuilt, NoStore}
    /\ SwFilesAlone /\ UNCHANGED swRuns
-----------------------------------------------------------------------------
StoreSwitchInit ==
    /\ swDolt = [b \in SwBeads |->
                   IF b \in SwFirst THEN [NoBead EXCEPT !.fields = -1] ELSE NoBead]
    /\ swPlace = "dolt" /\ swBuilt = NoStore /\ swDb = NoStore
    /\ swConn = [c \in SwClients |-> "none"]
    /\ swStep = "idle" /\ swTodo = {}
    /\ swAcked = swDolt /\ swLate = {}
    /\ swWrites = 0 /\ swRuns = 0 /\ swFaults = 0

StoreSwitchNext ==
    \/ \E c \in SwClients :
          \/ Connect(c)
          \/ \E b \in SwBeads, part \in {"fields", "edges", "notes"} :
                Write(c, b, part)
    \/ MoveAside
    \/ StartMigration \/ CopyBeads
    \/ \E b \in SwBeads : WireBead(b) \/ VerifyEdges(b)
    \/ Verify \/ StopServer \/ PlaceBuilt \/ Switch \/ MigrationFails

StoreSwitchSpec == StoreSwitchInit /\ [][StoreSwitchNext]_storeSwitchVars
-----------------------------------------------------------------------------
SwIsBead(r) ==
    /\ {r.fields, r.edges} \subseteq -1..swWrites /\ r.notes \subseteq 1..swWrites
SwIsStore(s) == DOMAIN s = SwBeads /\ \A b \in SwBeads : SwIsBead(s[b])

StoreSwitchTypeOK ==
    /\ SwIsStore(swDolt) /\ SwIsStore(swAcked)
    /\ swBuilt = NoStore \/ SwIsStore(swBuilt)
    /\ swDb = NoStore \/ SwIsStore(swDb)
    /\ swPlace \in {"dolt", "dolt.bak", "aside"}
    /\ swConn \in [SwClients -> {"none", "dolt", "sqlite", "dead"}]
    /\ swStep \in {"idle", "copying", "wiring", "verifying", "stopped", "placed"}
    /\ swTodo \subseteq SwBeads
    /\ swLate \subseteq SwBeads \X {"fields", "edges", "notes"}
    /\ swWrites \in 0..SwMaxWrites /\ swRuns \in 0..SwMaxRuns
    /\ swFaults \in 0..SwMaxFaults

SwPart(r, part) == CASE part = "fields" -> r.fields
                     [] part = "edges"  -> r.edges
                     [] part = "notes"  -> r.notes

\* Whichever store the next client is given holds every bead as it was last
\* written, and no client is ever given an empty one: before the switch, after
\* it, and wherever the migration failed.  Only what was written to the Dolt
\* store after the migration had last read it, and comments that it could not
\* read, may be missing from the SQLite store.
SwitchKeepsBeads ==
    /\ Backend # "Uninitialized"
    /\ Backend = "Dolt" => swDolt = swAcked
    /\ Backend = "Sqlite" =>
          \A b \in SwBeads, part \in {"fields", "edges", "notes"} :
             \/ <<b, part>> \in swLate
             \/ SwPart(swDb[b], part) = SwPart(swAcked[b], part)
=============================================================================
