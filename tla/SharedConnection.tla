-------------------------- MODULE SharedConnection --------------------------
(***************************************************************************)
(* The one connection to the Sommelier database that all WebSocket         *)
(* requests share: how it is opened, migrated, seeded and lost, and how a  *)
(* request uses it.                                                        *)
(*                                                                         *)
(* Every execute() and commit() is awaited, so another request may run     *)
(* between any two of them.  The first statement after a commit opens a    *)
(* transaction, and whoever commits next commits what everybody executed.  *)
(* Nothing is rolled back but by losing the connection.                    *)
(***************************************************************************)
EXTENDS SommelierDB

CONSTANTS
  Clients, NoClient,  \* requests under way at the same time
  Requests,           \* the commands that are sent
  MaxCalls,           \* bound: requests begun
  MaxFailures,        \* bound: statements of migrations that fail of themselves
  StoredBefore        \* what an earlier run may have left on disk

\* A database on disk between two runs: its foreign keys hold, and it has all
\* the system presets or none.
PresetsWhole(d) == d.presets \cap SystemPresets \in {{}, SystemPresets}
Leftover(d) == d \in Databases /\ References(d) /\ PresetsWhole(d)

ASSUME ConnectionAssumption ==
  /\ NoClient \notin Clients /\ MaxCalls \in Nat /\ MaxFailures \in Nat
  /\ \A d \in StoredBefore : Leftover(d)

VARIABLES
  state,      \* of the connection: "closed", "migrating", "seeding", "open"
  migration,  \* due: the statements still to execute; failed: history, those
              \* whose last execution raised, in this run or an earlier one
  work,       \* the database as the connection sees it
  disk,       \* what is committed
  writers,    \* who has executed a statement that is not committed
  dbLock,     \* the holder of SommelierDB._lock
  pc, req,    \* where each request is, and what it carries
  llm,        \* its structured call, see PanelApi
  issued,     \* the keys _new_id() has returned
  calls,      \* requests begun
  contended   \* history: two activations of profiles have overlapped, now or
              \* in an earlier run that left two profiles active

vars == <<state, migration, work, disk, writers, dbLock, pc, req, llm, issued,
          calls, contended>>

Setup == "setup"  \* the writer that async_setup is

\* op: the command; row: the key it is about; todo: what is left to write;
\* seen: what it has read.
NoRequest == [op |-> "none", row |-> None, todo |-> None, seen |-> None]
NoReply   == [attempt |-> 0, parsed |-> "none", errors |-> FALSE, raw |-> "none"]

Issuable == Beans \cup Profiles \cup Sessions \cup Favorites \cup UserPresets
              \cup Producers \cup Additives

\* The keys of the rows of a database.
KeysIn(d) ==
  d.beans \cup d.profiles \cup {s.id : s \in d.sessions}
    \cup {f.id : f \in d.favorites} \cup (d.presets \cap UserPresets)
    \cup {p \in Producers : d.producers[p] # None} \cup {a.id : a \in d.additives}

OneActive(d) == \A p, q \in d.active : p = q

\* The statements of the migrations above version v.
Above(v) == {i \in Statements : Script[i].version > v}

Init ==
  /\ state = "closed"
  /\ disk \in StoredBefore /\ work = disk /\ writers = {}
  /\ migration = [due |-> {}, failed |-> Statements \ (Above(disk.version) \cup disk.migrated)]
  /\ dbLock = NoClient
  /\ pc = [c \in Clients |-> "idle"] /\ req = [c \in Clients |-> NoRequest]
  /\ llm = [c \in Clients |-> NoReply]
  /\ issued = KeysIn(disk) /\ calls = 0 /\ contended = ~OneActive(disk)

(***************************************************************************)
(* async_setup.  The connection is published when it is done, so nobody    *)
(* else uses it before.                                                    *)
(***************************************************************************)
Unused == UNCHANGED <<dbLock, pc, req, llm, issued, calls, contended>>

\* Mutant: the first migration that is missing is passed over.
OpenDatabaseLater ==
  /\ state = "closed"
  /\ state' = "migrating"
  /\ IF disk.version < 1
       THEN /\ work' = [work EXCEPT !.migrated = Statements] /\ disk' = work'
            /\ migration' = [due |-> {}, failed |-> {}]
       ELSE /\ migration' = [migration EXCEPT !.due = Above(disk.version + 1)]
            /\ UNCHANGED <<work, disk>>
  /\ Unused /\ UNCHANGED writers

\* A new file gets the whole schema at once, one of an older version is
\* migrated, and one of this version is left as it is.
OpenDatabase ==
  /\ state = "closed"
  /\ state' = "migrating"
  /\ IF disk.version < 1
       THEN /\ work' = [work EXCEPT !.migrated = Statements] /\ disk' = work'
            /\ migration' = [due |-> {}, failed |-> {}]
       ELSE /\ migration' = [migration EXCEPT !.due = Above(disk.version)]
            /\ UNCHANGED <<work, disk>>
  /\ Unused /\ UNCHANGED writers

\* A statement goes through.  An UPDATE opens a transaction; what is defined
\* outside of one is committed at once.
MigrationApplies(i) ==
  /\ Script[i].needs \subseteq work.migrated
  /\ work' = [work EXCEPT !.migrated = @ \cup {i}]
  /\ disk' = IF writers = {} /\ ~Script[i].fills
               THEN [disk EXCEPT !.migrated = @ \cup {i}] ELSE disk
  /\ writers' = IF Script[i].fills THEN {Setup} ELSE writers
  /\ migration' = [due |-> migration.due \ {i}, failed |-> migration.failed \ {i}]

\* Or it raises, which is swallowed: for want of the column it updates, because
\* what it defines is there already, because a row has a component that is not
\* JSON, or for whatever reason.  An UPDATE may have begun its transaction.
MigrationFails(i) ==
  /\ \/ ~(Script[i].needs \subseteq work.migrated)
     \/ Cardinality(migration.failed \cup {i}) <= MaxFailures
  /\ writers' \in {writers, IF Script[i].fills THEN {Setup} ELSE writers}
  /\ migration' = [due    |-> migration.due \ {i},
                   failed |-> migration.failed \cup ({i} \ work.migrated)]
  /\ UNCHANGED <<work, disk>>

\* The statements of the migrations are executed one by one.
Migrate ==
  /\ state = "migrating"
  /\ \E i \in migration.due :
       /\ \A j \in migration.due : i <= j
       /\ MigrationApplies(i) \/ MigrationFails(i)
  /\ Unused /\ UNCHANGED state

\* The new version is written, whatever has failed, in the transaction of what
\* came before it; then async_seed_system_presets counts the system presets,
\* and raises if their table is not as it should be: async_setup fails.
FinishMigration ==
  /\ state = "migrating" /\ migration.due = {}
  /\ work' = [work EXCEPT !.version = LastVersion]
  /\ disk' = work' /\ writers' = {}
  /\ state' = IF ~(SeedNeeds \subseteq work.migrated) THEN "closed"
              ELSE IF work.presets \cap SystemPresets = {} THEN "seeding" ELSE "open"
  /\ Unused /\ UNCHANGED migration

SeedPreset ==
  /\ state = "seeding"
  /\ \E p \in SystemPresets \ work.presets : work' = AddPreset(work, p)
  /\ writers' = {Setup}
  /\ Unused /\ UNCHANGED <<state, migration, disk>>

FinishSeeding ==
  /\ state = "seeding" /\ SystemPresets \subseteq work.presets
  /\ disk' = work /\ writers' = {} /\ state' = "open"
  /\ Unused /\ UNCHANGED <<migration, work>>

\* Home Assistant is killed, or unloads the last entry and closes the database:
\* what is not committed is lost.  A request that goes on fails at its next
\* statement, its connection being gone.
LoseConnection ==
  /\ state # "closed" /\ state' = "closed"
  /\ work' = disk /\ writers' = {} /\ dbLock' = NoClient
  /\ pc' = [c \in Clients |-> "idle"] /\ req' = [c \in Clients |-> NoRequest]
  /\ llm' = [c \in Clients |-> NoReply]
  /\ UNCHANGED <<migration, disk, issued, calls, contended>>

(***************************************************************************)
(* The steps of a request.                                                 *)
(***************************************************************************)
Go(c, step, r) == pc' = [pc EXCEPT ![c] = step] /\ req' = [req EXCEPT ![c] = r]

\* It answers, or fails with an exception that its handler or Home Assistant
\* answers; `async with self._lock` lets the lock go.
End(c) ==
  /\ Go(c, "idle", NoRequest)
  /\ llm' = [llm EXCEPT ![c] = NoReply]
  /\ dbLock' = IF dbLock = c THEN NoClient ELSE dbLock

\* A command comes in.
Call(c, op) ==
  /\ state = "open" /\ pc[c] = "idle" /\ op \in Requests
  /\ calls < MaxCalls /\ calls' = calls + 1

At(c, op, step) == pc[c] = step /\ req[c].op = op /\ calls' = calls

Request(op, row, todo, seen) == [op |-> op, row |-> row, todo |-> todo, seen |-> seen]

\* A statement that would leave the database d.  SQLite refuses it if a key is
\* taken (~ok) or a foreign key would name no row, and it raises.
Execute(c, ok, d, step, r) ==
  /\ \/ /\ ok /\ References(d)
        /\ work' = d /\ writers' = writers \cup {c}
        /\ Go(c, step, r) /\ UNCHANGED <<dbLock, llm>>
     \/ /\ ~(ok /\ References(d))
        /\ End(c) /\ UNCHANGED <<work, writers>>
  /\ UNCHANGED <<state, migration, disk>>

\* A SELECT, after which the request goes on or ends.
ReadOn(c, step, r) ==
  Go(c, step, r) /\ UNCHANGED <<state, migration, work, disk, writers, dbLock, llm>>
ReadEnd(c) ==
  End(c) /\ UNCHANGED <<state, migration, work, disk, writers>>

\* A statement that names a table or a column that a migration failed to make
\* raises.
StatementRaises(c) ==
  /\ \E i \in Statements \ work.migrated : ~Script[i].fills
  /\ pc[c] \notin {"idle", "lock", "llm", "structured", "commit", "answer"}
  /\ ReadEnd(c) /\ UNCHANGED <<issued, calls, contended>>

\* Mutant: the answer does not wait for the commit.
SingleUncommitted(c, op, d) ==
  /\ Call(c, op)
  /\ Execute(c, TRUE, d, "answer", Request(op, None, None, None))
  /\ UNCHANGED contended

\* Most commands are one statement, commit() and the answer.
Single(c, op, d) == /\ Call(c, op)
                    /\ Execute(c, TRUE, d, "commit", Request(op, None, None, None))
                    /\ UNCHANGED contended
Update(c, op, d) == Single(c, op, d) /\ UNCHANGED issued
Insert(c, op, key, d) ==
  key \notin issued /\ Single(c, op, d) /\ issued' = issued \cup {key}

Commit(c) ==
  /\ pc[c] = "commit"
  /\ disk' = work /\ writers' = {}
  /\ Go(c, "answer", req[c])
  /\ dbLock' = IF dbLock = c THEN NoClient ELSE dbLock
  /\ UNCHANGED <<state, migration, work, llm, issued, calls, contended>>

\* What it answers is read again (get_bean after add_bean) or known.
Answer(c) == pc[c] = "answer" /\ ReadEnd(c) /\ UNCHANGED <<issued, calls, contended>>

\* Mutant: nobody waits.
AcquireLockAnyway(c) ==
  /\ pc[c] = "lock"
  /\ dbLock' = c /\ Go(c, "locked", req[c])
  /\ UNCHANGED <<state, migration, work, disk, writers, llm, issued, calls, contended>>

\* `async with self._lock`.
AcquireLock(c) ==
  /\ pc[c] = "lock" /\ dbLock = NoClient
  /\ dbLock' = c /\ Go(c, "locked", req[c])
  /\ UNCHANGED <<state, migration, work, disk, writers, llm, issued, calls, contended>>
=============================================================================
