----------------------------- MODULE Migrations -----------------------------
(***************************************************************************)
(* Processes of several builds that bring the schema up before they serve  *)
(* (packages/core/src/db/migrate.ts, boot of packages/api/src/index.ts):   *)
(* one advisory lock, one transaction per file, and the hash of each file  *)
(* in schema_migrations.  A file whose statements ran once cannot run      *)
(* again: its objects exist.                                               *)
(***************************************************************************)
EXTENDS Integers, Sequences, FiniteSets

CONSTANTS
    Process,
    File,
    Directory,      \* of each process: <<file, content>> in the order of the names
    Content,        \* what a file may say
    Broken,         \* contents whose SQL the database refuses
    NoProcess, NoContent,
    MaxLosses       \* bound: lost connections and killed processes

\* The names in a directory differ; NULL is no content.
ASSUME MigrationConstants ==
    /\ Directory \in [Process -> Seq(File \X Content)]
    /\ \A p \in Process : \A i, j \in DOMAIN Directory[p] :
          Directory[p][i][1] = Directory[p][j][1] => i = j
    /\ NoContent \notin Content /\ NoProcess \notin Process
    /\ Broken \subseteq Content /\ MaxLosses \in Nat

VARIABLES
    migrationLock,  \* pg_advisory_lock(MIGRATION_LOCK_KEY)
    recorded,       \* schema_migrations: the content recorded for each file
    objects,        \* history: the contents whose statements were committed, of each file
    boot,           \* of each process: where it is, what it read, the file it is at
    losses,
    collided        \* history: a file was refused because its objects exist

migrationVars == <<migrationLock, recorded, objects, boot, losses, collided>>

NotBooted == [at |-> "off", seen |-> <<>>, next |-> 1]

MigrationsInit ==
    /\ migrationLock = NoProcess
    /\ recorded = [f \in File |-> NoContent]
    /\ objects = [f \in File |-> <<>>]
    /\ boot = [p \in Process |-> NotBooted]
    /\ losses = 0 /\ collided = FALSE

Boots(p, at) == boot[p].at = at
MovesTo(p, at) == boot' = [boot EXCEPT ![p].at = at]
FileOf(p) == Directory[p][boot[p].next][1]
ContentOf(p) == Directory[p][boot[p].next][2]

ConnectClient(p) ==
    /\ Boots(p, "off")
    /\ MovesTo(p, "lock")
    /\ UNCHANGED <<migrationLock, recorded, objects, losses, collided>>

\* Mutant of AwaitLock: pg_try_advisory_lock, and its answer is not looked at.
AwaitLockNot(p) ==
    /\ Boots(p, "lock")
    /\ migrationLock' = IF migrationLock = NoProcess THEN p ELSE migrationLock
    /\ MovesTo(p, "read")
    /\ UNCHANGED <<recorded, objects, losses, collided>>

AwaitLock(p) ==
    /\ Boots(p, "lock") /\ migrationLock = NoProcess
    /\ migrationLock' = p
    /\ MovesTo(p, "read")
    /\ UNCHANGED <<recorded, objects, losses, collided>>

\* The rows are read once, before the first file.
ReadLedger(p) ==
    /\ Boots(p, "read")
    /\ boot' = [boot EXCEPT ![p] = [at |-> "file", seen |-> recorded, next |-> 1]]
    /\ UNCHANGED <<migrationLock, recorded, objects, losses, collided>>

\* A file that was read as recorded is skipped, or stops the boot when it has
\* been edited since; a new one opens a transaction.
NextFile(p) ==
    /\ Boots(p, "file") /\ boot[p].next <= Len(Directory[p])
    /\ LET noted == boot[p].seen[FileOf(p)]
       IN  CASE noted = NoContent -> MovesTo(p, "sql")
             [] noted = ContentOf(p) -> boot' = [boot EXCEPT ![p].next = @ + 1]
             [] noted \notin {NoContent, ContentOf(p)} -> MovesTo(p, "throw")
    /\ UNCHANGED <<migrationLock, recorded, objects, losses, collided>>

\* The statements of the file; what it does is not seen before the COMMIT.
RunSql(p) ==
    /\ Boots(p, "sql")
    /\ IF ContentOf(p) \in Broken \/ objects[FileOf(p)] # <<>>
       THEN MovesTo(p, "throw") /\ collided' = (collided \/ objects[FileOf(p)] # <<>>)
       ELSE MovesTo(p, "record") /\ UNCHANGED collided
    /\ UNCHANGED <<migrationLock, recorded, objects, losses>>

\* Mutant of RecordFile: the row is written after the COMMIT, and a connection
\* may be lost in between.
RecordFileLater(p) ==
    /\ Boots(p, "record")
    /\ objects' = [objects EXCEPT ![FileOf(p)] = Append(@, ContentOf(p))]
    /\ \/ /\ recorded' = [recorded EXCEPT ![FileOf(p)] = ContentOf(p)]
          /\ boot' = [boot EXCEPT ![p].at = "file", ![p].next = @ + 1]
          /\ UNCHANGED <<migrationLock, losses>>
       \/ /\ losses < MaxLosses /\ losses' = losses + 1
          /\ boot' = [boot EXCEPT ![p] = NotBooted]
          /\ migrationLock' = IF migrationLock = p THEN NoProcess ELSE migrationLock
          /\ UNCHANGED recorded
    /\ UNCHANGED collided

\* INSERT INTO schema_migrations and COMMIT.  The name is the primary key, and
\* objects two transactions made at once collide here.
RecordFile(p) ==
    /\ Boots(p, "record")
    /\ IF recorded[FileOf(p)] # NoContent
       THEN /\ MovesTo(p, "throw") /\ collided' = TRUE
            /\ UNCHANGED <<recorded, objects>>
       ELSE /\ recorded' = [recorded EXCEPT ![FileOf(p)] = ContentOf(p)]
            /\ objects' = [objects EXCEPT ![FileOf(p)] = Append(@, ContentOf(p))]
            /\ boot' = [boot EXCEPT ![p] = [at |-> "file", seen |-> boot[p].seen, next |-> boot[p].next + 1]]
            /\ UNCHANGED collided
    /\ UNCHANGED <<migrationLock, losses>>

\* finally: the lock is given back, the client ends; the process serves, or
\* ends with the exception.
ReleaseLock(p) ==
    /\ Boots(p, "throw") \/ (Boots(p, "file") /\ boot[p].next > Len(Directory[p]))
    /\ migrationLock' = IF migrationLock = p THEN NoProcess ELSE migrationLock
    /\ IF Boots(p, "throw") THEN boot' = [boot EXCEPT ![p] = NotBooted] ELSE MovesTo(p, "serving")
    /\ UNCHANGED <<recorded, objects, losses, collided>>

\* The session and its lock go with the connection, the open transaction is
\* rolled back, unless the COMMIT got through and only its answer did not.
LoseConnection(p) ==
    /\ losses < MaxLosses /\ ~Boots(p, "off")
    /\ losses' = losses + 1
    /\ migrationLock' = IF migrationLock = p THEN NoProcess ELSE migrationLock
    /\ boot' = [boot EXCEPT ![p] = NotBooted]
    /\ \/ UNCHANGED <<recorded, objects>>
       \/ /\ Boots(p, "record") /\ recorded[FileOf(p)] = NoContent
          /\ recorded' = [recorded EXCEPT ![FileOf(p)] = ContentOf(p)]
          /\ objects' = [objects EXCEPT ![FileOf(p)] = Append(@, ContentOf(p))]
    /\ UNCHANGED collided

Migrate(p) ==
    \/ ConnectClient(p) \/ AwaitLock(p) \/ ReadLedger(p) \/ NextFile(p) \/ RunSql(p) \/ RecordFile(p)
    \/ ReleaseLock(p) \/ LoseConnection(p)

MigrationsNext == \E p \in Process : Migrate(p)

MigrationsSpec == MigrationsInit /\ [][MigrationsNext]_migrationVars

-----------------------------------------------------------------------------
Steps == {"off", "lock", "read", "file", "sql", "record", "throw", "serving"}

MigrationsTypeOK ==
    /\ migrationLock \in Process \cup {NoProcess}
    /\ \A p \in Process : boot[p].at \in Steps /\ boot[p].next \in 1 .. Len(Directory[p]) + 1
    /\ \A f \in File :
          recorded[f] = NoContent \/ \E p \in Process : \E i \in DOMAIN Directory[p] : Directory[p][i] = <<f, recorded[f]>>
    /\ losses \in 0 .. MaxLosses

(***************************************************************************)
(* migrate.ts: two processes that boot together never meet over a file,    *)
(* "the loser dies on a duplicate object rather than the winner's work     *)
(* being waited for", also when the one that holds the lock is killed or   *)
(* cut off at its COMMIT.                                                  *)
(***************************************************************************)
NobodyCollides == ~collided

(***************************************************************************)
(* What schema_migrations records of a file is what was done to the        *)
(* database, once, and a process that serves has the schema of its own     *)
(* build: no two contents ever passed under one name.                      *)
(***************************************************************************)
ServesItsSchema ==
    /\ \A f \in File : objects[f] = IF recorded[f] = NoContent THEN <<>> ELSE <<recorded[f]>>
    /\ \A p \in Process : Boots(p, "serving") =>
           \A i \in DOMAIN Directory[p] : recorded[Directory[p][i][1]] = Directory[p][i][2]
=============================================================================
