--------------------------- MODULE BoundaryProofs ---------------------------
(***************************************************************************)
(* What MCServices checks of the parts at the edge of the system, for any  *)
(* processes, callers and clocks: the migrations that replicas run when    *)
(* they boot, the rate limit, the providers, the sessions and the windows  *)
(* in which messages go out.                                               *)
(***************************************************************************)
EXTENDS MCServices, FiniteSetTheorems, NaturalsInduction, WellFoundedInduction, TLAPS

-----------------------------------------------------------------------------
(* The lock of a migration                                                 *)

Locked == {"read", "file", "sql", "record", "throw"}
Walking == {"file", "sql", "record"}
Noted == Content \cup {NoContent}
Progress == [at : Steps, seen : [File -> Noted] \cup {<<>>}, next : Nat]

\* The name and the content of the i-th file of p.
NameAt(p, i) == Directory[p][i][1]
TextAt(p, i) == Directory[p][i][2]

MigrationTypes ==
    /\ boot \in [Process -> Progress]
    /\ recorded \in [File -> Noted]
    /\ objects \in [File -> Seq(Content)]

\* The files p is past are recorded as p has them, the others as p has read.
Abreast(p) ==
    /\ boot[p].seen \in [File -> Noted] /\ boot[p].next \in 1 .. Len(Directory[p]) + 1
    /\ \A i \in DOMAIN Directory[p] :
          recorded[NameAt(p, i)] = IF i < boot[p].next THEN TextAt(p, i) ELSE boot[p].seen[NameAt(p, i)]

\* The file p is at is new to the database.
AtNewFile(p) ==
    boot[p].next <= Len(Directory[p]) /\ boot[p].seen[FileOf(p)] = NoContent

(***************************************************************************)
(* Only the holder of the lock is at work, so what it read is still so     *)
(* but for what it wrote itself.                                           *)
(***************************************************************************)
MigrationInv ==
    /\ MigrationTypes
    /\ collided = FALSE
    /\ \A f \in File : objects[f] = IF recorded[f] = NoContent THEN <<>> ELSE <<recorded[f]>>
    /\ \A p \in Process :
          /\ boot[p].at \in Locked => migrationLock = p
          /\ boot[p].at \in Walking => Abreast(p)
          /\ boot[p].at \in {"sql", "record"} => AtNewFile(p)
          /\ boot[p].at = "serving" =>
                \A i \in DOMAIN Directory[p] : recorded[NameAt(p, i)] = TextAt(p, i)

LEMMA MigrationStart == MigrationsInit => MigrationInv
<1> SUFFICES ASSUME MigrationsInit PROVE MigrationInv
  OBVIOUS
<1>1. MigrationTypes
  BY DEF MigrationsInit, MigrationTypes, NotBooted, Progress, Steps, Noted
<1> QED BY <1>1 DEF MigrationsInit, MigrationInv, NotBooted, Locked, Walking

\* Where a process stands is a place in its directory.
LEMMA Places ==
    ASSUME NEW p \in Process
    PROVE  /\ Len(Directory[p]) \in Nat /\ DOMAIN Directory[p] = 1 .. Len(Directory[p])
           /\ \A i \in DOMAIN Directory[p] : NameAt(p, i) \in File /\ TextAt(p, i) \in Content
           /\ \A i, j \in DOMAIN Directory[p] : NameAt(p, i) = NameAt(p, j) => i = j
<1>1. Directory[p] \in Seq(File \X Content)
  BY MigrationConstants
<1>2. Len(Directory[p]) \in Nat /\ DOMAIN Directory[p] = 1 .. Len(Directory[p])
  BY <1>1
<1>3. \A i \in DOMAIN Directory[p] : Directory[p][i] \in File \X Content
  BY <1>1, <1>2
<1>4. \A i \in DOMAIN Directory[p] : Directory[p][i][1] \in File /\ Directory[p][i][2] \in Content
  BY <1>3
<1>5. \A i, j \in DOMAIN Directory[p] : Directory[p][i][1] = Directory[p][j][1] => i = j
  BY MigrationConstants
<1> QED BY <1>2, <1>4, <1>5 DEF NameAt, TextAt

\* A step of p that writes no file: what it has to keep for p is enough, if the
\* lock stays with its holder, is taken while it is free, or is given up by p.
LEMMA QuietMigration ==
    ASSUME MigrationInv, NEW p \in Process, NEW place \in Progress,
           boot' = [boot EXCEPT ![p] = place],
           UNCHANGED <<recorded, objects, collided>>,
           \/ migrationLock' = migrationLock
           \/ migrationLock = NoProcess /\ migrationLock' = p
           \/ migrationLock = p /\ migrationLock' = NoProcess,
           place.at \in Locked => migrationLock' = p,
           place.at \in Walking => Abreast(p)',
           place.at \in {"sql", "record"} => AtNewFile(p)',
           place.at = "serving" =>
               \A i \in DOMAIN Directory[p] : recorded[NameAt(p, i)] = TextAt(p, i)
    PROVE  MigrationInv'
<1>1. MigrationTypes'
  BY DEF MigrationInv, MigrationTypes
<1>2. boot'[p] = place /\ \A q \in Process : q # p => boot'[q] = boot[q]
  BY DEF MigrationInv, MigrationTypes
<1>3. ASSUME NEW q \in Process
      PROVE  /\ boot'[q].at \in Locked => migrationLock' = q
             /\ boot'[q].at \in Walking => Abreast(q)'
             /\ boot'[q].at \in {"sql", "record"} => AtNewFile(q)'
             /\ boot'[q].at = "serving" =>
                   \A i \in DOMAIN Directory[q] : recorded'[NameAt(q, i)] = TextAt(q, i)
  <2>1. CASE q = p
    BY <2>1, <1>2
  <2>2. CASE q # p
    <3>1. boot'[q] = boot[q]
      BY <2>2, <1>2
    <3>2. boot[q].at \in Locked => migrationLock' = q
      BY <2>2, MigrationConstants DEF MigrationInv
    <3>3. Abreast(q) => Abreast(q)'
      BY <3>1 DEF Abreast
    <3>4. AtNewFile(q) => AtNewFile(q)'
      BY <3>1 DEF AtNewFile, FileOf
    <3> QED BY <3>1, <3>2, <3>3, <3>4 DEF MigrationInv
  <2> QED BY <2>1, <2>2
<1>4. collided' = FALSE /\ \A f \in File : objects'[f] = IF recorded'[f] = NoContent THEN <<>> ELSE <<recorded'[f]>>
  BY DEF MigrationInv
<1> QED BY <1>1, <1>3, <1>4 DEF MigrationInv

\* p commits the file it is at and stays, or is cut off, with its lock or without.
LEMMA CommitPreserves ==
    ASSUME MigrationInv, NEW p \in Process, boot[p].at = "record",
           recorded' = [recorded EXCEPT ![FileOf(p)] = ContentOf(p)],
           objects' = [objects EXCEPT ![FileOf(p)] = Append(@, ContentOf(p))],
           collided' = collided,
           \/ /\ boot' = [boot EXCEPT ![p] = [at |-> "file", seen |-> boot[p].seen, next |-> boot[p].next + 1]]
              /\ migrationLock' = migrationLock
           \/ boot' = [boot EXCEPT ![p] = NotBooted]
    PROVE  MigrationInv'
<1> DEFINE here == boot[p].next
<1>1. /\ migrationLock = p /\ Abreast(p) /\ AtNewFile(p)
  BY DEF MigrationInv, Locked, Walking
<1>2. here \in DOMAIN Directory[p] /\ here \in Nat
  BY <1>1, Places DEF Abreast, AtNewFile
<1>3. FileOf(p) = NameAt(p, here) /\ ContentOf(p) = TextAt(p, here)
  BY DEF FileOf, ContentOf, NameAt, TextAt
<1>4. FileOf(p) \in File /\ ContentOf(p) \in Content
  BY <1>2, <1>3, Places
<1>5. recorded[FileOf(p)] = NoContent
  BY <1>1, <1>2, <1>3 DEF Abreast, AtNewFile
<1>6. MigrationTypes'
  <2>1. recorded' \in [File -> Noted]
    BY <1>4 DEF MigrationInv, MigrationTypes, Noted
  <2>2. objects' \in [File -> Seq(Content)]
    BY <1>4 DEF MigrationInv, MigrationTypes
  <2>3. boot[p] \in Progress
    BY DEF MigrationInv, MigrationTypes
  <2>4. [at |-> "file", seen |-> boot[p].seen, next |-> boot[p].next + 1] \in Progress
    BY <2>3, <1>2 DEF Progress, Steps
  <2>5. NotBooted \in Progress
    BY DEF Progress, Steps, NotBooted
  <2>6. boot' \in [Process -> Progress]
    BY <2>4, <2>5 DEF MigrationInv, MigrationTypes
  <2> QED BY <2>1, <2>2, <2>6 DEF MigrationTypes
<1>7. ASSUME NEW f \in File
      PROVE  objects'[f] = IF recorded'[f] = NoContent THEN <<>> ELSE <<recorded'[f]>>
  <2>1. CASE f = FileOf(p)
    <3>1. objects[f] = <<>>
      BY <2>1, <1>5 DEF MigrationInv
    <3>2. objects'[f] = Append(<<>>, ContentOf(p)) /\ recorded'[f] = ContentOf(p)
      BY <3>1, <2>1 DEF MigrationInv, MigrationTypes
    <3>3. ContentOf(p) # NoContent
      BY <1>4, MigrationConstants
    <3>4. Append(<<>>, ContentOf(p)) = <<ContentOf(p)>>
      OBVIOUS
    <3> QED BY <3>2, <3>3, <3>4
  <2>2. CASE f # FileOf(p)
    BY <2>2 DEF MigrationInv, MigrationTypes
  <2> QED BY <2>1, <2>2
<1>8. ASSUME NEW q \in Process, q # p
      PROVE  /\ boot'[q].at \notin Locked
             /\ boot'[q].at = "serving" =>
                   \A i \in DOMAIN Directory[q] : recorded'[NameAt(q, i)] = TextAt(q, i)
  <2>1. boot'[q] = boot[q]
    BY <1>8 DEF MigrationInv, MigrationTypes
  <2>2. boot[q].at \notin Locked
    BY <1>1, <1>8 DEF MigrationInv
  <2>3. ASSUME boot[q].at = "serving", NEW i \in DOMAIN Directory[q]
        PROVE  recorded'[NameAt(q, i)] = TextAt(q, i)
    <3>1. recorded[NameAt(q, i)] = TextAt(q, i)
      BY <2>3 DEF MigrationInv
    <3>2. TextAt(q, i) # NoContent /\ NameAt(q, i) \in File
      BY Places, MigrationConstants
    <3>3. NameAt(q, i) # FileOf(p)
      BY <3>1, <3>2, <1>5
    <3> QED BY <3>1, <3>2, <3>3 DEF MigrationInv, MigrationTypes
  <2> QED BY <2>1, <2>2, <2>3
<1>9. CASE /\ boot' = [boot EXCEPT ![p] = [at |-> "file", seen |-> boot[p].seen, next |-> boot[p].next + 1]]
            /\ migrationLock' = migrationLock
  <2>1. boot'[p].at = "file" /\ boot'[p].next = here + 1 /\ boot'[p].seen = boot[p].seen
    BY <1>9 DEF MigrationInv, MigrationTypes, Progress
  <2>2. ASSUME NEW i \in DOMAIN Directory[p]
        PROVE  recorded'[NameAt(p, i)] = IF i < here + 1 THEN TextAt(p, i) ELSE boot[p].seen[NameAt(p, i)]
    <3>1. CASE i = here
      BY <3>1, <1>2, <1>3, <1>4 DEF MigrationInv, MigrationTypes
    <3>2. CASE i # here
      <4>1. NameAt(p, i) # FileOf(p) /\ NameAt(p, i) \in File
        BY <3>2, <1>2, <1>3, Places
      <4>2. recorded'[NameAt(p, i)] = recorded[NameAt(p, i)]
        BY <4>1 DEF MigrationInv, MigrationTypes
      <4>3. i \in Nat /\ (i < here + 1 <=> i < here)
        BY <3>2, <1>2, Places
      <4>4. recorded[NameAt(p, i)] = IF i < here THEN TextAt(p, i) ELSE boot[p].seen[NameAt(p, i)]
        BY <1>1 DEF Abreast
      <4> QED BY <4>2, <4>3, <4>4
    <3> QED BY <3>1, <3>2
  <2>3. here + 1 \in 1 .. Len(Directory[p]) + 1
    BY <1>2, Places
  <2>4. Abreast(p)'
    BY <2>1, <2>2, <2>3, <1>1 DEF Abreast
  <2>5. migrationLock' = p
    BY <1>1, <1>9
  <2> QED BY <1>6, <1>7, <1>8, <2>1, <2>4, <2>5 DEF MigrationInv, Locked, Walking
<1>10. CASE boot' = [boot EXCEPT ![p] = NotBooted]
  <2>1. boot'[p].at = "off"
    BY <1>10 DEF MigrationInv, MigrationTypes, NotBooted
  <2> QED BY <1>6, <1>7, <1>8, <2>1 DEF MigrationInv, Locked, Walking
<1> QED BY <1>9, <1>10

LEMMA MigrationStep == MigrationInv /\ [MigrationsNext]_migrationVars => MigrationInv'
<1> SUFFICES ASSUME MigrationInv, [MigrationsNext]_migrationVars PROVE MigrationInv'
  OBVIOUS
<1>0. NotBooted \in Progress /\ NotBooted.at = "off"
  BY DEF NotBooted, Progress, Steps
<1>1. ASSUME NEW p \in Process, boot[p] \in Progress, ConnectClient(p) PROVE MigrationInv'
  <2>1. [boot[p] EXCEPT !.at = "lock"] \in Progress
    BY <1>1 DEF Progress, Steps
  <2>2. boot' = [boot EXCEPT ![p] = [boot[p] EXCEPT !.at = "lock"]]
    BY <1>1 DEF ConnectClient, MovesTo
  <2>3. [boot[p] EXCEPT !.at = "lock"].at = "lock"
    BY <1>1 DEF Progress
  <2> QED BY <2>1, <2>2, <2>3, <1>1, QuietMigration DEF ConnectClient, Locked, Walking
<1>2. ASSUME NEW p \in Process, boot[p] \in Progress, AwaitLock(p) PROVE MigrationInv'
  <2>1. [boot[p] EXCEPT !.at = "read"] \in Progress
    BY <1>2 DEF Progress, Steps
  <2>2. boot' = [boot EXCEPT ![p] = [boot[p] EXCEPT !.at = "read"]]
    BY <1>2 DEF AwaitLock, MovesTo
  <2>3. [boot[p] EXCEPT !.at = "read"].at = "read"
    BY <1>2 DEF Progress
  <2> QED BY <2>1, <2>2, <2>3, <1>2, QuietMigration DEF AwaitLock, Locked, Walking
<1>3. ASSUME NEW p \in Process, boot[p] \in Progress, ReadLedger(p) PROVE MigrationInv'
  <2> DEFINE place == [at |-> "file", seen |-> recorded, next |-> 1]
  <2>1. place \in Progress
    BY DEF MigrationInv, MigrationTypes, Progress, Steps
  <2>2. boot' = [boot EXCEPT ![p] = place] /\ UNCHANGED <<migrationLock, recorded, objects, collided>>
    BY <1>3 DEF ReadLedger
  <2>3. boot'[p] = place
    BY <2>2 DEF MigrationInv, MigrationTypes
  <2>4. Abreast(p)'
    <3>1. 1 \in 1 .. Len(Directory[p]) + 1 /\ \A i \in DOMAIN Directory[p] : ~(i < 1)
      BY Places
    <3> QED BY <3>1, <2>2, <2>3 DEF Abreast, MigrationInv, MigrationTypes
  <2>5. migrationLock = p
    BY <1>3 DEF ReadLedger, Boots, MigrationInv, Locked
  <2> QED BY <2>1, <2>2, <2>4, <2>5, QuietMigration DEF Locked, Walking
<1>4. ASSUME NEW p \in Process, boot[p] \in Progress, NextFile(p) PROVE MigrationInv'
  <2> DEFINE here == boot[p].next
  <2>1. migrationLock = p /\ Abreast(p) /\ here <= Len(Directory[p])
    BY <1>4 DEF NextFile, Boots, MigrationInv, Locked, Walking
  <2>2. here \in DOMAIN Directory[p] /\ here \in Nat
    BY <2>1, Places DEF Abreast
  <2>3. FileOf(p) = NameAt(p, here) /\ ContentOf(p) = TextAt(p, here)
    BY DEF FileOf, ContentOf, NameAt, TextAt
  <2>4. CASE boot[p].seen[FileOf(p)] = NoContent /\ MovesTo(p, "sql")
    <3>1. [boot[p] EXCEPT !.at = "sql"] \in Progress
      BY <1>4 DEF Progress, Steps
    <3>2. boot' = [boot EXCEPT ![p] = [boot[p] EXCEPT !.at = "sql"]]
      BY <2>4 DEF MovesTo
    <3>3. /\ boot'[p] = [boot[p] EXCEPT !.at = "sql"] /\ boot'[p].at = "sql"
          /\ boot'[p].seen = boot[p].seen /\ boot'[p].next = boot[p].next
      BY <3>2, <1>4 DEF MigrationInv, MigrationTypes, Progress
    <3>4. recorded' = recorded
      BY <1>4 DEF NextFile
    <3>5. Abreast(p)' /\ AtNewFile(p)'
      BY <3>3, <3>4, <2>1, <2>4 DEF Abreast, AtNewFile, FileOf
    <3> QED BY <3>1, <3>2, <3>3, <3>5, <2>1, <1>4, QuietMigration DEF NextFile
  <2>5. CASE boot[p].seen[FileOf(p)] = ContentOf(p) /\ boot' = [boot EXCEPT ![p].next = @ + 1]
    <3>1. [boot[p] EXCEPT !.next = @ + 1] \in Progress
      BY <1>4, <2>2 DEF Progress, Steps
    <3>2. boot' = [boot EXCEPT ![p] = [boot[p] EXCEPT !.next = @ + 1]]
      BY <2>5
    <3>3. /\ boot'[p] = [boot[p] EXCEPT !.next = @ + 1] /\ boot'[p].at = "file"
          /\ boot'[p].seen = boot[p].seen /\ boot'[p].next = here + 1
      BY <3>2, <1>4 DEF MigrationInv, MigrationTypes, Progress, NextFile, Boots
    <3>4. recorded' = recorded
      BY <1>4 DEF NextFile
    <3>5. ASSUME NEW i \in DOMAIN Directory[p]
          PROVE  recorded[NameAt(p, i)] = IF i < here + 1 THEN TextAt(p, i) ELSE boot[p].seen[NameAt(p, i)]
      <4>1. recorded[NameAt(p, i)] = IF i < here THEN TextAt(p, i) ELSE boot[p].seen[NameAt(p, i)]
        BY <2>1 DEF Abreast
      <4>2. i \in Nat /\ (i < here + 1 <=> i < here \/ i = here)
        BY <2>2, Places
      <4>3. i = here => boot[p].seen[NameAt(p, i)] = TextAt(p, i)
        BY <2>3, <2>5
      <4> QED BY <4>1, <4>2, <4>3
    <3>6. here + 1 \in 1 .. Len(Directory[p]) + 1
      BY <2>2, Places
    <3>7. Abreast(p)'
      BY <3>3, <3>4, <3>5, <3>6, <2>1 DEF Abreast
    <3> QED BY <3>1, <3>2, <3>3, <3>7, <2>1, <1>4, QuietMigration DEF NextFile
  <2>6. CASE MovesTo(p, "throw")
    <3>1. [boot[p] EXCEPT !.at = "throw"] \in Progress
      BY <1>4 DEF Progress, Steps
    <3>2. [boot[p] EXCEPT !.at = "throw"].at = "throw"
      BY <1>4 DEF Progress
    <3>3. boot' = [boot EXCEPT ![p] = [boot[p] EXCEPT !.at = "throw"]]
      BY <2>6 DEF MovesTo
    <3> QED BY <3>1, <3>2, <3>3, <2>1, <1>4, QuietMigration DEF NextFile, Walking
  <2>7. \/ boot[p].seen[FileOf(p)] = NoContent /\ MovesTo(p, "sql")
        \/ boot[p].seen[FileOf(p)] = ContentOf(p) /\ boot' = [boot EXCEPT ![p].next = @ + 1]
        \/ MovesTo(p, "throw")
    BY <1>4 DEF NextFile
  <2> QED BY <2>4, <2>5, <2>6, <2>7
<1>5. ASSUME NEW p \in Process, boot[p] \in Progress, RunSql(p) PROVE MigrationInv'
  <2>1. /\ migrationLock = p /\ Abreast(p) /\ AtNewFile(p) /\ collided = FALSE
    BY <1>5 DEF RunSql, Boots, MigrationInv, Locked, Walking
  <2>2. boot[p].next \in DOMAIN Directory[p] /\ FileOf(p) = NameAt(p, boot[p].next)
    BY <2>1, Places DEF Abreast, AtNewFile, FileOf, NameAt
  <2>3. FileOf(p) \in File
    BY <2>2, Places
  <2>4. recorded[FileOf(p)] = NoContent
    BY <2>1, <2>2, Places DEF Abreast, AtNewFile
  <2>5. objects[FileOf(p)] = <<>>
    BY <2>3, <2>4 DEF MigrationInv
  <2>6. collided' = collided
    <3>1. collided' = (collided \/ FALSE) \/ collided' = collided
      BY <2>5, <1>5 DEF RunSql
    <3> QED BY <3>1, <2>1
  <2>7. ASSUME NEW at \in {"throw", "record"}, MovesTo(p, at) PROVE MigrationInv'
    <3>1. [boot[p] EXCEPT !.at = at] \in Progress
      BY <1>5 DEF Progress, Steps
    <3>2. boot' = [boot EXCEPT ![p] = [boot[p] EXCEPT !.at = at]]
      BY <2>7 DEF MovesTo
    <3>3. /\ boot'[p] = [boot[p] EXCEPT !.at = at] /\ boot'[p].at = at
          /\ boot'[p].seen = boot[p].seen /\ boot'[p].next = boot[p].next
      BY <3>2, <1>5 DEF MigrationInv, MigrationTypes, Progress
    <3>4. recorded' = recorded
      BY <1>5 DEF RunSql
    <3>5. Abreast(p)' /\ AtNewFile(p)'
      BY <3>3, <3>4, <2>1 DEF Abreast, AtNewFile, FileOf
    <3> QED BY <3>1, <3>2, <3>3, <3>5, <2>1, <2>6, <1>5, QuietMigration DEF RunSql
  <2> QED BY <2>7, <1>5 DEF RunSql
<1>6. ASSUME NEW p \in Process, boot[p] \in Progress, RecordFile(p) PROVE MigrationInv'
  <2>1. Abreast(p) /\ AtNewFile(p) /\ boot[p].at = "record"
    BY <1>6 DEF RecordFile, Boots, MigrationInv, Walking
  <2>2. boot[p].next \in DOMAIN Directory[p] /\ FileOf(p) = NameAt(p, boot[p].next)
    BY <2>1, Places DEF Abreast, AtNewFile, FileOf, NameAt
  <2>3. recorded[FileOf(p)] = NoContent
    BY <2>1, <2>2, Places DEF Abreast, AtNewFile
  <2> QED BY <2>1, <2>3, <1>6, CommitPreserves DEF RecordFile
<1>7. ASSUME NEW p \in Process, boot[p] \in Progress, ReleaseLock(p) PROVE MigrationInv'
  <2>1. migrationLock = p /\ migrationLock' = NoProcess
    BY <1>7 DEF ReleaseLock, Boots, MigrationInv, Locked
  <2>2. CASE Boots(p, "throw")
    BY <2>1, <2>2, <1>0, <1>7, QuietMigration DEF ReleaseLock, Locked, Walking
  <2>3. CASE ~Boots(p, "throw")
    <3>1. Boots(p, "file") /\ boot[p].next > Len(Directory[p]) /\ MovesTo(p, "serving")
      BY <2>3, <1>7 DEF ReleaseLock
    <3>2. Abreast(p)
      BY <3>1 DEF Boots, MigrationInv, Walking
    <3>3. ASSUME NEW i \in DOMAIN Directory[p] PROVE recorded[NameAt(p, i)] = TextAt(p, i)
      <4>1. i < boot[p].next
        BY <3>1, <3>2, Places DEF Abreast
      <4> QED BY <4>1, <3>2 DEF Abreast
    <3>4. [boot[p] EXCEPT !.at = "serving"] \in Progress
      BY <1>7 DEF Progress, Steps
    <3>5. [boot[p] EXCEPT !.at = "serving"].at = "serving"
      BY <1>7 DEF Progress
    <3>6. boot' = [boot EXCEPT ![p] = [boot[p] EXCEPT !.at = "serving"]]
      BY <3>1 DEF MovesTo
    <3> QED BY <3>3, <3>4, <3>5, <3>6, <2>1, <1>7, QuietMigration DEF ReleaseLock, Locked, Walking
  <2> QED BY <2>2, <2>3
<1>8. ASSUME NEW p \in Process, LoseConnection(p) PROVE MigrationInv'
  <2>1. CASE UNCHANGED <<recorded, objects>>
    <3>1. \/ migrationLock' = migrationLock
          \/ migrationLock = p /\ migrationLock' = NoProcess
      BY <1>8 DEF LoseConnection
    <3> QED BY <2>1, <3>1, <1>0, <1>8, QuietMigration DEF LoseConnection, Locked, Walking
  <2>2. CASE ~UNCHANGED <<recorded, objects>>
    BY <2>2, <1>8, CommitPreserves DEF LoseConnection, Boots
  <2> QED BY <2>1, <2>2
<1>9. ASSUME UNCHANGED migrationVars PROVE MigrationInv'
  BY <1>9 DEF migrationVars, MigrationInv, MigrationTypes, Abreast, AtNewFile, FileOf
<1>10. \A p \in Process : boot[p] \in Progress
  BY DEF MigrationInv, MigrationTypes
<1> QED
  BY <1>1, <1>2, <1>3, <1>4, <1>5, <1>6, <1>7, <1>8, <1>9, <1>10 DEF MigrationsNext, Migrate

(***************************************************************************)
(* Any number of processes of any builds, whatever connections are lost:   *)
(* no file is refused because another process has run it (migrate.ts: the  *)
(* advisory lock, one transaction for a file and its record).              *)
(***************************************************************************)
THEOREM MigratorsExclude == MigrationsSpec => []NobodyCollides
<1>1. MigrationInv => NobodyCollides
  BY DEF MigrationInv, NobodyCollides
<1> QED BY MigrationStart, MigrationStep, <1>1, PTL DEF MigrationsSpec

(***************************************************************************)
(* The ledger says of each file what was done to the database, once, and a *)
(* process that serves finds every file of its build there, with the       *)
(* content its build has.                                                  *)
(***************************************************************************)
THEOREM ServersHaveTheirSchema == MigrationsSpec => []ServesItsSchema
<1>1. MigrationInv => ServesItsSchema
  BY DEF MigrationInv, ServesItsSchema, Boots, NameAt, TextAt
<1> QED BY MigrationStart, MigrationStep, <1>1, PTL DEF MigrationsSpec

\* Where each process is, and where the recorded contents come from.
BootTypes ==
    /\ migrationLock \in Process \cup {NoProcess} /\ losses \in 0 .. MaxLosses
    /\ \A p \in Process : boot[p].next \in 1 .. Len(Directory[p]) + 1
    /\ \A f \in File :
          recorded[f] = NoContent \/ \E p \in Process : \E i \in DOMAIN Directory[p] : Directory[p][i] = <<f, recorded[f]>>

LEMMA BootTypesStart == MigrationsInit => BootTypes
<1> SUFFICES ASSUME MigrationsInit PROVE BootTypes
  OBVIOUS
<1>1. \A p \in Process : 1 \in 1 .. Len(Directory[p]) + 1
  BY Places
<1> QED BY <1>1, MigrationConstants DEF MigrationsInit, BootTypes, NotBooted

LEMMA BootTypesStep == MigrationInv /\ BootTypes /\ [MigrationsNext]_migrationVars => BootTypes'
<1> SUFFICES ASSUME MigrationInv, BootTypes, [MigrationsNext]_migrationVars PROVE BootTypes'
  OBVIOUS
<1> USE MigrationConstants
<1>1. ASSUME NEW p \in Process, NEW place \in Progress, boot' = [boot EXCEPT ![p] = place],
             place.next \in 1 .. Len(Directory[p]) + 1,
             recorded' = recorded \/ (recorded' = [recorded EXCEPT ![FileOf(p)] = ContentOf(p)] /\ Boots(p, "record")),
             migrationLock' \in {migrationLock, p, NoProcess}, losses' \in 0 .. MaxLosses
      PROVE  BootTypes'
  <2>1. \A q \in Process : boot'[q] = IF q = p THEN place ELSE boot[q]
    BY <1>1 DEF MigrationInv, MigrationTypes
  <2>2. \A q \in Process : boot'[q].next \in 1 .. Len(Directory[q]) + 1
    BY <2>1, <1>1 DEF BootTypes
  <2>3. ASSUME Boots(p, "record"), recorded' = [recorded EXCEPT ![FileOf(p)] = ContentOf(p)], NEW f \in File
        PROVE  recorded'[f] = NoContent \/ \E q \in Process : \E i \in DOMAIN Directory[q] : Directory[q][i] = <<f, recorded'[f]>>
    <3>1. CASE f = FileOf(p)
      <4>1. Abreast(p) /\ AtNewFile(p)
        BY <2>3 DEF Boots, MigrationInv, Walking
      <4>2. boot[p].next \in DOMAIN Directory[p]
        BY <4>1, Places DEF Abreast, AtNewFile
      <4>3. Directory[p][boot[p].next] \in File \X Content
        BY <4>2
      <4>4. Directory[p][boot[p].next] = <<f, ContentOf(p)>>
        BY <3>1, <4>3 DEF FileOf, ContentOf
      <4>5. recorded'[f] = ContentOf(p)
        BY <3>1, <2>3 DEF MigrationInv, MigrationTypes
      <4> QED BY <4>2, <4>4, <4>5
    <3>2. CASE f # FileOf(p)
      <4>1. recorded'[f] = recorded[f]
        BY <3>2, <2>3 DEF MigrationInv, MigrationTypes
      <4> QED BY <4>1 DEF BootTypes
    <3> QED BY <3>1, <3>2
  <2>4. ASSUME NEW f \in File
        PROVE  recorded'[f] = NoContent \/ \E q \in Process : \E i \in DOMAIN Directory[q] : Directory[q][i] = <<f, recorded'[f]>>
    BY <1>1, <2>3 DEF BootTypes
  <2>5. migrationLock' \in Process \cup {NoProcess}
    BY <1>1 DEF BootTypes
  <2> QED BY <1>1, <2>2, <2>4, <2>5 DEF BootTypes
<1>2. ASSUME NEW p \in Process, Migrate(p) PROVE BootTypes'
  <2>1. boot[p] \in Progress /\ boot[p].next \in 1 .. Len(Directory[p]) + 1
    BY DEF MigrationInv, MigrationTypes, BootTypes
  <2>2. NotBooted \in Progress /\ NotBooted.next \in 1 .. Len(Directory[p]) + 1
    BY Places DEF NotBooted, Progress, Steps
  <2>3. ASSUME NEW at \in Steps, MovesTo(p, at)
        PROVE  /\ boot' = [boot EXCEPT ![p] = [boot[p] EXCEPT !.at = at]]
               /\ [boot[p] EXCEPT !.at = at] \in Progress
               /\ [boot[p] EXCEPT !.at = at].next \in 1 .. Len(Directory[p]) + 1
    BY <2>1, <2>3 DEF MovesTo, Progress
  <2>4. losses \in 0 .. MaxLosses
    BY DEF BootTypes
  <2>5. CASE ConnectClient(p) \/ AwaitLock(p)
    <3>1. PICK at \in Steps : MovesTo(p, at)
      BY <2>5 DEF ConnectClient, AwaitLock, Steps
    <3>2. recorded' = recorded /\ migrationLock' \in {migrationLock, p, NoProcess} /\ losses' = losses
      BY <2>5 DEF ConnectClient, AwaitLock
    <3> QED BY <3>1, <3>2, <2>3, <2>4, <1>1
  <2>6. CASE ReadLedger(p)
    <3>1. [at |-> "file", seen |-> recorded, next |-> 1] \in Progress
      BY DEF MigrationInv, MigrationTypes, Progress, Steps
    <3> QED BY <2>6, <2>2, <2>4, <3>1, <1>1 DEF ReadLedger, NotBooted
  <2>7. CASE NextFile(p)
    <3>0. recorded' = recorded /\ migrationLock' = migrationLock /\ losses' = losses
      BY <2>7 DEF NextFile
    <3>1. CASE \E at \in Steps : MovesTo(p, at)
      BY <3>0, <3>1, <2>3, <2>4, <1>1
    <3>2. CASE boot' = [boot EXCEPT ![p].next = @ + 1]
      <4>1. boot[p].next + 1 \in 1 .. Len(Directory[p]) + 1
        BY <2>1, <2>7, Places DEF NextFile
      <4>2. boot' = [boot EXCEPT ![p] = [boot[p] EXCEPT !.next = boot[p].next + 1]]
        BY <3>2
      <4>3. /\ [boot[p] EXCEPT !.next = boot[p].next + 1] \in Progress
            /\ [boot[p] EXCEPT !.next = boot[p].next + 1].next = boot[p].next + 1
        <5>1. boot[p] \in Progress /\ boot[p].next + 1 \in Nat
          BY <2>1 DEF Progress
        <5> QED BY <5>1 DEF Progress
      <4> QED BY <3>0, <4>1, <4>2, <4>3, <2>4, <1>1
    <3>3. MovesTo(p, "sql") \/ MovesTo(p, "throw") \/ boot' = [boot EXCEPT ![p].next = @ + 1]
      BY <2>7 DEF NextFile
    <3> QED BY <3>1, <3>2, <3>3 DEF Steps
  <2>8. CASE RunSql(p)
    <3>1. PICK at \in Steps : MovesTo(p, at)
      BY <2>8 DEF RunSql, Steps
    <3>2. recorded' = recorded /\ migrationLock' = migrationLock /\ losses' = losses
      BY <2>8 DEF RunSql
    <3> QED BY <3>1, <3>2, <2>3, <2>4, <1>1
  <2>9. CASE RecordFile(p)
    <3>1. CASE MovesTo(p, "throw") /\ recorded' = recorded
      <4>1. "throw" \in Steps
        BY DEF Steps
      <4> QED BY <3>1, <4>1, <2>9, <2>3, <2>4, <1>1 DEF RecordFile
    <3>2. CASE /\ recorded' = [recorded EXCEPT ![FileOf(p)] = ContentOf(p)]
               /\ boot' = [boot EXCEPT ![p] = [at |-> "file", seen |-> boot[p].seen, next |-> boot[p].next + 1]]
      <4>1. Abreast(p) /\ AtNewFile(p)
        BY <2>9 DEF RecordFile, Boots, MigrationInv, Walking
      <4>2. boot[p].next + 1 \in 1 .. Len(Directory[p]) + 1
        BY <4>1, Places DEF Abreast, AtNewFile
      <4>3. [at |-> "file", seen |-> boot[p].seen, next |-> boot[p].next + 1] \in Progress
        BY <4>2, <2>1 DEF Progress, Steps
      <4> QED BY <3>2, <4>2, <4>3, <2>9, <2>4, <1>1 DEF RecordFile
    <3> QED BY <2>9, <3>1, <3>2 DEF RecordFile
  <2>10. CASE ReleaseLock(p)
    <3>1. boot' = [boot EXCEPT ![p] = NotBooted] \/ MovesTo(p, "serving")
      BY <2>10 DEF ReleaseLock
    <3>2. recorded' = recorded /\ migrationLock' \in {migrationLock, p, NoProcess} /\ losses' = losses
      BY <2>10 DEF ReleaseLock
    <3>3. "serving" \in Steps
      BY DEF Steps
    <3> QED BY <3>1, <3>2, <3>3, <2>2, <2>3, <2>4, <1>1
  <2>11. CASE LoseConnection(p)
    <3>1. losses' \in 0 .. MaxLosses
      BY <2>4, <2>11 DEF LoseConnection
    <3>2. migrationLock' \in {migrationLock, p, NoProcess}
      BY <2>11 DEF LoseConnection
    <3>3. recorded' = recorded \/ (recorded' = [recorded EXCEPT ![FileOf(p)] = ContentOf(p)] /\ Boots(p, "record"))
      BY <2>11 DEF LoseConnection
    <3>4. boot' = [boot EXCEPT ![p] = NotBooted]
      BY <2>11 DEF LoseConnection
    <3> QED BY <3>1, <3>2, <3>3, <3>4, <2>2, <1>1
  <2> QED BY <1>2, <2>5, <2>6, <2>7, <2>8, <2>9, <2>10, <2>11 DEF Migrate
<1>3. ASSUME UNCHANGED migrationVars PROVE BootTypes'
  BY <1>3 DEF migrationVars, BootTypes
<1> QED BY <1>2, <1>3 DEF MigrationsNext

(***************************************************************************)
(* The composition that TLC runs, for any processes, builds and losses:    *)
(* where every process is, nobody collides over a file, and who serves has *)
(* the schema of its build (migrate.ts, index.ts of the API).              *)
(***************************************************************************)
THEOREM BootKeepsItsPromise == ServicesSpec => []BootHolds
<1> DEFINE Inv == MigrationInv /\ BootTypes
<1>1. ServicesInit => Inv
  BY MigrationStart, BootTypesStart DEF ServicesInit
<1>2. Inv /\ [ServicesNext]_servicesVars => Inv'
  <2>1. [ServicesNext]_servicesVars => [MigrationsNext]_migrationVars
    BY DEF ServicesNext, servicesVars
  <2> QED BY <2>1, MigrationStep, BootTypesStep
<1>3. Inv => BootHolds
  BY DEF BootHolds, MigrationsTypeOK, NobodyCollides, ServesItsSchema, MigrationInv, MigrationTypes,
         BootTypes, Progress, Boots, NameAt, TextAt
<1> QED BY <1>1, <1>2, <1>3, PTL DEF ServicesSpec

-----------------------------------------------------------------------------
(* The rate limit                                                          *)

BucketRow == [tokens : 0 .. Capacity, updatedAt : 0 .. MaxTick]
CallerState == [at : {"idle", "ensure", "take", "denied"}, now : 0 .. MaxTick,
                until : 0 .. MaxTick + Token, told : BOOLEAN]

BucketTypes ==
    /\ tick \in 0 .. MaxTick /\ born \in 0 .. tick
    /\ bucket = <<>> \/ (bucket \in BucketRow /\ bucket # <<>> /\ bucket.updatedAt <= tick)
    /\ caller \in [Client -> CallerState]
    /\ \A c \in Client :
          /\ caller[c].now <= tick
          /\ caller[c].at \in {"take", "denied"} => bucket # <<>>
    /\ taken \in Nat /\ disordered \in BOOLEAN /\ alone \subseteq Client

(***************************************************************************)
(* What was taken and what is left were given at the start or refilled     *)
(* since, up to the time the row carries.                                  *)
(***************************************************************************)
Conserved ==
    IF bucket = <<>> THEN taken = 0
    ELSE disordered \/ taken * Token + bucket.tokens <= Capacity + (bucket.updatedAt - born)

(***************************************************************************)
(* Whoever was told to wait and has not been overtaken will find a token   *)
(* at the time it was told, and so at any later time.                      *)
(***************************************************************************)
WaitIsEnough ==
    \A c \in alone :
        /\ bucket # <<>> /\ caller[c].at # "denied"
        /\ Balance(IF caller[c].at = "idle" THEN caller[c].until ELSE caller[c].now) >= Token

BucketInv == BucketTypes /\ Conserved /\ WaitIsEnough

LEMMA BucketStart == BucketInit => BucketInv
<1> SUFFICES ASSUME BucketInit PROVE BucketInv
  OBVIOUS
<1>1. Resting \in CallerState /\ Resting.now = 0 /\ Resting.at = "idle"
  BY BucketConstants DEF Resting, CallerState
<1>2. BucketTypes
  <2>1. caller \in [Client -> CallerState] /\ \A c \in Client : caller[c].now = 0 /\ caller[c].at = "idle"
    BY <1>1 DEF BucketInit
  <2>2. tick \in 0 .. MaxTick /\ born \in 0 .. tick /\ taken \in Nat /\ 0 <= tick
    BY BucketConstants DEF BucketInit
  <2>3. bucket = <<>> /\ disordered \in BOOLEAN /\ alone \subseteq Client
    BY DEF BucketInit
  <2> QED BY <2>1, <2>2, <2>3, BucketConstants DEF BucketInit, BucketTypes
<1>3. Conserved /\ WaitIsEnough
  BY DEF BucketInit, Conserved, WaitIsEnough
<1> QED BY <1>2, <1>3 DEF BucketInv

\* The balance is a number of the bucket, grows with the time, and is no more than
\* what was left and what was refilled.
LEMMA BalanceGrows ==
    ASSUME bucket \in BucketRow, NEW x \in Nat, NEW y \in Nat, x <= y
    PROVE  /\ Balance(x) \in 0 .. Capacity
           /\ Balance(x) <= Balance(y)
           /\ bucket.updatedAt <= x => Balance(x) <= bucket.tokens + (x - bucket.updatedAt)
           /\ bucket.updatedAt <= x /\ Balance(x) < Capacity => Balance(x) = bucket.tokens + (x - bucket.updatedAt)
BY BucketConstants DEF BucketRow, Balance, AtMost, Atleast0

LEMMA RowIsNoTuple ==
    ASSUME NEW left, NEW at PROVE [tokens |-> left, updatedAt |-> at] # <<>>
<1>1. "tokens" \in DOMAIN [tokens |-> left, updatedAt |-> at]
  OBVIOUS
<1>2. "tokens" \notin DOMAIN <<>>
  OBVIOUS
<1> QED BY <1>1, <1>2

\* A caller moves; the row stays as it is.
LEMMA CallerMoves ==
    ASSUME BucketInv, NEW c \in Client, NEW news \in CallerState, Walks(c, news),
           UNCHANGED <<tick, bucket, taken, born, disordered>>,
           alone' \subseteq alone \cup {c},
           news.now <= tick,
           news.at \in {"take", "denied"} => bucket # <<>>,
           c \in alone' =>
              /\ bucket # <<>> /\ news.at # "denied"
              /\ Balance(IF news.at = "idle" THEN news.until ELSE news.now) >= Token
    PROVE  BucketInv'
<1>1. \A d \in Client : caller'[d] = IF d = c THEN news ELSE caller[d]
  BY DEF BucketInv, BucketTypes, Walks
<1>2. BucketTypes'
  BY <1>1 DEF BucketInv, BucketTypes, Walks
<1>3. Conserved'
  BY DEF BucketInv, Conserved
<1>4. WaitIsEnough'
  <2> SUFFICES ASSUME NEW d \in alone'
               PROVE  /\ bucket # <<>> /\ caller'[d].at # "denied"
                      /\ Balance(IF caller'[d].at = "idle" THEN caller'[d].until ELSE caller'[d].now) >= Token
    BY DEF WaitIsEnough, Balance
  <2>1. CASE d = c
    BY <2>1, <1>1
  <2>2. CASE d # c
    BY <2>2, <1>1 DEF BucketInv, WaitIsEnough, BucketTypes
  <2> QED BY <2>1, <2>2
<1> QED BY <1>2, <1>3, <1>4 DEF BucketInv

LEMMA BucketStep == BucketInv /\ [BucketNext]_bucketVars => BucketInv'
<1> SUFFICES ASSUME BucketInv, [BucketNext]_bucketVars PROVE BucketInv'
  OBVIOUS
<1> USE BucketConstants
<1>0. /\ \A c \in Client : caller[c] \in CallerState /\ caller[c].now \in Nat /\ caller[c].now <= tick
      /\ tick \in 0 .. MaxTick /\ tick \in Nat /\ born \in Nat
      /\ bucket # <<>> => (bucket \in BucketRow /\ bucket.updatedAt \in Nat /\ bucket.updatedAt <= tick)
  <2>1. tick \in 0 .. MaxTick /\ born \in 0 .. tick
    BY DEF BucketInv, BucketTypes
  <2>2. bucket # <<>> => (bucket \in BucketRow /\ bucket.updatedAt <= tick)
    BY DEF BucketInv, BucketTypes
  <2>3. \A c \in Client : caller[c] \in CallerState /\ caller[c].now <= tick
    BY DEF BucketInv, BucketTypes
  <2>4. \A state \in CallerState : state.now \in Nat
    BY DEF CallerState
  <2>5. \A b \in BucketRow : b.updatedAt \in Nat
    BY DEF BucketRow
  <2> QED BY <2>1, <2>2, <2>3, <2>4, <2>5
<1>1. ASSUME BucketTick PROVE BucketInv'
  <2>1. BucketTypes'
    <3>1. tick' = tick + 1 /\ tick' \in 0 .. MaxTick /\ born \in 0 .. tick'
      BY <1>1, <1>0 DEF BucketTick, BucketInv, BucketTypes
    <3>2. UNCHANGED <<bucket, caller, taken, born, disordered, alone>>
      BY <1>1 DEF BucketTick
    <3>3. bucket # <<>> => bucket.updatedAt <= tick'
      BY <3>1, <1>0
    <3>4. \A c \in Client : caller[c].now <= tick'
      BY <3>1, <1>0
    <3> QED BY <3>1, <3>2, <3>3, <3>4 DEF BucketInv, BucketTypes
  <2>2. Conserved' /\ WaitIsEnough'
    BY <1>1 DEF BucketTick, BucketInv, Conserved, WaitIsEnough, Balance
  <2> QED BY <2>1, <2>2 DEF BucketInv
<1>2. ASSUME NEW c \in Client, ReadClock(c) PROVE BucketInv'
  <2> DEFINE news == [caller[c] EXCEPT !.at = "ensure", !.now = tick]
  <2>1. /\ news \in CallerState /\ news.at = "ensure" /\ news.now = tick
    BY <1>0 DEF CallerState, BucketInv, BucketTypes
  <2>2. c \in alone => bucket # <<>> /\ Balance(tick) >= Token
    <3> SUFFICES ASSUME c \in alone PROVE bucket # <<>> /\ Balance(tick) >= Token
      OBVIOUS
    <3>1. bucket # <<>> /\ Balance(caller[c].until) >= Token /\ caller[c].until <= tick
      BY <1>2 DEF BucketInv, WaitIsEnough, ReadClock, Stands
    <3>2. caller[c].until \in Nat /\ bucket \in BucketRow
      BY <1>0, <3>1 DEF CallerState
    <3>3. Balance(caller[c].until) \in Int /\ Balance(tick) \in Int /\ Balance(caller[c].until) <= Balance(tick)
      <4>1. PICK until \in Nat : until = caller[c].until
        BY <3>2
      <4>2. tick \in Nat /\ until <= tick
        BY <4>1, <3>1, <1>0
      <4>3. Balance(until) \in 0 .. Capacity /\ Balance(tick) \in 0 .. Capacity /\ Balance(until) <= Balance(tick)
        BY <4>1, <4>2, <3>2, BalanceGrows
      <4> QED BY <4>1, <4>3
    <3> QED BY <3>1, <3>3
  <2>3. Walks(c, news) /\ UNCHANGED <<tick, bucket, taken, born, disordered, alone>>
    BY <1>2 DEF ReadClock
  <2> HIDE DEF news
  <2> QED BY <2>1, <2>2, <2>3, <1>0, CallerMoves
<1>3. ASSUME NEW c \in Client, EnsureBucket(c) PROVE BucketInv'
  <2> DEFINE news == [caller[c] EXCEPT !.at = "take"]
  <2>1. /\ news \in CallerState /\ news.at = "take" /\ news.now = caller[c].now
    BY <1>0 DEF CallerState
  <2>2. Walks(c, news) /\ UNCHANGED <<tick, taken, disordered, alone>> /\ caller[c].at = "ensure"
    BY <1>3 DEF EnsureBucket, Stands
  <2> HIDE DEF news
  <2>3. CASE bucket # <<>>
    <3>1. UNCHANGED <<bucket, born>>
      BY <1>3, <2>3 DEF EnsureBucket
    <3>2. c \in alone => Balance(caller[c].now) >= Token
      BY <2>2 DEF BucketInv, WaitIsEnough
    <3> QED BY <2>1, <2>2, <2>3, <3>1, <3>2, <1>0, CallerMoves
  <2>4. CASE bucket = <<>>
    <3>1. bucket' = [tokens |-> Capacity, updatedAt |-> caller[c].now] /\ born' = caller[c].now
      BY <1>3, <2>4 DEF EnsureBucket
    <3>2. bucket' # <<>> /\ bucket' \in BucketRow /\ bucket'.updatedAt = born' /\ bucket'.tokens = Capacity
      BY <3>1, <1>0, RowIsNoTuple DEF BucketRow, CallerState
    <3>3. alone = {} /\ taken = 0
      BY <2>4 DEF BucketInv, WaitIsEnough, Conserved
    <3>4. \A d \in Client : caller'[d] = IF d = c THEN news ELSE caller[d]
      BY <2>2 DEF BucketInv, BucketTypes, Walks
    <3>5. BucketTypes'
      BY <2>1, <2>2, <3>1, <3>2, <3>4, <1>0 DEF BucketInv, BucketTypes, Walks
    <3>6. Conserved'
      BY <2>2, <3>2, <3>3, <3>1, <1>0 DEF Conserved
    <3>7. WaitIsEnough'
      BY <2>2, <3>3 DEF WaitIsEnough
    <3> QED BY <3>5, <3>6, <3>7 DEF BucketInv
  <2> QED BY <2>3, <2>4
<1>4. ASSUME NEW c \in Client, TakeToken(c) PROVE BucketInv'
  <2> DEFINE now == caller[c].now
             served == Balance(now) >= Token
  <2>1. bucket # <<>> /\ bucket \in BucketRow /\ now \in Nat /\ caller[c].at = "take"
    BY <1>4, <1>0 DEF TakeToken, Stands, BucketInv, BucketTypes
  <2>2. /\ Balance(now) \in 0 .. Capacity
        /\ bucket.updatedAt <= now => Balance(now) <= bucket.tokens + (now - bucket.updatedAt)
    BY <2>1, BalanceGrows
  <2>3. CASE ~served
    <3> DEFINE news == [caller[c] EXCEPT !.at = "denied"]
    <3>1. news \in CallerState /\ news.at = "denied" /\ news.now = caller[c].now
      BY <1>0 DEF CallerState
    <3>2. Walks(c, news) /\ UNCHANGED <<tick, bucket, taken, born, alone>> /\ disordered' = (disordered \/ FALSE)
      BY <1>4, <2>3 DEF TakeToken
    <3>3. disordered' = disordered
      BY <3>2 DEF BucketInv, BucketTypes
    <3>4. c \notin alone
      BY <2>1, <2>3 DEF BucketInv, WaitIsEnough
    <3> HIDE DEF news
    <3> QED BY <2>1, <3>1, <3>2, <3>3, <3>4, <1>0, CallerMoves
  <2>4. CASE served
    <3>1. /\ bucket' = [tokens |-> Balance(now) - Token, updatedAt |-> now] /\ taken' = taken + 1
          /\ disordered' = (disordered \/ now < bucket.updatedAt)
          /\ alone' = {} /\ Walks(c, Resting) /\ UNCHANGED <<tick, born>>
      BY <1>4, <2>4 DEF TakeToken
    <3>2. /\ bucket' # <<>> /\ bucket' \in BucketRow
          /\ bucket'.tokens = Balance(now) - Token /\ bucket'.updatedAt = now
      BY <3>1, <2>1, <2>2, <2>4, <1>0, RowIsNoTuple DEF BucketRow, CallerState
    <3>3. Resting \in CallerState /\ Resting.now = 0 /\ Resting.at = "idle"
      BY DEF Resting, CallerState
    <3>4. \A d \in Client : caller'[d] = IF d = c THEN Resting ELSE caller[d]
      BY <3>1 DEF BucketInv, BucketTypes, Walks
    <3>5. BucketTypes'
      <4>1. caller' \in [Client -> CallerState]
        BY <3>1, <3>3 DEF BucketInv, BucketTypes, Walks
      <4>2. disordered' \in BOOLEAN
        BY <3>1
      <4>3. \A d \in Client : caller'[d].now <= tick
        BY <3>3, <3>4, <1>0
      <4> QED BY <4>1, <4>2, <4>3, <3>1, <3>2, <1>0 DEF BucketInv, BucketTypes
    <3>6. Conserved'
      <4> SUFFICES ASSUME ~disordered'
                   PROVE  taken' * Token + bucket'.tokens <= Capacity + (bucket'.updatedAt - born)
        BY <3>1, <3>2 DEF Conserved
      <4>0. bucket.updatedAt \in Int /\ now \in Int
        BY <2>1 DEF BucketRow
      <4>1. ~disordered /\ ~(now < bucket.updatedAt)
        <5> HIDE DEF now
        <5> QED BY <3>1, Zenon
      <4>1a. bucket.updatedAt <= now
        BY <4>0, <4>1
      <4>2. taken * Token + bucket.tokens <= Capacity + (bucket.updatedAt - born)
        BY <4>1, <2>1 DEF BucketInv, Conserved
      <4>3. taken \in Nat /\ (taken + 1) * Token = taken * Token + Token /\ taken * Token \in Int
        BY DEF BucketInv, BucketTypes
      <4>4. bucket.tokens \in Int /\ bucket.updatedAt \in Int /\ Balance(now) \in Int /\ now \in Int /\ born \in Int
        BY <2>1, <2>2, <1>0 DEF BucketRow
      <4>5. taken' * Token = taken * Token + Token
        BY <3>1, <4>3
      <4>6. Balance(now) <= bucket.tokens + (now - bucket.updatedAt)
        BY <2>2, <4>1a
      <4> HIDE DEF now
      <4> QED BY SMTT(30), <4>2, <4>3, <4>4, <4>5, <4>6, <3>2
    <3>7. WaitIsEnough'
      BY <3>1 DEF WaitIsEnough
    <3> QED BY <3>5, <3>6, <3>7 DEF BucketInv
  <2> QED BY <2>3, <2>4
<1>5. ASSUME NEW c \in Client, TellWait(c) PROVE BucketInv'
  <2> DEFINE now == caller[c].now
             missing == Atleast0(Token - Balance(now))
             wait == IF missing = 0 THEN 1 ELSE missing
             news == [at |-> "idle", now |-> 0, until |-> now + wait, told |-> TRUE]
  <2>1. bucket # <<>> /\ bucket \in BucketRow /\ now \in 0 .. MaxTick /\ caller[c].at = "denied"
    BY <1>5, <1>0 DEF TellWait, Stands, BucketInv, BucketTypes, CallerState
  <2>2. Balance(now) \in 0 .. Capacity
    BY <2>1, BalanceGrows
  <2>3. wait \in 1 .. Token /\ Balance(now) + wait >= Token
    BY <2>2 DEF Atleast0
  <2>4. c \notin alone
    BY <2>1 DEF BucketInv, WaitIsEnough
  <2>5. Walks(c, news) /\ UNCHANGED <<tick, bucket, taken, born, disordered>>
    BY <1>5 DEF TellWait
  <2>6. alone' = IF now >= bucket.updatedAt THEN alone \cup {c} ELSE alone
    BY <1>5 DEF TellWait
  <2>7. now >= bucket.updatedAt => Balance(now + wait) >= Token
    <3> SUFFICES ASSUME now >= bucket.updatedAt PROVE Balance(now + wait) >= Token
      OBVIOUS
    <3> HIDE DEF wait, now
    <3>1. now + wait \in Nat /\ now <= now + wait /\ bucket.updatedAt \in Int /\ bucket.tokens \in Int
      BY <2>1, <2>3 DEF BucketRow
    <3>2. Balance(now + wait) = AtMost(bucket.tokens + (now - bucket.updatedAt) + wait, Capacity)
      BY <2>1, <2>3, <3>1 DEF Balance, Atleast0, BucketRow
    <3>3. Balance(now) = AtMost(bucket.tokens + (now - bucket.updatedAt), Capacity)
      BY <2>1, <2>3, <3>1 DEF Balance, Atleast0, BucketRow
    <3> QED BY <3>1, <3>2, <3>3, <2>1, <2>3 DEF AtMost
  <2>8. news \in CallerState /\ news.at = "idle" /\ news.now = 0 /\ news.until = now + wait
    BY <2>1, <2>3 DEF CallerState
  <2> HIDE DEF news, wait, now
  <2> QED BY <2>1, <2>4, <2>5, <2>6, <2>7, <2>8, <1>0, CallerMoves
<1>6. ASSUME UNCHANGED bucketVars PROVE BucketInv'
  BY <1>6 DEF bucketVars, BucketInv, BucketTypes, Conserved, WaitIsEnough, Balance
<1> QED BY <1>1, <1>2, <1>3, <1>4, <1>5, <1>6 DEF BucketNext

LEMMA AllowanceStands == BucketInv => AllowanceHolds /\ WaitSuffices
<1> SUFFICES ASSUME BucketInv PROVE AllowanceHolds /\ WaitSuffices
  OBVIOUS
<1>1. WaitSuffices
  BY DEF BucketInv, WaitIsEnough, WaitSuffices, Stands
<1>2. AllowanceHolds
  <2> SUFFICES ASSUME ~disordered PROVE taken * Token <= Capacity + Atleast0(tick - born)
    BY DEF AllowanceHolds
  <2>1. CASE bucket = <<>>
    BY <2>1, BucketConstants DEF BucketInv, BucketTypes, Conserved, Atleast0
  <2>2. CASE bucket # <<>>
    <3>1. taken * Token \in Int
      BY BucketConstants DEF BucketInv, BucketTypes
    <3>2. taken * Token + bucket.tokens <= Capacity + (bucket.updatedAt - born)
      BY <2>2 DEF BucketInv, Conserved
    <3>3. bucket.tokens \in Nat /\ bucket.updatedAt \in Nat /\ bucket.updatedAt <= tick /\ born \in Nat /\ tick \in Nat
      BY <2>2, BucketConstants DEF BucketInv, BucketTypes, BucketRow
    <3> QED BY <3>1, <3>2, <3>3, BucketConstants DEF Atleast0
  <2> QED BY <2>1, <2>2
<1> QED BY <1>1, <1>2

(***************************************************************************)
(* For any number of callers, burst, refill and clock: no span of time     *)
(* lets more through than its allowance as long as the statements come in  *)
(* the order of their clocks, and one who waits as long as told is served  *)
(* (rate-limit.ts, tryAcquire).                                            *)
(***************************************************************************)
THEOREM AllowanceKept == BucketSpec => [](AllowanceHolds /\ WaitSuffices)
BY BucketStart, BucketStep, AllowanceStands, PTL DEF BucketSpec

(***************************************************************************)
(* The composition that TLC runs, for any callers and any bucket: the row  *)
(* and the callers are what they are declared to be, and the two promises  *)
(* above hold (rate-limit.ts, tryAcquire and retryAfterMs).                *)
(***************************************************************************)
THEOREM BucketKeepsItsPromise == ServicesSpec => []BucketHolds
<1>1. ServicesInit => BucketInv
  BY BucketStart DEF ServicesInit
<1>2. BucketInv /\ [ServicesNext]_servicesVars => BucketInv'
  <2>1. [ServicesNext]_servicesVars => [BucketNext]_bucketVars
    BY DEF ServicesNext, servicesVars
  <2> QED BY <2>1, BucketStep
<1>3. BucketInv => BucketHolds
  <2>1. BucketInv => BucketTypeOK
    <3> SUFFICES ASSUME BucketInv PROVE BucketTypeOK
      OBVIOUS
    <3>1. tick \in 0 .. MaxTick /\ born \in 0 .. MaxTick
      BY BucketConstants DEF BucketInv, BucketTypes
    <3>2. \A b \in BucketRow : b.tokens \in 0 .. Capacity /\ b.updatedAt \in 0 .. MaxTick
      BY DEF BucketRow
    <3> QED BY <3>1, <3>2 DEF BucketTypeOK, BucketInv, BucketTypes, CallerState
  <2> QED BY <2>1, AllowanceStands DEF BucketHolds
<1> QED BY <1>1, <1>2, <1>3, PTL DEF ServicesSpec

-----------------------------------------------------------------------------
(* The providers                                                           *)

Provider == {"smtp", "postmark", "twilio", "mock"}

\* What a pass holds between two steps.
PassTypes ==
    /\ pass.at \in {"rest", "sender", "call", "answer"}
    /\ pass.at \in {"call", "answer"} => pass.provider \in Provider
    /\ pass.at = "answer" => \E fate \in Fates(pass.provider) : pass.answer = fate.answer

\* A row in flight has been charged for its attempt, one that waits has another.
RowTypes ==
    /\ row \in [status : {"pending", "processing", "sent", "failed", "cancelled"},
                attempts : 0 .. MaxAttempts, delay : Nat, due : BOOLEAN]
    /\ row.status = "pending" => row.attempts < MaxAttempts
    /\ row.status = "processing" => row.attempts > 0
    /\ pass.at = "rest" <=> row.status # "processing"

\* The attempts whose answers have been heard.
AttemptsHeard == IF row.status = "processing" THEN row.attempts - 1 ELSE row.attempts

\* A row that is not given up has met no code as often as it may, since it was
\* put off each time; so no answer to come exceeds a ceiling.
HeardTypes ==
    /\ heard \in [CodeKind -> Nat]
    /\ \A k \in CodeKind : heard[k] <= Ceilings[k]
    /\ row.status # "failed" => \A k \in CodeKind : heard[k] < Ceilings[k]
    /\ row.status \in {"pending", "processing"} => \A k \in CodeKind : heard[k] <= AttemptsHeard

\* The delay is one that the last attempt could be given, and shorter than any
\* the attempt under way can be given.
DelayTypes ==
    /\ former \in Nat
    /\ row.delay > 0 => row.delay > former
    /\ row.status \in {"pending", "processing"} /\ row.delay > 0 =>
          AttemptsHeard \in 1 .. 4 /\ row.delay \in Delays(AttemptsHeard)

ProvidersInv ==
    /\ setting \in Settings /\ credentials \in CredentialLists
    /\ handed \in Nat /\ lost \in Nat /\ lost <= handed
    /\ PassTypes /\ RowTypes /\ HeardTypes /\ DelayTypes
    /\ EveryCopyAccounted

LEMMA ProvidersStart == ProvidersInit => ProvidersInv
<1> SUFFICES ASSUME ProvidersInit PROVE ProvidersInv
  OBVIOUS
<1>1. row = [status |-> "pending", attempts |-> 0, delay |-> 0, due |-> TRUE] /\ pass = AtRest /\ pass.at = "rest"
  BY DEF ProvidersInit, AtRest
<1>2. PassTypes /\ RowTypes
  BY <1>1, ProviderConstants DEF PassTypes, RowTypes
<1>3. HeardTypes
  BY <1>1 DEF HeardTypes, ProvidersInit, CodeKind, Ceilings, AttemptsHeard
<1>4. DelayTypes
  BY <1>1 DEF DelayTypes, ProvidersInit
<1> QED BY <1>1, <1>2, <1>3, <1>4 DEF ProvidersInv, ProvidersInit, EveryCopyAccounted

\* The waits of the first four attempts, in fifths of a minute.
LEMMA Waits ==
    ASSUME NEW n \in 1 .. 4
    PROVE  /\ Delays(n) = {4 * 2 ^ n, 6 * 2 ^ n}
           /\ Delays(n) \subseteq Nat \ {0}
           /\ n > 1 => \A x \in Delays(n - 1), y \in Delays(n) : x < y
<1>1. 2 ^ 1 = 2 /\ 2 ^ 2 = 4 /\ 2 ^ 3 = 8 /\ 2 ^ 4 = 16
  OBVIOUS
<1>2. Delays(1) = {8, 12} /\ Delays(2) = {16, 24} /\ Delays(3) = {32, 48} /\ Delays(4) = {64, 96}
  BY <1>1 DEF Delays, BaseDelay
<1>3. CASE n = 1
  BY <1>1, <1>2, <1>3
<1>4. CASE n = 2
  BY <1>1, <1>2, <1>4
<1>5. CASE n = 3
  BY <1>1, <1>2, <1>5
<1>6. CASE n = 4
  BY <1>1, <1>2, <1>6
<1> QED BY <1>3, <1>4, <1>5, <1>6

\* An answer says the message was accepted if and only if the provider took it and
\* its word arrived.
LEMMA AnswersTellTheFate ==
    ASSUME NEW p \in Provider, NEW fate \in Fates(p)
    PROVE  /\ fate.taken \in BOOLEAN /\ fate.told \in BOOLEAN
           /\ fate.answer.id \in BOOLEAN
           /\ fate.answer.id => fate.answer.reply = "whole"
           /\ fate.answer.id <=> fate.taken /\ fate.told
           /\ fate.answer.reply # "cut" => (Result(p, fate.answer).ok <=> fate.answer.id)
<1> DEFINE Goal ==
       /\ fate.taken \in BOOLEAN /\ fate.told \in BOOLEAN
       /\ fate.answer.id \in BOOLEAN
       /\ fate.answer.id => fate.answer.reply = "whole"
       /\ fate.answer.id <=> fate.taken /\ fate.told
       /\ fate.answer.reply # "cut" => (Result(p, fate.answer).ok <=> fate.answer.id)
<1>1. ASSUME NEW took \in BOOLEAN, NEW told \in BOOLEAN, NEW reply, NEW ok \in BOOLEAN, NEW id \in BOOLEAN,
             NEW code, NEW http, fate = Fate(took, told, Seen(reply, ok, id, code, http)),
             id => reply = "whole",
             id <=> took /\ told,
             reply # "cut" => (Result(p, fate.answer).ok <=> id)
      PROVE  Goal
  <2>1. fate.taken = took /\ fate.told = told /\ fate.answer.id = id /\ fate.answer.reply = reply
    BY <1>1 DEF Fate, Seen
  <2> QED BY <1>1, <2>1
<1>2. fate = Fate(TRUE, TRUE, Seen("whole", TRUE, TRUE, NoCode, NoCode)) => Result(p, fate.answer).ok
  BY DEF Fate, Seen, Result, PostmarkSend, TwilioSend, SmtpSend, MockSend, Accepted, Provider
<1>3. ASSUME NEW took \in BOOLEAN, NEW told \in BOOLEAN, NEW reply, NEW ok \in BOOLEAN,
             NEW code, NEW http, fate = Fate(took, told, Seen(reply, ok, FALSE, code, http)),
             ok => p \in {"postmark", "twilio"}
      PROVE  ~Result(p, fate.answer).ok
  <2>1. fate.answer.id = FALSE /\ fate.answer.ok = ok
    BY <1>3 DEF Fate, Seen
  <2>2. CASE p = "mock" \/ p = "smtp"
    BY <1>3, <2>1, <2>2 DEF Result, SmtpSend, MockSend, RefusedWith
  <2>3. CASE p = "postmark" \/ p = "twilio"
    BY <2>1, <2>3 DEF Result, PostmarkSend, TwilioSend, TransportFailure, RefusedWith
  <2> QED BY <2>2, <2>3 DEF Provider
<1>4. CASE p = "mock"
  <2>1. fate \in MockFates
    BY <1>4 DEF Fates
  <2>2. \/ fate = Fate(TRUE, TRUE, Seen("whole", TRUE, TRUE, NoCode, NoCode))
        \/ \E reply, code : fate = Fate(FALSE, TRUE, Seen(reply, FALSE, FALSE, code, NoCode))
    BY <2>1 DEF MockFates
  <2> QED BY <1>1, <1>2, <1>3, <2>2
<1>5. CASE p = "smtp"
  <2>1. fate \in SmtpFates
    BY <1>5 DEF Fates
  <2>2. \/ fate = Fate(TRUE, TRUE, Seen("whole", TRUE, TRUE, NoCode, NoCode))
        \/ \E code : fate = Fate(FALSE, TRUE, Seen("none", FALSE, FALSE, code, NoCode))
        \/ \E took \in BOOLEAN : \E code : fate = Fate(took, FALSE, Seen("none", FALSE, FALSE, code, NoCode))
    BY <2>1 DEF SmtpFates, LeftOpen
  <2> QED BY <1>1, <1>2, <1>3, <2>2
<1>6. CASE p \in {"postmark", "twilio"}
  <2>1. fate \in HttpFates(p)
    BY <1>6 DEF Fates
  <2> HIDE DEF Numbered, LeftOpen, Fate, Seen
  <2>2. \A answer : fate \in LeftOpen(answer) => \E took \in BOOLEAN : fate = Fate(took, FALSE, answer)
    BY DEF LeftOpen
  <2>3. CASE fate = Fate(TRUE, TRUE, Seen("whole", TRUE, TRUE, NoCode, NoCode))
    BY <1>1, <1>2, <2>3
  <2>4. ASSUME NEW ok \in BOOLEAN, NEW code, fate = Fate(FALSE, TRUE, Seen("whole", ok, FALSE, code, "HTTP_422"))
        PROVE  Goal
    <3>1. ~Result(p, fate.answer).ok
      BY <1>3, <1>6, <2>4
    <3> QED BY <3>1, <2>4, <1>1
  <2>5. ASSUME NEW reply, NEW ok \in BOOLEAN, NEW code, NEW http, fate \in LeftOpen(Seen(reply, ok, FALSE, code, http))
        PROVE  Goal
    <3>1. PICK took \in BOOLEAN : fate = Fate(took, FALSE, Seen(reply, ok, FALSE, code, http))
      BY <2>2, <2>5
    <3>2. ~Result(p, fate.answer).ok
      BY <1>3, <1>6, <3>1
    <3> QED BY <3>1, <3>2, <1>1
  <2>6. ASSUME NEW ok \in BOOLEAN, fate \in Refusals(p, ok) PROVE Goal
    BY <2>4, <2>6 DEF Refusals
  <2>7. ASSUME fate \in GatewayPages PROVE Goal
    <3>1. PICK http \in Gateway : fate \in LeftOpen(Seen("whole", FALSE, FALSE, NoCode, http))
      BY <2>7 DEF GatewayPages
    <3> QED BY <3>1, <2>5
  <2>8. ASSUME fate \in Silences PROVE Goal
    BY <2>5, <2>8 DEF Silences
  <2> QED BY <2>1, <2>3, <2>5, <2>6, <2>7, <2>8 DEF HttpFates
<1> QED BY <1>4, <1>5, <1>6 DEF Provider

LEMMA ProvidersStep == ProvidersInv /\ [ProvidersNext]_providerVars => ProvidersInv'
<1> SUFFICES ASSUME ProvidersInv, [ProvidersNext]_providerVars PROVE ProvidersInv'
  OBVIOUS
<1> USE ProviderConstants
<1>0. /\ PassTypes /\ RowTypes /\ HeardTypes /\ DelayTypes /\ EveryCopyAccounted
      /\ handed \in Nat /\ lost \in Nat
  BY DEF ProvidersInv
<1>1. ASSUME TakeRow PROVE ProvidersInv'
  <2>1. /\ row.status = "pending" /\ row'.status = "processing" /\ row'.attempts = row.attempts + 1
        /\ row'.delay = row.delay /\ row'.due = row.due /\ pass' = [at |-> "sender"] /\ pass'.at = "sender"
        /\ UNCHANGED <<setting, credentials, handed, lost, heard, former, rewrites>>
    BY <1>1, <1>0 DEF TakeRow, RowTypes
  <2>2. RowTypes'
    <3>1. row' = [row EXCEPT !.status = "processing", !.attempts = row.attempts + 1]
      BY <1>1 DEF TakeRow
    <3>2. row.attempts + 1 \in 1 .. MaxAttempts /\ row.attempts + 1 \in 0 .. MaxAttempts
      BY <1>0, <2>1 DEF RowTypes
    <3>3. row' \in [status : {"pending", "processing", "sent", "failed", "cancelled"},
                     attempts : 0 .. MaxAttempts, delay : Nat, due : BOOLEAN]
      BY <1>0, <3>1, <3>2 DEF RowTypes
    <3> QED BY <2>1, <3>2, <3>3 DEF RowTypes
  <2>2a. PassTypes'
    BY <2>1 DEF PassTypes
  <2>3. HeardTypes' /\ DelayTypes'
    BY <1>0, <2>1 DEF HeardTypes, DelayTypes, RowTypes, AttemptsHeard
  <2>4. EveryCopyAccounted'
    BY <1>0, <2>1 DEF EveryCopyAccounted, RowTypes
  <2> QED BY <2>1, <2>2, <2>2a, <2>3, <2>4, <1>0 DEF ProvidersInv
<1>2. ASSUME NEW ending \in {"sent", "failed", "cancelled"}, pass.at # "rest", Concludes(ending),
             UNCHANGED <<setting, credentials, former, rewrites, handed, lost>>,
             HeardTypes',
             handed = lost + (IF ending = "sent" THEN 1 ELSE 0)
      PROVE  ProvidersInv'
  <2>1. /\ row'.status = ending /\ row'.attempts = row.attempts
        /\ row'.delay = row.delay /\ row'.due = row.due /\ pass'.at = "rest"
    BY <1>2, <1>0 DEF Concludes, AtRest, RowTypes
  <2>2. RowTypes'
    BY <1>0, <1>2, <2>1 DEF Concludes, RowTypes
  <2>3. PassTypes' /\ DelayTypes' /\ EveryCopyAccounted'
    BY <1>0, <1>2, <2>1 DEF PassTypes, DelayTypes, EveryCopyAccounted
  <2> QED BY <2>1, <2>2, <2>3, <1>2, <1>0 DEF ProvidersInv
<1>3. ASSUME NEW ending, Concludes(ending), ending \in {"sent", "failed", "cancelled"},
             UNCHANGED heard, pass.at # "rest"
      PROVE  HeardTypes'
  <2>1. row'.status = ending
    BY <1>3, <1>0 DEF Concludes, RowTypes
  <2> QED BY <2>1, <1>3, <1>0 DEF HeardTypes, RowTypes
<1>4. ASSUME PickSender PROVE ProvidersInv'
  <2>1. pass.at = "sender" /\ UNCHANGED <<setting, credentials, handed, lost, heard, former, rewrites>>
    BY <1>4 DEF PickSender
  <2>2. row.status = "processing" /\ handed = lost
    BY <2>1, <1>0 DEF RowTypes, EveryCopyAccounted
  <2>3. \/ Concludes("cancelled") \/ Concludes("failed")
        \/ /\ ~AdapterThrows(ResolveSender) /\ row' = row
           /\ pass' = [at |-> "call", provider |-> Adapter(ResolveSender)]
    BY <1>4 DEF PickSender
  <2>4. CASE Concludes("cancelled") \/ Concludes("failed")
    BY <2>1, <2>2, <2>4, <1>2, <1>3, <1>0
  <2>5. CASE /\ ~AdapterThrows(ResolveSender) /\ row' = row
             /\ pass' = [at |-> "call", provider |-> Adapter(ResolveSender)]
    <3> DEFINE sender == ResolveSender
    <3>1. Adapter(sender) \in Provider
      <4> HIDE DEF sender
      <4>1. ~AdapterThrows(sender)
        BY <2>5 DEF sender
      <4> QED BY <4>1 DEF AdapterThrows, Adapter, Provider, ProvidersInv
    <3>2. pass'.at = "call" /\ pass'.provider \in Provider
      BY <2>5, <3>1
    <3>3. PassTypes' /\ RowTypes'
      BY <3>2, <2>5, <2>2, <1>0 DEF PassTypes, RowTypes
    <3>4. HeardTypes' /\ DelayTypes'
      BY <2>5, <2>1, <1>0 DEF HeardTypes, DelayTypes, AttemptsHeard
    <3>5. EveryCopyAccounted'
      BY <2>5, <2>1, <2>2, <3>2, <1>0 DEF EveryCopyAccounted
    <3> QED BY <3>3, <3>4, <3>5, <2>1, <1>0 DEF ProvidersInv
  <2> QED BY <2>3, <2>4, <2>5
<1>5. ASSUME CallProvider PROVE ProvidersInv'
  <2>1. pass.at = "call" /\ UNCHANGED <<setting, credentials, row, heard, former, rewrites>>
    BY <1>5 DEF CallProvider
  <2>2. row.status = "processing" /\ handed = lost /\ pass.provider \in Provider
    BY <2>1, <1>0 DEF RowTypes, EveryCopyAccounted, PassTypes
  <2>3. PICK fate \in Fates(pass.provider) :
          /\ pass' = [at |-> "answer", provider |-> pass.provider, answer |-> fate.answer]
          /\ handed' = IF fate.taken THEN handed + 1 ELSE handed
          /\ lost' = IF fate.taken /\ ~fate.told THEN lost + 1 ELSE lost
    BY <1>5 DEF CallProvider
  <2>4. pass'.at = "answer" /\ pass'.provider = pass.provider /\ pass'.answer = fate.answer
    BY <2>3
  <2>5. /\ fate.taken \in BOOLEAN /\ fate.told \in BOOLEAN
        /\ fate.answer.id => fate.answer.reply = "whole"
        /\ fate.answer.id <=> fate.taken /\ fate.told
    BY <2>2, AnswersTellTheFate
  <2>6. PassTypes' /\ RowTypes'
    BY <2>1, <2>2, <2>4, <1>0 DEF PassTypes, RowTypes
  <2>7. HeardTypes' /\ DelayTypes'
    BY <2>1, <1>0 DEF HeardTypes, DelayTypes, AttemptsHeard
  <2>8. EveryCopyAccounted' /\ handed' \in Nat /\ lost' \in Nat /\ lost' <= handed'
    BY <2>1, <2>2, <2>3, <2>4, <2>5, <1>0 DEF EveryCopyAccounted
  <2> QED BY <2>1, <2>6, <2>7, <2>8 DEF ProvidersInv
<1>6. ASSUME pass.at = "answer"
      PROVE  /\ row.status = "processing" /\ pass.provider \in Provider
             /\ pass.answer.reply = "cut" => handed = lost
             /\ pass.answer.reply # "cut" =>
                   handed = lost + (IF Result(pass.provider, pass.answer).ok THEN 1 ELSE 0)
  <2>1. row.status = "processing" /\ pass.provider \in Provider
    BY <1>6, <1>0 DEF RowTypes, PassTypes
  <2>2. PICK fate \in Fates(pass.provider) : pass.answer = fate.answer
    BY <1>6, <1>0 DEF PassTypes
  <2>3. handed = lost + (IF pass.answer.reply = "whole" /\ pass.answer.id THEN 1 ELSE 0)
    BY <1>6, <2>1, <1>0 DEF EveryCopyAccounted
  <2> QED BY <2>1, <2>2, <2>3, <1>0, AnswersTellTheFate
<1>7. ASSUME SendThrows PROVE ProvidersInv'
  BY <1>7, <1>6, <1>2, <1>3, <1>0 DEF SendThrows
<1>8. ASSUME RecordAccepted PROVE ProvidersInv'
  BY <1>8, <1>6, <1>2, <1>3 DEF RecordAccepted
<1>9. ASSUME RecordRefused PROVE ProvidersInv'
  <2> DEFINE provider == pass.provider
             code == Result(provider, pass.answer).code
             kind == KindOf(provider, code)
  <2>1. /\ pass.at = "answer" /\ pass.answer.reply # "cut" /\ ~Result(provider, pass.answer).ok
        /\ UNCHANGED <<setting, credentials, handed, lost, rewrites>>
        /\ heard' = [heard EXCEPT ![kind] = heard[kind] + 1]
    BY <1>9 DEF RecordRefused, Hears
  <2>2. row.status = "processing" /\ handed = lost /\ row.attempts \in 1 .. MaxAttempts
    BY <2>1, <1>6, <1>0 DEF RowTypes
  <2>3. kind \in CodeKind
    BY DEF KindOf, CodeKind
  <2>4. \/ Concludes("failed") /\ UNCHANGED former
        \/ /\ ~GivesUp(provider, code)
           /\ \E delay \in Delays(row.attempts) :
                  /\ row' = [row EXCEPT !.status = "pending", !.delay = delay, !.due = FALSE]
                  /\ former' = row.delay
                  /\ pass' = AtRest
    BY <1>9 DEF RecordRefused
  <2> HIDE DEF kind, code, provider
  <2>5. CASE Concludes("failed") /\ UNCHANGED former
    <3>1. row'.status = "failed"
      BY <2>5, <1>0 DEF Concludes, RowTypes
    <3>2. \A k \in CodeKind : heard[k] + 1 <= Ceilings[k] /\ heard[k] \in Nat
      BY <2>2, <1>0 DEF HeardTypes, CodeKind, Ceilings
    <3>3. HeardTypes'
      BY <3>1, <3>2, <2>1, <2>3, <1>0 DEF HeardTypes
    <3> QED BY <2>1, <2>2, <2>5, <3>3, <1>2, <1>0
  <2>6. CASE /\ ~GivesUp(provider, code)
             /\ \E delay \in Delays(row.attempts) :
                    /\ row' = [row EXCEPT !.status = "pending", !.delay = delay, !.due = FALSE]
                    /\ former' = row.delay
                    /\ pass' = AtRest
    <3>1. row.attempts < Ceilings[kind] /\ row.attempts < MaxAttempts
      <4>1. Ceilings[kind] \in Nat
        BY <2>3 DEF CodeKind, Ceilings
      <4> QED BY <2>6, <2>2, <4>1 DEF GivesUp, ClassifyCode, kind
    <3>2. row.attempts \in 1 .. 4
      BY <3>1, <2>2, <2>3 DEF CodeKind, Ceilings
    <3>3. PICK delay \in Delays(row.attempts) :
             /\ row' = [row EXCEPT !.status = "pending", !.delay = delay, !.due = FALSE]
             /\ former' = row.delay
             /\ pass' = AtRest
      BY <2>6
    <3>4. delay \in Nat \ {0}
      BY <3>2, Waits
    <3>5. /\ row'.status = "pending" /\ row'.attempts = row.attempts /\ row'.delay = delay
          /\ pass'.at = "rest"
      BY <3>3, <1>0 DEF RowTypes, AtRest
    <3>6. RowTypes'
      BY <3>1, <3>3, <3>4, <3>5, <1>0, <2>2 DEF RowTypes
    <3>7. PassTypes' /\ EveryCopyAccounted'
      BY <3>5, <2>1, <2>2, <1>0 DEF PassTypes, EveryCopyAccounted
    <3>8. HeardTypes'
      <4>1. \A k \in CodeKind : heard[k] \in Nat /\ heard[k] < Ceilings[k] /\ heard[k] <= row.attempts - 1
        BY <2>2, <1>0 DEF HeardTypes, AttemptsHeard
      <4>2. \A k \in CodeKind : heard'[k] = IF k = kind THEN heard[k] + 1 ELSE heard[k]
        BY <2>1, <1>0 DEF HeardTypes
      <4>3. \A k \in CodeKind : Ceilings[k] \in Nat
        BY DEF CodeKind, Ceilings
      <4>4. AttemptsHeard' = row.attempts
        BY <3>5 DEF AttemptsHeard
      <4>5. \A k \in CodeKind : heard'[k] \in Nat /\ heard'[k] < Ceilings[k] /\ heard'[k] <= row.attempts
        BY <4>1, <4>2, <4>3, <3>1, <2>2
      <4>6. heard' \in [CodeKind -> Nat]
        BY <2>1, <2>3, <4>1, <1>0 DEF HeardTypes
      <4> QED BY <4>3, <4>4, <4>5, <4>6, <3>5 DEF HeardTypes
    <3>9. DelayTypes'
      <4>1. AttemptsHeard' = row.attempts /\ AttemptsHeard = row.attempts - 1
        BY <3>5, <2>2 DEF AttemptsHeard
      <4>2. row.delay \in Nat /\ (row.delay > 0 => row.attempts - 1 \in 1 .. 4 /\ row.delay \in Delays(row.attempts - 1))
        BY <4>1, <2>2, <1>0 DEF DelayTypes, RowTypes
      <4>3. delay > row.delay
        BY <4>2, <3>2, <3>4, Waits
      <4> QED BY <4>1, <4>2, <4>3, <3>2, <3>3, <3>5 DEF DelayTypes
    <3> QED BY <3>6, <3>7, <3>8, <3>9, <2>1, <1>0 DEF ProvidersInv
  <2> QED BY <2>4, <2>5, <2>6
<1>10. ASSUME DelayPasses PROVE ProvidersInv'
  <2>1. /\ row.status = "pending" /\ row' = [row EXCEPT !.due = TRUE]
        /\ UNCHANGED <<setting, credentials, pass, handed, lost, heard, former, rewrites>>
    BY <1>10 DEF DelayPasses
  <2>2. row'.status = row.status /\ row'.attempts = row.attempts /\ row'.delay = row.delay /\ RowTypes'
    BY <2>1, <1>0 DEF RowTypes
  <2>3. PassTypes' /\ HeardTypes' /\ DelayTypes' /\ EveryCopyAccounted'
    BY <2>1, <2>2, <1>0 DEF PassTypes, HeardTypes, DelayTypes, AttemptsHeard, EveryCopyAccounted
  <2> QED BY <2>1, <2>2, <2>3 DEF ProvidersInv
<1>11. ASSUME RewriteCredentials PROVE ProvidersInv'
  <2>1. credentials' \in CredentialLists /\ UNCHANGED <<setting, row, pass, handed, lost, heard, former>>
    BY <1>11 DEF RewriteCredentials
  <2> QED BY <2>1, <1>0 DEF ProvidersInv, PassTypes, RowTypes, HeardTypes, DelayTypes, AttemptsHeard, EveryCopyAccounted
<1>12. ASSUME UNCHANGED providerVars PROVE ProvidersInv'
  BY <1>12, <1>0 DEF providerVars, ProvidersInv, PassTypes, RowTypes, HeardTypes, DelayTypes, AttemptsHeard, EveryCopyAccounted
<1> QED BY <1>1, <1>4, <1>5, <1>7, <1>8, <1>9, <1>10, <1>11, <1>12 DEF ProvidersNext

LEMMA ProvidersPromise ==
    ProvidersInv => ProvidersTypeOK /\ EveryCopyAccounted /\ CeilingsHold /\ RetriesMoveApart
<1>1. ProvidersInv => EveryCopyAccounted /\ CeilingsHold /\ RetriesMoveApart
  BY DEF ProvidersInv, HeardTypes, DelayTypes, CeilingsHold, RetriesMoveApart, CodeKind, Ceilings
<1>2. ProvidersInv => ProvidersTypeOK
  BY DEF ProvidersInv, PassTypes, RowTypes, ProvidersTypeOK
<1> QED BY <1>1, <1>2

(***************************************************************************)
(* For any deployment, credentials, edits of them while a row waits, and   *)
(* any number of attempts: every copy handed to a provider is one the      *)
(* engine knows of or one whose answer was lost, no code of a refusal is   *)
(* met more often than its ceiling, and the delays of one row grow         *)
(* (router.ts, send.ts, retry.ts).                                         *)
(***************************************************************************)
THEOREM ProvidersKeepTheirPromise == ServicesSpec => []ProvidersHold
<1>1. ServicesInit => ProvidersInv
  BY ProvidersStart DEF ServicesInit
<1>2. ProvidersInv /\ [ServicesNext]_servicesVars => ProvidersInv'
  <2>1. [ServicesNext]_servicesVars => [ProvidersNext]_providerVars
    BY DEF ServicesNext, servicesVars
  <2> QED BY <2>1, ProvidersStep
<1>3. ProvidersInv => ProvidersHold
  BY ProvidersPromise DEF ProvidersHold
<1> QED BY <1>1, <1>2, <1>3, PTL DEF ServicesSpec

-----------------------------------------------------------------------------
(* Sessions                                                                *)

AnswerStatus == {0, 200, 401, 409, 429}
CallState == [at : {"none", "auth", "limit", "handle", "answer"}, path : {"none", "login", "data"},
              status : AnswerStatus, account : Account \cup {NoAccount}, expires : Nat,
              right : BOOLEAN, valid : BOOLEAN]
RateWindow == [count : Nat, resetAt : Nat]

SessionTypes ==
    /\ hour \in Hours /\ accounts \subseteq Account
    /\ session \in [account : Account \cup {NoAccount}, expires : Nat]
    /\ call \in [Tab -> CallState]
    /\ limiter \in [windows : [Key -> RateWindow], sinceSweep : 0 .. SweepEvery - 1]
    /\ calls \in 0 .. MaxCalls

\* What a request has come through, and what it was when it was made.
CallFits(c) ==
    /\ c.at = "none" => c.path = "none"
    /\ c.at = "auth" => c.path = "data"
    /\ c.at # "answer" => c.status = 0
    /\ c.at = "auth" /\ c.account \in accounts /\ hour < c.expires => c.valid
    /\ c.at \in {"limit", "handle"} /\ c.path = "data" => c.valid
    /\ c.status = 200 /\ c.path = "data" => c.valid
    /\ c.status = 200 /\ c.path = "login" => c.valid \/ accounts \subseteq {c.account}

\* A window counts no more than the requests made, less those still to be counted.
Uncounted == {t \in Tab : call[t].at \in {"auth", "limit"}}
CallsAreCounted == \A k \in Key : limiter.windows[k].count + Cardinality(Uncounted) <= calls

\* The guesses fall into windows that do not overlap, none over the limit; the
\* last one may be open, and its guesses are among what it has counted.
Guessed(s) == {i \in DOMAIN guesses : guesses[i] \in s .. s + WindowLength - 1}
Windowed(starts, w) ==
    /\ \A s, t \in starts : s < t => s + WindowLength <= t
    /\ \A i \in DOMAIN guesses : \E s \in starts : i \in Guessed(s)
    /\ \A s \in starts : Cardinality(Guessed(s)) <= LoginLimit
    /\ w.resetAt <= hour => \A s \in starts : s + WindowLength <= hour
    /\ w.resetAt > hour => \E open \in starts :
          /\ w.resetAt = open + WindowLength /\ open <= hour
          /\ Cardinality(Guessed(open)) <= w.count
          /\ \A s \in starts : s <= open

GuessesFit ==
    /\ guesses \in Seq(Nat) /\ \A i \in DOMAIN guesses : guesses[i] <= hour
    /\ \E starts \in SUBSET Nat : Windowed(starts, limiter.windows[LoginKey])

SessionsInv == SessionTypes /\ (\A t \in Tab : CallFits(call[t])) /\ CallsAreCounted /\ GuessesFit

LEMMA UncountedIsFinite ==
    /\ IsFiniteSet(Uncounted) /\ Cardinality(Uncounted) \in Nat
    /\ \A t \in Tab : Cardinality(Uncounted \ {t}) = IF t \in Uncounted THEN Cardinality(Uncounted) - 1 ELSE Cardinality(Uncounted)
    /\ \A t \in Tab : Cardinality(Uncounted \cup {t}) <= Cardinality(Uncounted) + 1
<1>1. Uncounted \in SUBSET Tab
  BY DEF Uncounted
<1>2. IsFiniteSet(Uncounted) /\ Cardinality(Uncounted) \in Nat
  BY <1>1, SessionsConstants, FS_Subset, FS_CardinalityType
<1>3. ASSUME NEW t \in Tab
      PROVE  /\ Cardinality(Uncounted \ {t}) = IF t \in Uncounted THEN Cardinality(Uncounted) - 1 ELSE Cardinality(Uncounted)
             /\ Cardinality(Uncounted \cup {t}) = IF t \in Uncounted THEN Cardinality(Uncounted) ELSE Cardinality(Uncounted) + 1
  BY <1>2, FS_RemoveElement, FS_AddElement
<1> QED BY <1>2, <1>3

LEMMA StatusCodes == 0 \in AnswerStatus /\ 200 \in AnswerStatus /\ 401 \in AnswerStatus /\ 409 \in AnswerStatus /\ 429 \in AnswerStatus
BY DEF AnswerStatus

LEMMA NobodyCalls == NoCall \in CallState /\ NoCall.at = "none" /\ NoCall.path = "none" /\ NoCall.status = 0
BY StatusCodes DEF NoCall, CallState

LEMMA SessionsStart == SessionsInit => SessionsInv
<1> SUFFICES ASSUME SessionsInit PROVE SessionsInv
  OBVIOUS
<1>0. MaxHour \in Nat /\ MaxCalls \in Nat /\ SweepEvery \in Nat \ {0} /\ WindowLength \in Nat \ {0} /\ LoginLimit \in Nat
  BY SessionsConstants
<1>1. /\ \A t \in Tab : call[t] = NoCall
      /\ \A k \in Key : limiter.windows[k] = Shut
      /\ guesses = <<>> /\ calls = 0 /\ hour = 0
  BY DEF SessionsInit
<1>2. SessionTypes
  <2>1. Shut \in RateWindow
    BY DEF Shut, RateWindow
  <2>2. limiter \in [windows : [Key -> RateWindow], sinceSweep : 0 .. SweepEvery - 1]
    <3>1. 0 \in 0 .. SweepEvery - 1
      BY <1>0
    <3> QED BY <2>1, <3>1 DEF SessionsInit
  <2>3. call \in [Tab -> CallState]
    BY NobodyCalls DEF SessionsInit
  <2>4. session \in [account : Account \cup {NoAccount}, expires : Nat]
    BY DEF SessionsInit, NoSession
  <2>5. hour \in Hours /\ calls \in 0 .. MaxCalls /\ accounts \subseteq Account
    BY <1>0, <1>1 DEF SessionsInit, Hours
  <2> QED BY <2>2, <2>3, <2>4, <2>5 DEF SessionTypes
<1>3. \A t \in Tab : CallFits(call[t])
  BY <1>1, NobodyCalls DEF CallFits
<1>4. CallsAreCounted
  <2>1. Uncounted = {}
    BY <1>1, NobodyCalls DEF Uncounted
  <2>2. Cardinality(Uncounted) = 0
    BY <2>1, FS_EmptySet
  <2> QED BY <1>1, <2>2 DEF CallsAreCounted, Shut
<1>5. GuessesFit
  <2>1. Windowed({}, limiter.windows[LoginKey])
    <3>1. limiter.windows[LoginKey].resetAt = 0
      BY <1>1 DEF Key, Shut
    <3> QED BY <1>1, <3>1 DEF Windowed
  <2> QED BY <1>1, <2>1 DEF GuessesFit
<1> QED BY <1>2, <1>3, <1>4, <1>5 DEF SessionsInv

\* Time closes a window, and changes none.
LEMMA WindowsAge ==
    ASSUME SessionTypes, GuessesFit, UNCHANGED guesses, hour' \in Nat, hour <= hour',
           limiter' \in [windows : [Key -> RateWindow], sinceSweep : 0 .. SweepEvery - 1],
           \/ limiter'.windows[LoginKey] = limiter.windows[LoginKey]
           \/ limiter.windows[LoginKey].resetAt <= hour /\ limiter'.windows[LoginKey].resetAt <= hour'
    PROVE  GuessesFit'
<1>0. WindowLength \in Nat \ {0} /\ LoginLimit \in Nat /\ hour \in Nat
  BY SessionsConstants DEF SessionTypes, Hours
<1>1. PICK starts \in SUBSET Nat : Windowed(starts, limiter.windows[LoginKey])
  BY DEF GuessesFit
<1>2. PICK w, news : w = limiter.windows[LoginKey] /\ news = limiter'.windows[LoginKey]
  OBVIOUS
<1>3. w.resetAt \in Nat /\ w.count \in Nat /\ news.resetAt \in Nat /\ news.count \in Nat
  <2>1. w \in RateWindow /\ news \in RateWindow
    BY <1>2 DEF SessionTypes, Key
  <2> QED BY <2>1 DEF RateWindow
<1>4. news.resetAt <= hour' => \A s \in starts : s + WindowLength <= hour'
  <2>1. CASE w.resetAt <= hour
    BY <2>1, <1>0, <1>1, <1>2 DEF Windowed
  <2>2. CASE w.resetAt > hour
    <3>1. news = w
      BY <2>2, <1>0, <1>2, <1>3
    <3>2. PICK open \in starts : w.resetAt = open + WindowLength /\ \A s \in starts : s <= open
      BY <2>2, <1>1, <1>2 DEF Windowed
    <3> QED BY <3>1, <3>2, <1>0
  <2> QED BY <2>1, <2>2, <1>0, <1>3
<1>5. news.resetAt > hour' => \E open \in starts :
          /\ news.resetAt = open + WindowLength /\ open <= hour'
          /\ Cardinality(Guessed(open)) <= news.count
          /\ \A s \in starts : s <= open
  <2> SUFFICES ASSUME news.resetAt > hour' PROVE \E open \in starts :
          /\ news.resetAt = open + WindowLength /\ open <= hour'
          /\ Cardinality(Guessed(open)) <= news.count
          /\ \A s \in starts : s <= open
    OBVIOUS
  <2>1. news = w /\ w.resetAt > hour
    BY <1>0, <1>2, <1>3
  <2>2. PICK open \in starts :
          /\ w.resetAt = open + WindowLength /\ open <= hour
          /\ Cardinality(Guessed(open)) <= w.count
          /\ \A s \in starts : s <= open
    BY <2>1, <1>1, <1>2 DEF Windowed
  <2>3. open \in Nat
    BY <2>2
  <2>4. open <= hour /\ hour \in Nat /\ hour' \in Nat /\ hour <= hour'
    BY <2>2, <1>0
  <2>5. open <= hour'
    BY <2>3, <2>4
  <2> QED BY <2>1, <2>2, <2>3, <2>5
<1>6. Windowed(starts, limiter.windows[LoginKey])'
  BY <1>1, <1>2, <1>4, <1>5 DEF Windowed, Guessed
<1> QED BY <1>0, <1>6 DEF GuessesFit, SessionTypes, Hours

\* A call moves.
LEMMA CallMoves ==
    ASSUME SessionsInv, NEW t \in Tab, NEW news \in CallState, Turns(t, news),
           CallFits(news)', accounts' \subseteq accounts, hour' = hour
    PROVE  call' \in [Tab -> CallState] /\ \A u \in Tab : CallFits(call[u])'
<1>1. call' \in [Tab -> CallState] /\ \A u \in Tab : call'[u] = IF u = t THEN news ELSE call[u]
  BY DEF SessionsInv, SessionTypes, Turns
<1>2. ASSUME NEW u \in Tab PROVE CallFits(call[u])'
  <2>1. CASE u = t
    <3>1. call'[u] = news
      BY <1>1, <2>1
    <3> QED BY <3>1 DEF CallFits
  <2>2. CASE u # t
    <3>1. call'[u] = call[u] /\ CallFits(call[u])
      BY <1>1, <2>2 DEF SessionsInv
    <3> QED BY <3>1 DEF CallFits
  <2> QED BY <2>1, <2>2
<1> QED BY <1>1, <1>2

\* A step of a tab that leaves limiter and guesses alone and is not a new request.
LEMMA CallStep ==
    ASSUME SessionsInv, NEW t \in Tab, NEW news \in CallState, Turns(t, news),
           CallFits(news)', UNCHANGED <<hour, accounts, limiter, guesses>>,
           session' \in [account : Account \cup {NoAccount}, expires : Nat],
           \/ UNCHANGED calls /\ (news.at \in {"auth", "limit"} => call[t].at \in {"auth", "limit"})
           \/ calls < MaxCalls /\ calls' = calls + 1
    PROVE  SessionsInv'
<1>0. /\ SessionTypes /\ CallsAreCounted /\ GuessesFit
      /\ calls \in Nat /\ calls <= MaxCalls /\ MaxCalls \in Nat
  BY SessionsConstants DEF SessionsInv, SessionTypes
<1>1. call' \in [Tab -> CallState] /\ \A u \in Tab : CallFits(call[u])'
  BY CallMoves
<1>2. \A u \in Tab : call'[u] = IF u = t THEN news ELSE call[u]
  BY <1>0 DEF SessionTypes, Turns
<1>3. Uncounted' \subseteq Uncounted \cup {t}
  BY <1>2 DEF Uncounted
<1>4. IsFiniteSet(Uncounted \cup {t}) /\ IsFiniteSet(Uncounted)
  BY UncountedIsFinite, FS_AddElement
<1>5. Cardinality(Uncounted') <= Cardinality(Uncounted \cup {t}) /\ Cardinality(Uncounted') \in Nat
      /\ Cardinality(Uncounted \cup {t}) \in Nat
  BY <1>3, <1>4, FS_Subset, FS_CardinalityType
<1>6. \A k \in Key : limiter.windows[k].count \in Nat
  BY <1>0 DEF SessionTypes, RateWindow
<1>7. CallsAreCounted' /\ calls' \in 0 .. MaxCalls
  <2>1. CASE UNCHANGED calls /\ (news.at \in {"auth", "limit"} => call[t].at \in {"auth", "limit"})
    <3>1. Uncounted' \subseteq Uncounted
      BY <1>2, <2>1 DEF Uncounted
    <3>2. Cardinality(Uncounted') <= Cardinality(Uncounted) /\ Cardinality(Uncounted) \in Nat
      BY <3>1, <1>4, FS_Subset, UncountedIsFinite
    <3> QED BY <2>1, <3>2, <1>0, <1>5, <1>6 DEF CallsAreCounted
  <2>2. CASE calls < MaxCalls /\ calls' = calls + 1
    <3>1. Cardinality(Uncounted') <= Cardinality(Uncounted) + 1 /\ Cardinality(Uncounted) \in Nat
      BY <1>5, UncountedIsFinite
    <3> QED BY <2>2, <3>1, <1>0, <1>5, <1>6 DEF CallsAreCounted
  <2> QED BY <2>1, <2>2
<1>8. GuessesFit'
  <2>1. hour' \in Nat /\ hour <= hour'
    BY <1>0 DEF SessionTypes, Hours
  <2> QED BY <2>1, <1>0, WindowsAge DEF SessionTypes
<1> QED BY <1>0, <1>1, <1>7, <1>8 DEF SessionsInv, SessionTypes

\* check opens a window or counts in the open one; others it leaves, or sweeps.
LEMMA CheckCounts ==
    ASSUME SessionTypes, NEW key \in Key
    PROVE  /\ Check(key) \in [windows : [Key -> RateWindow], sinceSweep : 0 .. SweepEvery - 1]
           /\ IF limiter.windows[key].resetAt > hour
              THEN /\ Check(key).windows[key].count = limiter.windows[key].count + 1
                   /\ Check(key).windows[key].resetAt = limiter.windows[key].resetAt
              ELSE /\ Check(key).windows[key].count = 1
                   /\ Check(key).windows[key].resetAt = hour + WindowLength
           /\ \A k \in Key \ {key} :
                 \/ Check(key).windows[k] = limiter.windows[k]
                 \/ limiter.windows[k].resetAt <= hour /\ Check(key).windows[k] = Shut
<1>0. /\ limiter.windows \in [Key -> RateWindow] /\ limiter.sinceSweep \in 0 .. SweepEvery - 1
      /\ SweepEvery \in Nat \ {0} /\ WindowLength \in Nat \ {0} /\ hour \in Nat
      /\ Shut \in RateWindow /\ Shut.resetAt = 0
  BY SessionsConstants DEF SessionTypes, Hours, Shut, RateWindow
<1>1. PICK windows : windows = IF limiter.sinceSweep + 1 >= SweepEvery THEN Swept(limiter.windows) ELSE limiter.windows
  OBVIOUS
<1>2. ASSUME NEW k \in Key
      PROVE  windows[k] \in RateWindow /\ (windows[k] = limiter.windows[k] \/ (limiter.windows[k].resetAt <= hour /\ windows[k] = Shut))
  <2>1. Swept(limiter.windows)[k] = IF limiter.windows[k].resetAt <= hour THEN Shut ELSE limiter.windows[k]
    BY DEF Swept
  <2>2. limiter.windows[k] \in RateWindow
    BY <1>0
  <2>3. limiter.windows[k].resetAt <= hour \/ ~(limiter.windows[k].resetAt <= hour)
    OBVIOUS
  <2>4. windows[k] = limiter.windows[k] \/ (limiter.windows[k].resetAt <= hour /\ windows[k] = Shut)
    <3>1. CASE limiter.sinceSweep + 1 >= SweepEvery
      BY <1>1, <2>1, <3>1
    <3>2. CASE ~(limiter.sinceSweep + 1 >= SweepEvery)
      BY <1>1, <3>2
    <3> QED BY <3>1, <3>2
  <2> QED BY <1>0, <2>2, <2>4
<1>3. windows \in [Key -> RateWindow]
  <2>1. Swept(limiter.windows) = [k \in Key |-> Swept(limiter.windows)[k]] /\ limiter.windows = [k \in Key |-> limiter.windows[k]]
    BY <1>0 DEF Swept
  <2>2. windows = [k \in Key |-> windows[k]]
    BY <1>1, <2>1
  <2> QED BY <1>2, <2>2
<1>5. PICK w : w = IF windows[key].resetAt > hour THEN [windows[key] EXCEPT !.count = windows[key].count + 1]
                   ELSE [count |-> 1, resetAt |-> hour + WindowLength]
  OBVIOUS
<1>6. /\ w \in RateWindow
      /\ windows[key].resetAt > hour => w.count = windows[key].count + 1 /\ w.resetAt = windows[key].resetAt
      /\ ~(windows[key].resetAt > hour) => w.count = 1 /\ w.resetAt = hour + WindowLength
  <2>1. windows[key] \in RateWindow
    BY <1>2
  <2> QED BY <2>1, <1>0, <1>5 DEF RateWindow
<1>7. PICK since : since = IF limiter.sinceSweep + 1 >= SweepEvery THEN 0 ELSE limiter.sinceSweep + 1
  OBVIOUS
<1>8. Check(key) = [windows |-> [windows EXCEPT ![key] = w], sinceSweep |-> since]
  BY <1>1, <1>5, <1>7 DEF Check
<1>9. /\ [windows EXCEPT ![key] = w] \in [Key -> RateWindow]
      /\ Check(key).windows[key] = w
      /\ \A k \in Key \ {key} : Check(key).windows[k] = windows[k]
  BY <1>3, <1>6, <1>8
<1>10. since \in 0 .. SweepEvery - 1
  <2>1. limiter.sinceSweep \in Nat /\ SweepEvery \in Nat /\ SweepEvery > 0
    BY <1>0
  <2> QED BY <2>1, <1>7
<1>11. /\ windows[key].resetAt > hour <=> limiter.windows[key].resetAt > hour
       /\ windows[key].resetAt > hour => windows[key] = limiter.windows[key]
  <2>1. limiter.windows[key] \in RateWindow
    BY <1>0
  <2>2. limiter.windows[key].resetAt \in Nat
    BY <2>1 DEF RateWindow
  <2>3. windows[key] = limiter.windows[key] \/ (limiter.windows[key].resetAt <= hour /\ windows[key] = Shut)
    BY <1>2
  <2> QED BY <2>2, <2>3, <1>0
<1>13. Check(key) \in [windows : [Key -> RateWindow], sinceSweep : 0 .. SweepEvery - 1]
  BY <1>8, <1>9, <1>10
<1>14. IF limiter.windows[key].resetAt > hour
       THEN /\ Check(key).windows[key].count = limiter.windows[key].count + 1
            /\ Check(key).windows[key].resetAt = limiter.windows[key].resetAt
       ELSE /\ Check(key).windows[key].count = 1
            /\ Check(key).windows[key].resetAt = hour + WindowLength
  BY <1>6, <1>9, <1>11
<1> QED BY <1>13, <1>14, <1>2, <1>9

\* Counting a login keeps its guesses in windows, whether it is let through or not.
LEMMA LoginsAreCounted ==
    ASSUME SessionTypes, GuessesFit, UNCHANGED hour, limiter' = Check(LoginKey),
           guesses' = IF limiter'.windows[LoginKey].count <= LoginLimit THEN Append(guesses, hour) ELSE guesses
    PROVE  GuessesFit'
<1>0. WindowLength \in Nat \ {0} /\ LoginLimit \in Nat /\ hour \in Nat /\ hour' = hour /\ guesses \in Seq(Nat)
      /\ Len(guesses) \in Nat /\ DOMAIN guesses = 1 .. Len(guesses)
      /\ \A i \in DOMAIN guesses : guesses[i] \in Nat /\ guesses[i] <= hour
  BY SMTT(30), SessionsConstants DEF SessionTypes, Hours, GuessesFit
<1>1. PICK starts \in SUBSET Nat : Windowed(starts, limiter.windows[LoginKey])
  BY DEF GuessesFit
<1>2. PICK w, news : w = limiter.windows[LoginKey] /\ news = limiter'.windows[LoginKey]
  OBVIOUS
<1>3. /\ w \in RateWindow /\ news \in RateWindow
      /\ IF w.resetAt > hour THEN news.count = w.count + 1 /\ news.resetAt = w.resetAt
         ELSE news.count = 1 /\ news.resetAt = hour + WindowLength
  BY <1>2, CheckCounts DEF SessionTypes, Key
<1>4. w.resetAt \in Nat /\ w.count \in Nat /\ news.resetAt \in Nat /\ news.count \in Nat
  BY <1>3 DEF RateWindow
\* The window it falls into begins at open.
<1>5. PICK open \in Nat :
         /\ open <= hour /\ news.resetAt = open + WindowLength /\ hour < news.resetAt
         /\ \A s \in starts : s <= open /\ (s # open => s + WindowLength <= open)
         /\ Cardinality(Guessed(open)) + 1 <= news.count
         /\ Cardinality(Guessed(open)) <= LoginLimit
  <2>1. CASE w.resetAt > hour
    <3>1. PICK open \in starts :
              /\ w.resetAt = open + WindowLength /\ open <= hour
              /\ Cardinality(Guessed(open)) <= w.count
              /\ \A s \in starts : s <= open
      BY <2>1, <1>1, <1>2 DEF Windowed
    <3>2. open \in Nat /\ IsFiniteSet(Guessed(open)) /\ Cardinality(Guessed(open)) \in Nat
      <4>1. Guessed(open) \subseteq 1 .. Len(guesses)
        BY <1>0 DEF Guessed
      <4>2. IsFiniteSet(1 .. Len(guesses))
        BY <1>0, FS_Interval
      <4> QED BY <3>1, <4>1, <4>2, FS_Subset, FS_CardinalityType
    <3>3. Cardinality(Guessed(open)) <= LoginLimit
      BY <3>1, <1>1 DEF Windowed
    <3>4. ASSUME NEW s \in starts, s # open PROVE s + WindowLength <= open
      <4>1. s < open
        BY <3>1, <3>2, <3>4
      <4> QED BY <3>1, <4>1, <1>1 DEF Windowed
    <3>5. news.count = w.count + 1 /\ news.resetAt = w.resetAt
      BY <2>1, <1>3
    <3>6. Cardinality(Guessed(open)) + 1 <= news.count /\ hour < news.resetAt
      BY <2>1, <3>1, <3>2, <3>5, <1>0, <1>4
    <3> QED BY <3>1, <3>2, <3>3, <3>4, <3>5, <3>6
  <2>2. CASE w.resetAt <= hour
    <3>1. \A s \in starts : s + WindowLength <= hour
      BY <2>2, <1>1, <1>2 DEF Windowed
    <3>2. Guessed(hour) = {}
      <4> SUFFICES ASSUME NEW i \in Guessed(hour) PROVE FALSE
        OBVIOUS
      <4>1. i \in DOMAIN guesses /\ guesses[i] >= hour
        BY <1>0 DEF Guessed
      <4>2. PICK s \in starts : i \in Guessed(s)
        BY <4>1, <1>1 DEF Windowed
      <4>3. guesses[i] <= s + WindowLength - 1 /\ s \in Nat /\ guesses[i] \in Nat
        BY <4>1, <4>2, <1>0 DEF Guessed
      <4> QED BY <3>1, <4>1, <4>2, <4>3, <1>0
    <3>3. Cardinality(Guessed(hour)) = 0
      BY <3>2, FS_EmptySet
    <3>4. news.count = 1 /\ news.resetAt = hour + WindowLength
      BY <2>2, <1>0, <1>3, <1>4
    <3>5. \A s \in starts : s <= hour
      <4> SUFFICES ASSUME NEW s \in starts PROVE s <= hour
        OBVIOUS
      <4>1. s \in Nat /\ s + WindowLength <= hour
        BY <3>1
      <4> QED BY <4>1, <1>0
    <3>6. hour <= hour /\ hour < news.resetAt /\ Cardinality(Guessed(hour)) + 1 <= news.count
          /\ Cardinality(Guessed(hour)) <= LoginLimit
      BY <3>3, <3>4, <1>0
    <3> QED BY <3>1, <3>4, <3>5, <3>6, <1>0
  <2> QED BY <2>1, <2>2, <1>0, <1>4
<1>6. IsFiniteSet(Guessed(open)) /\ Cardinality(Guessed(open)) \in Nat
  <2>1. Guessed(open) \subseteq 1 .. Len(guesses)
    BY <1>0 DEF Guessed
  <2>2. IsFiniteSet(1 .. Len(guesses))
    BY <1>0, FS_Interval
  <2> QED BY <2>1, <2>2, FS_Subset, FS_CardinalityType
<1>7. PICK n \in Nat : n = Len(guesses) + 1
  BY <1>0
<1>9. /\ guesses' \in Seq(Nat) /\ \A i \in DOMAIN guesses : i \in DOMAIN guesses' /\ guesses'[i] = guesses[i]
      /\ news.count <= LoginLimit => DOMAIN guesses' = 1 .. n /\ guesses'[n] = hour
      /\ ~(news.count <= LoginLimit) => guesses' = guesses
  <2>1. CASE news.count <= LoginLimit
    <3>1. guesses' = Append(guesses, hour)
      BY <2>1, <1>2, <1>4
    <3>2. /\ guesses' \in Seq(Nat) /\ Len(guesses') = n
          /\ \A i \in 1 .. Len(guesses) : guesses'[i] = guesses[i]
          /\ guesses'[n] = hour
      BY <3>1, <1>0, <1>7
    <3>3. DOMAIN guesses' = 1 .. n /\ \A i \in 1 .. Len(guesses) : i \in 1 .. n
      BY <3>2, <1>0, <1>7
    <3> QED BY <2>1, <3>2, <3>3, <1>0
  <2>2. CASE ~(news.count <= LoginLimit)
    <3>1. guesses' = guesses
      BY <2>2, <1>2
    <3> QED BY <2>2, <3>1, <1>0
  <2> QED BY <2>1, <2>2
<1>10. ASSUME NEW i \in DOMAIN guesses' PROVE i \in DOMAIN guesses \/ (news.count <= LoginLimit /\ i = n)
  <2>1. CASE news.count <= LoginLimit
    <3>1. i \in 1 .. n
      BY <2>1, <1>9, <1>10
    <3>2. i = n \/ i \in 1 .. Len(guesses)
      BY <3>1, <1>0, <1>7
    <3> QED BY <2>1, <3>2, <1>0
  <2>2. CASE ~(news.count <= LoginLimit)
    BY <2>2, <1>9, <1>10
  <2> QED BY <2>1, <2>2, <1>0, <1>4
<1>11. /\ Guessed(open)' \subseteq Guessed(open) \cup (IF news.count <= LoginLimit THEN {n} ELSE {})
       /\ \A s \in starts \ {open} : Guessed(s)' = Guessed(s)
  <2>1. ASSUME NEW s \in starts \cup {open}, NEW i \in Guessed(s)' PROVE i \in Guessed(s) \/ (news.count <= LoginLimit /\ i = n /\ s = open)
    <3>1. i \in DOMAIN guesses' /\ guesses'[i] \in s .. s + WindowLength - 1
      BY <2>1 DEF Guessed
    <3>2. CASE i \in DOMAIN guesses
      <4>1. guesses'[i] = guesses[i]
        BY <3>2, <1>9
      <4> QED BY <3>1, <3>2, <4>1 DEF Guessed
    <3>3. CASE news.count <= LoginLimit /\ i = n
      <4>0. guesses'[i] = hour /\ s \in Nat
        BY <3>3, <1>5, <1>9
      <4>1. hour <= s + WindowLength - 1
        BY <3>1, <4>0, <1>0
      <4>2. s = open
        <5> SUFFICES ASSUME s # open PROVE FALSE
          OBVIOUS
        <5>1. s \in starts \ {open}
          OBVIOUS
        <5>2. s + WindowLength <= open /\ open <= hour
          BY <5>1, <1>5
        <5> QED BY <5>2, <4>0, <4>1, <1>0
      <4> QED BY <3>3, <4>2
    <3> QED BY <3>1, <3>2, <3>3, <1>10
  <2>2. ASSUME NEW s \in starts, NEW i \in Guessed(s) PROVE i \in Guessed(s)'
    BY <2>2, <1>9 DEF Guessed
  <2> QED BY <2>1, <2>2
<1>12. /\ Cardinality(Guessed(open)') <= LoginLimit
       /\ Cardinality(Guessed(open)') <= news.count
  <2>1. CASE news.count <= LoginLimit
    <3>0. /\ IsFiniteSet(Guessed(open) \cup {n})
          /\ Cardinality(Guessed(open) \cup {n}) = IF n \in Guessed(open) THEN Cardinality(Guessed(open)) ELSE Cardinality(Guessed(open)) + 1
      BY <1>6, FS_AddElement
    <3>1. IsFiniteSet(Guessed(open) \cup {n}) /\ Cardinality(Guessed(open) \cup {n}) <= Cardinality(Guessed(open)) + 1
      BY <3>0, <1>6
    <3>2. Cardinality(Guessed(open)') <= Cardinality(Guessed(open) \cup {n})
          /\ Cardinality(Guessed(open)') \in Nat /\ Cardinality(Guessed(open) \cup {n}) \in Nat
      BY <2>1, <3>1, <1>11, FS_Subset, FS_CardinalityType
    <3> QED BY <3>1, <3>2, <2>1, <1>0, <1>4, <1>5, <1>6
  <2>2. CASE ~(news.count <= LoginLimit)
    <3>1. Cardinality(Guessed(open)') <= Cardinality(Guessed(open)) /\ Cardinality(Guessed(open)') \in Nat
      <4>1. Guessed(open)' \subseteq Guessed(open)
        BY <2>2, <1>11
      <4> QED BY <4>1, <1>6, FS_Subset, FS_CardinalityType
    <3> QED BY SMTT(30), <3>1, <1>0, <1>4, <1>5, <1>6
  <2> QED BY <2>1, <2>2
<1>13. PICK windowStarts : windowStarts = starts \cup {open}
  OBVIOUS
<1>14. windowStarts \in SUBSET Nat /\ \A s \in windowStarts : s = open \/ s \in starts \ {open}
  BY <1>13
<1>15. \A s, t \in windowStarts : s < t => s + WindowLength <= t
  BY <1>0, <1>1, <1>5, <1>14 DEF Windowed
<1>16. \A i \in DOMAIN guesses' : \E s \in windowStarts : i \in Guessed(s)'
  <2> SUFFICES ASSUME NEW i \in DOMAIN guesses' PROVE \E s \in windowStarts : i \in Guessed(s)'
    OBVIOUS
  <2>1. CASE i \in DOMAIN guesses
    <3>1. PICK s \in starts : i \in Guessed(s)
      BY <2>1, <1>1 DEF Windowed
    <3>2. i \in Guessed(s)'
      BY <2>1, <3>1, <1>9 DEF Guessed
    <3> QED BY <3>1, <3>2, <1>13
  <2>2. CASE news.count <= LoginLimit /\ i = n
    <3>1. hour \in open .. open + WindowLength - 1
      BY <1>0, <1>5
    <3>2. i \in Guessed(open)'
      BY <2>2, <3>1, <1>9 DEF Guessed
    <3> QED BY <3>2, <1>13
  <2> QED BY <2>1, <2>2, <1>10
<1>17. \A s \in windowStarts : Cardinality(Guessed(s)') <= LoginLimit
  <2> SUFFICES ASSUME NEW s \in windowStarts PROVE Cardinality(Guessed(s)') <= LoginLimit
    OBVIOUS
  <2>1. CASE s = open
    BY <2>1, <1>12
  <2>2. CASE s \in starts \ {open}
    BY <2>2, <1>1, <1>11 DEF Windowed
  <2> QED BY <2>1, <2>2, <1>14
<1>18. /\ news.resetAt = open + WindowLength /\ open <= hour' /\ news.resetAt > hour'
       /\ \A s \in windowStarts : s <= open
       /\ open \in windowStarts
  BY <1>0, <1>4, <1>5, <1>13, <1>14
<1>19. Windowed(windowStarts, limiter.windows[LoginKey])'
  <2>1. news.resetAt <= hour' => \A s \in windowStarts : s + WindowLength <= hour'
    BY <1>0, <1>4, <1>18
  <2>2. \E o \in windowStarts :
          /\ news.resetAt = o + WindowLength /\ o <= hour'
          /\ Cardinality(Guessed(o)') <= news.count
          /\ \A s \in windowStarts : s <= o
    BY <1>12, <1>18
  <2> QED BY <2>1, <2>2, <1>2, <1>15, <1>16, <1>17 DEF Windowed
<1>20. \A i \in DOMAIN guesses' : guesses'[i] <= hour'
  <2> SUFFICES ASSUME NEW i \in DOMAIN guesses' PROVE guesses'[i] <= hour
    BY <1>0
  <2>1. CASE i \in DOMAIN guesses
    BY <2>1, <1>0, <1>9
  <2>2. CASE news.count <= LoginLimit /\ i = n
    <3>1. guesses'[i] = hour
      BY <2>2, <1>9
    <3> QED BY <3>1, <1>0
  <2> QED BY <2>1, <2>2, <1>10
<1> QED BY <1>9, <1>14, <1>19, <1>20 DEF GuessesFit

LEMMA LimitStep == ASSUME SessionsInv, NEW t \in Tab, RateLimited(t) PROVE SessionsInv'
<1>0. /\ SessionTypes /\ CallsAreCounted /\ GuessesFit /\ call[t] \in CallState /\ CallFits(call[t])
      /\ calls \in Nat /\ calls <= MaxCalls /\ MaxCalls \in Nat
  BY SessionsConstants DEF SessionsInv, SessionTypes
<1>1. PICK key : key = IF call[t].path = "login" THEN LoginKey ELSE call[t].account
  OBVIOUS
<1>2. key \in Key
  BY <1>0, <1>1 DEF Key, LoginKey, CallState
<1>3. /\ call[t].at = "limit" /\ limiter' = Check(key) /\ UNCHANGED <<hour, accounts, session, calls>>
      /\ IF limiter'.windows[key].count > Limit(key) THEN Answered(t, 429) ELSE Turns(t, [call[t] EXCEPT !.at = "handle"])
      /\ guesses' = IF key = LoginKey /\ limiter'.windows[key].count <= Limit(key) THEN Append(guesses, hour) ELSE guesses
  BY <1>1 DEF RateLimited, Sees
<1>4. /\ limiter' \in [windows : [Key -> RateWindow], sinceSweep : 0 .. SweepEvery - 1]
      /\ IF limiter.windows[key].resetAt > hour
         THEN limiter'.windows[key].count = limiter.windows[key].count + 1
         ELSE limiter'.windows[key].count = 1
      /\ \A k \in Key \ {key} :
            \/ limiter'.windows[k] = limiter.windows[k]
            \/ limiter.windows[k].resetAt <= hour /\ limiter'.windows[k] = Shut
  BY <1>0, <1>2, <1>3, CheckCounts
<1>5. PICK news \in CallState : Turns(t, news) /\ news.at \in {"handle", "answer"} /\ CallFits(news)'
  <2>1. CASE limiter'.windows[key].count > Limit(key)
    <3>0. PICK coded \in AnswerStatus : coded = 429
      BY StatusCodes
    <3>1. PICK news : news = [call[t] EXCEPT !.at = "answer", !.status = coded]
      OBVIOUS
    <3>2. news \in CallState /\ news.at = "answer" /\ news.status = coded
      <4>1. call[t] \in CallState
        BY <1>0
      <4> QED BY <3>1, <4>1 DEF CallState
    <3>3. Turns(t, news)
      BY <2>1, <3>0, <3>1, <1>3 DEF Answered
    <3>4. CallFits(news)'
      BY <3>0, <3>2 DEF CallFits
    <3> QED BY <3>2, <3>3, <3>4
  <2>2. CASE ~(limiter'.windows[key].count > Limit(key))
    <3>1. PICK news : news = [call[t] EXCEPT !.at = "handle"]
      OBVIOUS
    <3>2. /\ news \in CallState /\ news.at = "handle" /\ news.status = call[t].status /\ news.path = call[t].path
          /\ news.valid = call[t].valid
      <4>1. call[t] \in CallState
        BY <1>0
      <4> QED BY <3>1, <4>1 DEF CallState
    <3>3. Turns(t, news)
      BY <2>2, <3>1, <1>3
    <3>4. CallFits(news)'
      BY <3>2, <1>0, <1>3 DEF CallFits
    <3> QED BY <3>2, <3>3, <3>4
  <2> QED BY <2>1, <2>2
<1>6. call' \in [Tab -> CallState] /\ \A u \in Tab : CallFits(call[u])'
  BY <1>3, <1>5, CallMoves
<1>7. CallsAreCounted'
  <2>1. \A u \in Tab : call'[u] = IF u = t THEN news ELSE call[u]
    BY <1>0, <1>5 DEF SessionTypes, Turns
  <2>2. Uncounted' = Uncounted \ {t} /\ t \in Uncounted
    BY <2>1, <1>3, <1>5 DEF Uncounted
  <2>3. Cardinality(Uncounted') = Cardinality(Uncounted) - 1 /\ Cardinality(Uncounted) \in Nat
    BY <2>2, UncountedIsFinite
  <2> SUFFICES ASSUME NEW k \in Key PROVE limiter'.windows[k].count + Cardinality(Uncounted') <= calls
    BY <1>3 DEF CallsAreCounted
  <2>4. /\ limiter.windows[k].count \in Nat
        /\ limiter.windows[k].count + Cardinality(Uncounted) <= calls
    <3>1. limiter.windows[k] \in RateWindow
      BY <1>0 DEF SessionTypes
    <3> QED BY <3>1, <1>0 DEF RateWindow, CallsAreCounted
  <2>5. limiter'.windows[k].count \in {0, 1, limiter.windows[k].count, limiter.windows[k].count + 1}
        /\ (k # key => limiter'.windows[k].count \in {0, limiter.windows[k].count})
    BY <1>4 DEF Shut
  <2> QED BY <2>3, <2>4, <2>5, <1>0
<1>8. GuessesFit'
  <2>1. CASE key = LoginKey
    <3>1. Limit(key) = LoginLimit
      BY <2>1 DEF Limit
    <3> QED BY <2>1, <3>1, <1>0, <1>3, LoginsAreCounted
  <2>2. CASE key # LoginKey
    <3>1. UNCHANGED guesses /\ hour' \in Nat /\ hour <= hour' /\ hour' = hour
      BY <2>2, <1>0, <1>3 DEF SessionTypes, Hours
    <3>2. \/ limiter'.windows[LoginKey] = limiter.windows[LoginKey]
          \/ limiter.windows[LoginKey].resetAt <= hour /\ limiter'.windows[LoginKey].resetAt <= hour'
      <4>1. \/ limiter'.windows[LoginKey] = limiter.windows[LoginKey]
            \/ limiter.windows[LoginKey].resetAt <= hour /\ limiter'.windows[LoginKey] = Shut
        BY <2>2, <1>4 DEF Key
      <4>2. Shut.resetAt = 0
        BY DEF Shut
      <4> QED BY <4>1, <4>2, <3>1
    <3> QED BY <3>1, <3>2, <1>0, <1>4, WindowsAge
  <2> QED BY <2>1, <2>2
<1> QED BY <1>0, <1>3, <1>4, <1>6, <1>7, <1>8 DEF SessionsInv, SessionTypes

LEMMA SessionsStep == SessionsInv /\ [SessionsNext]_sessionVars => SessionsInv'
<1> SUFFICES ASSUME SessionsInv, [SessionsNext]_sessionVars PROVE SessionsInv'
  OBVIOUS
<1>0. /\ SessionTypes /\ CallsAreCounted /\ GuessesFit
      /\ \A t \in Tab : call[t] \in CallState /\ CallFits(call[t])
      /\ hour \in Nat /\ TokenLife \in Nat
      /\ session \in [account : Account \cup {NoAccount}, expires : Nat]
  BY SessionsConstants DEF SessionsInv, SessionTypes, Hours
<1>1. ASSUME NEW t \in Tab, SendLogin(t) PROVE SessionsInv'
  <2>1. PICK chosen \in Account \cup {NoAccount}, right \in BOOLEAN :
           Turns(t, [NoCall EXCEPT !.at = "limit", !.path = "login", !.account = chosen, !.right = right])
    BY <1>1 DEF SendLogin
  <2>2. PICK news : news = [NoCall EXCEPT !.at = "limit", !.path = "login", !.account = chosen, !.right = right]
    OBVIOUS
  <2>3. news \in CallState /\ news.at = "limit" /\ news.path = "login" /\ news.status = 0
    BY <2>2, NobodyCalls DEF CallState
  <2>4. CallFits(news)'
    BY <2>3 DEF CallFits
  <2> QED BY <2>1, <2>2, <2>3, <2>4, <1>0, <1>1, CallStep DEF SendLogin
<1>2. ASSUME NEW t \in Tab, SendRequest(t) PROVE SessionsInv'
  <2>1. PICK valid \in BOOLEAN : valid = IsValid(session)
    BY DEF IsValid
  <2>2. PICK news : news = [NoCall EXCEPT !.at = "auth", !.path = "data", !.account = session.account,
                               !.expires = session.expires, !.valid = valid]
    OBVIOUS
  <2>3. /\ news \in CallState /\ news.at = "auth" /\ news.path = "data" /\ news.status = 0
        /\ news.account = session.account /\ news.expires = session.expires /\ news.valid = valid
    <3>1. session.account \in Account \cup {NoAccount} /\ session.expires \in Nat
      BY <1>0
    <3> QED BY <2>2, <3>1, NobodyCalls DEF CallState
  <2>4. CallFits(news)'
    <3>1. accounts' = accounts /\ hour' = hour
      BY <1>2 DEF SendRequest
    <3>2. session.account \in accounts /\ hour < session.expires => valid
      BY <2>1 DEF IsValid
    <3> QED BY <3>1, <3>2, <2>3 DEF CallFits
  <2> QED BY <2>1, <2>2, <2>3, <2>4, <1>0, <1>2, CallStep DEF SendRequest
<1>3. ASSUME NEW t \in Tab, Authenticate(t) PROVE SessionsInv'
  <2>0. call[t] \in CallState /\ CallFits(call[t])
    BY <1>0
  <2>1. call[t].at = "auth" /\ UNCHANGED <<hour, accounts, session, limiter, guesses, calls>>
    BY <1>3 DEF Authenticate, Sees
  <2>2. CASE call[t].account \in accounts /\ hour < call[t].expires
    <3>1. PICK news : news = [call[t] EXCEPT !.at = "limit"]
      OBVIOUS
    <3>2. /\ news \in CallState /\ news.at = "limit" /\ news.status = call[t].status /\ news.path = call[t].path
          /\ news.valid = call[t].valid
      BY <2>0, <3>1 DEF CallState
    <3>3. Turns(t, news)
      BY <2>2, <3>1, <1>3 DEF Authenticate, IsValid
    <3>4. CallFits(news)'
      BY <2>0, <2>1, <2>2, <3>2 DEF CallFits
    <3> QED BY <2>1, <3>2, <3>3, <3>4, <1>0, CallStep
  <2>3. CASE ~(call[t].account \in accounts /\ hour < call[t].expires)
    <3>0. PICK coded \in AnswerStatus : coded = 401
      BY StatusCodes
    <3>1. PICK news : news = [call[t] EXCEPT !.at = "answer", !.status = coded]
      OBVIOUS
    <3>2. news \in CallState /\ news.at = "answer" /\ news.status = coded
      BY <2>0, <3>1 DEF CallState
    <3>3. Turns(t, news)
      BY <2>3, <3>0, <3>1, <1>3 DEF Authenticate, IsValid, Answered
    <3>4. CallFits(news)'
      BY <3>0, <3>2 DEF CallFits
    <3> QED BY <2>1, <3>2, <3>3, <3>4, <1>0, CallStep
  <2> QED BY <2>2, <2>3
<1>4. ASSUME NEW t \in Tab, Login(t) PROVE SessionsInv'
  <2>1. PICK matched, chosen : matched = (IF ~call[t].right THEN {} ELSE {a \in accounts : chosen \in {NoAccount, a}})
                               /\ chosen = call[t].account
    OBVIOUS
  <2>2. /\ call[t].at = "handle" /\ call[t].path = "login" /\ UNCHANGED <<hour, accounts, session, limiter, guesses, calls>>
        /\ CASE matched = {} -> Answered(t, 401)
             [] Cardinality(matched) > 1 -> Answered(t, 409)
             [] Cardinality(matched) = 1 ->
                  Turns(t, [call[t] EXCEPT !.at = "answer", !.status = 200, !.account = CHOOSE a \in matched : TRUE,
                                           !.expires = hour + TokenLife, !.valid = (chosen # NoAccount)])
    BY ZenonT(40), <1>4, <2>1 DEF Login, Sees
  <2>3. IsFiniteSet(matched) /\ Cardinality(matched) \in Nat /\ matched \subseteq accounts
    BY <2>1, <1>0, SessionsConstants, FS_Subset, FS_CardinalityType DEF SessionTypes
  <2>4. matched # {} => Cardinality(matched) # 0
    BY <2>3, FS_EmptySet
  <2>5. \/ Answered(t, 401) \/ Answered(t, 409)
        \/ /\ Cardinality(matched) = 1
           /\ Turns(t, [call[t] EXCEPT !.at = "answer", !.status = 200, !.account = CHOOSE a \in matched : TRUE,
                                       !.expires = hour + TokenLife, !.valid = (chosen # NoAccount)])
    <3>1. matched = {} \/ Cardinality(matched) > 1 \/ Cardinality(matched) = 1
      BY <2>3, <2>4
    <3>2. matched = {} => Cardinality(matched) = 0
      BY FS_EmptySet
    <3> QED BY <2>2, <3>1, <3>2
  <2>6. ASSUME NEW coded \in {401, 409}, Answered(t, coded) PROVE SessionsInv'
    <3>1. PICK news : news = [call[t] EXCEPT !.at = "answer", !.status = coded]
      OBVIOUS
    <3>2. news \in CallState /\ news.at = "answer" /\ news.status = coded
      <4>1. call[t] \in CallState
        BY <1>0
      <4> QED BY ZenonT(40), <3>1, <4>1, StatusCodes DEF CallState
    <3>3. CallFits(news)'
      BY <3>2 DEF CallFits
    <3> QED BY <2>2, <2>6, <3>1, <3>2, <3>3, <1>0, CallStep DEF Answered
  <2>7. ASSUME Cardinality(matched) = 1,
               Turns(t, [call[t] EXCEPT !.at = "answer", !.status = 200, !.account = CHOOSE a \in matched : TRUE,
                                        !.expires = hour + TokenLife, !.valid = (chosen # NoAccount)])
        PROVE SessionsInv'
    <3>1. PICK only : matched = {only}
      BY <2>3, <2>7, FS_Singleton
    <3>2. (CHOOSE a \in matched : TRUE) = only /\ only \in accounts
      BY <2>3, <3>1
    <3>3. PICK named \in BOOLEAN : named = (chosen # NoAccount)
      OBVIOUS
    <3>4. PICK news : news = [call[t] EXCEPT !.at = "answer", !.status = 200, !.account = only,
                                             !.expires = hour + TokenLife, !.valid = named]
      OBVIOUS
    <3>5. only \in Account /\ hour + TokenLife \in Nat
      BY <3>2, <1>0 DEF SessionTypes
    <3>6. news \in CallState /\ news.at = "answer" /\ news.status = 200 /\ news.path = "login" /\ news.account = only
          /\ news.valid = named
      <4>1. call[t] \in CallState /\ call[t].path = "login"
        BY <2>2, <1>0
      <4> QED BY ZenonT(40), <3>4, <3>5, <4>1, StatusCodes DEF CallState
    <3>7. Turns(t, news)
      BY <2>7, <3>2, <3>3, <3>4
    <3>8. named \/ accounts \subseteq {only}
      BY <3>1, <3>3, <2>1
    <3>9. CallFits(news)'
      BY <2>2, <3>6, <3>8 DEF CallFits
    <3> QED BY <2>2, <3>6, <3>7, <3>9, <1>0, CallStep
  <2> QED BY <2>5, <2>6, <2>7
<1>5. ASSUME NEW t \in Tab, Serve(t) PROVE SessionsInv'
  <2>1. PICK news : news = [call[t] EXCEPT !.at = "answer", !.status = 200]
    OBVIOUS
  <2>2. news \in CallState /\ news.at = "answer" /\ news.path = call[t].path /\ news.valid = call[t].valid
    <3>1. call[t] \in CallState
      BY <1>0
    <3> QED BY ZenonT(40), <2>1, <3>1, StatusCodes DEF CallState
  <2>3. Turns(t, news) /\ call[t].at = "handle" /\ call[t].path = "data" /\ UNCHANGED <<hour, accounts, session, limiter, guesses, calls>>
    BY <2>1, <1>5 DEF Serve, Answered, Sees
  <2>4. CallFits(news)'
    BY <2>2, <2>3, <1>0 DEF CallFits
  <2> QED BY <2>2, <2>3, <2>4, <1>0, CallStep
<1>6. ASSUME NEW t \in Tab, ReceiveAnswer(t) PROVE SessionsInv'
  <2>1. Turns(t, NoCall) /\ UNCHANGED <<hour, accounts, limiter, guesses, calls>>
    BY <1>6 DEF ReceiveAnswer
  <2>2. session' \in [account : Account \cup {NoAccount}, expires : Nat]
    <3>1. call[t].account \in Account \cup {NoAccount} /\ call[t].expires \in Nat
      BY <1>0, StatusCodes DEF CallState
    <3>2. \/ session' = [account |-> call[t].account, expires |-> call[t].expires]
          \/ session' = NoSession \/ session' = session
      BY <1>6 DEF ReceiveAnswer
    <3> QED BY <3>1, <3>2, <1>0 DEF NoSession
  <2>3. CallFits(NoCall)'
    BY NobodyCalls DEF CallFits
  <2> QED BY <2>1, <2>2, <2>3, NobodyCalls, CallStep
\* Steps that no tab takes: accounts go, time passes, somebody signs out.
<1>7. ASSUME UNCHANGED <<call, limiter, guesses, calls>>, accounts' \subseteq accounts, hour' \in Hours, hour <= hour',
             session' \in [account : Account \cup {NoAccount}, expires : Nat]
      PROVE  SessionsInv'
  <2>1. hour' \in Nat
    BY <1>7, SessionsConstants DEF Hours
  <2>2. SessionTypes'
    BY <1>0, <1>7 DEF SessionTypes
  <2>3. ASSUME NEW t \in Tab PROVE CallFits(call[t])'
    <3>1. CallFits(call[t]) /\ call'[t] = call[t] /\ call[t].expires \in Nat
      BY <1>0, <1>7, StatusCodes DEF CallState
    <3>2. hour' < call[t].expires => hour < call[t].expires
      BY <2>1, <3>1, <1>0, <1>7
    <3> QED BY <3>1, <3>2, <1>7 DEF CallFits
  <2>4. CallsAreCounted'
    BY <1>0, <1>7 DEF CallsAreCounted, Uncounted
  <2>5. GuessesFit'
    BY <2>1, <1>0, <1>7, WindowsAge DEF SessionTypes
  <2> QED BY <2>2, <2>3, <2>4, <2>5 DEF SessionsInv
<1>8. ASSUME SignOut PROVE SessionsInv'
  BY <1>8, <1>7, <1>0 DEF SignOut, NoSession, SessionTypes
<1>9. ASSUME NEW a \in Account, RemoveAccount(a) PROVE SessionsInv'
  BY <1>9, <1>7, <1>0 DEF RemoveAccount, SessionTypes
<1>10. ASSUME HourPasses PROVE SessionsInv'
  BY <1>10, <1>7, <1>0, SessionsConstants DEF HourPasses, SessionTypes, Hours
<1>11. ASSUME UNCHANGED sessionVars PROVE SessionsInv'
  BY <1>11, <1>7, <1>0 DEF sessionVars, SessionTypes
<1> QED BY <1>1, <1>2, <1>3, LimitStep, <1>4, <1>5, <1>6, <1>8, <1>9, <1>10, <1>11 DEF SessionsNext

\* A span as long as a window meets two of them at most.
LEMMA SpansMeetTwo ==
    ASSUME SessionTypes, GuessesFit, NEW from \in Nat
    PROVE  Cardinality(Guessed(from)) <= 2 * LoginLimit
<1>0. WindowLength \in Nat \ {0} /\ LoginLimit \in Nat /\ guesses \in Seq(Nat)
      /\ Len(guesses) \in Nat /\ DOMAIN guesses = 1 .. Len(guesses)
      /\ \A i \in DOMAIN guesses : guesses[i] \in Nat
  BY SessionsConstants DEF GuessesFit
<1>1. PICK starts \in SUBSET Nat : Windowed(starts, limiter.windows[LoginKey])
  BY DEF GuessesFit
<1>2. ASSUME NEW s PROVE IsFiniteSet(Guessed(s)) /\ Cardinality(Guessed(s)) \in Nat
  <2>1. Guessed(s) \subseteq 1 .. Len(guesses)
    BY <1>0 DEF Guessed
  <2>2. IsFiniteSet(1 .. Len(guesses))
    BY <1>0, FS_Interval
  <2> QED BY <2>1, <2>2, FS_Subset, FS_CardinalityType
<1>3. PICK met : met = {s \in starts : Guessed(s) \cap Guessed(from) # {}}
  OBVIOUS
<1>4. \A s \in met : s \in Nat /\ from < s + WindowLength /\ s < from + WindowLength
  <2> SUFFICES ASSUME NEW s \in met PROVE s \in Nat /\ from < s + WindowLength /\ s < from + WindowLength
    OBVIOUS
  <2>1. PICK i \in DOMAIN guesses : i \in Guessed(s) /\ i \in Guessed(from)
    BY <1>3 DEF Guessed
  <2>2. guesses[i] \in s .. s + WindowLength - 1 /\ guesses[i] \in from .. from + WindowLength - 1 /\ s \in Nat
    BY <2>1, <1>3 DEF Guessed
  <2> QED BY <2>1, <2>2, <1>0
<1>5. \A i \in Guessed(from) : \E s \in met : i \in Guessed(s)
  BY <1>1, <1>3 DEF Windowed, Guessed
<1>6. \A s \in met : Cardinality(Guessed(s)) <= LoginLimit
  BY <1>1, <1>3 DEF Windowed
<1>7. CASE met = {}
  <2>1. Guessed(from) = {}
    BY <1>5, <1>7
  <2>2. Cardinality(Guessed(from)) = 0
    BY <2>1, FS_EmptySet
  <2> QED BY <2>2, <1>0
<1>8. CASE met # {}
  <2>1. PICK s \in met, t \in met : \A u \in met : u = s \/ u = t
    <3>1. PICK s \in met : TRUE
      BY <1>8
    <3>2. CASE \A u \in met : u = s
      BY <3>1, <3>2
    <3>3. CASE \E t \in met : t # s
      <4>1. PICK t \in met : t # s
        BY <3>3
      <4>2. ASSUME NEW u \in met, u # s, u # t PROVE FALSE
        <5>1. /\ s \in Nat /\ t \in Nat /\ u \in Nat
              /\ from < s + WindowLength /\ s < from + WindowLength
              /\ from < t + WindowLength /\ t < from + WindowLength
              /\ from < u + WindowLength /\ u < from + WindowLength
          BY <1>4
        <5>2. /\ (s < t => s + WindowLength <= t) /\ (t < s => t + WindowLength <= s)
              /\ (s < u => s + WindowLength <= u) /\ (u < s => u + WindowLength <= s)
              /\ (t < u => t + WindowLength <= u) /\ (u < t => u + WindowLength <= t)
          BY <1>1, <1>3 DEF Windowed
        <5> QED BY <4>1, <4>2, <5>1, <5>2, <1>0
      <4> QED BY <4>1, <4>2
    <3> QED BY <3>2, <3>3
  <2>2. Guessed(from) \subseteq Guessed(s) \cup Guessed(t)
    BY <1>5, <2>1
  <2>3. /\ IsFiniteSet(Guessed(s) \cup Guessed(t))
        /\ Cardinality(Guessed(s) \cup Guessed(t)) =
              Cardinality(Guessed(s)) + Cardinality(Guessed(t)) - Cardinality(Guessed(s) \cap Guessed(t))
    BY <1>2, FS_Union
  <2>4. Cardinality(Guessed(s) \cap Guessed(t)) \in Nat
    BY <1>2, FS_Intersection, FS_CardinalityType
  <2>5. Cardinality(Guessed(from)) <= Cardinality(Guessed(s) \cup Guessed(t))
    BY <2>2, <2>3, FS_Subset
  <2>6. Cardinality(Guessed(s)) <= LoginLimit /\ Cardinality(Guessed(t)) <= LoginLimit
    BY <1>6
  <2>7. Cardinality(Guessed(s)) \in Nat /\ Cardinality(Guessed(t)) \in Nat /\ Cardinality(Guessed(from)) \in Nat
    BY <1>2
  <2> QED BY <2>3, <2>4, <2>5, <2>6, <2>7, <1>0
<1> QED BY <1>7, <1>8

LEMMA SessionsPromise == SessionsInv => SessionsTypeOK /\ InvalidSeesNothing /\ TenantNotGuessed /\ GuessesLimited
<1> SUFFICES ASSUME SessionsInv PROVE SessionsTypeOK /\ InvalidSeesNothing /\ TenantNotGuessed /\ GuessesLimited
  OBVIOUS
<1>0. SessionTypes /\ CallsAreCounted /\ GuessesFit /\ \A t \in Tab : call[t] \in CallState /\ CallFits(call[t])
  BY DEF SessionsInv, SessionTypes
<1>1. SessionsTypeOK
  <2>1. session.account \in Account \cup {NoAccount} /\ limiter.sinceSweep \in 0 .. SweepEvery - 1
    BY <1>0 DEF SessionTypes
  <2>2. \A t \in Tab : /\ call[t].at \in {"none", "auth", "limit", "handle", "answer"}
                       /\ call[t].status \in {0, 200, 401, 409, 429}
                       /\ call[t].account \in Account \cup {NoAccount}
    BY <1>0 DEF CallState, AnswerStatus
  <2>3. ASSUME NEW k \in Key PROVE limiter.windows[k].count \in 0 .. MaxCalls
    <3>1. limiter.windows[k] \in RateWindow
      BY <1>0 DEF SessionTypes
    <3>2. limiter.windows[k].count \in Nat /\ limiter.windows[k].count + Cardinality(Uncounted) <= calls
      BY <3>1, <1>0 DEF RateWindow, CallsAreCounted
    <3>3. calls \in Nat /\ calls <= MaxCalls /\ MaxCalls \in Nat
      BY <1>0, SessionsConstants DEF SessionTypes
    <3> QED BY <3>2, <3>3, UncountedIsFinite
  <2> QED BY <2>1, <2>2, <2>3, <1>0 DEF SessionTypes, SessionsTypeOK
<1>2. InvalidSeesNothing /\ TenantNotGuessed
  BY <1>0 DEF CallFits, InvalidSeesNothing, TenantNotGuessed
<1>3. GuessesLimited
  <2>1. \A from \in Hours : from \in Nat
    BY SessionsConstants DEF Hours
  <2>2. \A from \in Hours : Cardinality(Guessed(from)) <= 2 * LoginLimit
    BY <2>1, <1>0, SpansMeetTwo
  <2> QED BY <2>2 DEF Guessed, GuessesLimited
<1> QED BY <1>1, <1>2, <1>3

(***************************************************************************)
(* For any tabs, accounts, limits and window: a request whose session was  *)
(* over when it was made sees no data, a sign-in that succeeds proved the  *)
(* account it opens unless only that one exists, and no span as long as a  *)
(* window holds more than twice the limit of guesses (auth.ts, rate-       *)
(* limit.ts of the API).                                                   *)
(***************************************************************************)
THEOREM SessionsKeepTheirPromise == ServicesSpec => []SessionsHold
<1>1. ServicesInit => SessionsInv
  BY SessionsStart DEF ServicesInit
<1>2. SessionsInv /\ [ServicesNext]_servicesVars => SessionsInv'
  <2>1. [ServicesNext]_servicesVars => [SessionsNext]_sessionVars
    BY DEF ServicesNext, servicesVars
  <2> QED BY <2>1, SessionsStep
<1>3. SessionsInv => SessionsHold
  BY SessionsPromise DEF SessionsHold
<1> QED BY <1>1, <1>2, <1>3, PTL DEF ServicesSpec

-----------------------------------------------------------------------------
(* Sending windows: the clock of a recipient                               *)

\* The wall-clock time a day begins with, and the day and the minute of one.
Dawn(d) == d * DayLength
DayPart(wall) == wall \div DayLength
MinutePart(wall) == wall % DayLength

LEMMA DawnsInOrder ==
    ASSUME NEW d \in Int, NEW e \in Int
    PROVE  /\ Dawn(d) \in Int
           /\ Dawn(d + 1) = Dawn(d) + DayLength
           /\ d < e => Dawn(d) + DayLength <= Dawn(e)
<1>1. DayLength \in Nat /\ DayLength > 0
  BY QuietConstants
<1>2. Dawn(d) \in Int /\ Dawn(d + 1) = Dawn(d) + DayLength
  BY <1>1 DEF Dawn
<1>3. ASSUME d < e PROVE Dawn(d) + DayLength <= Dawn(e)
  <2>1. PICK k \in Nat : e = d + 1 + k
    BY <1>3
  <2>2. (d + 1 + k) * DayLength = d * DayLength + DayLength + k * DayLength
    BY <1>1
  <2>3. k * DayLength >= 0
    BY <1>1
  <2>4. k * DayLength \in Int /\ d * DayLength \in Int
    BY <1>1
  <2> QED BY <2>1, <2>2, <2>3, <2>4, <1>1 DEF Dawn
<1> QED BY <1>2, <1>3

LEMMA DayAndMinute ==
    ASSUME NEW wall \in Int
    PROVE  /\ DayPart(wall) \in Int
           /\ MinutePart(wall) \in 0 .. DayLength - 1
           /\ wall = Dawn(DayPart(wall)) + MinutePart(wall)
<1>1. DayLength \in Nat /\ DayLength > 0
  BY QuietConstants
<1> QED BY <1>1 DEF DayPart, MinutePart, Dawn

LEMMA DayBounds ==
    ASSUME NEW wall \in Int
    PROVE  \E d \in Int : /\ d = DayPart(wall) /\ Dawn(d) \in Int /\ Dawn(d) <= wall
                          /\ wall < Dawn(d) + DayLength /\ MinutePart(wall) = wall - Dawn(d)
<1>1. /\ DayPart(wall) \in Int /\ MinutePart(wall) \in 0 .. DayLength - 1
      /\ wall = Dawn(DayPart(wall)) + MinutePart(wall)
  BY DayAndMinute
<1>2. PICK d \in Int : d = DayPart(wall)
  BY <1>1
<1>3. Dawn(d) \in Int /\ DayLength \in Nat
  BY DawnsInOrder, QuietConstants
<1> QED BY <1>1, <1>2, <1>3

\* A day is what its bounds say.
LEMMA DayOfTime ==
    ASSUME NEW wall \in Int, NEW d \in Int, Dawn(d) <= wall, wall < Dawn(d) + DayLength
    PROVE  DayPart(wall) = d /\ MinutePart(wall) = wall - Dawn(d)
<1>1. /\ DayPart(wall) \in Int /\ MinutePart(wall) \in 0 .. DayLength - 1
      /\ wall = Dawn(DayPart(wall)) + MinutePart(wall)
  BY DayAndMinute
<1>2. DayLength \in Nat
  BY QuietConstants
<1>3. /\ DayPart(wall) < d => Dawn(DayPart(wall)) + DayLength <= Dawn(d)
      /\ d < DayPart(wall) => Dawn(d) + DayLength <= Dawn(DayPart(wall))
      /\ Dawn(d) \in Int /\ Dawn(DayPart(wall)) \in Int
  BY <1>1, DawnsInOrder
<1>4. PICK e : e = DayPart(wall)
  OBVIOUS
<1>5. e = d
  BY <1>1, <1>2, <1>3, <1>4
<1> QED BY <1>1, <1>3, <1>4, <1>5

LEMMA DaysInOrder ==
    ASSUME NEW one \in Int, NEW other \in Int, one <= other
    PROVE  DayPart(one) <= DayPart(other)
<1>1. PICK d \in Int : d = DayPart(one) /\ Dawn(d) \in Int /\ Dawn(d) <= one
  BY DayBounds
<1>2. PICK e \in Int : e = DayPart(other) /\ Dawn(e) \in Int /\ other < Dawn(e) + DayLength
  BY DayBounds
<1>3. e < d => Dawn(e) + DayLength <= Dawn(d)
  BY DawnsInOrder
<1>4. DayLength \in Nat
  BY QuietConstants
<1> QED BY <1>1, <1>2, <1>3, <1>4

\* A zone that changes its clock once, by less than a day.
Zone == change \in Nat /\ shift \in Int /\ -DayLength < shift /\ shift < DayLength

\* A wall-clock time that no instant has.
Swallowed(wall) == change <= wall /\ wall < change + shift

\* A day the change of the clock touches (Disturbed, of an instant).
Touched(d) == shift # 0 /\ d \in {DayOf(change), DayOf(change - 1)}

LEMMA InstantHasTime ==
    ASSUME Zone, NEW t \in Int
    PROVE  /\ WallClock(t) \in Int
           /\ t < change => WallClock(t) = t
           /\ change <= t => WallClock(t) = t + shift
           /\ Offset(t) \in {0, shift}
           /\ DayOf(t) = DayPart(WallClock(t)) /\ MinuteOf(t) = MinutePart(WallClock(t))
BY DEF Zone, WallClock, Offset, DayOf, MinuteOf, DayPart, MinutePart

\* An instant is found for every wall-clock time, save those a gap swallows.
LEMMA TimeHasInstant ==
    ASSUME Zone, NEW wall \in Int, NEW o \in {0, shift}
    PROVE  /\ FixOffset(wall, o) \in Int
           /\ WallClock(FixOffset(wall, o)) = IF Swallowed(wall) THEN wall + shift ELSE wall
<1>0. change \in Int /\ shift \in Int /\ o \in Int
  BY DEF Zone
<1>1. \A t \in Int : Offset(t) = IF t < change THEN 0 ELSE shift
  BY DEF Offset
<1>2. PICK second : second = Offset(wall - o)
  OBVIOUS
<1>3. second = IF wall - o < change THEN 0 ELSE shift
  BY <1>0, <1>1, <1>2
<1>4. PICK third : third = Offset(wall - second)
  OBVIOUS
<1>5. third = IF wall - second < change THEN 0 ELSE shift
  BY <1>0, <1>1, <1>3, <1>4
<1>6. FixOffset(wall, o) = IF o = second THEN wall - o
                           ELSE IF second = third THEN wall - second
                           ELSE wall - (IF second < third THEN second ELSE third)
  BY <1>2, <1>4 DEF FixOffset
<1>7. PICK at : at = FixOffset(wall, o)
  OBVIOUS
<1>8. at \in Int
  BY <1>0, <1>3, <1>5, <1>6, <1>7
<1>9. at + (IF at < change THEN 0 ELSE shift) = IF change <= wall /\ wall < change + shift THEN wall + shift ELSE wall
  BY <1>0, <1>3, <1>5, <1>6, <1>7
<1> QED BY <1>0, <1>1, <1>7, <1>8, <1>9 DEF WallClock, Swallowed

\* A swallowed time belongs to a day the change touches.
LEMMA SwallowedIsDisturbed ==
    ASSUME Zone, NEW wall \in Int, Swallowed(wall)
    PROVE  Touched(DayPart(wall))
<1>0. change \in Int /\ shift \in Int /\ DayLength \in Int /\ shift < DayLength /\ change - 1 \in Int
  BY QuietConstants DEF Zone
<1>1. /\ WallClock(change) = change + shift /\ WallClock(change - 1) = change - 1
      /\ DayOf(change) = DayPart(change + shift) /\ DayOf(change - 1) = DayPart(change - 1)
  BY <1>0, InstantHasTime
<1>2. PICK d \in Int : /\ d = DayPart(wall) /\ Dawn(d) \in Int
                       /\ Dawn(d) <= wall /\ wall < Dawn(d) + DayLength
  BY DayBounds
<1>3. change <= wall /\ wall < change + shift
  BY DEF Swallowed
<1>4. ASSUME Dawn(d) <= change - 1 PROVE d = DayOf(change - 1)
  BY <1>0, <1>1, <1>2, <1>3, <1>4, DayOfTime
<1>5. ASSUME change + shift < Dawn(d) + DayLength PROVE d = DayOf(change)
  BY <1>0, <1>1, <1>2, <1>3, <1>5, DayOfTime
<1>6. Dawn(d) <= change - 1 \/ change + shift < Dawn(d) + DayLength
  BY <1>0, <1>2, <1>3
<1>7. shift # 0
  BY <1>0, <1>3
<1> QED BY <1>2, <1>4, <1>5, <1>6, <1>7 DEF Touched

\* On a day the change does not touch the clock tells the order of the instants.
LEMMA UndisturbedInOrder ==
    ASSUME Zone, NEW t \in Int, ~Disturbed(t), NEW u \in Int
    PROVE  (u < t <=> WallClock(u) < WallClock(t)) /\ (t < u <=> WallClock(t) < WallClock(u))
<1>0. change \in Int /\ shift \in Int /\ DayLength \in Nat /\ change - 1 \in Int /\ -DayLength < shift /\ shift < DayLength
  BY QuietConstants DEF Zone
<1>1. /\ WallClock(change) = change + shift /\ WallClock(change - 1) = change - 1
      /\ DayOf(change) = DayPart(change + shift) /\ DayOf(change - 1) = DayPart(change - 1)
  BY <1>0, InstantHasTime
<1>2. /\ WallClock(t) = IF t < change THEN t ELSE t + shift
      /\ WallClock(u) = IF u < change THEN u ELSE u + shift
      /\ DayOf(t) = DayPart(WallClock(t)) /\ WallClock(t) \in Int
  BY <1>0, InstantHasTime
<1>3. PICK d \in Int : /\ d = DayOf(t) /\ Dawn(d) \in Int
                       /\ Dawn(d) <= WallClock(t) /\ WallClock(t) < Dawn(d) + DayLength
  BY <1>2, DayBounds
<1>4. CASE shift >= 0
  BY <1>0, <1>2, <1>4
<1>5. CASE shift < 0
  <2>1. d # DayPart(change + shift) /\ d # DayPart(change - 1)
    BY <1>0, <1>1, <1>3, <1>5 DEF Disturbed
  <2>2. /\ ~(Dawn(d) <= change + shift /\ change + shift < Dawn(d) + DayLength)
        /\ ~(Dawn(d) <= change - 1 /\ change - 1 < Dawn(d) + DayLength)
    BY <2>1, <1>0, <1>3, DayOfTime
  <2> QED BY <2>2, <1>0, <1>2, <1>3, <1>5
<1> QED BY <1>0, <1>4, <1>5

LEMMA MinuteIsFound ==
    ASSUME Zone, NEW t \in Int, NEW minute \in 0 .. DayLength - 1
    PROVE  \E d, wall \in Int :
              /\ d = DayOf(t) /\ wall = Dawn(d) + minute /\ Dawn(d) \in Int /\ DayPart(wall) = d
              /\ AtLocalMinute(t, minute) \in Int
              /\ WallClock(AtLocalMinute(t, minute)) = IF Swallowed(wall) THEN wall + shift ELSE wall
<1>0. DayLength \in Nat
  BY QuietConstants
<1>1. DayOf(t) = DayPart(WallClock(t)) /\ WallClock(t) \in Int /\ Offset(t) \in {0, shift}
  BY InstantHasTime
<1>2. PICK d \in Int : d = DayOf(t) /\ Dawn(d) \in Int
  BY <1>1, DayBounds
<1>3. PICK wall \in Int : wall = Dawn(d) + minute
  BY <1>0, <1>2
<1>4. DayPart(wall) = d
  BY <1>0, <1>2, <1>3, DayOfTime
<1>5. AtLocalMinute(t, minute) = FixOffset(wall, Offset(t))
  BY <1>2, <1>3 DEF AtLocalMinute, Dawn
<1> QED BY <1>1, <1>2, <1>3, <1>4, <1>5, TimeHasInstant

\* The first instant of a day.
Begins(t) == WallClock(t) = IF Swallowed(Dawn(DayOf(t))) THEN Dawn(DayOf(t)) + shift ELSE Dawn(DayOf(t))

LEMMA DayBegins ==
    ASSUME Zone, NEW t \in Int
    PROVE  StartOfDay(t) \in Int /\ DayOf(StartOfDay(t)) = DayOf(t) /\ Begins(StartOfDay(t))
<1>0. /\ DayLength \in Nat /\ 0 \in 0 .. DayLength - 1
      /\ change \in Int /\ shift \in Int /\ shift < DayLength
  BY QuietConstants DEF Zone
<1>1. PICK at : at = StartOfDay(t)
  OBVIOUS
<1>2. PICK d, wall \in Int :
         /\ d = DayOf(t) /\ wall = Dawn(d) + 0 /\ Dawn(d) \in Int
         /\ AtLocalMinute(t, 0) \in Int
         /\ WallClock(AtLocalMinute(t, 0)) = IF Swallowed(wall) THEN wall + shift ELSE wall
  BY <1>0, MinuteIsFound
<1>3. at \in Int /\ wall = Dawn(d) /\ WallClock(at) = IF Swallowed(Dawn(d)) THEN Dawn(d) + shift ELSE Dawn(d)
  BY <1>1, <1>2 DEF StartOfDay
<1>4. Swallowed(Dawn(d)) => shift > 0
  BY <1>0, <1>2 DEF Swallowed
<1>5. Dawn(d) <= WallClock(at) /\ WallClock(at) < Dawn(d) + DayLength /\ WallClock(at) \in Int
  BY <1>0, <1>2, <1>3, <1>4
<1>6. DayOf(at) = d
  BY <1>2, <1>3, <1>5, DayOfTime, InstantHasTime
<1> QED BY <1>1, <1>2, <1>3, <1>6 DEF Begins

\* The day after is the next one; only the change of the clock may skip one.
LEMMA NextDayBegins ==
    ASSUME Zone, NEW t \in Int
    PROVE  /\ NextDay(t) \in Int /\ Begins(NextDay(t))
           /\ \/ DayOf(NextDay(t)) = DayOf(t) + 1
              \/ DayOf(NextDay(t)) = DayOf(t) + 2 /\ Touched(DayOf(t) + 1)
           /\ Begins(t) => DayOf(NextDay(t)) = DayOf(t) + 1
<1>0. DayLength \in Nat /\ DayLength > 0 /\ change \in Int /\ shift \in Int /\ shift < DayLength
  BY QuietConstants DEF Zone
<1>1. DayOf(t) = DayPart(WallClock(t)) /\ WallClock(t) \in Int /\ Offset(t) \in {0, shift}
  BY InstantHasTime
<1>2. PICK d \in Int : /\ d = DayOf(t) /\ Dawn(d) \in Int
                       /\ Dawn(d) <= WallClock(t) /\ WallClock(t) < Dawn(d) + DayLength
  BY <1>1, DayBounds
<1>3. Dawn(d + 1) = Dawn(d) + DayLength /\ Dawn(d + 2) = Dawn(d) + 2 * DayLength
  <2>1. d + 1 \in Int /\ d + 1 + 1 = d + 2
    OBVIOUS
  <2>2. Dawn(d + 1) = Dawn(d) + DayLength /\ Dawn(d + 1 + 1) = Dawn(d + 1) + DayLength
    BY <2>1, DawnsInOrder
  <2> QED BY <2>1, <2>2, <1>0, <1>2
<1>4. PICK wall \in Int : wall = WallClock(t) + DayLength
  BY <1>0, <1>1
<1>5. DayPart(wall) = d + 1
  BY <1>0, <1>1, <1>2, <1>3, <1>4, DayOfTime, d + 1 \in Int
<1>6. PICK at \in Int : /\ at = FixOffset(wall, Offset(t))
                        /\ WallClock(at) = IF Swallowed(wall) THEN wall + shift ELSE wall
  BY <1>1, TimeHasInstant
<1>7. NextDay(t) = StartOfDay(at)
  BY <1>4, <1>6 DEF NextDay
<1>8. NextDay(t) \in Int /\ Begins(NextDay(t)) /\ DayOf(NextDay(t)) = DayOf(at) /\ DayOf(at) = DayPart(WallClock(at))
  BY <1>6, <1>7, DayBegins, InstantHasTime
<1>9. CASE ~Swallowed(wall)
  BY <1>2, <1>5, <1>6, <1>8, <1>9
<1>10. CASE Swallowed(wall)
  <2>1. Touched(d + 1)
    BY <1>5, <1>10, SwallowedIsDisturbed
  <2>2. change <= wall /\ wall < change + shift /\ WallClock(at) = wall + shift
    BY <1>6, <1>10 DEF Swallowed
  <2>3. WallClock(at) < Dawn(d + 1) + DayLength \/ WallClock(at) >= Dawn(d + 2)
    BY <1>0, <1>1, <1>2, <1>3, <1>4, <2>2
  <2>4. CASE WallClock(at) < Dawn(d + 1) + DayLength
    <3>1. DayPart(WallClock(at)) = d + 1
      BY <1>0, <1>1, <1>2, <1>3, <1>4, <2>2, <2>4, DayOfTime, d + 1 \in Int, WallClock(at) \in Int
    <3> QED BY <3>1, <1>2, <1>8
  <2>5. CASE WallClock(at) >= Dawn(d + 2)
    <3>1. DayPart(WallClock(at)) = d + 2
      BY <1>0, <1>1, <1>2, <1>3, <1>4, <2>2, <2>5, DayOfTime, d + 2 \in Int, WallClock(at) \in Int
    <3>2. ~Begins(t)
      <4> SUFFICES ASSUME Begins(t) PROVE FALSE
        OBVIOUS
      <4>1. WallClock(t) = IF change <= Dawn(d) /\ Dawn(d) < change + shift THEN Dawn(d) + shift ELSE Dawn(d)
        BY <1>2 DEF Begins, Swallowed
      <4>2. PICK now \in Int : now = WallClock(t)
        BY <1>1
      <4>3. now + DayLength + shift >= Dawn(d) + 2 * DayLength /\ now + DayLength < change + shift
        BY <4>2, <1>3, <1>4, <2>2, <2>5
      <4>4. now = Dawn(d) \/ (now = Dawn(d) + shift /\ change <= Dawn(d))
        BY <4>1, <4>2
      <4> QED BY <4>3, <4>4, <1>0, <1>2
    <3> QED BY <3>1, <3>2, <2>1, <1>2, <1>8
  <2> QED BY <2>3, <2>4, <2>5
<1> QED BY <1>9, <1>10

LEMMA LeastOf ==
    ASSUME NEW S \in SUBSET Nat, S # {}
    PROVE  \E n \in S : \A m \in S : n <= m
<1>1. PICK n \in S : \A m \in S : ~(<<m, n>> \in OpToRel(<, Nat))
  BY NatLessThanWellFounded, WFMin
<1>2. \A m \in S : <<m, n>> \in OpToRel(<, Nat) <=> m < n
  BY DEF OpToRel
<1>3. \A m \in S : ~(m < n)
  BY <1>1, <1>2, Zenon
<1> QED BY <1>3

\* The dates a search visits exist: it can always go on to the next day.
LEMMA DatesAreVisited ==
    ASSUME Zone, NEW target \in Int, NEW narrow, NEW days, FirstDay(target, narrow, days) \in Int
    PROVE  /\ Dates(target, narrow, days)[0] = FirstDay(target, narrow, days)
           /\ \A i \in 1 .. SearchDays - 1 :
                 Dates(target, narrow, days)[i] = NextDay(Dates(target, narrow, days)[i - 1])
<1> DEFINE Advances(n) == \E f \in [0 .. n -> Int] : /\ f[0] = FirstDay(target, narrow, days)
                                                   /\ \A i \in 1 .. n : f[i] = NextDay(f[i - 1])
<1>1. Advances(0)
  <2>1. PICK first \in Int : first = FirstDay(target, narrow, days)
    OBVIOUS
  <2>2. PICK f \in [0 .. 0 -> Int] : f = [i \in 0 .. 0 |-> first]
    OBVIOUS
  <2>3. \A i \in 1 .. 0 : FALSE
    OBVIOUS
  <2>4. f[0] = first
    BY <2>2
  <2> QED BY <2>1, <2>3, <2>4
<1>2. ASSUME NEW n \in Nat, Advances(n) PROVE Advances(n + 1)
  <2>1. PICK f \in [0 .. n -> Int] : /\ f[0] = FirstDay(target, narrow, days)
                                     /\ \A i \in 1 .. n : f[i] = NextDay(f[i - 1])
    BY <1>2
  <2>2. PICK next \in Int : next = NextDay(f[n])
    BY <2>1, NextDayBegins
  <2>3. PICK g \in [0 .. n + 1 -> Int] : g = [i \in 0 .. n + 1 |-> IF i = n + 1 THEN next ELSE f[i]]
    <3>1. \A i \in 0 .. n + 1 : i = n + 1 \/ i \in 0 .. n
      OBVIOUS
    <3> QED BY <2>1, <3>1
  <2>4. g[0] = FirstDay(target, narrow, days)
    BY <2>1, <2>3
  <2>5. ASSUME NEW i \in 1 .. n + 1 PROVE g[i] = NextDay(g[i - 1])
    <3>1. CASE i = n + 1
      <4>1. g[i] = next /\ g[i - 1] = f[n]
        BY <2>3, <3>1
      <4> QED BY <4>1, <2>2
    <3>2. CASE i \in 1 .. n
      <4>1. g[i] = f[i] /\ g[i - 1] = f[i - 1]
        BY <2>3, <3>2
      <4> QED BY <4>1, <2>1, <3>2
    <3> QED BY <3>1, <3>2
  <2> QED BY <2>4, <2>5
<1> HIDE DEF Advances
<1>3. \A n \in Nat : Advances(n)
  <2> SUFFICES ASSUME \E n \in Nat : ~Advances(n) PROVE FALSE
    OBVIOUS
  <2>1. PICK n \in Nat : ~Advances(n) /\ \A m \in Nat : ~Advances(m) => n <= m
    <3>1. PICK S \in SUBSET Nat : S = {n \in Nat : ~Advances(n)}
      OBVIOUS
    <3> QED BY <3>1, LeastOf
  <2>2. n # 0 /\ n - 1 \in Nat
    BY <1>1, <2>1
  <2>3. Advances(n - 1)
    BY <2>1, <2>2
  <2>4. Advances(n - 1 + 1)
    BY <2>2, <2>3, <1>2
  <2> QED BY <2>1, <2>2, <2>4
<1>4. PICK last \in Nat : last = SearchDays - 1 /\ last >= 1
  BY DEF SearchDays
<1>5. PICK f \in [0 .. last -> Int] : /\ f[0] = FirstDay(target, narrow, days)
                                      /\ \A i \in 1 .. last : f[i] = NextDay(f[i - 1])
  BY <1>3 DEF Advances
<1>6. f = [i \in 0 .. last |-> IF i = 0 THEN FirstDay(target, narrow, days) ELSE NextDay(f[i - 1])]
  <2>1. \A i \in 0 .. last : i # 0 => i \in 1 .. last
    OBVIOUS
  <2> QED BY <1>5, <2>1
<1>7. Dates(target, narrow, days) =
         CHOOSE walk : walk = [i \in 0 .. last |-> IF i = 0 THEN FirstDay(target, narrow, days)
                                                    ELSE NextDay(walk[i - 1])]
  BY <1>4 DEF Dates
<1>8. PICK d : d = Dates(target, narrow, days)
  OBVIOUS
<1>9. d = [i \in 0 .. last |-> IF i = 0 THEN FirstDay(target, narrow, days) ELSE NextDay(d[i - 1])]
  BY <1>6, <1>7, <1>8, Zenon
<1>10. d[0] = FirstDay(target, narrow, days)
  BY <1>9, <1>4
<1>11. ASSUME NEW i \in 1 .. last PROVE d[i] = NextDay(d[i - 1])
  BY <1>9
<1> QED BY <1>4, <1>8, <1>10, <1>11

LEMMA SearchStarts ==
    ASSUME Zone, NEW target \in Int, NEW narrow, NEW days
    PROVE  /\ FirstDay(target, narrow, days) \in Int /\ Begins(FirstDay(target, narrow, days))
           /\ IF MinuteOf(target) >= EffectiveWindow(narrow)[2] \/ DayOf(target) % Week \notin days
              THEN \/ DayOf(FirstDay(target, narrow, days)) = DayOf(target) + 1
                   \/ /\ DayOf(FirstDay(target, narrow, days)) = DayOf(target) + 2
                      /\ Touched(DayOf(target) + 1)
              ELSE DayOf(FirstDay(target, narrow, days)) = DayOf(target)
BY DayBegins, NextDayBegins DEF FirstDay

\* The search visits a fortnight of successive days.
LEMMA DaysInARow ==
    ASSUME Zone, NEW target \in Int, NEW narrow, NEW days, NEW i \in 0 .. SearchDays - 1
    PROVE  /\ Dates(target, narrow, days)[i] \in Int
           /\ DayOf(Dates(target, narrow, days)[i]) = DayOf(FirstDay(target, narrow, days)) + i
<1>1. PICK first \in Int : /\ first = FirstDay(target, narrow, days) /\ Begins(first)
                           /\ DayOf(first) \in Int
  BY SearchStarts, DayBounds, InstantHasTime
<1>2. PICK d : d = Dates(target, narrow, days)
  OBVIOUS
<1>3. d[0] = first /\ \A k \in 1 .. SearchDays - 1 : d[k] = NextDay(d[k - 1])
  BY <1>1, <1>2, DatesAreVisited
<1> DEFINE Good(k) == d[k] \in Int /\ Begins(d[k]) /\ DayOf(d[k]) = DayOf(first) + k
<1>4. Good(0)
  BY <1>1, <1>3
<1>5. ASSUME NEW k \in 1 .. SearchDays - 1, Good(k - 1) PROVE Good(k)
  <2>1. PICK before \in Int : /\ before = d[k - 1] /\ Begins(before)
                              /\ DayOf(before) = DayOf(first) + (k - 1)
    BY <1>5
  <2>2. d[k] = NextDay(before) /\ k \in Int
    BY <1>3, <2>1
  <2>3. /\ NextDay(before) \in Int /\ Begins(NextDay(before))
        /\ DayOf(NextDay(before)) = DayOf(before) + 1
    BY <2>1, NextDayBegins
  <2>4. DayOf(before) + 1 = DayOf(first) + k
    BY <2>1, <2>2, <1>1
  <2> QED BY <2>2, <2>3, <2>4
<1> HIDE DEF Good
<1>6. \A k \in 0 .. SearchDays - 1 : Good(k)
  <2> SUFFICES ASSUME \E k \in 0 .. SearchDays - 1 : ~Good(k) PROVE FALSE
    OBVIOUS
  <2>0. 0 .. SearchDays - 1 \subseteq Nat
    BY DEF SearchDays
  <2>1. PICK S \in SUBSET Nat : S = {k \in 0 .. SearchDays - 1 : ~Good(k)}
    BY <2>0
  <2>2. PICK k \in S : \A m \in S : k <= m
    BY <2>1, LeastOf
  <2>3. k \in 1 .. SearchDays - 1
    <3>1. k \in 0 .. SearchDays - 1 /\ ~Good(k)
      BY <2>1, <2>2
    <3>2. k # 0
      BY <3>1, <1>4
    <3> QED BY <3>1, <3>2 DEF SearchDays
  <2>4. k - 1 \in 0 .. SearchDays - 1 /\ ~(k <= k - 1)
    BY <2>3 DEF SearchDays
  <2>5. Good(k - 1)
    BY <2>1, <2>2, <2>4
  <2> QED BY <2>1, <2>2, <2>3, <2>5, <1>5
<1> QED BY <1>1, <1>2, <1>6 DEF Good

LEMMA WindowFits ==
    ASSUME NEW narrow \in Narrowing
    PROVE  \E open, close \in Nat : /\ EffectiveWindow(narrow)[1] = open /\ EffectiveWindow(narrow)[2] = close
                                    /\ close <= DayLength
                                    /\ Unsatisfiable(narrow) <=> open >= close
<1>1. /\ DayLength \in Nat /\ Floor[1] \in Nat /\ Floor[2] \in Nat /\ Floor[1] < Floor[2] /\ Floor[2] <= DayLength
      /\ narrow = <<>> \/ (narrow \in Nat \X Nat /\ narrow[1] < narrow[2])
  BY QuietConstants
<1>2. PICK low, high \in Nat : low = Floor[1] /\ high = Floor[2]
  BY <1>1
<1>3. CASE narrow = <<>>
  BY <1>1, <1>3 DEF EffectiveWindow, Unsatisfiable
<1>4. CASE narrow \in Nat \X Nat
  <2>1. PICK a, b \in Nat : narrow = <<a, b>>
    BY <1>4
  <2>2. narrow # <<>>
    BY <2>1
  <2>3. EffectiveWindow(narrow) = <<IF low > a THEN low ELSE a, IF high < b THEN high ELSE b>>
    BY <1>2, <2>1, <2>2 DEF EffectiveWindow, Later, Sooner
  <2>4. PICK open, close \in Nat : open = (IF low > a THEN low ELSE a) /\ close = (IF high < b THEN high ELSE b)
    OBVIOUS
  <2>5. EffectiveWindow(narrow)[1] = open /\ EffectiveWindow(narrow)[2] = close /\ close <= DayLength
    BY <1>1, <1>2, <2>3, <2>4
  <2> QED BY <2>5 DEF Unsatisfiable
<1> QED BY <1>1, <1>3, <1>4

\* A send day the search passes over is one whose opening the gap swallows.
LEMMA MissIsSwallowed ==
    ASSUME Zone, NEW target \in Int, NEW narrow \in Narrowing, NEW days \in SendDaySets, ~Unsatisfiable(narrow),
           NEW first \in Int, first = DayOf(FirstDay(target, narrow, days)),
           NEW open \in Nat, open = EffectiveWindow(narrow)[1],
           NEW k \in 0 .. SearchDays - 1, (first + k) % Week \in days, k \notin Hits(target, narrow, days)
    PROVE  Swallowed(Dawn(first + k) + open)
<1>1. PICK close \in Nat : EffectiveWindow(narrow)[2] = close /\ close <= DayLength /\ open < close
  BY WindowFits
<1>2. PICK day \in Int : day = Dates(target, narrow, days)[k] /\ DayOf(day) = first + k
  BY DaysInARow
<1>3. ~Opens(day, narrow)
  BY <1>2 DEF Hits
<1>4. DayLength \in Nat /\ open \in 0 .. DayLength - 1
  BY <1>1, QuietConstants
<1>5. PICK d, wall \in Int :
         /\ d = DayOf(day) /\ wall = Dawn(d) + open /\ Dawn(d) \in Int /\ DayPart(wall) = d
         /\ AtLocalMinute(day, open) \in Int
         /\ WallClock(AtLocalMinute(day, open)) = IF Swallowed(wall) THEN wall + shift ELSE wall
  BY <1>2, <1>4, MinuteIsFound
<1>6. ASSUME ~Swallowed(wall) PROVE FALSE
  <2>1. MinuteOf(AtLocalMinute(day, open)) = MinutePart(wall)
    BY <1>5, <1>6, InstantHasTime
  <2>2. Dawn(d) <= wall /\ wall < Dawn(d) + DayLength /\ wall - Dawn(d) = open
    <3>1. PICK dawn \in Int : dawn = Dawn(d) /\ wall = dawn + open
      BY <1>5
    <3> QED BY <3>1, <1>4
  <2>3. MinutePart(wall) = open
    BY <2>2, DayOfTime
  <2> QED BY <2>1, <2>3, <1>1, <1>3 DEF Opens, Inside
<1> QED BY <1>2, <1>5, <1>6

\* A window that leaves some time open is met within the fortnight.
LEMMA SearchSucceeds ==
    ASSUME Zone, NEW target \in Int, NEW narrow \in Narrowing, NEW days \in SendDaySets, ~Unsatisfiable(narrow)
    PROVE  Hits(target, narrow, days) # {}
<1>1. PICK open, close \in Nat : /\ EffectiveWindow(narrow)[1] = open /\ EffectiveWindow(narrow)[2] = close
                                 /\ close <= DayLength /\ open < close
  BY WindowFits
<1>2. PICK first \in Int : first = DayOf(FirstDay(target, narrow, days))
  BY SearchStarts, DayBounds, InstantHasTime
<1>3. PICK weekday \in days : weekday \in 0 .. Week - 1
  BY QuietConstants
<1>4. PICK i \in 0 .. Week - 1 : (first + i) % Week = weekday /\ (first + (i + Week)) % Week = weekday
  <2>1. PICK r \in 0 .. 6 : r = first % 7
    BY <1>2
  <2>2. PICK i \in 0 .. 6 : (r + i) % 7 = weekday
    BY <1>3 DEF Week
  <2>3. (first + i) % 7 = weekday /\ (first + (i + 7)) % 7 = weekday
    BY <2>1, <2>2, <1>2
  <2> QED BY <2>2, <2>3 DEF Week
<1>5. ASSUME NEW k \in 0 .. SearchDays - 1, (first + k) % Week = weekday, k \notin Hits(target, narrow, days)
      PROVE  Swallowed(Dawn(first + k) + open)
  BY <1>1, <1>2, <1>3, <1>5, MissIsSwallowed
<1>6. i \in 0 .. SearchDays - 1 /\ i + Week \in 0 .. SearchDays - 1
  BY DEF Week, SearchDays
<1>7. ~(Swallowed(Dawn(first + i) + open) /\ Swallowed(Dawn(first + (i + Week)) + open))
  <2>1. PICK d, e \in Int : d = first + i /\ e = first + (i + Week) /\ d < e
    BY <1>2 DEF Week
  <2>2. Dawn(d) \in Int /\ Dawn(e) \in Int /\ Dawn(d) + DayLength <= Dawn(e)
    BY <2>1, DawnsInOrder
  <2>3. ~(Swallowed(Dawn(d) + open) /\ Swallowed(Dawn(e) + open))
    BY <2>2, QuietConstants DEF Swallowed, Zone
  <2> QED BY <2>1, <2>3
<1> QED BY <1>4, <1>5, <1>6, <1>7

\* The first of a set of positions (Min).
LEMMA FirstHit ==
    ASSUME NEW S \in SUBSET (0 .. SearchDays - 1), S # {}
    PROVE  Min(S) \in S /\ \A k \in S : Min(S) <= k
<1>1. S \in SUBSET Nat
  BY DEF SearchDays
<1>2. \E n \in S : \A m \in S : n <= m
  BY <1>1, LeastOf
<1>3. Min(S) = CHOOSE n \in S : \A m \in S : n <= m
  BY DEF Min
<1> QED BY <1>2, <1>3, Zenon

(***************************************************************************)
(* What resolveSendTime answers for a target it does not permit: a         *)
(* permitted slot, before which it passed over none but on the day the     *)
(* clock changes, and not behind the target but on that day.               *)
(***************************************************************************)
LEMMA SlotIsTheNext ==
    ASSUME Zone, NEW target \in Int, NEW narrow \in Narrowing, NEW days \in SendDaySets,
           ~Permitted(target, narrow, days), ~Throws(target, narrow, days),
           NEW slot, slot = Resolved(target, narrow, days)
    PROVE  /\ slot \in Int /\ Permitted(slot, narrow, days)
           /\ \A t \in target .. slot - 1 : Permitted(t, narrow, days) => Disturbed(t)
           /\ slot < target => Disturbed(target)
<1>1. PICK open, close \in Nat : /\ EffectiveWindow(narrow)[1] = open /\ EffectiveWindow(narrow)[2] = close
                                 /\ close <= DayLength /\ open < close
  BY WindowFits DEF Throws
<1>2. PICK first \in Int : first = DayOf(FirstDay(target, narrow, days))
  BY SearchStarts, DayBounds, InstantHasTime
<1>3. PICK j \in 0 .. SearchDays - 1 :
         /\ j \in Hits(target, narrow, days) /\ j = Min(Hits(target, narrow, days))
         /\ \A k \in Hits(target, narrow, days) : j <= k
  <2>1. Hits(target, narrow, days) \in SUBSET (0 .. SearchDays - 1) /\ Hits(target, narrow, days) # {}
    BY SearchSucceeds DEF Hits, Throws
  <2> QED BY <2>1, FirstHit
<1>4. open \in 0 .. DayLength - 1 /\ DayLength \in Nat /\ shift \in Int /\ shift < DayLength /\ change \in Int
  BY <1>1, QuietConstants DEF Zone
<1>5. PICK dates : dates = Dates(target, narrow, days)
  OBVIOUS
<1>6. \A k \in 0 .. SearchDays - 1 : dates[k] \in Int /\ DayOf(dates[k]) = first + k
  BY <1>2, <1>5, DaysInARow
<1>7. PICK last, wall \in Int :
         /\ last = first + j /\ wall = Dawn(last) + open /\ Dawn(last) \in Int /\ DayPart(wall) = last
         /\ slot \in Int /\ WallClock(slot) = IF Swallowed(wall) THEN wall + shift ELSE wall
  <2>1. slot = AtLocalMinute(dates[j], open)
    BY <1>1, <1>3, <1>5 DEF Resolved
  <2>2. dates[j] \in Int /\ DayOf(dates[j]) = first + j
    BY <1>6
  <2>3. PICK day \in Int : day = dates[j] /\ DayOf(day) = first + j /\ slot = AtLocalMinute(day, open)
    BY <2>1, <2>2
  <2>4. PICK d, wall \in Int :
           /\ d = DayOf(day) /\ wall = Dawn(d) + open /\ Dawn(d) \in Int /\ DayPart(wall) = d
           /\ AtLocalMinute(day, open) \in Int
           /\ WallClock(AtLocalMinute(day, open)) = IF Swallowed(wall) THEN wall + shift ELSE wall
    BY <2>3, <1>4, MinuteIsFound
  <2> QED BY <2>3, <2>4
<1>8. /\ last % Week \in days /\ MinutePart(WallClock(slot)) >= open /\ MinutePart(WallClock(slot)) < close
      /\ MinuteOf(slot) = MinutePart(WallClock(slot))
  <2>1. dates[j] \in Int /\ DayOf(dates[j]) = last /\ slot = AtLocalMinute(dates[j], open)
    BY <1>1, <1>3, <1>5, <1>6, <1>7 DEF Resolved
  <2>2. DayOf(dates[j]) % Week \in days /\ Opens(dates[j], narrow)
    BY <1>3, <1>5 DEF Hits
  <2> QED BY <2>1, <2>2, <1>1, <1>7, InstantHasTime DEF Opens, Inside
\* The slot is on the date it was sought on, or the gap would have put it before the opening.
<1>9. DayPart(WallClock(slot)) = last /\ WallClock(slot) >= wall
  <2>1. CASE Swallowed(wall)
    <3>1. shift > 0 /\ WallClock(slot) = wall + shift
      BY <2>1, <1>4, <1>7 DEF Swallowed
    <3>2. CASE wall + shift < Dawn(last) + DayLength
      BY <3>1, <3>2, <1>4, <1>7, DayOfTime
    <3>3. CASE wall + shift >= Dawn(last) + DayLength
      <4>1. last + 1 \in Int /\ Dawn(last + 1) = Dawn(last) + DayLength
        BY DawnsInOrder
      <4>2. MinutePart(wall + shift) = wall + shift - Dawn(last + 1)
        BY <3>3, <4>1, <1>4, <1>7, DayOfTime
      <4> QED BY <4>1, <4>2, <3>1, <1>4, <1>7, <1>8
    <3> QED BY <3>2, <3>3, <1>4, <1>7
  <2>2. CASE ~Swallowed(wall)
    BY <2>2, <1>7
  <2> QED BY <2>1, <2>2
<1>10. Permitted(slot, narrow, days)
  BY <1>1, <1>7, <1>8, <1>9, InstantHasTime DEF Permitted, Inside

<1>11. PICK begun \in Int : /\ begun = DayOf(target) /\ Dawn(begun) \in Int /\ WallClock(target) \in Int
                            /\ Dawn(begun) <= WallClock(target) /\ WallClock(target) < Dawn(begun) + DayLength
                            /\ MinuteOf(target) = WallClock(target) - Dawn(begun)
  BY DayBounds, InstantHasTime
<1>12. \/ first = begun /\ MinuteOf(target) < close /\ begun % Week \in days
       \/ first > begun /\ (MinuteOf(target) >= close \/ begun % Week \notin days)
  BY SearchStarts, <1>1, <1>2, <1>11
<1>13. \A d \in Int : begun < d /\ d < first => Touched(d)
  BY SearchStarts, <1>2, <1>11
<1>14. last >= first /\ first >= begun
  BY <1>7, <1>12
<1>15. Dawn(last) <= WallClock(slot) /\ WallClock(slot) \in Int
  BY <1>4, <1>7, <1>9
<1>16. ASSUME NEW t \in target .. slot - 1, Permitted(t, narrow, days), ~Disturbed(t) PROVE FALSE
  <2>1. PICK d \in Int : /\ d = DayOf(t) /\ Dawn(d) \in Int /\ WallClock(t) \in Int
                         /\ Dawn(d) <= WallClock(t) /\ WallClock(t) < Dawn(d) + DayLength
                         /\ MinuteOf(t) = WallClock(t) - Dawn(d)
    BY <1>7, DayBounds, InstantHasTime
  <2>2. ~Touched(d)
    BY <2>1, <1>16 DEF Touched, Disturbed
  <2>3. d % Week \in days /\ open <= MinuteOf(t) /\ MinuteOf(t) < close
    BY <1>16, <1>1, <2>1 DEF Permitted, Inside
  <2>4. WallClock(target) <= WallClock(t) /\ WallClock(t) < WallClock(slot)
    BY <1>7, <1>11, <1>15, <1>16, <2>1, UndisturbedInOrder
  <2>5. begun <= d /\ d <= last
    <3>1. /\ begun = DayPart(WallClock(target)) /\ d = DayPart(WallClock(t))
          /\ last = DayPart(WallClock(slot))
      BY <1>9, <1>11, <2>1, InstantHasTime
    <3>2. WallClock(t) <= WallClock(slot)
      BY <2>1, <2>4, <1>15
    <3> QED BY <3>1, <3>2, <2>1, <2>4, <1>11, <1>15, DaysInOrder
  <2>6. CASE d < first
    <3>1. d = begun
      BY <2>2, <2>5, <2>6, <1>13
    <3>2. MinuteOf(target) >= close
      BY <3>1, <2>3, <2>6, <1>12
    <3>3. PICK dawn \in Int : dawn = Dawn(d) /\ dawn = Dawn(begun)
      BY <3>1, <2>1
    <3>4. MinuteOf(t) = WallClock(t) - dawn /\ MinuteOf(target) = WallClock(target) - dawn
      BY <3>3, <2>1, <1>11
    <3> QED BY <3>2, <3>3, <3>4, <2>1, <2>3, <2>4, <1>11
  <2>7. CASE first <= d /\ d < last
    <3>1. PICK k \in 0 .. SearchDays - 1 : d = first + k /\ k < j
      <4>1. d - first \in 0 .. SearchDays - 1 /\ d - first < j /\ d = first + (d - first)
        BY <2>7, <1>7 DEF SearchDays
      <4> QED BY <4>1
    <3>2. (first + k) % Week \in days /\ k \notin Hits(target, narrow, days)
      BY <3>1, <2>3, <1>3
    <3>3. Swallowed(Dawn(d) + open)
      BY <3>1, <3>2, <1>1, <1>2, MissIsSwallowed DEF Throws
    <3>4. Dawn(d) + open \in Int /\ DayPart(Dawn(d) + open) = d
      BY <2>1, <1>4, DayOfTime
    <3> QED BY <3>3, <3>4, <2>2, SwallowedIsDisturbed
  <2>8. CASE d = last
    <3>1. ~Swallowed(wall)
      BY <2>2, <2>8, <1>7, SwallowedIsDisturbed
    <3>2. WallClock(slot) = Dawn(d) + open
      BY <3>1, <2>8, <1>7
    <3> QED BY <3>2, <2>1, <2>3, <2>4, <1>4
  <2> QED BY <2>5, <2>6, <2>7, <2>8
<1>17. ASSUME slot < target, ~Disturbed(target) PROVE FALSE
  <2>1. WallClock(slot) < WallClock(target)
    BY <1>7, <1>17, UndisturbedInOrder
  <2>2. last <= begun
    <3>1. begun = DayPart(WallClock(target)) /\ last = DayPart(WallClock(slot))
      BY <1>9, <1>11, InstantHasTime
    <3>2. WallClock(slot) <= WallClock(target)
      BY <2>1, <1>11, <1>15
    <3> QED BY <3>1, <3>2, <1>11, <1>15, DaysInOrder
  <2>3. last = begun /\ begun % Week \in days /\ MinuteOf(target) < close
    BY <2>2, <1>12, <1>14
  <2>4. open <= MinuteOf(target)
    <3>1. PICK dawn \in Int : dawn = Dawn(last) /\ dawn = Dawn(begun)
      BY <2>3, <1>7
    <3>2. MinuteOf(target) = WallClock(target) - dawn /\ WallClock(slot) >= dawn + open
      BY <3>1, <1>7, <1>9, <1>11
    <3> QED BY <3>1, <3>2, <2>1, <1>4, <1>11, <1>15
  <2> QED BY <2>3, <2>4, <1>1, <1>11 DEF Permitted, Inside
<1> QED BY <1>7, <1>10, <1>16, <1>17

\* The promises about a row m whose slot was chosen by the judgement j.
Honest(m, j) ==
    /\ m.status = "pending" =>
          /\ Permitted(m.slot, j.window, j.sendDays)
          /\ \A t \in j.at .. m.slot - 1 : Permitted(t, j.window, j.sendDays) => Disturbed(t)
          /\ m.slot < j.at => Disturbed(j.at)
    /\ m.status = "sent" => Permitted(j.at, j.window, j.sendDays)
    /\ m.status \in {"skipped", "cancelled"} => Unsatisfiable(j.window)

QuietInv == QuietTypeOK /\ Honest(mail, judged)

LEMMA ZoneIsTyped == QuietTypeOK => Zone
BY QuietConstants DEF QuietTypeOK, Zone

\* The promises change with the row and the judgement only.
LEMMA HonestSteady ==
    ASSUME change' = change, shift' = shift, NEW m, NEW j, Honest(m, j)
    PROVE  Honest(m, j)'
<1>1. \A t : WallClock(t)' = WallClock(t)
  BY DEF WallClock, Offset
<1>2. \A t : MinuteOf(t)' = MinuteOf(t) /\ DayOf(t)' = DayOf(t)
  BY <1>1 DEF MinuteOf, DayOf
<1>3. \A t, w, d : Permitted(t, w, d)' <=> Permitted(t, w, d)
  BY <1>2 DEF Permitted
<1>4. DayOf(change)' = DayOf(change) /\ DayOf(change - 1)' = DayOf(change - 1)
  BY DEF DayOf, WallClock, Offset
<1>5. \A t : Disturbed(t)' <=> Disturbed(t)
  BY <1>2, <1>4 DEF Disturbed
<1> QED BY <1>3, <1>5 DEF Honest

\* Whoever asks resolveSendTime is answered honestly.
LEMMA JudgementIsHonest ==
    ASSUME QuietTypeOK, NEW target \in Int, NEW m, NEW j, NEW goes \in {"pending", "sent"}, NEW gone \in {"skipped", "cancelled"},
           j = [at |-> target, window |-> window, sendDays |-> sendDays],
           IF Throws(target, window, sendDays) THEN m.status = gone
           ELSE IF Permitted(target, window, sendDays) THEN m.status = goes /\ (goes = "pending" => m.slot = target)
           ELSE m.status = "pending" /\ m.slot = Resolved(target, window, sendDays)
    PROVE  Honest(m, j) /\ (m.status = "pending" => m.slot \in Int)
<1>1. Zone /\ window \in Narrowing /\ sendDays \in SendDaySets
  BY ZoneIsTyped DEF QuietTypeOK
<1>2. CASE Throws(target, window, sendDays)
  <2>1. Unsatisfiable(window)
    BY <1>1, <1>2, SearchSucceeds DEF Throws
  <2> QED BY <2>1, <1>2 DEF Honest
<1>3. CASE ~Throws(target, window, sendDays) /\ Permitted(target, window, sendDays)
  BY <1>3 DEF Honest
<1>4. CASE ~Throws(target, window, sendDays) /\ ~Permitted(target, window, sendDays)
  <2>1. PICK slot : slot = Resolved(target, window, sendDays)
    OBVIOUS
  <2>2. /\ slot \in Int /\ Permitted(slot, window, sendDays)
        /\ \A t \in target .. slot - 1 : Permitted(t, window, sendDays) => Disturbed(t)
        /\ slot < target => Disturbed(target)
    BY <1>1, <1>4, <2>1, SlotIsTheNext
  <2>3. m.status = "pending" /\ m.slot = slot
    BY <1>4, <2>1
  <2> QED BY <2>2, <2>3 DEF Honest
<1> QED BY <1>2, <1>3, <1>4

LEMMA QuietStart == QuietInit => QuietInv
BY QuietConstants DEF QuietInit, QuietInv, QuietTypeOK, Honest, Unasked

LEMMA QuietStep == QuietInv /\ [QuietNext]_quietVars => QuietInv'
<1> SUFFICES ASSUME QuietInv, [QuietNext]_quietVars PROVE QuietInv'
  OBVIOUS
<1>0. QuietTypeOK /\ Honest(mail, judged) /\ Horizon \in Nat /\ MaxEdits \in Nat
  BY QuietConstants DEF QuietInv
<1>1. CASE UNCHANGED quietVars
  <2>1. change' = change /\ shift' = shift /\ mail' = mail /\ judged' = judged
    BY <1>1 DEF quietVars
  <2>2. QuietTypeOK'
    BY <1>0, <1>1 DEF QuietTypeOK, quietVars
  <2>3. PICK m, j : m = mail /\ j = judged
    OBVIOUS
  <2>4. Honest(m, j)'
    BY <2>1, <2>3, <1>0, HonestSteady
  <2> QED BY <2>1, <2>2, <2>3, <2>4 DEF QuietInv, Honest
<1>2. ASSUME UNCHANGED <<change, shift, mail, judged>>, QuietTypeOK' PROVE QuietInv'
  <2>1. PICK m, j : m = mail /\ j = judged
    OBVIOUS
  <2>2. Honest(m, j)'
    BY <2>1, <1>0, <1>2, HonestSteady
  <2> QED BY <2>1, <2>2, <1>2 DEF QuietInv, Honest
<1>3. ASSUME NEW target \in Int, NEW goes \in {"pending", "sent"}, NEW gone \in {"skipped", "cancelled"},
             NEW m, m = mail',
             Judges(target), UNCHANGED <<clock, change, shift, window, sendDays, edits>>,
             IF Throws(target, window, sendDays) THEN m.status = gone /\ m.slot \in Int
             ELSE IF Permitted(target, window, sendDays)
             THEN m.status = goes /\ m.slot \in Int /\ (goes = "pending" => m.slot = target)
             ELSE m.status = "pending" /\ m.slot = Resolved(target, window, sendDays)
      PROVE  QuietInv'
  <2>1. PICK j : j = judged' /\ j = [at |-> target, window |-> window, sendDays |-> sendDays]
    BY <1>3 DEF Judges
  <2>2. Honest(m, j) /\ (m.status = "pending" => m.slot \in Int)
    BY <2>1, <1>0, <1>3, JudgementIsHonest
  <2>3. Honest(m, j)'
    BY <2>2, <1>3, HonestSteady
  <2>4. m.status \in {"pending", "sent", "skipped", "cancelled"} /\ m.slot \in Int
    BY <2>2, <1>3
  <2>5. j # Unasked
    <3>1. sendDays # {}
      BY <1>0, QuietConstants DEF QuietTypeOK
    <3>2. j.sendDays # Unasked.sendDays
      BY <3>1, <2>1 DEF Unasked
    <3> QED BY <3>2
  <2>6. QuietTypeOK'
    BY <2>1, <2>4, <2>5, <1>0, <1>3 DEF QuietTypeOK, Unasked
  <2>7. mail' = m /\ judged' = j
    BY <2>1, <1>3
  <2> QED BY <2>3, <2>6, <2>7 DEF QuietInv, Honest
<1>4. ASSUME NEW target \in clock .. clock + 2 * DayLength, ScheduleMail(target) PROVE QuietInv'
  <2>1. target \in Int
    BY <1>0 DEF QuietTypeOK
  <2>2. PICK m : m = mail'
    OBVIOUS
  <2>3. CASE Throws(target, window, sendDays)
    <3>1. m.status = "skipped" /\ m.slot \in Int
      BY <2>2, <2>3, <1>0, <1>4 DEF ScheduleMail, QuietTypeOK
    <3> QED BY <3>1, <2>1, <2>2, <2>3, <1>3, <1>4 DEF ScheduleMail
  <2>4. CASE ~Throws(target, window, sendDays)
    <3>1. m.status = "pending" /\ m.slot = Resolved(target, window, sendDays)
      BY <2>2, <2>4, <1>4 DEF ScheduleMail
    <3>2. Permitted(target, window, sendDays) => m.slot = target
      BY <3>1 DEF Resolved
    <3> QED BY <3>1, <3>2, <2>1, <2>2, <2>4, <1>3, <1>4 DEF ScheduleMail
  <2> QED BY <2>3, <2>4
<1>5. CASE QuietGate
  <2>1. clock \in Int /\ mail.slot \in Int
    BY <1>0 DEF QuietTypeOK
  <2>2. PICK m : m = mail'
    OBVIOUS
  <2>3. IF Throws(clock, window, sendDays) THEN m.status = "cancelled" /\ m.slot \in Int
        ELSE IF Permitted(clock, window, sendDays) THEN m.status = "sent" /\ m.slot \in Int
        ELSE m.status = "pending" /\ m.slot = Resolved(clock, window, sendDays)
    BY <2>1, <2>2, <1>5 DEF QuietGate
  <2> QED BY <2>1, <2>2, <2>3, <1>3, <1>5 DEF QuietGate
<1>6. ASSUME NEW narrow \in Narrowing, NEW days \in SendDaySets, EditSchedule(narrow, days) PROVE QuietInv'
  <2>1. QuietTypeOK'
    BY <1>0, <1>6 DEF EditSchedule, QuietTypeOK, Unasked
  <2> QED BY <2>1, <1>2, <1>6 DEF EditSchedule
<1>7. CASE ClockTicks
  <2>1. QuietTypeOK'
    BY <1>0, <1>7 DEF ClockTicks, QuietTypeOK, Unasked
  <2> QED BY <2>1, <1>2, <1>7 DEF ClockTicks
<1> QED BY <1>1, <1>4, <1>5, <1>6, <1>7 DEF QuietNext

(***************************************************************************)
(* For a day of any length, any floor, windows, send days and a change of  *)
(* the clock by anything less than a day: every slot resolveSendTime finds *)
(* is permitted by the recipient's own clock, none before it was passed    *)
(* over but on a day the clock changes, and a message is given up only     *)
(* for a window the floor leaves nothing of (quiet-hours.ts).              *)
(***************************************************************************)
THEOREM WindowsKeepTheirPromise == ServicesSpec => []WindowsHold
<1>1. ServicesInit => QuietInv
  BY QuietStart DEF ServicesInit
<1>2. QuietInv /\ [ServicesNext]_servicesVars => QuietInv'
  <2>1. [ServicesNext]_servicesVars => [QuietNext]_quietVars
    BY DEF ServicesNext, servicesVars
  <2> QED BY <2>1, QuietStep
<1>3. QuietInv => WindowsHold
  BY DEF QuietInv, Honest, WindowsHold, SlotsArePermitted, NoSlotSkipped, GivenUpForSettings
<1> QED BY <1>1, <1>2, <1>3, PTL DEF ServicesSpec
=============================================================================
