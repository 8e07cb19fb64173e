--------------------------- MODULE RegistryProofs ---------------------------
(***************************************************************************)
(* Proofs about Registry, for any number of clusters, servers and sweeps.  *)
(***************************************************************************)
EXTENDS Registry, TLAPS

(***************************************************************************)
(* The inductive invariant                                                 *)
(***************************************************************************)
\* Before its first record is saved a cluster has nothing a sweep of records
\* or directories could have listed; nor a directory until it is prepared
\* (but for a caller's, which is there, and listed if its name says so).
Unrecord == {"init", "created", "opened", "locked", "leaked"}

FreshAt(c) ==
  /\ opc[c] \in Unrecord =>
       /\ ~record[c].on
       /\ \A s \in Sweepers : pass[s] = 1 => c \notin todo[s] /\ cur[s] # c
  /\ opc[c] \in Unrecord \cup {"recorded"} =>
       /\ c \notin CallerOwned => dir[c] = "none"
       /\ \A k \in Servers : srv[c][k] = "off" /\ dog[c][k] = "none"
       /\ c \notin Named =>
            \A s \in Sweepers : pass[s] = 2 => c \notin todo[s] /\ cur[s] # c

\* The lock path names the inode the owner has open, or nothing.
LockOK ==
  \A c \in Clusters :
    opc[c] = "opened" \/ OwnerHolds(c) =>
      ofd[c] \in Inodes /\ lockAt[c] \in {NoFile, ofd[c]}

\* Where a sweep can be, by pass.
CursorOK ==
  \A s \in Sweepers :
    /\ spc[s] \in {"idle", "next"} <=> cur[s] = None
    /\ spc[s] \in {"kill", "rmrec"} => pass[s] = 1
    /\ spc[s] \in {"killdir", "rmdir"} => pass[s] \in {1, 2}
    /\ spc[s] \in {"statlock", "used"} => pass[s] = 2
    /\ pass[s] = 2 => \A c \in CallerOwned \ Named :
                       c \notin todo[s] /\ cur[s] # c

\* A live cluster has its record; the sweep of records gets no further than
\* the lock, on the owner's own inode; the sweep of directories does not
\* reach it at all, unless the name leads it past the record.
LiveAt(c) ==
  Protected(c) =>
    /\ record[c].on
    /\ \A s \in Sweepers : cur[s] = c =>
         /\ pass[s] = 1 => /\ spc[s] \in {"open", "flock"}
                           /\ spc[s] = "flock" => sfd[s] = ofd[c]
         /\ pass[s] = 2 => c \in Elsewhere \cup Named

\* Under another registry's sweep: the directory is young while startOnce
\* works, and past the two checks there is no process left to harm.
Starting(c) == opc[c] \in {"prepared", "starting", "spawned"}

ElsewhereAt(c) ==
  c \in Elsewhere \ Named =>
    /\ Starting(c) /\ c \notin CallerOwned => dir[c] # "old"
    /\ Protected(c) => \A s \in Sweepers : pass[s] = 2 /\ cur[s] = c =>
         /\ spc[s] \in {"statlock", "used", "killdir", "rmdir", "rmlock"}
         /\ spc[s] # "statlock" => ~Starting(c)
         /\ spc[s] \in {"killdir", "rmdir", "rmlock"} =>
              \A k \in Servers : ~Alive(c, k) /\ ~DogAlive(c, k)

\* Watchdogs sleep until the owner is dead; a server is started only while
\* the record has room for it.
DogOK ==
  \A c \in Clusters :
    /\ opc[c] # "dead" => \A k \in Servers : dog[c][k] \in {"none", "armed", "gone"}
    /\ opc[c] = "spawned" => count[c] <= TiKVCount

LiveInv ==
  /\ TypeOK /\ LockOK /\ CursorOK /\ DogOK
  /\ \A c \in Clusters : FreshAt(c) /\ LiveAt(c) /\ ElsewhereAt(c)

\* Everything that is not a sweep happens to one cluster.
ClusterStep(c) ==
  \/ OwnerStep(c) \/ OwnerDies(c) \/ Age(c) \/ Damage(c)
  \/ \E k \in Servers : StopStep(c, k) \/ DogStep(c, k) \/ ServerExits(c, k)

(***************************************************************************)
(* Types                                                                   *)
(***************************************************************************)

\* A record that a server is appended to is a record.
LEMMA CountSaved ==
  ASSUME NEW r \in RecordFile, NEW m \in 0..(TiKVCount + 1)
  PROVE  [r EXCEPT !.n = m] \in RecordFile
  BY DEF RecordFile

\* A step of openRecord, startOnce or teardown keeps the types; addServer
\* needs the room DogOK promises it.
LEMMA OwnerTypes ==
  ASSUME TypeOK, DogOK, NEW c \in Clusters, OwnerStep(c)
  PROVE  TypeOK'
<1> USE RegistryAssumption DEF TypeOK, ownerVars, fileVars, procVars, sweepVars,
   entryVars, OwnerPCs, Inodes, NoFile
<1>1. CASE CreateLock(c)
  BY <1>1 DEF CreateLock
<1>2. CASE OpenLock(c)
  BY <1>2 DEF OpenLock
<1>3. CASE AcquireFails(c)
  BY <1>3 DEF AcquireFails
<1>4. CASE Lock(c)
  BY <1>4 DEF Lock
<1>5. CASE SaveRecord(c)
  BY <1>5, ZenonT(60) DEF SaveRecord, RecordFile
<1>6. CASE SaveFails(c)
  BY <1>6 DEF SaveFails
<1>7. CASE Finalize(c)
  BY <1>7 DEF Finalize
<1>8. CASE prepareDataPath(c)
  <2>1. PICK age \in {"young", dir[c]} : dir' = [dir EXCEPT ![c] = age]
    BY <1>8 DEF prepareDataPath
  <2>2. dir' \in [Clusters -> Ages]
    BY <2>1 DEF Ages
  <2>3. QED
    BY <1>8, <2>2 DEF prepareDataPath
<1>9. CASE setDataPath(c)
  BY <1>9, ZenonT(60) DEF setDataPath, RecordFile
<1>10. CASE startProcess(c)
  <2>1. dir' \in [Clusters -> Ages]
    BY <1>10 DEF startProcess, Ages
  <2>2. QED
    BY <1>10, <2>1 DEF startProcess, Servers, SrvStates, DogStates
<1>11. CASE addServer(c)
  <2>1. count[c] \in Nat /\ count[c] <= TiKVCount
    BY <1>11 DEF addServer, DogOK
  <2>2. count[c] + 1 \in 0..(TiKVCount + 1)
    BY <2>1
  <2>. HIDE <2>1
  <2>3. record' \in [Clusters -> RecordFile]
    <3>1. record' = [record EXCEPT ![c].n = count[c] + 1]
      BY <1>11 DEF addServer
    <3>2. [record[c] EXCEPT !.n = count[c] + 1] \in RecordFile
      BY <2>2, CountSaved
    <3>3. QED
      BY <3>1, <3>2
  <2>4. count' \in [Clusters -> 0..(TiKVCount + 1)]
    BY <1>11, <2>2 DEF addServer
  <2>5. QED
    BY <1>11, <2>3, <2>4 DEF addServer
<1>12. CASE Started(c)
  BY <1>12 DEF Started
<1>13. CASE BeginTeardown(c)
  BY <1>13 DEF BeginTeardown
<1>14. CASE StoresStopped(c)
  BY <1>14 DEF StoresStopped
<1>15. CASE ClearDataPath(c)
  BY <1>15 DEF ClearDataPath, Remains, Ages
<1>16. CASE abandon(c)
  BY <1>16 DEF abandon
<1>17. CASE CloseRelease(c)
  BY <1>17 DEF CloseRelease
<1>18. CASE CloseRecord(c)
  BY <1>18 DEF CloseRecord, RecordFile, NoRecord
<1>19. CASE CloseLock(c)
  BY <1>19 DEF CloseLock
<1>q. QED
  BY <1>1, <1>2, <1>3, <1>4, <1>5, <1>6, <1>7, <1>8, <1>9, <1>10, <1>11, <1>12,
     <1>13, <1>14, <1>15, <1>16, <1>17, <1>18, <1>19 DEF OwnerStep

\* So do process.stop, the watchdog script and the exit of a server ...
LEMMA ProcessTypes ==
  ASSUME TypeOK, NEW c \in Clusters, NEW k \in Servers,
         StopStep(c, k) \/ DogStep(c, k) \/ ServerExits(c, k)
  PROVE  TypeOK'
<1> USE RegistryAssumption DEF TypeOK, ownerVars, fileVars, procVars, sweepVars,
   entryVars
<1>1. CASE StopExited(c, k)
  BY <1>1 DEF StopExited, StopStates, DogStates, standDown
<1>2. CASE StopTerm(c, k)
  BY <1>2 DEF StopTerm, StopStates, DogStates
<1>3. CASE StopReaped(c, k)
  BY <1>3 DEF StopReaped, StopStates
<1>4. CASE StopKill(c, k)
  BY <1>4 DEF StopKill, StopStates, SrvStates
<1>5. CASE StopErrs(c, k)
  BY <1>5 DEF StopErrs, StopStates
<1>6. CASE DogKills(c, k)
  BY <1>6 DEF DogKills, DogStates, SrvStates
<1>7. CASE DogRemovesDir(c, k)
  BY <1>7, ZenonT(60) DEF DogRemovesDir, DogStates, Remains, Ages
<1>8. CASE DogRemovesRecord(c, k)
  BY <1>8 DEF DogRemovesRecord, DogStates, RecordFile, NoRecord
<1>9. CASE DogRemovesLock(c, k)
  BY <1>9 DEF DogRemovesLock, DogStates, NoFile
<1>10. CASE ServerExits(c, k)
  BY <1>10 DEF ServerExits, SrvStates
<1>q. QED
  BY <1>1, <1>2, <1>3, <1>4, <1>5, <1>6, <1>7, <1>8, <1>9, <1>10 DEF StopStep, DogStep

\* ... the death of an owner, time and a damaged record ...
LEMMA EnvironmentTypes ==
  ASSUME TypeOK, NEW c \in Clusters, OwnerDies(c) \/ Age(c) \/ Damage(c)
  PROVE  TypeOK'
<1> USE RegistryAssumption DEF TypeOK, ownerVars, fileVars, procVars, sweepVars,
   entryVars
<1>1. CASE OwnerDies(c)
  BY <1>1 DEF OwnerDies, DogStates, EndOfFile, OwnerPCs, NoFile
<1>2. CASE Age(c)
  BY <1>2 DEF Age, Ages
<1>3. CASE Damage(c)
  BY <1>3 DEF Damage, RecordFile
<1>q. QED
  BY <1>1, <1>2, <1>3 DEF TypeOK

\* The empty record and its contents are of their types.
LEMMA EmptyTypes == NoContents \in Contents /\ NoRecord \in RecordFile
<1>1. 0 \in 0..(TiKVCount + 1)
  BY RegistryAssumption
<1>2. QED
  BY <1>1 DEF NoContents, Contents, NoRecord, RecordFile

\* Leaving an entry resets a sweep's registers to values of their types.
LEMMA LeaveTypes ==
  ASSUME TypeOK, NEW s \in Sweepers, Leave(s)
  PROVE  /\ spc' \in [Sweepers -> SweepPCs]
         /\ cur' \in [Sweepers -> Clusters \cup {None}]
         /\ sfd' \in [Sweepers -> Inodes \cup {NoFile}]
         /\ seen' \in [Sweepers -> Contents]
  BY EmptyTypes DEF TypeOK, Leave, Goto, SweepPCs

\* ... and a sweep, or its death.
LEMMA SweepTypes ==
  ASSUME TypeOK, CursorOK, NEW s \in Sweepers, SweepStep(s) \/ SweeperDies(s)
  PROVE  TypeOK'
<1> USE RegistryAssumption DEF TypeOK, ownerVars, fileVars, procVars, sweepVars,
   entryVars,
        Goto, SweepPCs, Inodes, NoFile
<1>1. CASE \E p \in 1..3 : BeginPass(s, p)
  BY <1>1 DEF BeginPass, Listing
<1>2. CASE \E c \in Clusters : NextEntry(s, c)
  <2>1. PICK c \in Clusters : NextEntry(s, c)
    BY <1>2
  <2>2. todo' \in [Sweepers -> SUBSET Clusters] /\ UNCHANGED <<pass, sfd, seen, deaths>>
    BY <2>1 DEF NextEntry
  <2>3. cur' \in [Sweepers -> Clusters \cup {None}] /\ spc' \in [Sweepers -> SweepPCs]
    <3>1. CASE pass[s] # 1 /\ RecordThere(s, c)
      BY <2>1, <3>1 DEF NextEntry
    <3>2. CASE ~(pass[s] # 1 /\ RecordThere(s, c))
      <4>1. PICK l \in {"statlock", "open"} : spc' = [spc EXCEPT ![s] = l]
        BY <2>1, <3>2 DEF NextEntry
      <4>2. cur' = [cur EXCEPT ![s] = c]
        BY <2>1, <3>2 DEF NextEntry
      <4>3. QED
        BY <4>1, <4>2
    <3>3. QED
      BY <3>1, <3>2
  <2>4. QED
    BY <2>1, <2>2, <2>3 DEF NextEntry
<1>3. CASE EndSweep(s)
  BY <1>3 DEF EndSweep
<1>4. CASE StatLock(s)
  <2>1. CASE Leave(s)
    BY <1>4, <2>1, LeaveTypes DEF StatLock
  <2>2. CASE ~Leave(s)
    BY <1>4, <2>2 DEF StatLock
  <2>3. QED
    BY <2>1, <2>2
<1>5. CASE CheckUsed(s)
  BY <1>5, LeaveTypes DEF CheckUsed
<1>6. CASE OpenProbe(s)
  <2>1. CASE LockThere(s, cur[s])
    <3>1. cur[s] \in Clusters
      BY <1>6 DEF OpenProbe, CursorOK
    <3>2. lockAt[cur[s]] \in Inodes \cup {NoFile}
      BY <3>1
    <3>3. sfd' \in [Sweepers -> Inodes \cup {NoFile}]
      BY <1>6, <2>1, <3>2 DEF OpenProbe
    <3>4. QED
      BY <1>6, <2>1, <3>3 DEF OpenProbe
  <2>2. CASE ~LockThere(s, cur[s])
    BY <1>6, <2>2, LeaveTypes DEF OpenProbe
  <2>3. QED
    BY <2>1, <2>2
<1>7. CASE FlockProbe(s)
  BY <1>7, LeaveTypes DEF FlockProbe
<1>8. CASE ReadRecord(s)
  <2>1. CASE Leave(s)
    BY <1>8, <2>1, LeaveTypes DEF ReadRecord
  <2>2. CASE ~Leave(s)
    <3>1. cur[s] \in Clusters
      BY <1>8 DEF ReadRecord, CursorOK
    <3>2. [path |-> record[cur[s]].path, n |-> record[cur[s]].n] \in Contents
      BY <3>1 DEF RecordFile, Contents
    <3>3. seen' \in [Sweepers -> Contents]
      BY <1>8, <2>2, <3>2 DEF ReadRecord
    <3>4. QED
      BY <1>8, <2>2, <3>3 DEF ReadRecord
  <2>3. QED
    BY <2>1, <2>2
<1>9. CASE ReleaseProbe(s)
  BY <1>9 DEF ReleaseProbe
<1>10. CASE KillRecorded(s)
  BY <1>10 DEF KillRecorded, signalGroups, SrvStates, DogStates, AfterKill
<1>11. CASE killProcessesUsing(s)
  BY <1>11 DEF killProcessesUsing, signalGroups, SrvStates, DogStates
<1>12. CASE RemoveDataPath(s)
  BY <1>12, ZenonT(60) DEF RemoveDataPath, Remains, Ages
<1>13. CASE RemoveRecord(s)
  BY <1>13, EmptyTypes DEF RemoveRecord
<1>14. CASE RemoveLock(s)
  BY <1>14, LeaveTypes DEF RemoveLock
<1>15. CASE SweeperDies(s)
  BY <1>15, EmptyTypes DEF SweeperDies
<1>q. QED
  BY <1>1, <1>2, <1>3, <1>4, <1>5, <1>6, <1>7, <1>8, <1>9, <1>10, <1>11, <1>12,
     <1>13, <1>14, <1>15 DEF SweepStep

(***************************************************************************)
(* Frames: who may write what                                              *)
(***************************************************************************)
\* Owners, watchdogs, servers and time leave the sweeps alone.
LEMMA SweepFrame ==
  ASSUME NEW c \in Clusters, ClusterStep(c)
  PROVE  UNCHANGED <<pass, spc, todo, cur, sfd, seen, deaths>>
<1> USE DEF sweepVars, entryVars
<1>1. CASE OwnerStep(c)
  BY <1>1 DEF OwnerStep, CreateLock, OpenLock, AcquireFails, Lock, SaveRecord,
     SaveFails, Finalize, prepareDataPath, setDataPath, startProcess, addServer,
     Started, BeginTeardown, StoresStopped, ClearDataPath, abandon, CloseRelease,
     CloseRecord, CloseLock
<1>2. CASE OwnerDies(c) \/ Age(c) \/ Damage(c)
  BY <1>2 DEF OwnerDies, Age, Damage
<1>3. CASE \E k \in Servers : StopStep(c, k) \/ DogStep(c, k) \/ ServerExits(c, k)
  BY <1>3 DEF StopStep, StopExited, StopTerm, StopReaped, StopKill, StopErrs,
     DogStep, DogKills, DogRemovesDir, DogRemovesRecord, DogRemovesLock, ServerExits
<1>4. QED
  BY <1>1, <1>2, <1>3 DEF ClusterStep

\* And to that cluster alone.
LEMMA OtherFrame ==
  ASSUME TypeOK, NEW c \in Clusters, ClusterStep(c), NEW d \in Clusters, d # c
  PROVE  /\ opc'[d] = opc[d] /\ ofd'[d] = ofd[d] /\ count'[d] = count[d]
         /\ stop'[d] = stop[d]
         /\ lockAt'[d] = lockAt[d] /\ record'[d] = record[d] /\ dir'[d] = dir[d]
         /\ srv'[d] = srv[d] /\ dog'[d] = dog[d]
<1> USE DEF TypeOK, ownerVars, fileVars, procVars
<1>1. CASE OwnerStep(c)
  BY <1>1 DEF OwnerStep, CreateLock, OpenLock, AcquireFails, Lock, SaveRecord,
     SaveFails, Finalize, prepareDataPath, setDataPath, startProcess, addServer,
     Started, BeginTeardown, StoresStopped, ClearDataPath, abandon, CloseRelease,
     CloseRecord, CloseLock
<1>2. CASE OwnerDies(c) \/ Age(c) \/ Damage(c)
  BY <1>2 DEF OwnerDies, Age, Damage
<1>3. CASE \E k \in Servers : StopStep(c, k) \/ DogStep(c, k) \/ ServerExits(c, k)
  BY <1>3 DEF StopStep, StopExited, StopTerm, StopReaped, StopKill, StopErrs,
     DogStep, DogKills, DogRemovesDir, DogRemovesRecord, DogRemovesLock, ServerExits
<1>4. QED
  BY <1>1, <1>2, <1>3 DEF ClusterStep

\* A sweep never changes where an owner is.
LEMMA OwnerFrame ==
  ASSUME NEW s \in Sweepers, SweepStep(s) \/ SweeperDies(s)
  PROVE  UNCHANGED <<opc, ofd, count, stop>>
  BY DEF ownerVars, SweepStep, BeginPass, NextEntry, EndSweep, StatLock, CheckUsed,
     OpenProbe, FlockProbe, ReadRecord,
     ReleaseProbe, KillRecorded, killProcessesUsing, RemoveDataPath, RemoveRecord,
     RemoveLock, SweeperDies

\* Nor where another sweep is.
LEMMA OtherSweeps ==
  ASSUME TypeOK, NEW s \in Sweepers, SweepStep(s) \/ SweeperDies(s),
         NEW t \in Sweepers, t # s
  PROVE  /\ pass'[t] = pass[t] /\ spc'[t] = spc[t] /\ todo'[t] = todo[t]
         /\ cur'[t] = cur[t] /\ sfd'[t] = sfd[t] /\ seen'[t] = seen[t]
  BY DEF TypeOK, entryVars, Goto, Leave, SweepStep, BeginPass, NextEntry, EndSweep,
     StatLock, CheckUsed, OpenProbe, FlockProbe, ReadRecord, ReleaseProbe,
     KillRecorded, killProcessesUsing, RemoveDataPath, RemoveRecord, RemoveLock,
     SweeperDies

(***************************************************************************)
(* Sweeps                                                                  *)
(***************************************************************************)
LEMMA CursorStep ==
  ASSUME TypeOK, CursorOK, NEW s \in Sweepers, SweepStep(s) \/ SweeperDies(s)
  PROVE  CursorOK'
<1> USE RegistryAssumption DEF TypeOK, CursorOK, entryVars, Goto, Leave
<1>1. ASSUME NEW p \in 1..3, BeginPass(s, p) PROVE CursorOK'
  BY <1>1 DEF BeginPass, Listing
<1>2. ASSUME NEW c \in Clusters, NextEntry(s, c) PROVE CursorOK'
  BY <1>2 DEF NextEntry
<1>3. CASE EndSweep(s)
  BY <1>3 DEF EndSweep
<1>4. CASE StatLock(s)
  BY <1>4 DEF StatLock
<1>5. CASE CheckUsed(s)
  BY <1>5 DEF CheckUsed
<1>6. CASE OpenProbe(s)
  BY <1>6 DEF OpenProbe
<1>7. CASE FlockProbe(s)
  BY <1>7 DEF FlockProbe
<1>8. CASE ReadRecord(s)
  BY <1>8 DEF ReadRecord
<1>9. CASE ReleaseProbe(s)
  BY <1>9 DEF ReleaseProbe
<1>10. CASE KillRecorded(s)
  BY <1>10 DEF KillRecorded, AfterKill
<1>11. CASE killProcessesUsing(s)
  BY <1>11 DEF killProcessesUsing
<1>12. CASE RemoveDataPath(s)
  BY <1>12 DEF RemoveDataPath
<1>13. CASE RemoveRecord(s)
  BY <1>13 DEF RemoveRecord
<1>14. CASE RemoveLock(s)
  BY <1>14 DEF RemoveLock
<1>15. CASE SweeperDies(s)
  BY <1>15 DEF SweeperDies
<1>16. QED
  BY <1>1, <1>2, <1>3, <1>4, <1>5, <1>6, <1>7, <1>8, <1>9, <1>10, <1>11, <1>12,
     <1>13, <1>14, <1>15 DEF SweepStep

\* All a sweep does to processes is to SIGKILL groups.
LEMMA SweepSignals ==
  ASSUME TypeOK, NEW s \in Sweepers, SweepStep(s) \/ SweeperDies(s),
         NEW c \in Clusters, NEW k \in Servers
  PROVE  /\ dog'[c][k] = dog[c][k] \/ (dog'[c][k] = "gone" /\ DogAlive(c, k))
         /\ srv'[c][k] = srv[c][k] \/ (srv'[c][k] = "doomed" /\ srv[c][k] = "up")
<1>1. CASE UNCHANGED procVars
  BY <1>1 DEF procVars
<1>2. CASE \E P \in SUBSET Processes : signalGroups(P)
  BY <1>2 DEF signalGroups
<1>3. (\E P \in SUBSET Processes : signalGroups(P)) \/ UNCHANGED procVars
  <2>1. CASE KillRecorded(s)
    <3>1. \E P : signalGroups(P)
      BY <2>1 DEF KillRecorded
    <3>2. PICK P : signalGroups(P)
      BY <3>1
    <3>3. signalGroups(P \cap Processes)
      BY <3>2 DEF signalGroups, Processes
    <3>4. QED
      BY <3>3
  <2>2. CASE killProcessesUsing(s)
    BY <2>2 DEF killProcessesUsing
  <2>3. CASE ~KillRecorded(s) /\ ~killProcessesUsing(s)
    BY <2>3 DEF SweepStep, BeginPass, NextEntry, EndSweep, StatLock, CheckUsed,
       OpenProbe, FlockProbe, ReadRecord, ReleaseProbe, RemoveDataPath, RemoveRecord,
       RemoveLock, SweeperDies
  <2>4. QED
    BY <2>1, <2>2, <2>3
<1>4. QED
  BY <1>1, <1>2, <1>3

\* Paths being unique, it signals the processes of the entry at hand only.
LEMMA SweepReach ==
  ASSUME TypeOK, SharedPath = {}, NEW s \in Sweepers, SweepStep(s) \/ SweeperDies(s),
         NEW c \in Clusters, NEW k \in Servers,
         dog'[c][k] # dog[c][k] \/ srv'[c][k] # srv[c][k]
  PROVE  cur[s] = c /\ spc[s] \in {"kill", "killdir"}
<1>1. CASE KillRecorded(s)
  <2>2. CASE c # cur[s]
    <3> DEFINE recorded == IF seen[s].path THEN {i \in Servers : i < seen[s].n} ELSE {}
               own == {<<cur[s], i>> : i \in {j \in recorded : Alive(cur[s], j)}}
               strangers == {p \in (Clusters \ {cur[s]}) \X Servers :
                               /\ Alive(p[1], p[2])
                               /\ \E i \in recorded :
                                    /\ ~Alive(cur[s], i)
                                    /\ processIsServer(cur[s], i, p[1], p[2])}
    <3>1. PICK R \in SUBSET strangers : signalGroups(own \cup R)
      BY <1>1 DEF KillRecorded
    <3>2. \A p \in strangers : p[1] # cur[s] /\ cmdlineReferences(p[1], cur[s])
      BY DEF processIsServer
    <3>3. <<c, k>> \notin strangers
      BY <3>2 DEF cmdlineReferences
    <3>4. <<c, k>> \notin own
      BY <2>2
    <3>5. <<c, k>> \notin own \cup R
      BY <3>1, <3>3, <3>4
    <3> HIDE DEF own, strangers
    <3>6. QED
      BY <3>1, <3>5 DEF signalGroups
  <2>3. QED
    BY <1>1, <2>2 DEF KillRecorded
<1>2. CASE killProcessesUsing(s)
  <2>1. <<c, k>> \in Processes
    BY DEF Processes
  <2>2. cmdlineReferences(c, cur[s])
    BY <1>2, <2>1 DEF killProcessesUsing, signalGroups
  <2>3. QED
    BY <1>2, <2>2 DEF killProcessesUsing, cmdlineReferences
<1>3. CASE ~KillRecorded(s) /\ ~killProcessesUsing(s)
  BY <1>3 DEF procVars, SweepStep, BeginPass, NextEntry, EndSweep, StatLock, CheckUsed,
     OpenProbe, FlockProbe, ReadRecord, ReleaseProbe, RemoveDataPath, RemoveRecord,
     RemoveLock, SweeperDies
<1>4. QED
  BY <1>1, <1>2, <1>3

(***************************************************************************)
(* Preservation, conjunct by conjunct                                       *)
(***************************************************************************)

\* No step wakes the watchdog of an owner that is not dead, or starts one
\* server too many.
LEMMA DogStepOK ==
  ASSUME TypeOK, DogOK, Next
  PROVE  DogOK'
<1> USE RegistryAssumption DEF TypeOK, DogOK, ownerVars, fileVars, procVars
<1>1. CASE \E c \in Clusters : OwnerStep(c)
  BY <1>1 DEF OwnerStep, CreateLock, OpenLock, AcquireFails, Lock, SaveRecord,
     SaveFails,
     Finalize, prepareDataPath, setDataPath, startProcess, addServer, Started,
     BeginTeardown, StoresStopped, ClearDataPath, abandon, CloseRelease, CloseRecord,
     CloseLock
<1>2. CASE \E c \in Clusters : OwnerDies(c) \/ Age(c) \/ Damage(c)
  BY <1>2 DEF OwnerDies, Age, Damage
<1>3. CASE \E c \in Clusters, k \in Servers : StopStep(c, k)
  BY <1>3 DEF StopStep, StopExited, StopTerm, StopReaped, StopKill, StopErrs,
     standDown, DogAlive
<1>4. CASE \E c \in Clusters, k \in Servers : DogStep(c, k) \/ ServerExits(c, k)
  BY <1>4, ZenonT(60) DEF DogStep, DogKills, DogRemovesDir, DogRemovesRecord,
     DogRemovesLock, ServerExits
<1>5. CASE \E s \in Sweepers : SweepStep(s) \/ SweeperDies(s)
  BY <1>5, OwnerFrame, SweepSignals
<1>6. QED
  BY <1>1, <1>2, <1>3, <1>4, <1>5 DEF Next

\* The lock path never comes to name an inode other than the one its owner
\* has open: O_CREATE runs once, and everybody else only removes.
LEMMA LockStepOK ==
  ASSUME TypeOK, LockOK, Next
  PROVE  LockOK'
<1> USE RegistryAssumption DEF TypeOK, LockOK, OwnerHolds, NoFile, Inodes, ownerVars,
   fileVars, procVars
<1>1. CASE \E c \in Clusters : OwnerStep(c)
  BY <1>1 DEF OwnerStep, CreateLock, OpenLock, AcquireFails, Lock, SaveRecord,
     SaveFails,
     Finalize, prepareDataPath, setDataPath, startProcess, addServer, Started,
     BeginTeardown, StoresStopped, ClearDataPath, abandon, CloseRelease, CloseRecord,
     CloseLock
<1>2. CASE \E c \in Clusters : OwnerDies(c) \/ Age(c) \/ Damage(c)
  BY <1>2 DEF OwnerDies, Age, Damage
<1>3. CASE \E c \in Clusters, k \in Servers : StopStep(c, k)
  BY <1>3 DEF StopStep, StopExited, StopTerm, StopReaped, StopKill, StopErrs
<1>4. CASE \E c \in Clusters, k \in Servers : DogStep(c, k) \/ ServerExits(c, k)
  BY <1>4 DEF DogStep, DogKills, DogRemovesDir, DogRemovesRecord,
     DogRemovesLock, ServerExits
<1>5. CASE \E s \in Sweepers : SweepStep(s) \/ SweeperDies(s)
  BY <1>5, OwnerFrame DEF SweepStep, BeginPass, NextEntry, EndSweep, StatLock,
     CheckUsed, OpenProbe, FlockProbe, ReadRecord, ReleaseProbe, KillRecorded,
     killProcessesUsing, RemoveDataPath, RemoveRecord, RemoveLock, SweeperDies
<1>6. QED
  BY <1>1, <1>2, <1>3, <1>4, <1>5 DEF Next

\* A cluster without a record stays out of the sweeps' listings.
LEMMA FreshCluster ==
  ASSUME TypeOK, DogOK, NEW c \in Clusters, ClusterStep(c),
         NEW d \in Clusters, FreshAt(d)
  PROVE  FreshAt(d)'
<1> USE DEF TypeOK, FreshAt, Unrecord
<1>1. UNCHANGED <<pass, todo, cur>>
  BY SweepFrame
<1>2. CASE d # c
  BY <1>1, <1>2, OtherFrame
<1>3. CASE d = c
  <2> USE DEF ownerVars, fileVars, procVars
  <2>1. CASE OwnerStep(c)
    BY <1>1, <1>3, <2>1 DEF OwnerStep, CreateLock, OpenLock, AcquireFails, Lock,
       SaveRecord, SaveFails, Finalize, prepareDataPath, setDataPath, startProcess,
       addServer, Started, BeginTeardown, StoresStopped, ClearDataPath, abandon,
       CloseRelease, CloseRecord, CloseLock
  <2>2. CASE OwnerDies(c) \/ Age(c) \/ Damage(c)
    BY <1>1, <1>3, <2>2 DEF OwnerDies, Age, Damage
  <2>3. CASE \E k \in Servers : StopStep(c, k)
    BY <1>1, <1>3, <2>3 DEF StopStep, StopExited, StopTerm, StopReaped, StopKill,
       StopErrs, MayStop
  <2>4. CASE \E k \in Servers : DogStep(c, k) \/ ServerExits(c, k)
    BY <1>1, <1>3, <2>4 DEF DogStep, DogKills, DogRemovesDir, DogRemovesRecord,
       DogRemovesLock, ServerExits, Alive, DogOK
  <2>5. QED
    BY <2>1, <2>2, <2>3, <2>4 DEF ClusterStep
<1>4. QED
  BY <1>2, <1>3

\* A live cluster keeps its record, whatever owners and watchdogs do.
LEMMA LiveCluster ==
  ASSUME TypeOK, DogOK, LockOK, NEW c \in Clusters, ClusterStep(c),
         NEW d \in Clusters, FreshAt(d), LiveAt(d)
  PROVE  LiveAt(d)'
<1> USE DEF TypeOK, LiveAt, Protected
<1>1. UNCHANGED <<pass, spc, cur, sfd>>
  BY SweepFrame
<1>2. CASE d # c
  BY <1>1, <1>2, OtherFrame
<1>3. CASE d = c
  <2> USE DEF ownerVars, fileVars, procVars
  <2>1. CASE OwnerStep(c)
    <3>1. CASE SaveRecord(c)
      BY <1>1, <1>3, <3>1 DEF SaveRecord, FreshAt, Unrecord, RecordFile
    <3>2. CASE setDataPath(c)
      BY <1>1, <1>3, <3>2 DEF setDataPath, RecordFile
    <3>3. CASE addServer(c)
      BY <1>1, <1>3, <3>3 DEF addServer, RecordFile
    <3>4. CASE ~SaveRecord(c) /\ ~setDataPath(c) /\ ~addServer(c)
      BY <1>1, <1>3, <2>1, <3>4 DEF OwnerStep, CreateLock, OpenLock, AcquireFails,
         Lock, SaveFails, Finalize, prepareDataPath, startProcess, Started,
         BeginTeardown, StoresStopped, ClearDataPath, abandon, CloseRelease,
         CloseRecord, CloseLock
    <3>5. QED
      BY <3>1, <3>2, <3>3, <3>4
  <2>2. CASE OwnerDies(c) \/ Age(c) \/ Damage(c)
    BY <1>1, <1>3, <2>2 DEF OwnerDies, Age, Damage
  <2>3. CASE \E k \in Servers : StopStep(c, k)
    BY <1>1, <1>3, <2>3 DEF StopStep, StopExited, StopTerm, StopReaped, StopKill,
       StopErrs, MayStop
  <2>4. CASE \E k \in Servers : DogStep(c, k) \/ ServerExits(c, k)
    <3>1. opc' = opc /\ ofd' = ofd
      BY <2>4 DEF DogStep, DogKills, DogRemovesDir, DogRemovesRecord,
         DogRemovesLock, ServerExits
    <3>2. Protected(c) => record' = record
      BY <2>4 DEF DogStep, DogKills, DogRemovesDir, DogRemovesRecord,
         DogRemovesLock, ServerExits, DogOK
    <3>3. QED
      BY <1>1, <1>3, <3>1, <3>2
  <2>5. QED
    BY <2>1, <2>2, <2>3, <2>4 DEF ClusterStep
<1>4. QED
  BY <1>2, <1>3

\* Past startOnce no server comes up again, and until then no directory ages.
LEMMA ElsewhereCluster ==
  ASSUME TypeOK, DogOK, NEW c \in Clusters, ClusterStep(c),
         NEW d \in Clusters, FreshAt(d), ElsewhereAt(d)
  PROVE  ElsewhereAt(d)'
<1> USE DEF TypeOK, ElsewhereAt, Protected, Starting, Alive, DogAlive
<1>1. UNCHANGED <<pass, spc, cur>>
  BY SweepFrame
<1>2. CASE d # c
  BY <1>1, <1>2, OtherFrame
<1>3. CASE d = c
  <2> USE DEF ownerVars, fileVars, procVars
  <2>1. CASE OwnerStep(c)
    <3>1. CASE SaveRecord(c) \/ prepareDataPath(c)
      BY <1>1, <1>3, <3>1 DEF SaveRecord, prepareDataPath, FreshAt, Unrecord
    <3>2. CASE startProcess(c)
      BY <1>1, <1>3, <3>2 DEF startProcess
    <3>3. CASE ~SaveRecord(c) /\ ~prepareDataPath(c) /\ ~startProcess(c)
      BY <1>1, <1>3, <2>1, <3>3 DEF OwnerStep, CreateLock, OpenLock, AcquireFails,
         Lock, SaveFails, Finalize, setDataPath, addServer, Started, BeginTeardown,
         StoresStopped, ClearDataPath, abandon, CloseRelease, CloseRecord, CloseLock
    <3>4. QED
      BY <3>1, <3>2, <3>3
  <2>2. CASE OwnerDies(c) \/ Age(c) \/ Damage(c)
    BY <1>1, <1>3, <2>2 DEF OwnerDies, Age, Damage
  <2>3. CASE \E k \in Servers : StopStep(c, k)
    BY <1>1, <1>3, <2>3 DEF StopStep, StopExited, StopTerm, StopReaped, StopKill,
       StopErrs, MayStop, standDown
  <2>4. CASE \E k \in Servers : DogStep(c, k) \/ ServerExits(c, k)
    BY <1>1, <1>3, <2>4 DEF DogStep, DogKills, DogRemovesDir, DogRemovesRecord,
       DogRemovesLock, ServerExits, DogOK
  <2>5. QED
    BY <2>1, <2>2, <2>3, <2>4 DEF ClusterStep
<1>4. QED
  BY <1>2, <1>3

\* What a sweep does to a cluster's files.
LEMMA SweepFiles ==
  ASSUME TypeOK, CursorOK, NEW s \in Sweepers, SweepStep(s) \/ SweeperDies(s),
         NEW d \in Clusters
  PROVE  /\ record'[d] = record[d] \/ (record'[d] = NoRecord /\ cur[s] = d /\ spc[s] = "rmrec")
         /\ dir'[d] = dir[d] \/ (dir'[d] \in {"none", "young"} /\ dir[d] # "none"
                                 /\ cur[s] = d /\ spc[s] = "rmdir")
<1> USE DEF TypeOK, fileVars
<1>1. CASE RemoveDataPath(s)
  BY <1>1 DEF RemoveDataPath, Remains
<1>2. CASE RemoveRecord(s)
  BY <1>2 DEF RemoveRecord
<1>3. CASE ~RemoveDataPath(s) /\ ~RemoveRecord(s)
  BY <1>3 DEF SweepStep, BeginPass, NextEntry, EndSweep, StatLock, CheckUsed,
     OpenProbe, FlockProbe, ReadRecord, ReleaseProbe, KillRecorded, killProcessesUsing,
     RemoveLock, SweeperDies
<1>4. QED
  BY <1>1, <1>2, <1>3

\* Nothing without a record or directory gets into a listing.
LEMMA FreshSweep ==
  ASSUME TypeOK, CursorOK, NEW s \in Sweepers, SweepStep(s) \/ SweeperDies(s),
         NEW d \in Clusters, FreshAt(d)
  PROVE  FreshAt(d)'
<1> USE DEF TypeOK, FreshAt
<1>1. opc' = opc
  BY OwnerFrame
<1>2. /\ ~record[d].on => ~record'[d].on
      /\ dir[d] = "none" => dir'[d] = "none"
  <2>1. ~NoRecord.on
    BY DEF NoRecord
  <2>2. record'[d] = record[d] \/ record'[d] = NoRecord
    BY SweepFiles
  <2>3. dir[d] = "none" => dir'[d] = "none"
    BY SweepFiles
  <2>4. QED
    BY <2>1, <2>2, <2>3
<1>3. ASSUME NEW k \in Servers, srv[d][k] = "off", dog[d][k] = "none"
      PROVE  srv'[d][k] = "off" /\ dog'[d][k] = "none"
  BY <1>3, SweepSignals DEF DogAlive
<1>4. ASSUME NEW t \in Sweepers
      PROVE  /\ opc[d] \in Unrecord /\ pass'[t] = 1 => d \notin todo'[t] /\ cur'[t] # d
             /\ opc[d] \in Unrecord \cup {"recorded"} /\ d \notin Named /\ pass'[t] = 2 =>
                  d \notin todo'[t] /\ cur'[t] # d
  <2>1. CASE t # s
    BY <2>1, OtherSweeps
  <2>2. CASE t = s
    <3> USE RegistryAssumption DEF Goto, Leave, entryVars
    <3>1. ASSUME NEW p \in 1..3, BeginPass(s, p)
          PROVE  cur'[s] # d /\ todo'[s] = Listing(p) /\ pass'[s] = p
      BY <3>1 DEF BeginPass, CursorOK
    <3>2. CASE \E p \in 1..3 : BeginPass(s, p)
      <4>1. /\ opc[d] \in Unrecord => d \notin Listing(1)
            /\ opc[d] \in Unrecord \cup {"recorded"} /\ d \notin Named =>
                 d \notin Listing(2)
        BY DEF Listing
      <4>2. QED
        BY <2>2, <3>1, <3>2, <4>1
    <3>3. ASSUME NEW c \in Clusters, NextEntry(s, c)
          PROVE  /\ cur'[s] \in {cur[s], c} /\ c \in todo[s] /\ todo'[s] \subseteq todo[s]
                 /\ pass'[s] = pass[s]
      BY <3>3 DEF NextEntry
    <3>4. CASE \E c \in Clusters : NextEntry(s, c)
      BY <2>2, <3>3, <3>4
    <3>5. CASE /\ ~\E p \in 1..3 : BeginPass(s, p)
               /\ ~\E c \in Clusters : NextEntry(s, c)
      <4>1. cur'[s] \in {cur[s], None} /\ todo'[s] \subseteq todo[s] /\ pass'[s] = pass[s]
        BY <3>5 DEF SweepStep, EndSweep, StatLock, CheckUsed, OpenProbe, FlockProbe,
           ReadRecord, ReleaseProbe, KillRecorded, killProcessesUsing, RemoveDataPath,
           RemoveRecord, RemoveLock, SweeperDies
      <4>2. QED
        BY <2>2, <4>1
    <3>6. QED
      BY <3>2, <3>4, <3>5
  <2>3. QED
    BY <2>1, <2>2
<1>5. QED
  BY <1>1, <1>2, <1>3, <1>4

\* The sweep of records stops at the owner's lock; the sweep of directories
\* stops at the record, if the record is in its registry.
LEMMA LiveSweep ==
  ASSUME TypeOK, CursorOK, LockOK, NEW s \in Sweepers, SweepStep(s) \/ SweeperDies(s),
         NEW d \in Clusters, LiveAt(d)
  PROVE  LiveAt(d)'
<1> SUFFICES ASSUME Protected(d) PROVE LiveAt(d)'
  BY OwnerFrame DEF LiveAt, Protected
<1> USE DEF TypeOK, LiveAt
<1>1. UNCHANGED <<opc, ofd>>
  BY OwnerFrame
<1>2. record'[d].on
  <2>1. ~(cur[s] = d /\ spc[s] = "rmrec")
    BY DEF CursorOK
  <2>2. record'[d] = record[d]
    BY <2>1, SweepFiles
  <2>3. QED
    BY <2>2
<1>3. ASSUME NEW t \in Sweepers, cur'[t] = d
      PROVE  /\ pass'[t] = 1 => /\ spc'[t] \in {"open", "flock"}
                                /\ spc'[t] = "flock" => sfd'[t] = ofd[d]
             /\ pass'[t] = 2 => d \in Elsewhere \cup Named
  <2>1. CASE t # s
    BY <1>3, <2>1, OtherSweeps
  <2>2. CASE t = s
    <3> USE RegistryAssumption, <1>3, <2>2 DEF Goto, Leave, entryVars
    <3>1. CASE \E p \in 1..3 : BeginPass(s, p)
      BY <3>1 DEF BeginPass, CursorOK
    <3>2. CASE \E c \in Clusters : NextEntry(s, c)
      BY <3>2 DEF NextEntry, CursorOK, RecordThere, Here
    <3>3. CASE EndSweep(s) \/ SweeperDies(s) \/ RemoveLock(s)
      BY <3>3 DEF EndSweep, SweeperDies, RemoveLock, CursorOK
    <3>4. CASE OpenProbe(s)
      <4>1. lockAt[d] \in {NoFile, ofd[d]}
        BY DEF LockOK, OwnerHolds, Protected
      <4>2. QED
        BY <3>4, <4>1 DEF OpenProbe, LockThere
    <3>5. CASE FlockProbe(s)
      <4>1. sfd[s] = ofd[d] => Held(d, sfd[s])
        BY DEF Held, OwnerHolds, Protected
      <4>2. QED
        BY <3>5, <4>1 DEF FlockProbe
    <3>6. CASE StatLock(s) \/ CheckUsed(s)
      BY <3>6 DEF StatLock, CheckUsed, CursorOK
    <3>7. CASE ReadRecord(s) \/ ReleaseProbe(s)
      BY <3>7 DEF ReadRecord, ReleaseProbe
    <3>8. CASE KillRecorded(s) \/ killProcessesUsing(s) \/ RemoveDataPath(s) \/ RemoveRecord(s)
      BY <3>8 DEF KillRecorded, killProcessesUsing, RemoveDataPath, RemoveRecord
    <3>9. QED
      BY <3>1, <3>2, <3>3, <3>4, <3>5, <3>6, <3>7, <3>8 DEF SweepStep
  <2>3. QED
    BY <2>1, <2>2
<1>4. QED
  BY <1>1, <1>2, <1>3

\* Another registry's sweep gets past its checks only when no process is left,
\* and no process comes back.
LEMMA ElsewhereSweep ==
  ASSUME TypeOK, CursorOK, NEW s \in Sweepers, SweepStep(s) \/ SweeperDies(s),
         NEW d \in Clusters, ElsewhereAt(d)
  PROVE  ElsewhereAt(d)'
<1> SUFFICES ASSUME d \in Elsewhere \ Named PROVE ElsewhereAt(d)'
  BY DEF ElsewhereAt
<1> USE DEF TypeOK, ElsewhereAt
<1>1. UNCHANGED opc
  BY OwnerFrame
<1>2. dir[d] # "old" => dir'[d] # "old"
  BY SweepFiles
<1>3. ASSUME NEW k \in Servers, ~Alive(d, k), ~DogAlive(d, k)
      PROVE  ~Alive(d, k)' /\ ~DogAlive(d, k)'
  BY <1>3, SweepSignals DEF Alive, DogAlive
<1>4. ASSUME Protected(d), NEW t \in Sweepers, pass'[t] = 2, cur'[t] = d
      PROVE  /\ spc'[t] \in {"statlock", "used", "killdir", "rmdir", "rmlock"}
             /\ spc'[t] # "statlock" => ~Starting(d)
             /\ spc'[t] \in {"killdir", "rmdir", "rmlock"} =>
                  \A k \in Servers : ~Alive(d, k) /\ ~DogAlive(d, k)
  <2>1. CASE t # s
    BY <1>4, <2>1, OtherSweeps
  <2>2. CASE t = s
    <3> USE RegistryAssumption, <1>4, <2>2 DEF Goto, Leave, entryVars
    <3>1. CASE \E p \in 1..3 : BeginPass(s, p)
      BY <3>1 DEF BeginPass, CursorOK
    <3>2. CASE \E c \in Clusters : NextEntry(s, c)
      BY <3>2 DEF NextEntry, CursorOK
    <3>3. CASE EndSweep(s) \/ SweeperDies(s) \/ RemoveLock(s)
      BY <3>3 DEF EndSweep, SweeperDies, RemoveLock, CursorOK
    <3>4. CASE OpenProbe(s) \/ FlockProbe(s)
      BY <3>4 DEF OpenProbe, FlockProbe, LockThere, Here
    <3>5. CASE StatLock(s)
      <4>1. spc'[s] = "used" /\ dir[d] = "old"
        BY <3>5 DEF StatLock, LockThere, Here
      <4>2. d \notin CallerOwned
        BY <3>5 DEF StatLock, CursorOK
      <4>3. QED
        BY <4>1, <4>2
    <3>6. CASE CheckUsed(s)
      BY <3>6, ZenonT(60) DEF CheckUsed, usedByLiveProcess, cmdlineReferences
    <3>7. CASE ReadRecord(s) \/ ReleaseProbe(s)
      BY <3>7 DEF ReadRecord, ReleaseProbe
    <3>8. CASE KillRecorded(s) \/ killProcessesUsing(s) \/ RemoveDataPath(s) \/ RemoveRecord(s)
      BY <3>8 DEF KillRecorded, killProcessesUsing, RemoveDataPath, RemoveRecord,
         CursorOK
    <3>9. QED
      BY <3>1, <3>2, <3>3, <3>4, <3>5, <3>6, <3>7, <3>8 DEF SweepStep
  <2>3. QED
    BY <2>1, <2>2
<1>5. QED
  BY <1>1, <1>2, <1>3, <1>4 DEF Starting, Protected

(***************************************************************************)
(* The theorems                                                            *)
(***************************************************************************)
LEMMA LiveInvInit == Init => LiveInv
<1> SUFFICES ASSUME Init PROVE LiveInv
  OBVIOUS
<1> USE RegistryAssumption DEF Init
<1>1. TypeOK
  BY EmptyTypes DEF TypeOK, OwnerPCs, StopStates, Ages, SrvStates, DogStates, SweepPCs
<1>2. LockOK /\ CursorOK /\ DogOK
  BY DEF LockOK, OwnerHolds, CursorOK, DogOK
<1>3. ASSUME NEW c \in Clusters PROVE FreshAt(c) /\ LiveAt(c) /\ ElsewhereAt(c)
  BY DEF FreshAt, NoRecord, LiveAt, Protected, ElsewhereAt, Starting
<1>4. QED
  BY <1>1, <1>2, <1>3 DEF LiveInv

\* The invariant is inductive.
LEMMA LiveInvStep ==
  ASSUME LiveInv, [Next]_vars
  PROVE  LiveInv'
<1> USE DEF LiveInv
<1>1. CASE \E c \in Clusters : ClusterStep(c)
  <2>1. PICK c \in Clusters : ClusterStep(c)
    BY <1>1
  <2>2. Next
    BY <2>1 DEF Next, ClusterStep
  <2>3. TypeOK'
    BY <2>1, OwnerTypes, EnvironmentTypes, ProcessTypes DEF ClusterStep
  <2>4. LockOK' /\ DogOK'
    BY <2>2, LockStepOK, DogStepOK
  <2>5. CursorOK'
    BY <2>1, SweepFrame DEF CursorOK
  <2>6. \A d \in Clusters : FreshAt(d)' /\ LiveAt(d)' /\ ElsewhereAt(d)'
    BY <2>1, FreshCluster, LiveCluster, ElsewhereCluster
  <2>7. QED
    BY <2>3, <2>4, <2>5, <2>6
<1>2. CASE \E s \in Sweepers : SweepStep(s) \/ SweeperDies(s)
  <2>1. PICK s \in Sweepers : SweepStep(s) \/ SweeperDies(s)
    BY <1>2
  <2>2. Next
    BY <2>1 DEF Next
  <2>3. TypeOK' /\ CursorOK'
    BY <2>1, SweepTypes, CursorStep
  <2>4. LockOK' /\ DogOK'
    BY <2>2, LockStepOK, DogStepOK
  <2>5. \A d \in Clusters : FreshAt(d)' /\ LiveAt(d)' /\ ElsewhereAt(d)'
    BY <2>1, FreshSweep, LiveSweep, ElsewhereSweep
  <2>6. QED
    BY <2>3, <2>4, <2>5
<1>3. CASE UNCHANGED vars
  BY <1>3 DEF vars, ownerVars, fileVars, procVars, sweepVars, entryVars, TypeOK,
     LockOK, OwnerHolds, CursorOK, DogOK, FreshAt, LiveAt, ElsewhereAt, Protected,
     Starting, Alive, DogAlive
<1>4. QED
  BY <1>1, <1>2, <1>3 DEF Next, ClusterStep

\* The registry's variables always have their types: no owner, watchdog or
\* sweep of registry.go leaves its control states, and a record never lists
\* more servers than the cluster has.
THEOREM TypeCorrect == Spec => []TypeOK
<1>1. LiveInv => TypeOK
  BY DEF LiveInv
<1>2. QED
  BY <1>1, LiveInvInit, LiveInvStep, PTL DEF Spec

\* What a step may do to a cluster that is live before and after it.
LEMMA StepLeavesLive ==
  ASSUME SharedPath = {}, LiveInv, Next, NEW d \in Clusters \ Named,
         Protected(d), Protected(d)'
  PROVE  Untouched(d)
<1> USE DEF LiveInv, TypeOK
<1>1. CASE \E c \in Clusters : ClusterStep(c)
  <2>1. PICK c \in Clusters : ClusterStep(c)
    BY <1>1
  <2>2. CASE d # c
    BY <2>1, <2>2, OtherFrame DEF Untouched, LiveAt
  <2>3. CASE d = c
    <3> USE DEF ownerVars, fileVars, procVars
    <3>1. record'[d].on
      BY <2>1, LiveCluster DEF LiveAt
    <3>2. /\ dir[d] # "none" => dir'[d] # "none"
          /\ \A k \in Servers :
               /\ srv[d][k] = "up" /\ srv'[d][k] = "doomed" => stop'[d][k] = "killed"
               /\ dog[d][k] = "armed" /\ dog'[d][k] # "armed" => stop'[d][k] # "no"
               /\ dog[d][k] # "eof" => dog'[d][k] # "eof"
      <4>1. CASE OwnerStep(c)
        <5>1. CASE startProcess(c)
          BY <2>3, <5>1 DEF startProcess
        <5>2. CASE ~startProcess(c)
          BY <2>3, <4>1, <5>2 DEF Protected, OwnerStep, CreateLock, OpenLock,
             AcquireFails,
             Lock, SaveRecord, SaveFails, Finalize, prepareDataPath, setDataPath,
             addServer, Started, BeginTeardown, StoresStopped, ClearDataPath, abandon,
             CloseRelease, CloseRecord, CloseLock
        <5>3. QED
          BY <5>1, <5>2
      <4>2. CASE OwnerDies(c) \/ Age(c) \/ Damage(c)
        BY <2>3, <4>2 DEF Protected, OwnerDies, Age, Damage
      <4>3. CASE \E k \in Servers : StopStep(c, k)
        <5>1. PICK k \in Servers : StopStep(c, k)
          BY <4>3
        <5>2. dir' = dir
          BY <5>1 DEF StopStep, StopExited, StopTerm, StopReaped, StopKill, StopErrs
        <5>3. ASSUME NEW i \in Servers, i # k
              PROVE  srv'[d][i] = srv[d][i] /\ dog'[d][i] = dog[d][i]
          BY <2>3, <5>1, <5>3 DEF StopStep, StopExited, StopTerm, StopReaped, StopKill,
             StopErrs
        <5>4. /\ srv'[d][k] # srv[d][k] => stop'[d][k] = "killed"
              /\ dog'[d][k] = dog[d][k] \/ (dog'[d][k] = "gone" /\ stop'[d][k] # "no")
          BY <2>3, <5>1 DEF StopStep, StopExited, StopTerm, StopReaped, StopKill,
             StopErrs, standDown
        <5>5. QED
          BY <5>2, <5>3, <5>4
      <4>4. CASE \E k \in Servers : DogStep(c, k) \/ ServerExits(c, k)
        <5>1. \A k \in Servers : dog[d][k] \in {"none", "armed", "gone"}
          BY DEF Protected, DogOK
        <5>2. PICK k \in Servers : ServerExits(c, k)
          BY <2>3, <4>4, <5>1 DEF DogStep, DogKills, DogRemovesDir, DogRemovesRecord,
             DogRemovesLock
        <5>3. \A i \in Servers : srv'[d][i] # "doomed" \/ srv'[d][i] = srv[d][i]
          BY <2>3, <5>2 DEF ServerExits
        <5>4. dir' = dir /\ dog' = dog
          BY <5>2 DEF ServerExits
        <5>5. QED
          BY <5>1, <5>3, <5>4
      <4>5. QED
        BY <2>1, <4>1, <4>2, <4>3, <4>4 DEF ClusterStep
    <3>3. QED
      BY <3>1, <3>2 DEF Untouched
  <2>4. QED
    BY <2>2, <2>3
<1>2. CASE \E s \in Sweepers : SweepStep(s) \/ SweeperDies(s)
  <2>1. PICK s \in Sweepers : SweepStep(s) \/ SweeperDies(s)
    BY <1>2
  <2>2. record'[d].on
    BY <2>1, LiveSweep DEF LiveAt
  <2>3. ASSUME NEW k \in Servers PROVE dog'[d][k] = dog[d][k] /\ srv'[d][k] = srv[d][k]
    <3>1. CASE cur[s] = d /\ spc[s] \in {"kill", "killdir"}
      <4>1. pass[s] = 2 /\ d \in Elsewhere /\ spc[s] = "killdir"
        BY <3>1 DEF CursorOK, LiveAt
      <4>2. ~Alive(d, k) /\ ~DogAlive(d, k)
        BY <3>1, <4>1 DEF ElsewhereAt
      <4>3. QED
        BY <2>1, <4>2, SweepSignals DEF Alive, DogAlive
    <3>2. CASE ~(cur[s] = d /\ spc[s] \in {"kill", "killdir"})
      BY <2>1, <3>2, SweepReach
    <3>3. QED
      BY <3>1, <3>2
  <2>4. dir[d] # "none" /\ dir'[d] = "none" =>
          d \in Elsewhere /\ \A k \in Servers : ~Alive(d, k)
    <3>1. CASE cur[s] = d /\ spc[s] = "rmdir"
      <4>1. pass[s] = 2 /\ d \in Elsewhere
        BY <3>1 DEF CursorOK, LiveAt
      <4>2. QED
        BY <3>1, <4>1 DEF ElsewhereAt
    <3>2. CASE ~(cur[s] = d /\ spc[s] = "rmdir")
      BY <2>1, <3>2, SweepFiles
    <3>3. QED
      BY <3>1, <3>2
  <2>5. QED
    BY <2>2, <2>3, <2>4 DEF Untouched
<1>3. QED
  BY <1>1, <1>2 DEF Next, ClusterStep

\* CleanOrphans "will not touch a live cluster": for any number of clusters,
\* servers, concurrent sweeps and sweeps cut short, and wherever registries
\* and directories are, as long as no two clusters share a data path, no sweep
\* or watchdog removes a live cluster's record or directory, kills its servers
\* or disturbs its watchdogs, unless its caller named the directory
\* $TMPDIR/embedded-tikv-*.
THEOREM LiveSafe == SharedPath = {} => (Spec => LiveClusterUntouched)
<1> SUFFICES ASSUME SharedPath = {} PROVE Spec => LiveClusterUntouched
  OBVIOUS
<1>1. LiveInv /\ [Next]_vars =>
        [\A c \in Clusters \ Named :
           Protected(c) /\ Protected(c)' => Untouched(c)]_vars
  BY StepLeavesLive
<1>2. QED
  BY <1>1, LiveInvInit, LiveInvStep, PTL DEF Spec, LiveClusterUntouched
=============================================================================
