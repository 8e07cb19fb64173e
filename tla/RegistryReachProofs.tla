------------------------ MODULE RegistryReachProofs ------------------------
(***************************************************************************)
(* More proofs about Registry: sweeps never reclaim one record together,   *)
(* no step removes a caller's directory, and a server that outlives its    *)
(* owner is watched or within reach of a later sweep, unless its owner had *)
(* dismissed its watchdog and died before teardown was through.            *)
(***************************************************************************)
EXTENDS RegistryProofs

(***************************************************************************)
(* The inductive invariants                                                *)
(***************************************************************************)
\* Sweeping by directory is for directories of the library's own: pass 2
\* lists no other, unless its name is like theirs; pass 1 asks AfterKill.
SweptDirOK ==
  \A s \in Sweepers :
    spc[s] \in {"killdir", "rmdir"} => cur[s] \notin CallerOwned \ Named

\* The steps of reclaimRecord from its open(2) on.
Opened(s) ==
  pass[s] = 1 /\ spc[s] \in {"flock", "locked", "kill", "killdir", "rmdir", "rmrec", "rmlock"}

\* All sweeps that have a recorded cluster's lock file open have the same
\* inode, the one the path names as long as it names any: O_CREATE is over by
\* the time there is a record to sweep.
OneInode ==
  /\ \A s \in Sweepers : Opened(s) => sfd[s] # NoFile /\ lockAt[cur[s]] \in {NoFile, sfd[s]}
  /\ \A s, t \in Sweepers : Opened(s) /\ Opened(t) /\ cur[s] = cur[t] => sfd[s] = sfd[t]

SweepInv == LiveInv /\ SweptDirOK /\ CallerDirKept /\ OneInode /\ ReclaimExclusive

\* Without a shell there is no watchdog; with one, every server has its own
\* until process.stop signals or dismisses it, and is killed before that
\* watchdog removes anything.
WatchedAt(c) ==
  \A k \in Servers :
    /\ ~HaveShell => dog[c][k] = "none"
    /\ HaveShell /\ srv[c][k] = "up" /\ stop[c][k] = "no" => dog[c][k] \in {"armed", "eof"}

\* The record, while it is readable, lists the servers that were started, and
\* has had the data path from before the first of them.
RecordAt(c) ==
  /\ ~record[c].on => record[c] = NoRecord
  /\ opc[c] \in Unrecord \cup {"recorded", "prepared"} =>
       count[c] = 0 /\ \A k \in Servers : srv[c][k] = "off"
  /\ record[c].on /\ ~record[c].bad =>
       /\ record[c].n = count[c]
       /\ opc[c] \in {"starting", "spawned"} \/ (\E k \in Servers : srv[c][k] # "off")
            => record[c].path
  /\ record[c].bad => opc[c] = "dead" /\ \A k \in Servers : ~Alive(c, k)

\* teardown gets to close() only past servers that are down.
StopAt(c) ==
  /\ opc[c] \in Unrecord \cup {"recorded", "prepared", "starting", "spawned", "running"} =>
       \A k \in Servers : stop[c][k] = "no"
  /\ \A k \in Servers : stop[c][k] = "ok" => srv[c][k] = "down"
  /\ opc[c] = "stopPD" => \A k \in Servers \ {0} : Stopped(c, k)
  /\ opc[c] \in {"releasing", "released", "unrecorded"} => \A k \in Servers : ~Alive(c, k)

\* A server loses its record only when it is killed, when it never was in it,
\* or to the watchdogs of a dead owner; the sweep that reads the record kills
\* what it lists, or all that use the path, before it comes to remove it.
KillAt(c) ==
  /\ \A k \in Servers : srv[c][k] = "up" =>
       record[c].on \/ Unrecorded(c, k) \/ (HaveShell /\ opc[c] = "dead")
  /\ \A s \in Sweepers : cur[s] = c /\ pass[s] = 1 =>
       /\ spc[s] = "kill" =>
            seen[s].n = count[c] /\ (seen[s].path \/ \A k \in Servers : srv[c][k] = "off")
       /\ spc[s] = "rmdir" => \A k \in Servers : srv[c][k] # "up"
       /\ spc[s] = "rmrec" => \A k \in Servers : srv[c][k] = "up" => Unrecorded(c, k)

ReachInv ==
  /\ LiveInv
  /\ \A c \in Clusters : WatchedAt(c) /\ RecordAt(c) /\ StopAt(c) /\ KillAt(c)

(***************************************************************************)
(* Sweeps that meet                                                        *)
(***************************************************************************)
\* Once a cluster is past openRecord's O_CREATE its lock path is only removed.
LEMMA LockPath ==
  ASSUME TypeOK, NEW d \in Clusters, Next, opc[d] \notin {"init", "created"}
  PROVE  lockAt'[d] \in {lockAt[d], NoFile}
<1> USE DEF TypeOK, fileVars
<1>1. ASSUME NEW c \in Clusters, ClusterStep(c), d # c PROVE lockAt'[d] = lockAt[d]
  BY <1>1, OtherFrame
<1>2. CASE OwnerStep(d)
  BY <1>2 DEF OwnerStep, CreateLock, OpenLock, AcquireFails, Lock, SaveRecord,
     SaveFails, Finalize, prepareDataPath, setDataPath, startProcess, addServer,
     Started, BeginTeardown, StoresStopped, ClearDataPath, abandon, CloseRelease,
     CloseRecord, CloseLock
<1>3. CASE OwnerDies(d) \/ Age(d) \/ Damage(d)
  BY <1>3 DEF OwnerDies, Age, Damage
<1>4. CASE \E k \in Servers : StopStep(d, k) \/ DogStep(d, k) \/ ServerExits(d, k)
  BY <1>4 DEF StopStep, StopExited, StopTerm, StopReaped, StopKill, StopErrs,
     DogStep, DogKills, DogRemovesDir, DogRemovesRecord, DogRemovesLock, ServerExits
<1>5. CASE \E s \in Sweepers : SweepStep(s) \/ SweeperDies(s)
  BY <1>5 DEF SweepStep, BeginPass, NextEntry, EndSweep, StatLock, CheckUsed,
     OpenProbe, FlockProbe, ReadRecord, ReleaseProbe, KillRecorded, killProcessesUsing,
     RemoveDataPath, RemoveRecord, RemoveLock, SweeperDies
<1>6. QED
  BY <1>1, <1>2, <1>3, <1>4, <1>5 DEF Next, ClusterStep

\* An entry that the sweep of records has at hand is past O_CREATE.
LEMMA OpenedPast ==
  ASSUME LiveInv, NEW s \in Sweepers, pass[s] = 1, spc[s] \notin {"idle", "next"}
  PROVE  cur[s] \in Clusters /\ opc[cur[s]] \notin Unrecord
<1>1. cur[s] \in Clusters
  BY DEF LiveInv, TypeOK, CursorOK
<1>2. QED
  BY <1>1 DEF LiveInv, FreshAt

\* How the sweep of records comes to have a lock file open, and to hold it.
LEMMA OpenedStep ==
  ASSUME LiveInv, NEW s \in Sweepers, SweepStep(s) \/ SweeperDies(s), Opened(s)'
  PROVE  /\ pass[s] = 1 /\ cur'[s] = cur[s] /\ spc[s] \notin {"idle", "next"}
         /\ \/ Opened(s) /\ sfd'[s] = sfd[s]
            \/ /\ spc[s] = "open" /\ spc'[s] = "flock" /\ UNCHANGED lockAt
               /\ lockAt[cur[s]] # NoFile /\ sfd'[s] = lockAt[cur[s]]
         /\ SweeperHolds(s)' =>
              \/ SweeperHolds(s)
              \/ spc[s] = "flock" /\ ~Held(cur[s], sfd[s])
<1> USE DEF LiveInv, TypeOK, CursorOK, Opened, SweeperHolds, entryVars, Goto, Leave, fileVars
<1>1. CASE (\E p \in 1..3 : BeginPass(s, p)) \/ (\E c \in Clusters : NextEntry(s, c))
  BY <1>1 DEF BeginPass, NextEntry
<1>2. CASE EndSweep(s) \/ StatLock(s) \/ CheckUsed(s) \/ RemoveLock(s) \/ SweeperDies(s)
  BY <1>2 DEF EndSweep, StatLock, CheckUsed, RemoveLock, SweeperDies
<1>3. CASE OpenProbe(s)
  BY <1>3 DEF OpenProbe, LockThere
<1>4. CASE FlockProbe(s)
  BY <1>4 DEF FlockProbe
<1>5. CASE ReadRecord(s) \/ ReleaseProbe(s)
  BY <1>5 DEF ReadRecord, ReleaseProbe
<1>6. CASE KillRecorded(s) \/ killProcessesUsing(s) \/ RemoveDataPath(s) \/ RemoveRecord(s)
  BY <1>6 DEF KillRecorded, AfterKill, killProcessesUsing, RemoveDataPath, RemoveRecord
<1>7. QED
  BY <1>1, <1>2, <1>3, <1>4, <1>5, <1>6 DEF SweepStep

\* No sweep comes to remove the directory of a caller.
LEMMA SweptDirStep ==
  ASSUME LiveInv, SweptDirOK, NEW s \in Sweepers, SweepStep(s) \/ SweeperDies(s)
  PROVE  SweptDirOK'
<1> USE DEF LiveInv, TypeOK, SweptDirOK
<1>1. ASSUME NEW t \in Sweepers, t # s, spc'[t] \in {"killdir", "rmdir"}
      PROVE  cur'[t] \notin CallerOwned \ Named
  BY <1>1, OtherSweeps
<1>2. ASSUME spc'[s] \in {"killdir", "rmdir"} PROVE cur'[s] \notin CallerOwned \ Named
  <2> USE DEF entryVars, Goto, Leave, CursorOK
  <2>1. CASE (\E p \in 1..3 : BeginPass(s, p)) \/ (\E c \in Clusters : NextEntry(s, c))
    BY <1>2, <2>1 DEF BeginPass, NextEntry
  <2>2. CASE EndSweep(s) \/ StatLock(s) \/ OpenProbe(s) \/ FlockProbe(s) \/ RemoveLock(s)
             \/ SweeperDies(s)
    BY <1>2, <2>2 DEF EndSweep, StatLock, OpenProbe, FlockProbe, RemoveLock, SweeperDies
  <2>3. CASE CheckUsed(s) \/ ReadRecord(s) \/ ReleaseProbe(s)
    BY <1>2, <2>3 DEF CheckUsed, ReadRecord, ReleaseProbe
  <2>4. CASE KillRecorded(s) \/ killProcessesUsing(s) \/ RemoveDataPath(s) \/ RemoveRecord(s)
    BY <1>2, <2>4 DEF KillRecorded, AfterKill, killProcessesUsing, RemoveDataPath,
       RemoveRecord
  <2>5. QED
    BY <2>1, <2>2, <2>3, <2>4 DEF SweepStep
<1>3. QED
  BY <1>1, <1>2

\* Nor does the owner or a watchdog.
LEMMA CallerDirCluster ==
  ASSUME TypeOK, CallerDirKept, NEW c \in Clusters, ClusterStep(c)
  PROVE  CallerDirKept'
<1> USE RegistryAssumption DEF TypeOK, CallerDirKept, fileVars
<1>1. CASE OwnerStep(c)
  BY <1>1 DEF OwnerStep, CreateLock, OpenLock, AcquireFails, Lock, SaveRecord,
     SaveFails, Finalize, prepareDataPath, setDataPath, startProcess, addServer,
     Started, BeginTeardown, StoresStopped, ClearDataPath, abandon, CloseRelease,
     CloseRecord, CloseLock
<1>2. CASE OwnerDies(c) \/ Age(c) \/ Damage(c)
  BY <1>2 DEF OwnerDies, Age, Damage
<1>3. CASE \E k \in Servers : StopStep(c, k) \/ DogStep(c, k) \/ ServerExits(c, k)
  BY <1>3 DEF StopStep, StopExited, StopTerm, StopReaped, StopKill, StopErrs,
     DogStep, DogKills, DogRemovesDir, DogRemovesRecord, DogRemovesLock, ServerExits
<1>4. QED
  BY <1>1, <1>2, <1>3 DEF ClusterStep

\* One inode for every sweep that has a record's lock open, kept by a sweep ...
LEMMA OneInodeStep ==
  ASSUME LiveInv, OneInode, Next, NEW s \in Sweepers, SweepStep(s) \/ SweeperDies(s)
  PROVE  OneInode'
<1>1. ASSUME NEW t \in Sweepers, Opened(t)'
      PROVE  /\ pass[t] = 1 /\ cur'[t] = cur[t] /\ spc[t] \notin {"idle", "next"}
             /\ \/ Opened(t) /\ sfd'[t] = sfd[t]
                \/ /\ t = s /\ UNCHANGED lockAt /\ lockAt[cur[t]] # NoFile
                   /\ sfd'[t] = lockAt[cur[t]]
  <2>1. CASE t = s
    BY <1>1, <2>1, OpenedStep
  <2>2. CASE t # s
    <3>1. /\ pass'[t] = pass[t] /\ spc'[t] = spc[t] /\ cur'[t] = cur[t] /\ sfd'[t] = sfd[t]
      BY <2>2, OtherSweeps DEF LiveInv
    <3>2. QED
      BY <1>1, <3>1 DEF Opened
  <2>3. QED
    BY <2>1, <2>2
<1>2. ASSUME NEW t \in Sweepers, Opened(t)'
      PROVE  lockAt'[cur[t]] \in {lockAt[cur[t]], NoFile}
  <2>1. cur[t] \in Clusters /\ opc[cur[t]] \notin {"init", "created"}
    BY <1>1, <1>2, OpenedPast DEF Unrecord
  <2>2. QED
    BY <2>1, LockPath DEF LiveInv
<1>3. ASSUME NEW t \in Sweepers, Opened(t)'
      PROVE  sfd'[t] # NoFile /\ lockAt'[cur'[t]] \in {NoFile, sfd'[t]}
  BY <1>1, <1>2, <1>3 DEF OneInode
<1>4. ASSUME NEW t \in Sweepers, NEW u \in Sweepers, Opened(t)', Opened(u)', cur'[t] = cur'[u]
      PROVE  sfd'[t] = sfd'[u]
  BY <1>1, <1>4 DEF OneInode
<1>5. QED
  BY <1>3, <1>4 DEF OneInode

\* ... and by everybody else.
LEMMA OneInodeCluster ==
  ASSUME LiveInv, OneInode, Next, NEW c \in Clusters, ClusterStep(c)
  PROVE  OneInode'
<1>1. UNCHANGED <<pass, spc, cur, sfd>>
  BY SweepFrame
<1>2. ASSUME NEW t \in Sweepers, Opened(t)
      PROVE  lockAt'[cur[t]] \in {lockAt[cur[t]], NoFile}
  <2>1. cur[t] \in Clusters /\ opc[cur[t]] \notin {"init", "created"}
    BY <1>2, OpenedPast DEF Unrecord, Opened
  <2>2. QED
    BY <2>1, LockPath DEF LiveInv
<1>3. QED
  BY <1>1, <1>2 DEF OneInode, Opened

\* flock excludes the second of two sweeps, their inodes being the same.
LEMMA ExclusiveStep ==
  ASSUME LiveInv, OneInode, ReclaimExclusive,
         NEW s \in Sweepers, SweepStep(s) \/ SweeperDies(s)
  PROVE  ReclaimExclusive'
<1>1. ASSUME NEW t \in Sweepers, t # s
      PROVE  /\ pass'[t] = pass[t] /\ cur'[t] = cur[t]
             /\ SweeperHolds(t)' <=> SweeperHolds(t)
  BY <1>1, OtherSweeps DEF LiveInv, SweeperHolds
<1>2. ASSUME NEW t \in Sweepers, t # s, pass'[s] = 1, pass'[t] = 1, cur'[s] = cur'[t],
             SweeperHolds(s)', SweeperHolds(t)'
      PROVE  FALSE
  <2>1. Opened(s)'
    BY <1>2 DEF Opened, SweeperHolds
  <2>2. /\ pass[s] = 1 /\ cur'[s] = cur[s]
        /\ SweeperHolds(s) \/ (spc[s] = "flock" /\ ~Held(cur[s], sfd[s]))
    BY <1>2, <2>1, OpenedStep
  <2>3. pass[t] = 1 /\ cur[t] = cur[s] /\ SweeperHolds(t)
    BY <1>1, <1>2, <2>2
  <2>4. CASE SweeperHolds(s)
    BY <1>2, <2>2, <2>3, <2>4 DEF ReclaimExclusive
  <2>5. CASE spc[s] = "flock" /\ ~Held(cur[s], sfd[s])
    <3>1. Opened(s) /\ Opened(t)
      BY <2>2, <2>3, <2>5 DEF Opened, SweeperHolds
    <3>2. sfd[t] = sfd[s]
      BY <2>3, <3>1 DEF OneInode
    <3>3. QED
      BY <2>3, <2>5, <3>2 DEF Held
  <2>6. QED
    BY <2>2, <2>4, <2>5
<1>3. QED
  BY <1>1, <1>2 DEF ReclaimExclusive

\* The invariant of the sweeps is inductive.
LEMMA SweepInvStep ==
  ASSUME SweepInv, [Next]_vars
  PROVE  SweepInv'
<1> USE DEF SweepInv
<1>1. LiveInv'
  BY LiveInvStep
<1>2. CASE \E c \in Clusters : ClusterStep(c)
  <2>1. PICK c \in Clusters : ClusterStep(c)
    BY <1>2
  <2>2. Next
    BY <2>1 DEF Next, ClusterStep
  <2>3. CallerDirKept' /\ OneInode'
    BY <2>1, <2>2, CallerDirCluster, OneInodeCluster DEF LiveInv
  <2>4. SweptDirOK' /\ ReclaimExclusive'
    BY <2>1, SweepFrame DEF SweptDirOK, ReclaimExclusive, SweeperHolds
  <2>5. QED
    BY <1>1, <2>3, <2>4
<1>3. CASE \E s \in Sweepers : SweepStep(s) \/ SweeperDies(s)
  <2>1. PICK s \in Sweepers : SweepStep(s) \/ SweeperDies(s)
    BY <1>3
  <2>2. Next
    BY <2>1 DEF Next
  <2>3. SweptDirOK' /\ OneInode' /\ ReclaimExclusive'
    BY <2>1, <2>2, SweptDirStep, OneInodeStep, ExclusiveStep
  <2>4. CallerDirKept'
    BY <2>1, SweepFiles, RegistryAssumption DEF LiveInv, CallerDirKept, SweptDirOK
  <2>5. QED
    BY <1>1, <2>3, <2>4
<1>4. CASE UNCHANGED vars
  BY <1>1, <1>4 DEF vars, ownerVars, fileVars, sweepVars, entryVars, SweptDirOK,
     CallerDirKept, OneInode, Opened, ReclaimExclusive, SweeperHolds
<1>5. QED
  BY <1>2, <1>3, <1>4 DEF Next, ClusterStep

LEMMA SweepInvInit == Init => SweepInv
<1> SUFFICES ASSUME Init PROVE SweepInv
  OBVIOUS
<1>1. SweptDirOK /\ OneInode /\ ReclaimExclusive
  BY DEF Init, SweptDirOK, OneInode, Opened, ReclaimExclusive, SweeperHolds
<1>2. CallerDirKept
  BY RegistryAssumption DEF Init, CallerDirKept
<1>3. QED
  BY <1>1, <1>2, LiveInvInit DEF SweepInv

\* reclaimRecord is exclusive: however many processes sweep one registry, and
\* whichever die half way, no two of them reclaim the same record at a time.
\* The lock is on an inode and the path can be removed under it, so flock alone
\* does not say so.
THEOREM ReclaimsExclude == Spec => []ReclaimExclusive
<1>1. SweepInv => ReclaimExclusive
  BY DEF SweepInv
<1>2. QED
  BY <1>1, SweepInvInit, SweepInvStep, PTL DEF Spec

\* A DataPath that the caller supplied is never removed, by Stop, by a failed
\* Start, by a watchdog or by any sweep of any registry, unless it is called
\* $TMPDIR/embedded-tikv-*.
THEOREM CallersDirectoryStays == Spec => []CallerDirKept
<1>1. SweepInv => CallerDirKept
  BY DEF SweepInv
<1>2. QED
  BY <1>1, SweepInvInit, SweepInvStep, PTL DEF Spec

(***************************************************************************)
(* Servers within reach                                                    *)
(***************************************************************************)
\* A server has its watchdog until its stop begins.
LEMMA WatchedCluster ==
  ASSUME TypeOK, NEW c \in Clusters, ClusterStep(c), NEW d \in Clusters, WatchedAt(d)
  PROVE  WatchedAt(d)'
<1> USE DEF TypeOK, WatchedAt
<1>1. CASE d # c
  BY <1>1, OtherFrame
<1>2. CASE d = c
  <2> USE <1>2 DEF ownerVars, procVars
  <2>1. CASE startProcess(c)
    BY <2>1 DEF startProcess
  <2>2. CASE (OwnerStep(c) /\ ~startProcess(c)) \/ Age(c) \/ Damage(c)
    BY <2>2 DEF OwnerStep, CreateLock, OpenLock, AcquireFails, Lock, SaveRecord,
       SaveFails, Finalize, prepareDataPath, setDataPath, addServer, Started,
       BeginTeardown, StoresStopped, ClearDataPath, abandon, CloseRelease, CloseRecord,
       CloseLock, Age, Damage
  <2>3. CASE OwnerDies(c)
    BY <2>3 DEF OwnerDies, EndOfFile
  <2>4. CASE \E k \in Servers : StopStep(c, k)
    BY <2>4 DEF StopStep, StopExited, StopTerm, StopReaped, StopKill, StopErrs,
       standDown, DogAlive
  <2>5. CASE \E k \in Servers : DogStep(c, k) \/ ServerExits(c, k)
    BY <2>5 DEF DogStep, DogKills, DogRemovesDir, DogRemovesRecord, DogRemovesLock,
       ServerExits
  <2>6. QED
    BY <2>1, <2>2, <2>3, <2>4, <2>5 DEF ClusterStep
<1>3. QED
  BY <1>1, <1>2

\* A signal to the group takes the server with its watchdog.
LEMMA SignalsTogether ==
  ASSUME TypeOK, NEW s \in Sweepers, SweepStep(s) \/ SweeperDies(s),
         NEW c \in Clusters, NEW k \in Servers, dog'[c][k] # dog[c][k]
  PROVE  srv'[c][k] # "up"
<1>1. ASSUME NEW P, signalGroups(P) PROVE srv'[c][k] # "up"
  BY <1>1 DEF signalGroups
<1>2. CASE KillRecorded(s)
  BY <1>1, <1>2 DEF KillRecorded
<1>3. CASE killProcessesUsing(s)
  BY <1>1, <1>3 DEF killProcessesUsing
<1>4. CASE ~KillRecorded(s) /\ ~killProcessesUsing(s)
  BY <1>4 DEF procVars, SweepStep, BeginPass, NextEntry, EndSweep, StatLock, CheckUsed,
     OpenProbe, FlockProbe, ReadRecord, ReleaseProbe, RemoveDataPath, RemoveRecord,
     RemoveLock, SweeperDies
<1>5. QED
  BY <1>2, <1>3, <1>4

LEMMA WatchedSweep ==
  ASSUME TypeOK, NEW s \in Sweepers, SweepStep(s) \/ SweeperDies(s),
         NEW d \in Clusters, WatchedAt(d)
  PROVE  WatchedAt(d)'
<1>1. UNCHANGED stop
  BY OwnerFrame
<1>2. \A k \in Servers : /\ dog[d][k] = "none" => dog'[d][k] = "none"
                         /\ srv'[d][k] = "up" => srv[d][k] = "up" /\ dog'[d][k] = dog[d][k]
  BY SweepSignals, SignalsTogether DEF DogAlive
<1>3. QED
  BY <1>1, <1>2 DEF WatchedAt

\* The steps of process.stop, and exits: nothing but one server and how far
\* its stop has come.
LEMMA ServerFrame ==
  ASSUME TypeOK, NEW c \in Clusters, NEW k \in Servers, StopStep(c, k) \/ ServerExits(c, k)
  PROVE  /\ UNCHANGED <<opc, count, record>>
         /\ \A i \in Servers : /\ srv[c][i] = "off" <=> srv'[c][i] = "off"
                               /\ srv'[c][i] = "up" => srv[c][i] = "up"
                               /\ Alive(c, i)' => Alive(c, i)
                               /\ srv[c][i] = "down" => srv'[c][i] = "down"
                               /\ stop'[c][i] = stop[c][i] \/ MayStop(c, i)
                               /\ stop[c][i] \in {"ok", "err"} => stop'[c][i] = stop[c][i]
                               /\ stop'[c][i] = "ok" => stop[c][i] = "ok" \/ srv'[c][i] = "down"
<1> USE DEF TypeOK, fileVars, procVars, ownerVars, Alive
<1>1. CASE StopStep(c, k)
  BY <1>1 DEF StopStep, StopExited, StopTerm, StopReaped, StopKill, StopErrs
<1>2. CASE ServerExits(c, k)
  BY <1>2 DEF ServerExits
<1>3. QED
  BY <1>1, <1>2

\* The script of a watchdog: the owner is dead, a server is killed, the record
\* is gone as a whole or left.
LEMMA DogFrame ==
  ASSUME LiveInv, NEW c \in Clusters, WatchedAt(c), NEW k \in Servers, DogStep(c, k)
  PROVE  /\ HaveShell /\ opc[c] = "dead" /\ UNCHANGED <<opc, count, stop>>
         /\ record'[c] = record[c] \/ record'[c] = NoRecord
         /\ \A i \in Servers : srv'[c][i] = srv[c][i]
                               \/ (srv[c][i] = "up" /\ srv'[c][i] = "doomed")
<1> USE DEF LiveInv, TypeOK, fileVars, procVars, ownerVars
<1>1. dog[c][k] \in {"eof", "rmdir", "rmrec", "rmlock"}
  BY DEF DogStep, DogKills, DogRemovesDir, DogRemovesRecord, DogRemovesLock
<1>2. HaveShell /\ opc[c] = "dead"
  BY <1>1 DEF WatchedAt, DogOK
<1>3. QED
  BY <1>2 DEF DogStep, DogKills, DogRemovesDir, DogRemovesRecord, DogRemovesLock

\* The owner keeps its record in step with what it starts.
LEMMA RecordCluster ==
  ASSUME LiveInv, NEW c \in Clusters, ClusterStep(c),
         NEW d \in Clusters, WatchedAt(d), RecordAt(d)
  PROVE  RecordAt(d)'
<1> USE DEF LiveInv, TypeOK
<1>1. CASE d # c
  BY <1>1, OtherFrame DEF RecordAt, Alive
<1>2. CASE d = c
  <2> USE <1>2 DEF ownerVars, fileVars, procVars
  <2>1. CASE SaveRecord(c)
    <3>1. /\ ~record[c].on /\ count[c] = 0 /\ \A k \in Servers : srv[c][k] = "off"
      BY <2>1 DEF SaveRecord, FreshAt, Unrecord, RecordAt
    <3>2. record[c] = NoRecord
      BY <3>1 DEF RecordAt
    <3>3. record'[c].on /\ ~record'[c].bad /\ record'[c].n = 0
      BY <2>1, <3>2 DEF SaveRecord, NoRecord
    <3>4. opc'[c] = "recorded" /\ count' = count /\ srv' = srv
      BY <2>1 DEF SaveRecord
    <3>5. QED
      BY <3>1, <3>3, <3>4 DEF RecordAt
  <2>2. CASE setDataPath(c)
    <3>1. opc[c] = "prepared" /\ record[c].on
      BY <2>2 DEF setDataPath, LiveAt, Protected
    <3>2. /\ record'[c].on = record[c].on /\ record'[c].bad = record[c].bad
          /\ record'[c].n = record[c].n /\ record'[c].path
      BY <2>2 DEF setDataPath, RecordFile
    <3>3. opc'[c] = "starting" /\ count' = count /\ srv' = srv
      BY <2>2 DEF setDataPath
    <3>4. QED
      BY <3>1, <3>2, <3>3 DEF RecordAt, Unrecord
  <2>3. CASE addServer(c)
    <3>1. opc[c] = "spawned" /\ record[c].on
      BY <2>3 DEF addServer, LiveAt, Protected
    <3>2. /\ record'[c].on = record[c].on /\ record'[c].bad = record[c].bad
          /\ record'[c].n = count[c] + 1 /\ record'[c].path = record[c].path
      BY <2>3 DEF addServer, RecordFile
    <3>3. opc'[c] = "starting" /\ count'[c] = count[c] + 1 /\ srv' = srv
      BY <2>3 DEF addServer
    <3>4. QED
      BY <3>1, <3>2, <3>3 DEF RecordAt, Unrecord
  <2>4. CASE startProcess(c)
    <3>1. opc[c] = "starting" /\ record[c].on /\ ~record[c].bad /\ record[c].path
      BY <2>4 DEF startProcess, LiveAt, Protected, RecordAt
    <3>2. opc'[c] = "spawned" /\ count' = count /\ record' = record
      BY <2>4 DEF startProcess
    <3>3. QED
      BY <3>1, <3>2 DEF RecordAt, Unrecord
  <2>5. CASE CloseRecord(c)
    <3>1. record'[c] = NoRecord /\ opc'[c] = "unrecorded"
      BY <2>5 DEF CloseRecord
    <3>2. QED
      BY <3>1 DEF RecordAt, Unrecord, NoRecord
  <2>6. CASE OwnerStep(c) /\ ~SaveRecord(c) /\ ~setDataPath(c) /\ ~addServer(c)
             /\ ~startProcess(c) /\ ~CloseRecord(c)
    <3>1. /\ UNCHANGED <<count, record, srv>> /\ opc[c] # "dead"
          /\ opc'[c] \notin {"recorded", "starting", "spawned"}
          /\ opc'[c] \in Unrecord \cup {"prepared"} =>
               opc[c] \in Unrecord \cup {"recorded"}
      BY <2>6 DEF Unrecord, OwnerStep, CreateLock, OpenLock, AcquireFails, Lock,
         SaveFails, Finalize, prepareDataPath, Started, BeginTeardown, StoresStopped,
         ClearDataPath, abandon, CloseRelease, CloseLock
    <3>2. QED
      BY <3>1 DEF RecordAt
  <2>7. CASE OwnerDies(c) \/ Age(c)
    <3>1. /\ UNCHANGED <<count, record, srv>> /\ opc'[c] \in {"dead", opc[c]}
      BY <2>7 DEF OwnerDies, Age
    <3>2. QED
      BY <3>1 DEF RecordAt, Unrecord, Alive
  <2>8. CASE Damage(c)
    <3>1. /\ opc[c] = "dead" /\ UNCHANGED <<opc, srv>> /\ \A k \in Servers : ~Alive(c, k)
          /\ record'[c] = [on |-> TRUE, bad |-> TRUE, path |-> FALSE, n |-> 0]
      BY <2>8 DEF Damage
    <3>2. QED
      BY <3>1 DEF RecordAt, Unrecord, Alive
  <2>9. CASE \E k \in Servers : StopStep(c, k) \/ ServerExits(c, k)
    BY <2>9, ServerFrame DEF RecordAt
  <2>10. CASE \E k \in Servers : DogStep(c, k)
    <3>1. ~NoRecord.on /\ ~NoRecord.bad
      BY DEF NoRecord
    <3>2. /\ opc[c] = "dead" /\ UNCHANGED <<opc, count>>
          /\ record'[c] = record[c] \/ record'[c] = NoRecord
          /\ \A k \in Servers : /\ srv'[c][k] = "off" <=> srv[c][k] = "off"
                                /\ Alive(c, k)' => Alive(c, k)
      BY <2>10, DogFrame DEF Alive
    <3>3. QED
      BY <3>1, <3>2 DEF RecordAt, Unrecord
  <2>11. QED
    BY <2>1, <2>2, <2>3, <2>4, <2>5, <2>6, <2>7, <2>8, <2>9, <2>10 DEF ClusterStep
<1>3. QED
  BY <1>1, <1>2

\* A sweep removes records and kills.
LEMMA RecordSweep ==
  ASSUME LiveInv, NEW s \in Sweepers, SweepStep(s) \/ SweeperDies(s),
         NEW d \in Clusters, RecordAt(d)
  PROVE  RecordAt(d)'
<1>1. UNCHANGED <<opc, count>>
  BY OwnerFrame
<1>2. record'[d] = record[d] \/ record'[d] = NoRecord
  BY SweepFiles DEF LiveInv
<1>3. \A k \in Servers : /\ srv'[d][k] = "off" <=> srv[d][k] = "off"
                         /\ Alive(d, k)' => Alive(d, k)
  BY SweepSignals DEF LiveInv, Alive
<1>4. ~NoRecord.on /\ ~NoRecord.bad
  BY DEF NoRecord
<1>5. QED
  BY <1>1, <1>2, <1>3, <1>4 DEF RecordAt

\* teardown passes a server only when it is off, down or given up.
LEMMA StopCluster ==
  ASSUME LiveInv, NEW c \in Clusters, ClusterStep(c),
         NEW d \in Clusters, WatchedAt(d), StopAt(d)
  PROVE  StopAt(d)'
<1> USE DEF LiveInv, TypeOK
<1>1. CASE d # c
  BY <1>1, OtherFrame DEF StopAt, Stopped, Alive
<1>2. CASE d = c
  <2> USE <1>2 DEF ownerVars, fileVars, procVars
  <2>1. CASE startProcess(c)
    <3>1. opc[c] = "starting" /\ opc'[c] = "spawned" /\ stop' = stop
      BY <2>1 DEF startProcess
    <3>2. QED
      BY <3>1 DEF StopAt
  <2>2. CASE StoresStopped(c)
    <3>1. /\ opc'[c] = "stopPD" /\ UNCHANGED <<stop, srv>>
          /\ \A k \in Servers \ {0} : Stopped(c, k)
      BY <2>2 DEF StoresStopped
    <3>2. QED
      BY <3>1 DEF StopAt, Stopped, Unrecord
  <2>3. CASE ClearDataPath(c)
    <3>1. /\ opc[c] = "stopPD" /\ Stopped(c, 0) /\ UNCHANGED <<stop, srv>>
          /\ opc'[c] \in {"abandoning", "releasing"}
          /\ opc'[c] = "releasing" => \A k \in Servers : stop[c][k] # "err"
      BY <2>3 DEF ClearDataPath
    <3>2. \A k \in Servers : Stopped(c, k)
      BY <3>1 DEF StopAt
    <3>3. opc'[c] = "releasing" => \A k \in Servers : ~Alive(c, k)
      BY <3>1, <3>2 DEF Stopped, StopAt, Alive
    <3>4. QED
      BY <3>1, <3>3 DEF StopAt, Unrecord, Alive
  <2>4. CASE OwnerStep(c) /\ ~startProcess(c) /\ ~StoresStopped(c) /\ ~ClearDataPath(c)
    <3>1. /\ UNCHANGED <<stop, srv>> /\ opc'[c] # "stopPD"
          /\ opc'[c] \in {"releasing", "released", "unrecorded"} =>
               opc[c] \in {"releasing", "released"}
          /\ opc'[c] \in Unrecord \cup {"recorded", "prepared", "starting", "spawned", "running"} =>
               opc[c] \in Unrecord \cup {"recorded", "prepared", "starting", "spawned"}
      BY <2>4 DEF Unrecord, OwnerStep, CreateLock, OpenLock, AcquireFails, Lock,
         SaveRecord, SaveFails, Finalize, prepareDataPath, setDataPath, addServer,
         Started, BeginTeardown, abandon, CloseRelease, CloseRecord, CloseLock
    <3>2. QED
      BY <3>1 DEF StopAt, Stopped, Alive
  <2>5. CASE OwnerDies(c) \/ Age(c) \/ Damage(c)
    <3>1. UNCHANGED <<stop, srv>> /\ opc'[c] \in {"dead", opc[c]}
      BY <2>5 DEF OwnerDies, Age, Damage
    <3>2. QED
      BY <3>1 DEF StopAt, Stopped, Alive, Unrecord
  <2>6. CASE \E k \in Servers : StopStep(c, k) \/ ServerExits(c, k)
    <3>1. PICK k \in Servers : StopStep(c, k) \/ ServerExits(c, k)
      BY <2>6
    <3>2. /\ opc' = opc
          /\ \A i \in Servers : /\ srv[c][i] = "off" => srv'[c][i] = "off"
                                /\ Alive(c, i)' => Alive(c, i)
                                /\ srv[c][i] = "down" => srv'[c][i] = "down"
                                /\ stop'[c][i] = stop[c][i] \/ MayStop(c, i)
                                /\ stop[c][i] \in {"ok", "err"} => stop'[c][i] = stop[c][i]
                                /\ stop'[c][i] = "ok" => stop[c][i] = "ok" \/ srv'[c][i] = "down"
      BY <3>1, ServerFrame
    <3>3. opc[c] \in Unrecord \cup {"recorded", "prepared", "starting", "spawned", "running"} =>
            \A i \in Servers : ~MayStop(c, i)
      BY DEF MayStop, Unrecord
    <3>4. \A i \in Servers : Stopped(c, i) => Stopped(c, i)'
      BY <3>2 DEF Stopped
    <3>5. QED
      BY <3>2, <3>3, <3>4 DEF StopAt
  <2>7. CASE \E k \in Servers : DogStep(c, k)
    <3>1. /\ opc'[c] = "dead" /\ UNCHANGED stop
          /\ \A k \in Servers : srv[c][k] = "down" => srv'[c][k] = "down"
      BY <2>7, DogFrame
    <3>2. QED
      BY <3>1 DEF StopAt, Unrecord
  <2>8. QED
    BY <2>1, <2>2, <2>3, <2>4, <2>5, <2>6, <2>7 DEF ClusterStep
<1>3. QED
  BY <1>1, <1>2

\* A sweep brings no server back.
LEMMA StopSweep ==
  ASSUME LiveInv, NEW s \in Sweepers, SweepStep(s) \/ SweeperDies(s),
         NEW d \in Clusters, StopAt(d)
  PROVE  StopAt(d)'
<1>1. UNCHANGED <<opc, stop>>
  BY OwnerFrame
<1>2. \A k \in Servers : /\ srv[d][k] \in {"off", "down"} => srv'[d][k] = srv[d][k]
                         /\ Alive(d, k)' => Alive(d, k)
  BY SweepSignals DEF LiveInv, Alive
<1>3. QED
  BY <1>1, <1>2 DEF StopAt, Stopped

\* No step of an owner takes the record from a server that runs, or starts
\* one behind the back of a sweep that has the lock.
LEMMA KillCluster ==
  ASSUME LiveInv, NEW c \in Clusters, ClusterStep(c),
         NEW d \in Clusters, WatchedAt(d), RecordAt(d), StopAt(d), KillAt(d)
  PROVE  KillAt(d)'
<1> USE DEF LiveInv, TypeOK
<1>0. UNCHANGED <<pass, spc, cur, seen>>
  BY SweepFrame
<1>1. CASE d # c
  BY <1>0, <1>1, OtherFrame DEF KillAt, Unrecorded
<1>2. CASE d = c
  <2> USE <1>2 DEF ownerVars, fileVars, procVars
  <2>1. CASE startProcess(c) \/ addServer(c)
    <3>1. Protected(c) /\ record[c].on
      BY <2>1 DEF startProcess, addServer, Protected, LiveAt
    <3>2. record'[c].on
      <4>1. CASE startProcess(c)
        BY <3>1, <4>1 DEF startProcess
      <4>2. CASE addServer(c)
        BY <3>1, <4>2 DEF addServer, RecordFile
      <4>3. QED
        BY <2>1, <4>1, <4>2
    <3>3. \A s \in Sweepers : cur[s] = c /\ pass[s] = 1 => spc[s] \in {"open", "flock"}
      BY <3>1 DEF LiveAt
    <3>4. QED
      BY <1>0, <3>2, <3>3 DEF KillAt
  <2>2. CASE SaveRecord(c) \/ setDataPath(c)
    <3>1. record'[c].on /\ UNCHANGED <<count, srv>>
      <4>1. CASE SaveRecord(c)
        BY <4>1 DEF SaveRecord, RecordFile
      <4>2. CASE setDataPath(c)
        BY <4>2 DEF setDataPath, RecordFile, LiveAt, Protected
      <4>3. QED
        BY <2>2, <4>1, <4>2
    <3>2. QED
      BY <1>0, <3>1 DEF KillAt, Unrecorded
  <2>3. CASE CloseRecord(c)
    <3>1. opc[c] = "released" /\ UNCHANGED <<count, srv>>
      BY <2>3 DEF CloseRecord
    <3>2. \A k \in Servers : srv[c][k] # "up"
      BY <3>1 DEF StopAt, Alive
    <3>3. QED
      BY <1>0, <3>1, <3>2 DEF KillAt
  <2>4. CASE \/ OwnerDies(c) \/ Age(c)
             \/ OwnerStep(c) /\ ~startProcess(c) /\ ~addServer(c) /\ ~SaveRecord(c)
                /\ ~setDataPath(c) /\ ~CloseRecord(c)
    <3>1. UNCHANGED <<count, srv, record>> /\ (opc[c] = "dead" => opc'[c] = "dead")
      BY <2>4 DEF OwnerDies, Age, OwnerStep, CreateLock, OpenLock, AcquireFails, Lock,
         SaveFails, Finalize, prepareDataPath, Started, BeginTeardown, StoresStopped,
         ClearDataPath, abandon, CloseRelease, CloseLock
    <3>2. QED
      BY <1>0, <3>1 DEF KillAt, Unrecorded
  <2>5. CASE Damage(c)
    <3>1. UNCHANGED <<count, srv>> /\ record'[c].on
      BY <2>5 DEF Damage
    <3>2. QED
      BY <1>0, <3>1 DEF KillAt, Unrecorded
  <2>6. CASE \E k \in Servers : StopStep(c, k) \/ ServerExits(c, k)
    BY <1>0, <2>6, ServerFrame DEF KillAt, Unrecorded
  <2>7. CASE \E k \in Servers : DogStep(c, k)
    BY <1>0, <2>7, DogFrame DEF KillAt, Unrecorded
  <2>8. QED
    BY <2>1, <2>2, <2>3, <2>4, <2>5, <2>6, <2>7 DEF ClusterStep
<1>3. QED
  BY <1>1, <1>2

\* What the two ways of killing leave up: nothing that the record lists, and
\* nothing at all that uses the directory.
LEMMA KillsRecorded ==
  ASSUME TypeOK, NEW s \in Sweepers, cur[s] \in Clusters, KillRecorded(s), NEW k \in Servers,
         seen[s].path, k < seen[s].n
  PROVE  srv'[cur[s]][k] # "up"
<1> DEFINE c == cur[s]
           recorded == IF seen[s].path THEN {i \in Servers : i < seen[s].n} ELSE {}
           own == {<<c, i>> : i \in {j \in recorded : Alive(c, j)}}
           strangers == {p \in (Clusters \ {c}) \X Servers :
                           /\ Alive(p[1], p[2])
                           /\ \E i \in recorded : /\ ~Alive(c, i)
                                                 /\ processIsServer(c, i, p[1], p[2])}
<1>1. PICK R \in SUBSET strangers : signalGroups(own \cup R)
  BY DEF KillRecorded
<1>2. srv[c][k] = "up" => <<c, k>> \in own \cup R
  <2>1. k \in recorded
    OBVIOUS
  <2>2. QED
    BY <2>1 DEF Alive
<1> HIDE DEF own, strangers
<1>3. QED
  BY <1>1, <1>2 DEF signalGroups

LEMMA KillsUsing ==
  ASSUME TypeOK, NEW s \in Sweepers, cur[s] \in Clusters, killProcessesUsing(s),
         NEW k \in Servers
  PROVE  srv'[cur[s]][k] # "up"
<1>1. <<cur[s], k>> \in {p \in Processes : cmdlineReferences(p[1], cur[s])}
  BY DEF Processes, cmdlineReferences
<1>2. QED
  BY <1>1 DEF killProcessesUsing, signalGroups

\* A sweep comes to remove a record only past its kills.
LEMMA KillSweep ==
  ASSUME LiveInv, NEW s \in Sweepers, SweepStep(s) \/ SweeperDies(s),
         NEW d \in Clusters, RecordAt(d), KillAt(d)
  PROVE  KillAt(d)'
<1> USE DEF LiveInv, TypeOK
<1>1. UNCHANGED <<opc, count>>
  BY OwnerFrame
<1>2. \A k \in Servers : /\ srv'[d][k] = "up" => srv[d][k] = "up"
                         /\ srv[d][k] = "off" => srv'[d][k] = "off"
  BY SweepSignals
<1>3. \A k \in Servers : Unrecorded(d, k)' <=> Unrecorded(d, k)
  BY <1>1 DEF Unrecorded
<1>4. ASSUME NEW k \in Servers, srv'[d][k] = "up"
      PROVE  record'[d].on \/ Unrecorded(d, k) \/ (HaveShell /\ opc[d] = "dead")
  <2>1. CASE record'[d] = record[d]
    BY <1>2, <1>4, <2>1 DEF KillAt
  <2>2. CASE record'[d] # record[d]
    <3>1. cur[s] = d /\ spc[s] = "rmrec"
      BY <2>2, SweepFiles
    <3>2. pass[s] = 1
      BY <3>1 DEF CursorOK
    <3>3. QED
      BY <1>2, <1>4, <3>1, <3>2 DEF KillAt
  <2>3. QED
    BY <2>1, <2>2
<1>5. ASSUME NEW t \in Sweepers, t # s, cur'[t] = d, pass'[t] = 1
      PROVE  /\ spc'[t] = "kill" =>
                  seen'[t].n = count[d] /\ (seen'[t].path \/ \A k \in Servers : srv'[d][k] = "off")
             /\ spc'[t] = "rmdir" => \A k \in Servers : srv'[d][k] # "up"
             /\ spc'[t] = "rmrec" => \A k \in Servers : srv'[d][k] = "up" => Unrecorded(d, k)
  BY <1>2, <1>5, OtherSweeps DEF KillAt
<1>6. ASSUME cur'[s] = d, pass'[s] = 1, spc'[s] \in {"kill", "rmdir", "rmrec"}
      PROVE  /\ spc'[s] = "kill" =>
                  seen'[s].n = count[d] /\ (seen'[s].path \/ \A k \in Servers : srv'[d][k] = "off")
             /\ spc'[s] = "rmdir" => \A k \in Servers : srv'[d][k] # "up"
             /\ spc'[s] = "rmrec" => \A k \in Servers : srv'[d][k] = "up" => Unrecorded(d, k)
  <2> USE <1>6 DEF entryVars, Goto, Leave
  <2>1. CASE \/ \E p \in 1..3 : BeginPass(s, p)
             \/ \E c \in Clusters : NextEntry(s, c)
             \/ EndSweep(s) \/ StatLock(s) \/ CheckUsed(s) \/ OpenProbe(s) \/ FlockProbe(s)
             \/ ReleaseProbe(s) \/ RemoveRecord(s) \/ RemoveLock(s) \/ SweeperDies(s)
    BY <2>1 DEF BeginPass, NextEntry, EndSweep, StatLock, CheckUsed, OpenProbe,
       FlockProbe, ReleaseProbe, RemoveRecord, RemoveLock, SweeperDies, CursorOK
  <2>2. CASE ReadRecord(s)
    <3>1. cur[s] = d
      BY <2>2, RegistryAssumption DEF ReadRecord
    <3>2. CASE spc'[s] = "rmrec"
      <4>1. record[d].bad
        BY <2>2, <3>1, <3>2 DEF ReadRecord
      <4>2. QED
        BY <1>2, <3>2, <4>1 DEF RecordAt, Alive
    <3>3. CASE spc'[s] = "kill"
      <4>1. record[d].on /\ ~record[d].bad
        BY <2>2, <3>1, <3>3 DEF ReadRecord
      <4>2. seen'[s].path = record[d].path /\ seen'[s].n = record[d].n
        BY <2>2, <3>1, <3>3 DEF ReadRecord
      <4>3. QED
        BY <1>2, <3>3, <4>1, <4>2 DEF RecordAt
    <3>4. QED
      BY <2>2, <3>2, <3>3 DEF ReadRecord
  <2>3. CASE KillRecorded(s)
    <3>1. /\ cur[s] = d /\ pass[s] = 1 /\ spc[s] = "kill" /\ spc'[s] = "rmrec"
          /\ ~seen[s].path \/ d \in CallerOwned
      BY <2>3 DEF KillRecorded, AfterKill
    <3>2. seen[s].n = count[d] /\ (seen[s].path \/ \A k \in Servers : srv[d][k] = "off")
      BY <3>1 DEF KillAt
    <3>3. ASSUME NEW k \in Servers, srv'[d][k] = "up" PROVE Unrecorded(d, k)
      <4>1. seen[s].path /\ d \in CallerOwned
        BY <1>2, <3>1, <3>2, <3>3
      <4>2. ~(k < seen[s].n)
        BY <2>3, <3>1, <3>3, <4>1, KillsRecorded
      <4>3. count[d] \in Nat /\ k \in Nat
        BY RegistryAssumption DEF Servers
      <4>4. count[d] <= k
        BY <3>2, <4>2, <4>3
      <4>5. QED
        BY <4>1, <4>4 DEF Unrecorded
    <3>4. QED
      BY <3>1, <3>3
  <2>4. CASE killProcessesUsing(s)
    <3>1. cur[s] = d /\ spc'[s] = "rmdir"
      BY <2>4 DEF killProcessesUsing
    <3>2. QED
      BY <2>4, <3>1, KillsUsing
  <2>5. CASE RemoveDataPath(s)
    <3>1. /\ cur[s] = d /\ pass[s] = 1 /\ spc[s] = "rmdir" /\ spc'[s] = "rmrec"
          /\ srv' = srv
      BY <2>5 DEF RemoveDataPath, procVars
    <3>2. QED
      BY <3>1 DEF KillAt
  <2>6. QED
    BY <2>1, <2>2, <2>3, <2>4, <2>5 DEF SweepStep
<1>7. QED
  BY <1>3, <1>4, <1>5, <1>6, <1>1 DEF KillAt

LEMMA ReachInvInit == Init => ReachInv
<1> SUFFICES ASSUME Init PROVE ReachInv
  OBVIOUS
<1>1. ASSUME NEW c \in Clusters PROVE WatchedAt(c) /\ RecordAt(c) /\ StopAt(c) /\ KillAt(c)
  <2>1. ~NoRecord.on /\ ~NoRecord.bad
    BY DEF NoRecord
  <2>2. RecordAt(c)
    BY <2>1 DEF Init, RecordAt
  <2>3. WatchedAt(c) /\ StopAt(c) /\ KillAt(c)
    BY DEF Init, WatchedAt, StopAt, KillAt, Alive
  <2>4. QED
    BY <2>2, <2>3
<1>2. QED
  BY <1>1, LiveInvInit DEF ReachInv

\* The invariant is inductive.
LEMMA ReachInvStep ==
  ASSUME ReachInv, [Next]_vars
  PROVE  ReachInv'
<1> USE DEF ReachInv
<1>1. LiveInv'
  BY LiveInvStep
<1>2. CASE \E c \in Clusters : ClusterStep(c)
  <2>1. PICK c \in Clusters : ClusterStep(c)
    BY <1>2
  <2>2. ASSUME NEW d \in Clusters
        PROVE  WatchedAt(d)' /\ RecordAt(d)' /\ StopAt(d)' /\ KillAt(d)'
    <3>1. WatchedAt(d)'
      BY <2>1, WatchedCluster DEF LiveInv
    <3>2. RecordAt(d)' /\ StopAt(d)' /\ KillAt(d)'
      BY <2>1, RecordCluster, StopCluster, KillCluster
    <3>3. QED
      BY <3>1, <3>2
  <2>3. QED
    BY <1>1, <2>2
<1>3. CASE \E s \in Sweepers : SweepStep(s) \/ SweeperDies(s)
  <2>1. PICK s \in Sweepers : SweepStep(s) \/ SweeperDies(s)
    BY <1>3
  <2>2. ASSUME NEW d \in Clusters
        PROVE  WatchedAt(d)' /\ RecordAt(d)' /\ StopAt(d)' /\ KillAt(d)'
    <3>1. WatchedAt(d)'
      BY <2>1, WatchedSweep DEF LiveInv
    <3>2. RecordAt(d)' /\ StopAt(d)' /\ KillAt(d)'
      BY <2>1, RecordSweep, StopSweep, KillSweep
    <3>3. QED
      BY <3>1, <3>2
  <2>3. QED
    BY <1>1, <2>2
<1>4. CASE UNCHANGED vars
  BY <1>1, <1>4 DEF vars, ownerVars, fileVars, procVars, sweepVars, entryVars, WatchedAt,
     RecordAt, StopAt, KillAt, Stopped, Unrecorded, Alive
<1>5. QED
  BY <1>2, <1>3, <1>4 DEF Next, ClusterStep

\* What the invariant says of a server that nobody watches.
LEMMA ReachesUnwatched == ReachInv => WatchedOrWithinReach
<1> SUFFICES ASSUME ReachInv, NEW c \in Clusters, NEW k \in Servers, srv[c][k] = "up",
                    ~DogAlive(c, k), ~DiedStopping(c, k),
                    ~Unrecorded(c, k), lockAt[c] # NoFile, ~Stranded(c)
             PROVE  Findable(c, k)
  <2>1. ASSUME NEW c \in Clusters, NEW k \in Servers, srv[c][k] = "up", ~DogAlive(c, k),
               ~DiedStopping(c, k), ~Unrecorded(c, k), lockAt[c] = NoFile, ReachInv
        PROVE  Stranded(c)
    BY <2>1 DEF ReachInv, KillAt, WatchedAt, DogAlive, DiedStopping, Stranded
  <2>2. QED
    BY <2>1 DEF WatchedOrWithinReach
<1>1. record[c].on /\ ~record[c].bad
  <2>1. HaveShell => opc[c] # "dead"
    BY DEF ReachInv, WatchedAt, DogAlive, DiedStopping
  <2>2. QED
    BY <2>1 DEF ReachInv, KillAt, RecordAt, Alive
<1>2. record[c].path /\ record[c].n = count[c]
  BY <1>1 DEF ReachInv, RecordAt
<1>3. c \in CallerOwned => k < count[c]
  <2>1. count[c] \in Nat /\ k \in Nat
    BY RegistryAssumption DEF ReachInv, LiveInv, TypeOK, Servers
  <2>2. QED
    BY <2>1 DEF Unrecorded
<1>4. QED
  BY <1>1, <1>2, <1>3 DEF Findable

\* Every server that outlives its owner, whichever step of Start, Stop or the
\* time between the owner died at, is watched or stays within reach of a later
\* sweep: its record is readable and lists it.  The exceptions are all there are: the lock file was
\* removed under the record (Stranded), the owner died between starting the
\* server under a caller's path and recording it (Unrecorded), or died when
\* process.stop had dismissed the server's watchdog (DiedStopping).
THEOREM OrphansWatchedOrReached == Spec => []WatchedOrWithinReach
<1>1. ReachInv => WatchedOrWithinReach
  BY ReachesUnwatched
<1>2. ReachInv /\ [Next]_vars => ReachInv'
  BY ReachInvStep
<1>3. QED
  BY <1>1, <1>2, ReachInvInit, PTL DEF Spec

\* Where there is no shell for watchdogs, and only the sweeps remain, the last
\* of these does not arise: OrphanWithinReach as the runs check it.
THEOREM OrphansWithinReach == HaveShell = FALSE => (Spec => []OrphanWithinReach)
<1> SUFFICES ASSUME HaveShell = FALSE PROVE Spec => []OrphanWithinReach
  OBVIOUS
<1>1. WatchedOrWithinReach => OrphanWithinReach
  BY DEF WatchedOrWithinReach, OrphanWithinReach, DiedStopping
<1>2. QED
  BY <1>1, OrphansWatchedOrReached, PTL
=============================================================================
