------------------------------ MODULE Registry ------------------------------
(***************************************************************************)
(* The cluster registry of embedded-tikv: what one running cluster leaves  *)
(* on disk (lock file, record, data directory), the servers and watchdog   *)
(* shells it starts, and the sweep (CleanOrphans) that other processes run *)
(* against the same files.  registry.go, lock.go, the shell script of      *)
(* watchdog.go, procinfo.go, and the calls embedded_tikv.go makes to them. *)
(*                                                                         *)
(* One element of Clusters is one identity claimed by openRecord, that is, *)
(* one attempt of Start: a retry is another cluster.  Every step is one    *)
(* system call (or a few that nothing can separate), so that owners,       *)
(* sweeps, watchdogs, server exits and the death of any process interleave *)
(* the way the kernel allows.                                              *)
(***************************************************************************)
EXTENDS Naturals, FiniteSets

CONSTANTS
  Clusters,       \* identities claimed by openRecord
  Sweepers,       \* goroutines, of any process, that run CleanOrphans
  TiKVCount,      \* Config.TiKVCount
  HaveShell,      \* haveShell(): is there a /bin/sh for the watchdog?
  CallerOwned,    \* clusters whose DataPath was set by the caller
  Named,          \* of these, the ones it called $TMPDIR/embedded-tikv-*
  Elsewhere,      \* clusters whose CachePath is another registry
  SharedPath,     \* <<d, c>>: d's command lines contain c's DataPath + "/"
  PrefixPath,     \* <<d, c>>: d's contain c's DataPath, but no "/" after it
  MaxSweepDeaths, \* bound: how often a process dies in the middle of a sweep
  None            \* no cluster

\* A path the library named ends in a unique id, so only a caller's DataPath
\* can show up, as a whole component, in another cluster's command lines.
ASSUME RegistryAssumption ==
  /\ TiKVCount \in Nat \ {0}
  /\ HaveShell \in BOOLEAN
  /\ CallerOwned \subseteq Clusters
  /\ Named \subseteq CallerOwned
  /\ Elsewhere \subseteq Clusters
  /\ SharedPath \subseteq Clusters \X CallerOwned
  /\ PrefixPath \subseteq Clusters \X Clusters
  /\ MaxSweepDeaths \in Nat
  /\ None \notin Clusters

Servers == 0..TiKVCount          \* 0 is pd-0, k is tikv-(k-1)
NoFile == 0
Inodes == {1, 2}                 \* CreateTemp's, and one O_CREATE made again

VARIABLES
  \* the owner of each cluster
  opc,       \* where its Start or Stop is
  ofd,       \* inode of the lock file it has open
  count,     \* servers started and appended to its record
  stop,      \* stop[c][k]: how far process.stop has come
  \* the file system
  lockAt,    \* inode the lock path names, or NoFile
  record,    \* the record file: is it there, is it readable, what it says
  dir,       \* the data directory, by age
  \* the process table
  srv,       \* srv[c][k]: the server
  dog,       \* dog[c][k]: the watchdog shell in its process group
  \* the sweeps
  pass,      \* 1 records, 2 data directories, 3 stale locks
  spc,       \* where in the pass
  todo,      \* rest of the ReadDir snapshot
  cur,       \* the entry at hand
  sfd,       \* inode of the lock file the sweep has open
  seen,      \* the record it has read
  deaths     \* sweeps cut short so far

ownerVars == <<opc, ofd, count, stop>>
fileVars == <<lockAt, record, dir>>
procVars == <<srv, dog>>
entryVars == <<cur, sfd, seen>>
sweepVars == <<pass, spc, todo, entryVars, deaths>>
vars == <<ownerVars, fileVars, procVars, sweepVars>>

(***************************************************************************)
(* Types                                                                   *)
(***************************************************************************)
\* "created" .. "locked" is openRecord, up to "running" startOnce, from
\* "stopTiKV" teardown; "leaked" is a lock nobody can release any more.
OwnerPCs == {"init", "created", "opened", "locked", "leaked", "recorded",
             "prepared", "starting", "spawned", "running", "stopTiKV",
             "stopPD", "releasing", "abandoning", "released", "unrecorded",
             "done", "dead"}
StopStates == {"no", "termed", "killed", "ok", "err"}
SrvStates == {"off", "up", "doomed", "down"}   \* doomed: SIGKILL is pending
DogStates == {"none", "armed", "eof", "rmdir", "rmrec", "rmlock", "gone"}
Ages == {"none", "young", "old"}               \* old: orphanGracePeriod passed
SweepPCs == {"idle", "next", "statlock", "used", "open", "flock", "locked",
             "kill", "killdir", "rmdir", "rmrec", "rmlock"}
Contents == [path : BOOLEAN, n : 0..(TiKVCount + 1)]
RecordFile == [on : BOOLEAN, bad : BOOLEAN, path : BOOLEAN,
               n : 0..(TiKVCount + 1)]
NoContents == [path |-> FALSE, n |-> 0]
NoRecord == [on |-> FALSE, bad |-> FALSE, path |-> FALSE, n |-> 0]

TypeOK ==
  /\ opc \in [Clusters -> OwnerPCs]
  /\ ofd \in [Clusters -> Inodes \cup {NoFile}]
  /\ count \in [Clusters -> 0..(TiKVCount + 1)]
  /\ stop \in [Clusters -> [Servers -> StopStates]]
  /\ lockAt \in [Clusters -> Inodes \cup {NoFile}]
  /\ record \in [Clusters -> RecordFile]
  /\ dir \in [Clusters -> Ages]
  /\ srv \in [Clusters -> [Servers -> SrvStates]]
  /\ dog \in [Clusters -> [Servers -> DogStates]]
  /\ pass \in [Sweepers -> 1..3]
  /\ spc \in [Sweepers -> SweepPCs]
  /\ todo \in [Sweepers -> SUBSET Clusters]
  /\ cur \in [Sweepers -> Clusters \cup {None}]
  /\ sfd \in [Sweepers -> Inodes \cup {NoFile}]
  /\ seen \in [Sweepers -> Contents]
  /\ deaths \in 0..MaxSweepDeaths

Init ==
  /\ opc = [c \in Clusters |-> "init"]
  /\ ofd = [c \in Clusters |-> NoFile]
  /\ count = [c \in Clusters |-> 0]
  /\ stop = [c \in Clusters |-> [k \in Servers |-> "no"]]
  /\ lockAt = [c \in Clusters |-> NoFile]
  /\ record = [c \in Clusters |-> NoRecord]
  /\ dir = [c \in Clusters |-> IF c \in CallerOwned THEN "old" ELSE "none"]
  /\ srv = [c \in Clusters |-> [k \in Servers |-> "off"]]
  /\ dog = [c \in Clusters |-> [k \in Servers |-> "none"]]
  /\ pass = [s \in Sweepers |-> 1]
  /\ spc = [s \in Sweepers |-> "idle"]
  /\ todo = [s \in Sweepers |-> {}]
  /\ cur = [s \in Sweepers |-> None]
  /\ sfd = [s \in Sweepers |-> NoFile]
  /\ seen = [s \in Sweepers |-> NoContents]
  /\ deaths = 0

(***************************************************************************)
(* Locks, processes, directories                                           *)
(***************************************************************************)
\* The owner has flocked its inode and has not unlocked, closed or died.
OwnerHolds(c) ==
  opc[c] \in {"locked", "leaked", "recorded", "prepared", "starting", "spawned",
              "running", "stopTiKV", "stopPD", "releasing", "abandoning"}

\* Pass 1 keeps the lock to the end of reclaimRecord; the other passes
\* release it as soon as they have it.
SweeperHolds(s) ==
  \/ spc[s] = "locked"
  \/ pass[s] = 1 /\ spc[s] \in {"kill", "killdir", "rmdir", "rmrec", "rmlock"}

\* Mutant: sweeps do not exclude one another.
HeldByOwner(c, i) == OwnerHolds(c) /\ ofd[c] = i

\* flock excludes by inode, never by path.
Held(c, i) ==
  \/ OwnerHolds(c) /\ ofd[c] = i
  \/ \E s \in Sweepers : SweeperHolds(s) /\ cur[s] = c /\ sfd[s] = i

Alive(c, k) == srv[c][k] \in {"up", "doomed"}
DogAlive(c, k) == dog[c][k] \notin {"none", "gone"}
Processes == Clusters \X Servers

\* Mutant: a substring test without the trailing separator.
ReferencesPrefix(d, c) ==
  d = c \/ <<d, c>> \in SharedPath \/ <<d, c>> \in PrefixPath

\* Does d's command line name a child of c's data directory?  (Servers and
\* watchdogs alike: the shell's arguments include the server's.)
cmdlineReferences(d, c) == d = c \/ <<d, c>> \in SharedPath

\* Mutant: age alone decides.
NeverUsed(c) == FALSE

usedByLiveProcess(c) ==
  \E d \in Clusters, k \in Servers :
    cmdlineReferences(d, c) /\ (Alive(d, k) \/ DogAlive(d, k))

\* SIGKILL to the process groups of P: server and watchdog go together.
signalGroups(P) ==
  /\ srv' = [c \in Clusters |-> [k \in Servers |->
               IF <<c, k>> \in P /\ srv[c][k] = "up" THEN "doomed"
                                                     ELSE srv[c][k]]]
  /\ dog' = [c \in Clusters |-> [k \in Servers |->
               IF <<c, k>> \in P /\ DogAlive(c, k) THEN "gone"
                                                   ELSE dog[c][k]]]

\* What is left of a directory after os.RemoveAll or rm -rf: a process that
\* still writes into it can make the removal fail half way.
Remains(c) ==
  IF dir[c] # "none" /\ \E k \in Servers : Alive(c, k)
  THEN {"none", "young"} ELSE {"none"}

(***************************************************************************)
(* Start: openRecord, prepareDataPath, setDataPath, startProcess, addServer *)
(***************************************************************************)
\* CreateTemp makes the lock file and closes it again, unlocked.
CreateLock(c) ==
  /\ opc[c] = "init"
  /\ opc' = [opc EXCEPT ![c] = "created"]
  /\ lockAt' = [lockAt EXCEPT ![c] = 1]
  /\ UNCHANGED <<ofd, count, stop, record, dir, procVars, sweepVars>>

\* acquireFileLock opens by name with O_CREATE: a lock file removed in the
\* meantime comes back as a new inode.
OpenLock(c) ==
  /\ opc[c] = "created"
  /\ LET i == IF lockAt[c] = NoFile THEN 2 ELSE lockAt[c] IN
       /\ lockAt' = [lockAt EXCEPT ![c] = i]
       /\ ofd' = [ofd EXCEPT ![c] = i]
  /\ opc' = [opc EXCEPT ![c] = "opened"]
  /\ UNCHANGED <<count, stop, record, dir, procVars, sweepVars>>

\* The open or the flock fails: openRecord removes the lock file.
AcquireFails(c) ==
  /\ opc[c] \in {"created", "opened"}
  /\ opc' = [opc EXCEPT ![c] = "done"]
  /\ ofd' = [ofd EXCEPT ![c] = NoFile]
  /\ lockAt' = [lockAt EXCEPT ![c] = NoFile]
  /\ UNCHANGED <<count, stop, record, dir, procVars, sweepVars>>

\* flock, blocking.
Lock(c) ==
  /\ opc[c] = "opened"
  /\ ~Held(c, ofd[c])
  /\ opc' = [opc EXCEPT ![c] = "locked"]
  /\ UNCHANGED <<ofd, count, stop, fileVars, procVars, sweepVars>>

\* record.save(): the rename makes the record appear, or change, at once.
SaveRecord(c) ==
  /\ opc[c] = "locked"
  /\ opc' = [opc EXCEPT ![c] = "recorded"]
  /\ record' = [record EXCEPT ![c].on = TRUE]
  /\ UNCHANGED <<ofd, count, stop, lockAt, dir, procVars, sweepVars>>

\* openRecord returns its record with the error; startOnce drops both, so
\* the lock stays held until a finalizer closes the file or the process ends.
SaveFails(c) ==
  /\ opc[c] = "locked"
  /\ opc' = [opc EXCEPT ![c] = "leaked"]
  /\ UNCHANGED <<ofd, count, stop, fileVars, procVars, sweepVars>>

Finalize(c) ==
  /\ opc[c] = "leaked"
  /\ opc' = [opc EXCEPT ![c] = "done"]
  /\ ofd' = [ofd EXCEPT ![c] = NoFile]
  /\ UNCHANGED <<count, stop, fileVars, procVars, sweepVars>>

\* MkdirAll, and out with what an earlier attempt left: that makes a caller's
\* directory young too, if there was anything.
prepareDataPath(c) ==
  /\ opc[c] = "recorded"
  /\ opc' = [opc EXCEPT ![c] = "prepared"]
  /\ \E age \in {"young", dir[c]} \ {"none"} :
       dir' = [dir EXCEPT ![c] = age]
  /\ UNCHANGED <<ofd, count, stop, lockAt, record, procVars, sweepVars>>

setDataPath(c) ==
  /\ opc[c] = "prepared"
  /\ opc' = [opc EXCEPT ![c] = "starting"]
  /\ record' = [record EXCEPT ![c].path = TRUE]
  /\ UNCHANGED <<ofd, count, stop, lockAt, dir, procVars, sweepVars>>

\* Mutant: one server more than TiKVCount asks for.
StartOneMore(c) ==
  /\ opc[c] = "starting"
  /\ opc' = [opc EXCEPT ![c] = "spawned"]
  /\ UNCHANGED <<ofd, count, stop, fileVars, procVars, sweepVars>>

\* start makes the server's own directory in the cluster's.  The server runs
\* from here on and its watchdog waits on the pipe; its PID is not in the
\* record yet.
startProcess(c) ==
  /\ opc[c] = "starting"
  /\ count[c] <= TiKVCount
  /\ opc' = [opc EXCEPT ![c] = "spawned"]
  /\ srv' = [srv EXCEPT ![c][count[c]] = "up"]
  /\ dog' = [dog EXCEPT ![c][count[c]] = IF HaveShell THEN "armed" ELSE @]
  /\ dir' = [dir EXCEPT ![c] = "young"]
  /\ UNCHANGED <<ofd, count, stop, lockAt, record, sweepVars>>

\* Mutant: addServer without the save.
AddUnsaved(c) ==
  /\ opc[c] = "spawned"
  /\ opc' = [opc EXCEPT ![c] = "starting"]
  /\ count' = [count EXCEPT ![c] = @ + 1]
  /\ UNCHANGED <<ofd, stop, fileVars, procVars, sweepVars>>

addServer(c) ==
  /\ opc[c] = "spawned"
  /\ opc' = [opc EXCEPT ![c] = "starting"]
  /\ count' = [count EXCEPT ![c] = @ + 1]
  /\ record' = [record EXCEPT ![c].n = count[c] + 1]
  /\ UNCHANGED <<ofd, stop, lockAt, dir, procVars, sweepVars>>

\* waitStoresUp is satisfied.
Started(c) ==
  /\ opc[c] = "starting"
  /\ count[c] = TiKVCount + 1
  /\ opc' = [opc EXCEPT ![c] = "running"]
  /\ UNCHANGED <<ofd, count, stop, fileVars, procVars, sweepVars>>

\* Any step of startOnce after openRecord may fail (a full disk, no port, a
\* server that exits, a timeout); Stop is called; both run teardown.
BeginTeardown(c) ==
  /\ opc[c] \in {"recorded", "prepared", "starting", "spawned", "running"}
  /\ opc' = [opc EXCEPT ![c] = "stopTiKV"]
  /\ UNCHANGED <<ofd, count, stop, fileVars, procVars, sweepVars>>

(***************************************************************************)
(* teardown: process.stop for every server, then directory, record, lock   *)
(***************************************************************************)
Stopped(c, k) == srv[c][k] = "off" \/ stop[c][k] \in {"ok", "err"}

\* The stores in parallel, then PD.
MayStop(c, k) ==
  \/ opc[c] = "stopTiKV" /\ k # 0
  \/ opc[c] = "stopPD" /\ k = 0

\* The write end closes with nothing written: the watchdog's read sees EOF.
\* (As a mutant of standDown: a stop that forgets the line.)
EndOfFile(d) == IF d = "armed" THEN "eof" ELSE d

\* The line is read before EOF and the watchdog exits.
standDown(d) == IF d = "armed" THEN "gone" ELSE d

\* The server is known to have exited: no signal, only the line.
StopExited(c, k) ==
  /\ MayStop(c, k) /\ stop[c][k] = "no" /\ srv[c][k] = "down"
  /\ stop' = [stop EXCEPT ![c][k] = "ok"]
  /\ dog' = [dog EXCEPT ![c][k] = standDown(@)]
  /\ UNCHANGED <<opc, ofd, count, fileVars, srv, sweepVars>>

\* SIGTERM to the group takes the watchdog; the server may take its time.
\* (An exit that cmd.Wait has not reported yet is signalled all the same.)
StopTerm(c, k) ==
  /\ MayStop(c, k) /\ stop[c][k] = "no" /\ (Alive(c, k) \/ DogAlive(c, k))
  /\ stop' = [stop EXCEPT ![c][k] = "termed"]
  /\ dog' = [dog EXCEPT ![c][k] = IF DogAlive(c, k) THEN "gone" ELSE @]
  /\ UNCHANGED <<opc, ofd, count, fileVars, srv, sweepVars>>

\* done is closed within the timeout.
StopReaped(c, k) ==
  /\ MayStop(c, k) /\ stop[c][k] \in {"termed", "killed"} /\ srv[c][k] = "down"
  /\ stop' = [stop EXCEPT ![c][k] = "ok"]
  /\ UNCHANGED <<opc, ofd, count, fileVars, procVars, sweepVars>>

\* The timeout passes first: SIGKILL.
StopKill(c, k) ==
  /\ MayStop(c, k) /\ stop[c][k] = "termed" /\ Alive(c, k)
  /\ stop' = [stop EXCEPT ![c][k] = "killed"]
  /\ srv' = [srv EXCEPT ![c][k] = "doomed"]
  /\ UNCHANGED <<opc, ofd, count, fileVars, dog, sweepVars>>

\* A signal finds nobody while done is still open, or the server outlives
\* SIGKILL by the timeout (it is stuck in the kernel).
StopErrs(c, k) ==
  /\ MayStop(c, k)
  /\ \/ stop[c][k] = "no" /\ srv[c][k] = "down" /\ ~DogAlive(c, k)
     \/ stop[c][k] = "termed" /\ srv[c][k] = "down"
     \/ stop[c][k] = "killed" /\ Alive(c, k)
  /\ stop' = [stop EXCEPT ![c][k] = "err"]
  /\ UNCHANGED <<opc, ofd, count, fileVars, procVars, sweepVars>>

\* stopping.Wait()
StoresStopped(c) ==
  /\ opc[c] = "stopTiKV"
  /\ \A k \in Servers \ {0} : Stopped(c, k)
  /\ opc' = [opc EXCEPT ![c] = "stopPD"]
  /\ UNCHANGED <<ofd, count, stop, fileVars, procVars, sweepVars>>

\* The directory, if it is the library's; then close or abandon.
ClearDataPath(c) ==
  /\ opc[c] = "stopPD" /\ Stopped(c, 0)
  /\ \E rest \in IF c \in CallerOwned THEN {dir[c]} ELSE Remains(c) :
       /\ dir' = [dir EXCEPT ![c] = rest]
       /\ opc' = [opc EXCEPT ![c] =
            IF \/ \E k \in Servers : stop[c][k] = "err"
               \/ c \notin CallerOwned /\ rest # "none"
            THEN "abandoning" ELSE "releasing"]
  /\ UNCHANGED <<ofd, count, stop, lockAt, record, procVars, sweepVars>>

\* record.abandon(): the lock goes, the record stays.
abandon(c) ==
  /\ opc[c] = "abandoning"
  /\ opc' = [opc EXCEPT ![c] = "done"]
  /\ ofd' = [ofd EXCEPT ![c] = NoFile]
  /\ UNCHANGED <<count, stop, fileVars, procVars, sweepVars>>

\* record.close(): unlock, remove the record, remove the lock file.
CloseRelease(c) ==
  /\ opc[c] = "releasing"
  /\ opc' = [opc EXCEPT ![c] = "released"]
  /\ ofd' = [ofd EXCEPT ![c] = NoFile]
  /\ UNCHANGED <<count, stop, fileVars, procVars, sweepVars>>

CloseRecord(c) ==
  /\ opc[c] = "released"
  /\ opc' = [opc EXCEPT ![c] = "unrecorded"]
  /\ record' = [record EXCEPT ![c] = NoRecord]
  /\ UNCHANGED <<ofd, count, stop, lockAt, dir, procVars, sweepVars>>

CloseLock(c) ==
  /\ opc[c] = "unrecorded"
  /\ opc' = [opc EXCEPT ![c] = "done"]
  /\ lockAt' = [lockAt EXCEPT ![c] = NoFile]
  /\ UNCHANGED <<ofd, count, stop, record, dir, procVars, sweepVars>>

(***************************************************************************)
(* Deaths, exits, watchdogs                                                *)
(***************************************************************************)
\* The owner's process ends without Stop: the kernel drops its lock and
\* closes the pipes.
OwnerDies(c) ==
  /\ opc[c] \notin {"init", "done", "dead"}
  /\ opc' = [opc EXCEPT ![c] = "dead"]
  /\ ofd' = [ofd EXCEPT ![c] = NoFile]
  /\ dog' = [dog EXCEPT ![c] = [k \in Servers |-> EndOfFile(dog[c][k])]]
  /\ UNCHANGED <<count, stop, fileVars, srv, sweepVars>>

ServerExits(c, k) ==
  /\ Alive(c, k)
  /\ srv' = [srv EXCEPT ![c][k] = "down"]
  /\ UNCHANGED <<ownerVars, fileVars, dog, sweepVars>>

\* Mutant: "kill -9 0" comes first and takes the watchdog too.
DogKillsGroup(c, k) ==
  /\ dog[c][k] = "eof"
  /\ srv' = [srv EXCEPT ![c][k] = IF @ = "up" THEN "doomed" ELSE @]
  /\ dog' = [dog EXCEPT ![c][k] = "gone"]
  /\ UNCHANGED <<ownerVars, fileVars, sweepVars>>

\* Mutant: the script goes on without having killed its server.
DogSparesServer(c, k) ==
  /\ dog[c][k] = "eof"
  /\ dog' = [dog EXCEPT ![c][k] = "rmdir"]
  /\ UNCHANGED <<ownerVars, fileVars, srv, sweepVars>>

\* watchdogScript after EOF: kill the server, then rm the directory ...
DogKills(c, k) ==
  /\ dog[c][k] = "eof"
  /\ srv' = [srv EXCEPT ![c][k] = IF @ = "up" THEN "doomed" ELSE @]
  /\ dog' = [dog EXCEPT ![c][k] = "rmdir"]
  /\ UNCHANGED <<ownerVars, fileVars, sweepVars>>

DogRemovesDir(c, k) ==
  /\ dog[c][k] = "rmdir"
  /\ \E rest \in IF c \in CallerOwned THEN {dir[c]} ELSE Remains(c) :
       dir' = [dir EXCEPT ![c] = rest]
  /\ dog' = [dog EXCEPT ![c][k] = "rmrec"]
  /\ UNCHANGED <<ownerVars, lockAt, record, srv, sweepVars>>

\* ... then the record, then the lock, then the group, itself included.
DogRemovesRecord(c, k) ==
  /\ dog[c][k] = "rmrec"
  /\ record' = [record EXCEPT ![c] = NoRecord]
  /\ dog' = [dog EXCEPT ![c][k] = "rmlock"]
  /\ UNCHANGED <<ownerVars, lockAt, dir, srv, sweepVars>>

DogRemovesLock(c, k) ==
  /\ dog[c][k] = "rmlock"
  /\ lockAt' = [lockAt EXCEPT ![c] = NoFile]
  /\ dog' = [dog EXCEPT ![c][k] = "gone"]
  /\ UNCHANGED <<ownerVars, record, dir, srv, sweepVars>>

\* orphanGracePeriod passes over the directory.  Not while startOnce works:
\* StartTimeout (two minutes by default) is shorter.
Age(c) ==
  /\ dir[c] = "young"
  /\ opc[c] \notin {"prepared", "starting", "spawned"}
  /\ dir' = [dir EXCEPT ![c] = "old"]
  /\ UNCHANGED <<ownerVars, lockAt, record, procVars, sweepVars>>

\* The machine stops, with every process, and the rename outlived the data.
Damage(c) ==
  /\ opc[c] = "dead" /\ record[c].on /\ ~record[c].bad
  /\ \A d \in Clusters : /\ opc[d] \in {"init", "done", "dead"}
                       /\ \A k \in Servers : ~Alive(d, k) /\ ~DogAlive(d, k)
  /\ \A s \in Sweepers : spc[s] = "idle"
  /\ record' = [record EXCEPT ![c] = [on |-> TRUE, bad |-> TRUE, path |-> FALSE, n |-> 0]]
  /\ UNCHANGED <<ownerVars, lockAt, dir, procVars, sweepVars>>

(***************************************************************************)
(* CleanOrphans: three passes, one directory listing each                  *)
(***************************************************************************)
Goto(s, l) == spc' = [spc EXCEPT ![s] = l]

\* Return from the entry at hand; a lock that is held is released.
Leave(s) ==
  /\ Goto(s, "next")
  /\ cur' = [cur EXCEPT ![s] = None]
  /\ sfd' = [sfd EXCEPT ![s] = NoFile]
  /\ seen' = [seen EXCEPT ![s] = NoContents]

\* What ReadDir shows: *.json and *.lock of this registry, embedded-tikv-*
\* of the temporary directory, which all registries share, whoever chose the
\* name.
Listing(p) ==
  CASE p = 1 -> {c \in Clusters \ Elsewhere : record[c].on}
    [] p = 2 -> {c \in (Clusters \ CallerOwned) \cup Named : dir[c] # "none"}
    [] p = 3 -> {c \in Clusters \ Elsewhere : lockAt[c] # NoFile}

\* Does the entry lead to files of this registry?  The second pass makes the
\* id from the directory's name, and a caller's name is not the id of its
\* cluster.
Here(s, c) == c \notin Elsewhere /\ (pass[s] = 2 => c \notin CallerOwned)

\* Does stat find c's record, and its lock file, there?
RecordThere(s, c) == Here(s, c) /\ record[c].on
LockThere(s, c) == Here(s, c) /\ lockAt[c] # NoFile

BeginPass(s, p) ==
  /\ IF p = 1 THEN spc[s] = "idle"
              ELSE spc[s] = "next" /\ todo[s] = {} /\ pass[s] = p - 1
  /\ pass' = [pass EXCEPT ![s] = p]
  /\ todo' = [todo EXCEPT ![s] = Listing(p)]
  /\ Goto(s, "next")
  /\ UNCHANGED <<ownerVars, fileVars, procVars, entryVars, deaths>>

EndSweep(s) ==
  /\ spc[s] = "next" /\ todo[s] = {} /\ pass[s] = 3
  /\ Goto(s, "idle")
  /\ UNCHANGED <<ownerVars, fileVars, procVars, pass, todo, entryVars, deaths>>

\* The next entry; passes 2 and 3 stat its record first and leave it to
\* pass 1 if there is one.
NextEntry(s, c) ==
  /\ spc[s] = "next" /\ c \in todo[s]
  /\ todo' = [todo EXCEPT ![s] = @ \ {c}]
  /\ IF pass[s] # 1 /\ RecordThere(s, c)
     THEN UNCHANGED <<spc, cur>>
     ELSE /\ cur' = [cur EXCEPT ![s] = c]
          /\ Goto(s, IF pass[s] = 2 THEN "statlock" ELSE "open")
  /\ UNCHANGED <<ownerVars, fileVars, procVars, pass, sfd, seen, deaths>>

\* Pass 2: with a lock file the lock decides; without, age and the process
\* table do.
StatLock(s) ==
  LET c == cur[s] IN
  /\ spc[s] = "statlock"
  /\ \/ LockThere(s, c) /\ Goto(s, "open") /\ UNCHANGED entryVars
     \/ ~LockThere(s, c) /\ dir[c] = "old" /\ Goto(s, "used") /\ UNCHANGED entryVars
     \/ ~LockThere(s, c) /\ dir[c] # "old" /\ Leave(s)
  /\ UNCHANGED <<ownerVars, fileVars, procVars, pass, todo, deaths>>

CheckUsed(s) ==
  /\ spc[s] = "used"
  /\ IF usedByLiveProcess(cur[s])
     THEN Leave(s) ELSE Goto(s, "killdir") /\ UNCHANGED entryVars
  /\ UNCHANGED <<ownerVars, fileVars, procVars, pass, todo, deaths>>

\* acquireFileLock(_, false, false): never creates the file ...
OpenProbe(s) ==
  LET c == cur[s] IN
  /\ spc[s] = "open"
  /\ IF LockThere(s, c)
     THEN /\ sfd' = [sfd EXCEPT ![s] = lockAt[c]]
          /\ Goto(s, "flock")
          /\ UNCHANGED <<cur, seen>>
     ELSE Leave(s)
  /\ UNCHANGED <<ownerVars, fileVars, procVars, pass, todo, deaths>>

\* ... and never waits.
FlockProbe(s) ==
  /\ spc[s] = "flock"
  /\ IF Held(cur[s], sfd[s])
     THEN Leave(s) ELSE Goto(s, "locked") /\ UNCHANGED entryVars
  /\ UNCHANGED <<ownerVars, fileVars, procVars, pass, todo, deaths>>

\* reclaimRecord, lock in hand, reads the record.
ReadRecord(s) ==
  LET c == cur[s] IN
  /\ spc[s] = "locked" /\ pass[s] = 1
  /\ \/ ~record[c].on /\ Leave(s)
     \/ record[c].on /\ record[c].bad /\ Goto(s, "rmrec") /\ UNCHANGED entryVars
     \/ /\ record[c].on /\ ~record[c].bad
        /\ seen' = [seen EXCEPT ![s] = [path |-> record[c].path, n |-> record[c].n]]
        /\ Goto(s, "kill")
        /\ UNCHANGED <<cur, sfd>>
  /\ UNCHANGED <<ownerVars, fileVars, procVars, pass, todo, deaths>>

\* Passes 2 and 3 only wanted to know: the lock is released at once.
ReleaseProbe(s) ==
  /\ spc[s] = "locked" /\ pass[s] # 1
  /\ sfd' = [sfd EXCEPT ![s] = NoFile]
  /\ Goto(s, IF pass[s] = 2 THEN "killdir" ELSE "rmlock")
  /\ UNCHANGED <<ownerVars, fileVars, procVars, pass, todo, cur, seen, deaths>>

\* Would process <<d, j>>, found under the PID recorded for server k of c,
\* pass for that server?
processIsServer(c, k, d, j) == (k = 0) = (j = 0) /\ cmdlineReferences(d, c)

\* Mutant: the recorded PIDs are all there is to kill.
RecordedOnly(s) == "rmrec"

\* Mutant: whose directory it is does not matter.
AnyDirectory(s) == IF seen[s].path THEN "killdir" ELSE "rmrec"

\* Sweeping by directory, and removing it, is for the library's own.
AfterKill(s) ==
  IF seen[s].path /\ cur[s] \notin CallerOwned THEN "killdir" ELSE "rmrec"

\* The recorded PIDs: a server that still runs has its own; the PID of one
\* that is gone may belong to any other process by now, or to none.
KillRecorded(s) ==
  LET c == cur[s]
      recorded == IF seen[s].path THEN {k \in Servers : k < seen[s].n} ELSE {}
      own == {<<c, k>> : k \in {i \in recorded : Alive(c, i)}}
      strangers == {p \in (Clusters \ {c}) \X Servers :
                      /\ Alive(p[1], p[2])
                      /\ \E k \in recorded : /\ ~Alive(c, k)
                                            /\ processIsServer(c, k, p[1], p[2])}
  IN
  /\ spc[s] = "kill"
  /\ \E recycled \in SUBSET strangers : signalGroups(own \cup recycled)
  /\ Goto(s, AfterKill(s))
  /\ UNCHANGED <<ownerVars, fileVars, pass, todo, entryVars, deaths>>

killProcessesUsing(s) ==
  /\ spc[s] = "killdir"
  /\ signalGroups({p \in Processes : cmdlineReferences(p[1], cur[s])})
  /\ Goto(s, "rmdir")
  /\ UNCHANGED <<ownerVars, fileVars, pass, todo, entryVars, deaths>>

\* The error of RemoveAll is ignored.
RemoveDataPath(s) ==
  /\ spc[s] = "rmdir"
  /\ \E rest \in Remains(cur[s]) : dir' = [dir EXCEPT ![cur[s]] = rest]
  /\ Goto(s, IF pass[s] = 1 THEN "rmrec" ELSE "rmlock")
  /\ UNCHANGED <<ownerVars, lockAt, record, procVars, pass, todo, entryVars, deaths>>

RemoveRecord(s) ==
  /\ spc[s] = "rmrec"
  /\ record' = [record EXCEPT ![cur[s]] = NoRecord]
  /\ Goto(s, "rmlock")
  /\ UNCHANGED <<ownerVars, lockAt, dir, procVars, pass, todo, entryVars, deaths>>

\* Mutant: the lock file is left behind.
LockLeft(s) ==
  /\ spc[s] = "rmlock"
  /\ Leave(s)
  /\ UNCHANGED <<ownerVars, fileVars, procVars, pass, todo, deaths>>

\* The last step of an entry in every pass, on the path of this registry.
RemoveLock(s) ==
  LET c == cur[s] IN
  /\ spc[s] = "rmlock"
  /\ lockAt' = [lockAt EXCEPT ![c] = IF Here(s, c) THEN NoFile ELSE @]
  /\ Leave(s)
  /\ UNCHANGED <<ownerVars, record, dir, procVars, pass, todo, deaths>>

\* The sweeping process dies between two of those steps.
SweeperDies(s) ==
  /\ spc[s] # "idle" /\ deaths < MaxSweepDeaths
  /\ deaths' = deaths + 1
  /\ spc' = [spc EXCEPT ![s] = "idle"]
  /\ todo' = [todo EXCEPT ![s] = {}]
  /\ cur' = [cur EXCEPT ![s] = None]
  /\ sfd' = [sfd EXCEPT ![s] = NoFile]
  /\ seen' = [seen EXCEPT ![s] = NoContents]
  /\ UNCHANGED <<ownerVars, fileVars, procVars, pass>>

(***************************************************************************)
(* The system                                                              *)
(***************************************************************************)
OwnerStep(c) ==
  \/ CreateLock(c) \/ OpenLock(c) \/ AcquireFails(c) \/ Lock(c)
  \/ SaveRecord(c) \/ SaveFails(c) \/ Finalize(c)
  \/ prepareDataPath(c) \/ setDataPath(c) \/ startProcess(c) \/ addServer(c)
  \/ Started(c) \/ BeginTeardown(c) \/ StoresStopped(c) \/ ClearDataPath(c)
  \/ abandon(c) \/ CloseRelease(c) \/ CloseRecord(c) \/ CloseLock(c)

StopStep(c, k) ==
  \/ StopExited(c, k) \/ StopTerm(c, k) \/ StopReaped(c, k)
  \/ StopKill(c, k) \/ StopErrs(c, k)

DogStep(c, k) ==
  \/ DogKills(c, k) \/ DogRemovesDir(c, k)
  \/ DogRemovesRecord(c, k) \/ DogRemovesLock(c, k)

SweepStep(s) ==
  \/ \E p \in 1..3 : BeginPass(s, p)
  \/ \E c \in Clusters : NextEntry(s, c)
  \/ EndSweep(s) \/ StatLock(s) \/ CheckUsed(s) \/ OpenProbe(s) \/ FlockProbe(s)
  \/ ReadRecord(s) \/ ReleaseProbe(s) \/ KillRecorded(s) \/ killProcessesUsing(s)
  \/ RemoveDataPath(s) \/ RemoveRecord(s) \/ RemoveLock(s)

Next ==
  \/ \E c \in Clusters : OwnerStep(c) \/ OwnerDies(c) \/ Age(c) \/ Damage(c)
  \/ \E c \in Clusters, k \in Servers :
       StopStep(c, k) \/ DogStep(c, k) \/ ServerExits(c, k)
  \/ \E s \in Sweepers : SweepStep(s) \/ SweeperDies(s)

Spec == Init /\ [][Next]_vars

\* Sweeps go on (every Start and Stop runs one), watchdogs and the kernel do
\* their part, time passes.  Nothing makes an owner go on, a server exit by
\* itself or anybody die.
Fairness ==
  /\ \A s \in Sweepers : WF_vars(SweepStep(s))
  /\ \A c \in Clusters :
       /\ WF_vars(Age(c))
       /\ \A k \in Servers : /\ WF_vars(DogStep(c, k))
                            /\ WF_vars(srv[c][k] = "doomed" /\ ServerExits(c, k))

FairSpec == Spec /\ Fairness

(***************************************************************************)
(* Properties                                                              *)
(***************************************************************************)
\* From the record's first save to the last process.stop, c is live.
Protected(c) ==
  opc[c] \in {"recorded", "prepared", "starting", "spawned", "running",
             "stopTiKV", "stopPD"}

\* What nobody but its owner may do to a live cluster: remove its record,
\* kill a server, dismiss a watchdog or wake it, remove the data directory
\* (which another registry may do once no process uses it).
Untouched(c) ==
  /\ record'[c].on
  /\ \A k \in Servers :
       /\ srv[c][k] = "up" /\ srv'[c][k] = "doomed" => stop'[c][k] = "killed"
       /\ dog[c][k] = "armed" /\ dog'[c][k] # "armed" => stop'[c][k] # "no"
       /\ dog[c][k] # "eof" => dog'[c][k] # "eof"
  /\ dir[c] # "none" /\ dir'[c] = "none" =>
       c \in Elsewhere /\ \A k \in Servers : ~Alive(c, k)

\* CleanOrphans "will not touch a live cluster": no step of a sweep, of a
\* watchdog or of another cluster's owner does any of that to one.  Except
\* where the caller gave its directory a name the second pass goes by: it
\* knows neither record nor lock of such a cluster.
LiveClusterUntouched ==
  [][\A c \in Clusters \ Named :
       Protected(c) /\ Protected(c)' => Untouched(c)]_vars

\* A caller-supplied DataPath belongs to the caller: teardown, watchdogs and
\* sweeps leave it in place (watchdogCleanupPaths, reclaimRecord, teardown),
\* unless its name is one the second pass goes by.
CallerDirKept == \A c \in CallerOwned \ Named : dir[c] # "none"

\* Can some sweep of c's registry still find the server <<c, k>>?
Findable(c, k) ==
  \/ /\ record[c].on /\ ~record[c].bad /\ lockAt[c] # NoFile
     /\ c \in CallerOwned => record[c].path /\ k < record[c].n
  \/ c \notin CallerOwned /\ ~record[c].on /\ dir[c] # "none" /\ lockAt[c] # NoFile

\* A record without its lock file: reclaimRecord and sweepDataDirectories
\* both pass over it, for ever.
Stranded(c) == record[c].on /\ lockAt[c] = NoFile

\* The instant between startProcess and addServer, under a caller's path.
Unrecorded(c, k) == c \in CallerOwned /\ count[c] <= k

\* A server that outlives its owner is either watched or within reach of a
\* later sweep: teardown keeps the record of what it could not stop, pass 1
\* deletes a record only after the kill, watchdogs kill before they remove.
OrphanWithinReach ==
  \A c \in Clusters, k \in Servers :
    /\ opc[c] \in {"released", "unrecorded", "done", "dead"}
    /\ srv[c][k] = "up" /\ ~DogAlive(c, k)
    => Findable(c, k) \/ Stranded(c) \/ Unrecorded(c, k)

\* Where there are watchdogs this is all that can go wrong: process.stop has
\* dismissed a server's watchdog, the owner dies before the server is down, and
\* the watchdogs of the others remove the record.  Every other server is
\* watched or within reach: a watchdog kills before it removes anything, and
\* goes with its server when a sweep signals the group.
DiedStopping(c, k) == HaveShell /\ opc[c] = "dead" /\ stop[c][k] # "no"

WatchedOrWithinReach ==
  \A c \in Clusters, k \in Servers :
    /\ opc[c] \in {"released", "unrecorded", "done", "dead"}
    /\ srv[c][k] = "up" /\ ~DogAlive(c, k) /\ ~DiedStopping(c, k)
    => Findable(c, k) \/ Stranded(c) \/ Unrecorded(c, k)

\* reclaimRecord holds the lock to its end: no two sweeps reclaim the same
\* record at a time, whichever inodes they have open.
ReclaimExclusive ==
  \A s, t \in Sweepers :
    /\ pass[s] = 1 /\ pass[t] = 1 /\ cur[s] = cur[t]
    /\ SweeperHolds(s) /\ SweeperHolds(t)
    => s = t

Reclaimed(c) ==
  /\ ~record[c].on /\ lockAt[c] = NoFile
  /\ c \in CallerOwned \/ dir[c] = "none"
  /\ \A k \in Servers : Alive(c, k) => Unrecorded(c, k)

\* However an owner ends - killed at any step, or leaving a lock, a record or
\* a directory behind - repeated sweeps clear all of it in the end, though
\* sweeps die half way, collide, and race servers that are slow to die.
OrphanReclaimed ==
  \A c \in Clusters \ Elsewhere :
    opc[c] \in {"done", "dead"} ~> Reclaimed(c) \/ Stranded(c)

\* All of c's servers have their watchdog at the moment the owner dies.
AllWatched(c) ==
  /\ opc[c] = "dead" /\ \E k \in Servers : srv[c][k] # "off"
  /\ \A k \in Servers : srv[c][k] # "off" => DogAlive(c, k)

\* The watchdogs, with no sweep of their registry, end every server of a dead
\* owner and remove record and lock, however their scripts interleave and
\* whatever the sweeps of other registries do.
WatchdogsReclaim ==
  \A c \in Clusters :
    AllWatched(c) ~> /\ ~record[c].on /\ lockAt[c] = NoFile
                     /\ \A k \in Servers : ~Alive(c, k)

\* openRecord: "neither a record nor a data directory is ever visible without
\* a held lock behind it".
LockBehindRecord ==
  \A c \in Clusters :
    OwnerHolds(c) /\ record[c].on => lockAt[c] = ofd[c]
=============================================================================
