# Specifications of embedded-tikv

TLA+ models of the parts of embedded-tikv where several processes meet: the
registry of running clusters and the sweep that reclaims abandoned ones, the
watchdog shells, the cache of downloaded binaries, the start of clusters on
ports that nobody has promised them, and the `Cluster` value that goroutines share;
and the two sequential parts that compute something, settings and version order. TLC checks
the models on small instances, TLAPS proves the safety properties for every instance.

## 1. The system

| Part | State | Operations | Meets others through |
|---|---|---|---|
| Registry (`registry.go`, `lock.go`) | per cluster: lock file, record, data directory | `openRecord`, `setDataPath`, `addServer`, `close`, `abandon` | files that every process of the machine sees |
| Orphan sweep (`CleanOrphans`) | a directory listing, one lock, one record read | three passes: records, data directories, stale locks | the same files, the process table, `SIGKILL` |
| Server processes (`process.go`, `signal.go`) | the process, its `done` channel, its pipe | `startProcess`, `stop`, `standDown` | signals to the process group, the watchdog's pipe |
| Watchdogs (`watchdog.go`) | a shell per server, blocked on a pipe | kill the server, remove directory, record, lock | EOF when the owner dies, a line when it does not |
| Process inspection (`procinfo.go`) | none | which processes name a directory | `/proc` or `ps` |
| Lifecycle (`embedded_tikv.go`) | a mutex, `started`, the attempt, the servers, the record, the data path | `Start`, `startOnce`, `aliveGuard`, `teardown`, `Stop`, `Endpoints`, `ClientURLs`, `StoreAddrs`, `DataPath` | goroutines that share the value; everything above |
| Readiness (`pd.go`, `tikv.go`) | none | `waitPDReady`, `waitStoresUp`, `poll` | HTTP to whoever listens on a port |
| Ports (`ports.go`) | a table of reservations per process | `freePort`, `reservePort` | the kernel's choice of port, all programs |
| Binary cache (`binaries.go`) | two executables per version, temporary files, a lock | `resolveBinaries`, `resolve`, `download` | a file lock between processes, the mirror |
| Settings (`toml.go`, `config.go`) | none | `mergeConfig`, `nestConfig`, the defaults of `pd.go` and `tikv.go` | maps the caller keeps |

What is hard about it: any process can die between any two system calls; `flock`
excludes by inode while files are found by path; a sweep acts on what it looked at
earlier; watchdogs of one cluster clean up for all of it; a port is free when it
is chosen and taken when it is bound; a PID or a path can have found a new owner.
`PROJECT.json` lists these hazards at the lines where they bite.

What makes the parts correct:

- a live cluster is touched by its owner only;
- a server that outlives its owner is watched or can be found, and everything an
  owner leaves behind is cleared in the end;
- a caller's directory is never removed;
- the cache never shows an incomplete or altered executable and downloads it once;
- a port that a server has still to bind is handed to nobody else, and `Start` succeeds
  only on servers of its own;
- calls on one `Cluster` value are atomic and return, whatever overlaps or fails;
- an attempt works on its own data, and whatever its teardown could not stop or
  remove is left under a record for a sweep to find;
- a config file says what the caller meant, or `Start` names the key at fault.

## 2. The modules

| Module | What it is |
|---|---|
| `Registry` | owners, servers, watchdogs and sweeps over one set of files |
| `MCRegistry` | its instances; `OrphanInit`, a start from an abandoned cluster |
| `RegistryProofs` | `TypeCorrect`, `LiveSafe` |
| `RegistryReachProofs` | `ReclaimsExclude`, `CallersDirectoryStays`, `OrphansWatchedOrReached`, `OrphansWithinReach` |
| `BinaryStore` | abstract specification: executables appear whole, once; callers get paths when all are there |
| `BinaryCache` | `resolveBinaries` by many processes, with failures and deaths |
| `Versions` | extends `BinaryCache` by what a failing `resolve` suggests: `compareVersions` and `recentVersions`, as operators |
| `MCBinaryCache` | instances of both |
| `BinaryCacheProofs` | `CacheTypeCorrect`, `SingleDownload`, `CacheImplementsStore` |
| `VersionsProofs` | `CompareIsNumeric`, `NewestSuggested` |
| `Startup` | the retry loop, the port table, the two waits, `aliveGuard` |
| `MCStartup` | its instances |
| `StartupProofs` | `StartupTypeCorrect`, `PortsHandedOnce`, `StartsOnItsOwn` |
| `ClusterHandle` | abstract specification: every call on a `Cluster` value takes effect at one instant |
| `Cluster` | the mutex, the retry loop, teardown with its failures, what attempts leave behind |
| `ClusterProofs` | `ClusterTypeCorrect`, `HandleAtomic` |
| `ClusterRestProofs` | `NothingIsLost`, `NoInheritedData` |
| `MCCluster` | instances of `Cluster` |
| `Settings` | the loop of `nestConfig` over the merged defaults and overrides, and what is written |
| `MCSettings` | its instances |
| `SettingsProofs` | `SettingsRight` |

### Registry

One element of `Clusters` is one identity claimed by `openRecord`, so one attempt
of `Start`. The owner's position `opc` runs through `openRecord` (`CreateLock`,
`OpenLock`, `Lock`, `SaveRecord`), `startOnce` (`prepareDataPath`, `setDataPath`,
then `startProcess` and `addServer` per server), `Started`, and `teardown`
(`BeginTeardown`, the `Stop...` actions of `process.stop` for each server,
`ClearDataPath`, then `abandon` or the three steps of `close`). A step is one
system call, or a few that nothing can separate.

Files: `lockAt` is the inode the lock path names (a removed lock file that is
opened again with `O_CREATE` is inode 2), `record` says whether the record is
there, readable, whether it has a data path and how many servers, `dir` is the
directory by age. Processes: `srv` and `dog`; `doomed` is a process with `SIGKILL`
pending, which can take its time and keep `RemoveAll` from finishing (`Remains`).
A sweep has a pass, a listing taken when the pass begins, a current entry, an open
inode and what it has read; `Held` is `flock`.

Command lines are abstracted to the relation `cmdlineReferences`: the cluster
itself, and what `SharedPath` adds, which is possible for a caller's path only.
`PrefixPath` lists paths that contain another cluster's path, without a separator after
it; the code's trailing separator makes it irrelevant, the mutant without it does not. A
recorded PID that is free again may belong to any live process (`KillRecorded`).

A listing is what the pass reads: records, the directories in `$TMPDIR` that are called
`embedded-tikv-*`, lock files. The second one has every directory of the library's own and,
because the pass goes by the name only, the callers' directories that are called so
(`Named`); the id it reads off such a name leads to no record and no lock (`Here`).

`Age` is disabled during `startOnce`: the default `StartTimeout` of two minutes is
shorter than `orphanGracePeriod`, five minutes. A caller who sets a longer one
gives that protection away.

### BinaryCache

A call with a directory of its own (`Supplied`) looks there and nowhere else, one on
an `Unsupported` platform fails. Any other stats both executables, waits for the lock,
stats again under it (`NextComponent`), and takes each missing one through the manifests
(`ResolveEntry`), fetch, extract, drain, verify, chmod and rename. `Lock` is a blocking
`flock`: while somebody holds the lock a waiter can do nothing but die. That the lock file
cannot be opened or locked is an action of its own, `LockFails`.
A body arrives whole as published, or not (`intact`); what was extracted is good or
bad; a whole body implies a good entry. Any step may fail, any process may die.
`ImplementsStore` maps `store` to the files with good contents and `using` to the
calls that have returned paths.

### Startup

Time goes in ticks of a minute. Allocation takes no time, and a poll (every 100 ms)
comes before the next tick. Of the two ports of each server the model keeps the
client's or service port; losing the other one is a `Crash`. `reserved` holds, per
process, the age of a port's reservation; an entry older than the TTL, which
`reservePort` deletes before it looks, is the same as none. A store registers with
the PD that answers at the address it was given, whichever cluster's that is
(`joined`). `Tee` says that a Logger is set and there is a shell: then `cmd.Wait`
does not return when the server exits, since the watchdog holds the output pipe.
`teardown` is one step here; its own steps are Registry's. `late` is a history variable: the
processes in which some `Start` has taken longer than a reservation lasts.

### Cluster

The holder of `c.mu` is at the point `at` of its call; everybody else is between
calls or waits in `Lock`. The fields of the handle are variables of the same names.
`alive` has a pair for each server process of each identity that `openRecord` has
claimed; `rec` is the identity's record (held, closed, kept by `abandon`, reclaimed
by a sweep) and `listed` the servers it names; `wrote` says which server's part of
which directory holds data of which identity. Every step of `startOnce` may fail,
with an error that reads as a port conflict or not; a server may fail to stop; the
directory may fail to go; `RemoveAll` in `prepareDataPath` may stop half way.
Teardown's error decides between `abandon` and `close`; `start` drops it, `Stop`
returns it. Other processes' sweeps happen at any time. A sweep kills what it finds, and
removes what it can: `reclaimRecord` does not look at the error of `RemoveAll`, so the record
goes all the same, and what is left of the directory is a later sweep's second pass's.

The three state machines share this code at different grains: here a sweep and the
claiming of a record are one step and the owner does not die, in Registry they are
system calls and it does, in Startup ports and time decide how the waits end.

`ImplementsHandle` maps `up` to the identity of the cluster while `started`, and
until `Stop` has swept, which is when its call returns.

### Settings and Versions

A key is the sequence of its segments, a value its origin (default, override), nil,
or a nested map of the caller's (`"table"`, with a value under each segment in `Inner`).
`Init` picks the defaults of a server (`startPD`, `startTiKV`) and the caller's overrides;
`NestKey` is one pass of the loop of `nestConfig`, at the least key of `rest`. `tree` is the
root with all its tables, a function from paths; a caller's map is taken into it as it is,
with its contents. An error ends the loop and leaves what the pass had begun (`Begun`).
`SettingsWritten` compares the outcome with `Meant`, what the caller says, and with
`Faulty`, the keys that must be reported.

A version is its fields, a field its digits. `slices.SortFunc` is modelled by its outcome,
a sequence that ascends by `compareVersions`. `NewestListed` compares with the order of
the numbers and is stated where the code gets there, at a failed `resolve`, over all
manifests of the instance.

## 3. The runs

| Run | Instance | States | Shows |
|---|---|---|---|
| `RegistryWatched` | 1 cluster, 1 store, watchdogs, 2 sweeps | 1.65 M | `TypeOK`, `ReclaimExclusive`, `WatchedOrWithinReach`, `LiveClusterUntouched` |
| `RegistrySwept` | no shell, 2 stores, 1 sweep, which may die | 358 k | `OrphanWithinReach`, `OrphanReclaimed` |
| `RegistryNeighbour` | two callers' directories, an orphan's called `embedded-tikv-1` and a starting cluster's whose path contains it; a sweep may die | 2.2 M | `LiveClusterUntouched`, `CallerDirKept`, `OrphanWithinReach` |
| `RegistryElsewhere` | the cluster is in another registry, watchdogs, 2 stores | 335 k | `LiveClusterUntouched`, `WatchdogsReclaim` |
| `BinaryCacheCalls` | 5 calls, 1 with a directory, 1 unsupported; manifests of up to 3 versions | 240 k | `TypeOK`, `NoSecondDownload`, `NewestListed`, `ImplementsStore`, `EveryCallEnds` |
| `StartupOneProcess` | 2 clusters, 4 ports, 1 taken (symmetric), `StartTimeout` twice the TTL | 2.6 M | `HandedOnce`, `StartedOnItsOwn` |
| `StartupLiveness` | 1 cluster, 3 attempts | 22 k | `TypeOK`, `EveryStartReturns` |
| `ClusterCalls` | 2 goroutines, 1 store, 2 attempts, 2 identities | 360 k | `TypeOK`, `DataToItself`, `NothingLost`, `ImplementsHandle`, `EveryCallReturns` |
| `SettingsNested` | PD and TiKV, 1 or 3 stores, every choice of up to 3 of 11 overrides | 92 k | `SettingsWritten` |

Three runs end in a violation, where the code and its comments disagree:

- `RegistryLockRace` (`LockBehindRecord`): a sweep probes a lock file between its
  creation and the owner's `flock`, and removes it under the live record. The record
  is then skipped by every sweep (`Stranded`); the passing runs allow for exactly
  that case.
- `RegistryTeardownDeath` (`OrphanWithinReach`): the owner dies during `Stop` after a
  store's group got `SIGTERM`. PD's watchdog removes directory, record and lock; the
  store, if it has not exited, is beyond every sweep. This is why
  `OrphanWithinReach` is checked without a shell. With one, `WatchedOrWithinReach`
  excepts the servers that `process.stop` was at when the owner died
  (`DiedStopping`), and holds of all others.
- `StartupTwoProcesses` (`StartedOnItsOwn`): a cluster that loses PD's port to a
  cluster of another process is answered by that cluster's PD, and `Start` returns
  nil. This is why the passing run has one process.

Other limits of the passing runs, each of which can be seen by changing a constant or
dropping the exception named:

- `OrphanWithinReach` excepts `Unrecorded`: under a caller's path, where sweeping by
  directory does not apply, a death between `startProcess` and `addServer` leaves a
  server in no record, although addServer's comment has "every running process
  accounted for" (`registry.go:138-139`).
- `LiveClusterUntouched` needs `SharedPath = {}`. With `RegistryNeighbour`'s two
  clusters under one caller's path (`CallerOwned = {c1, c2}`,
  `SharedPath <- Prefixed`) a recycled PID makes the sweep of the first one's record
  kill a server of the second, which `registry.go:396-399` rules out.
- `LiveClusterUntouched` and `CallerDirKept` except `Named`: a caller's DataPath
  `$TMPDIR/embedded-tikv-x` looks to the second pass like a directory of the library's own
  without record and lock. Once it is old and no process uses it, it goes: left behind by a
  `Stop`, or under a live cluster that reuses it and has no server yet. `registry.go:424-426`
  has it that "the name is unique and cannot collide with a caller's own directory".
  `RegistryNeighbour` has such a directory and violates `CallerDirKept` without the exception;
  with the living cluster's called so as well (`Named = {c1, c2}`), `LiveClusterUntouched` too.
- `HandedOnce` speaks of a cluster until its own `Start` is `Slow`, `StartedOnItsOwn` of
  a process until some `Start` in it has been (`late`). The defaults allow it: two minutes of
  `StartTimeout` (`config.go:58`), one of `portReservationTTL` (`ports.go:15`), which
  "only needs to outlive the gap between allocating a port and the child process binding
  it" (`ports.go:12-14`). `StartupOneProcess` has that ratio, and violates either property
  without its exception: after a tick more than the TTL, a port that a server has still to
  bind is handed to the other cluster, whose PD may then answer the first one's polls.
- `Tee`: with a Logger, `aliveGuard` does not see a dead server, and `Start` runs
  into its timeout (compare `embedded_tikv.go:269-270`). `StartupLiveness` has it on.
- `DataToItself` excepts attempts whose teardown failed (`Unstopped`): `start` drops
  that error (`embedded_tikv.go:124`), and under a caller's path the retry shares the
  directory with the server that did not stop (compare `embedded_tikv.go:406-407`).
- `NothingLost` excepts `Unlisted`: under a caller's path, a server whose `addServer`
  failed to save and which then did not stop is in no record.
- `SettingsWritten` excepts `Mixed`: `nestConfig` takes a nested map that the caller
  gave as a value for its own table, writes the keys below it into the map, over what it
  holds, and so changes the caller's map. A template with `{"replication": m}` that starts
  one store first leaves `max-replicas` 1 in `m` for a cluster of three (compare
  `config.go:32-33`, `toml.go:29-30`). `SettingsNested` violates `SettingsWritten` without
  the exception.

Bounds. One cluster is enough where clusters share nothing but the listing; the
runs about two begin at `OrphanInit`, every state in which an owner has died with
some servers recorded and running. Two sweeps, in `RegistryWatched`, can overlap in every
pair of steps; without a shell one is run, and the proofs cover any number.
`MaxSweepDeaths` bounds deaths in mid-sweep: one leaves every intermediate state
behind, and the next sweep starts from scratch. `TiKVCount` 1 or 2: PD, a store
and a second store to distinguish first and last. `MaxTries` is 2 for 100,
`StartAttempts` 3 as in the code, `MaxTaken` one foreign listener at a time. With
four ports for two clusters all of them can be reserved, so both outcomes of `freePort`
occur. `StartupOneProcess` has one try and one attempt: to ports, a retry is a failed
`Start` and another one. `RegistryNeighbour` has no shell, which would be more than
TLC can enumerate; that watchdogs leave callers' directories alone is a theorem
(`CallersDirectoryStays`).
`MaxIds` 2 in `ClusterCalls`: a retry, or a second `Start`, meets what the first left
behind; afterwards `openRecord` fails. One goroutine starts, the other makes every
call, so two `Start`s, and a `Stop` or an accessor against a `Start`, overlap in every
way. Three overrides out of eleven keys: a value above, a key below and a malformed
one at the same time. Three versions, two of them suggested, with fields of one and
two digits and of two lengths.

Fairness. Registry: sweeps keep running (each `Start` and `Stop` runs one), shells
and the kernel do what was asked of them, directories age. No owner has to go on,
no server has to exit unless it was killed. BinaryCache: processes run, and take the lock
when it is free; `LockFails` is not fair, so nothing but the holder's `release`, or its
death, ends a wait. A transfer may last for ever, since the fetcher has no deadline, and
`EveryCallEnds` says so; the client that reads manifests has one of 30 seconds.
Startup: a call of `Start` runs on and time passes, however often other calls begin
(strong fairness of `Tick`, which no call can hold up for good); no server has to
come up. Cluster: the holder of the mutex runs, except that a download need not end,
and `sync.Mutex` starves nobody (strong fairness of `Lock`); nobody has to call
anything. Deadlock is checked except where the system may stop: a cache whose calls
have all returned, a cluster without sweeps, the loop of `nestConfig` when it is through.

## 4. The proofs

Every property that the passing runs check is proved for all values of the constants,
except liveness (end of this section). Each invariant below was
an `INVARIANT` of a TLC run on the instances of section 3 before it was proved.

### Registry

For any number of clusters, stores and sweeps, from `RegistryAssumption`. None of the
properties is inductive; all the results build on `LiveInv`, which says
what a sweep may know and hold:

- `LockOK`: the lock path names the owner's inode or nothing, so a sweep that can
  open it meets the owner's lock;
- `FreshAt`: a cluster without a record is on no list of records or, unless `Named`, of
  directories;
- `LiveAt`: at a live cluster a sweep of records stops at `flock`, and a sweep of
  directories does not arrive unless the registry is another;
- `ElsewhereAt`: then it passes the age check after `startOnce` and the process check
  only with no process left;
- `CursorOK`, `DogOK`: where a sweep and a watchdog can be.

`TypeCorrect` and `LiveSafe` (`LiveClusterUntouched`, if `SharedPath` is empty; the
hypothesis and the exception `Named` are needed, section 3) follow from it.

`ReclaimsExclude` (`ReclaimExclusive`) does not follow from `flock` alone: it excludes by
inode, and the path can be removed, and by `openRecord` made again, between the opens of two
sweeps. `OneInode` says why it cannot happen here: a cluster that pass 1 has at hand has had
a record, hence is past `O_CREATE`, hence its lock path only ever goes away; so all
sweeps that have it open have the same inode. `CallersDirectoryStays`
(`CallerDirKept`) needs `SweptDirOK`, that neither pass turns to a caller's
directory that is not `Named`. The two together with `LiveInv` are `SweepInv`.

`OrphansWatchedOrReached` (`WatchedOrWithinReach`) and, for systems without a shell,
`OrphansWithinReach` (`OrphanWithinReach`) rest on `ReachInv`: a server has its watchdog
until `process.stop` begins with it (`WatchedAt`); a readable record has the data path from
before the first server and lists as many servers as were appended, and an unreadable
one means that no process is left (`RecordAt`); `teardown` comes to `close` only past
servers that are down (`StopAt`); and a server that runs loses its record to nobody
but the watchdogs of a dead owner, because the sweep that read the record has
killed all it lists, or all that use the directory, when it comes to remove it
(`KillAt`). The exceptions in the statement are the findings and limits of section 3
(`Stranded`, `DiedStopping`, `Unrecorded`); the theorem says there are no others.

### Binary cache

For any number of calls: `CacheTypeCorrect`, `SingleDownload` and the refinement
`CacheImplementsStore`, all three from `CacheInv` (the lock excludes, components behind
a call's cursor are installed, the one at it is missing, past the check the temporary
file is good).

### Versions

`CompareIsNumeric` and `NewestSuggested` (`NewestListed`) hold for every finite manifest,
versions of any number of fields, fields of any number of digits, and any limit
(`RecentLimit`, 8 in the code). `VersionsAssumption` says that fields are numbers without
leading zeros; without it `compareVersions` is not the order of the numbers.

These are facts about data of any length, so they need induction. It is done by least
counterexample: a set of naturals that is not empty has a least element (`LeastNatural`,
from the well-foundedness of `<`), and `Inductive` turns that into induction over a set.
With it, `Number`'s recursion has a solution, the only one (`NumberCounts`); a field with
more digits is the larger number, and of two of one length the one with the larger first
different digit; so `compareVersions` at the first different field is `Older`, and `Older` is a
strict total order. A finite set has an ascending sequence, since a version can be inserted
into that of the others (`InsertOne`), so the `CHOOSE` of `SortFunc` finds one; its last
`RecentLimit` elements are the newest.


### Cluster

For any number of goroutines, stores, attempts and identities, from `ClusterAssumption`.

`ClusterTypeCorrect` and the refinement `HandleAtomic`: `ClusterInv` says what each point
of a call knows: who holds the mutex and in which call (`CallOK`), how much of the
cluster the handle describes, store by store (`ServersOK`, with the cardinality of what
has been started), and whose the data path is (`PathOK`). An answer of an accessor is
right because the points at which it can be given are those where the handle describes
all of a cluster or nothing.

`NothingIsLost` (`NothingLost`) and `NoInheritedData` (`DataToItself`) are about what
earlier attempts left, so their invariant `RestInv` adds the past: only the identity
claimed last has a held record (`IdentityOK`); a server that runs is one the handle has
still to stop, one whose failed stop teardown has noted in `firstErr`, or an earlier
attempt's under a kept record (`AliveOK`, with `TearOK` for the order of teardown); a
directory of the library's own holds its identity's data only, and is in use, due to be
removed, or one whose teardown kept the record (`OwnDirOK`); and past `prepareDataPath` the directory
holds no data but the attempt's own and that of attempts whose teardown failed
(`CleanOK`). At `mu = NoOne` nothing is due any more, which leaves what the
properties say.

### Startup

`StartupTypeCorrect` holds for all constants; `StageOK` adds how many ports an attempt has
at each stage.

`PortsHandedOnce` (`HandedOnce`) has no hypotheses: any number of processes, clusters, ports,
stores and foreign listeners, any `StartTimeout`. `AgeInv` adds to the stages that the
reservation of a handed port is no older than the context it was made for (`ReservedOK`);
so it has not lapsed while that context is younger than the TTL.

`StartsOnItsOwn` (`StartedOnItsOwn`) is about one process (`OneProcess`; two processes are
the violation of section 3). Its invariant `LateInv` says that as long as no `Start` of the
process has been slow (`Punctual`, which `LateOK` ties to the clocks), `PortInv` holds: a port
that is at `reservePort` and that another server has bound since `listenForPort` is reserved
(`ProbeOK`, the race between the two); hence no two clusters claim a port (`ClaimsOK`); hence
the PD that answers is the cluster's own, stores join their own PD, and when `StoresUp` reaches
`TiKVCount` the stores counted are the cluster's, all of them (`OwnOK`, and the cardinality
argument of `OwnStores`). The parts need each other: a `Start` that succeeded on another's
servers would leave one of its own to bind its port when the reservation is long gone.

### Settings

`SettingsRight` (`SettingsWritten`) holds for any keys, segments, counts and overrides, from
`SettingsAssumption`: the order of the dotted strings puts a key before those below it, as
byte order does. `NestInv` says where the loop is: the keys done
come before the rest (`LoopOK`); unless `Mixed`, the tree has exactly the keys done, the
tables on their way and the contents of callers' maps (`TreeHas`), each with its value,
except that a nil may have become a table (`TreeSays`), and no key done is faulty; after an
error, the key it came to is the first faulty one (`FirstFault`). A key that is not faulty
finds its way and its leaf free (`SoundKey`), a faulty one does not (`FaultyKey`: what is
above it has been put there, because it comes earlier), and putting it there disturbs no
other (`PutKeeps`).

### Only model-checked

All liveness (fairness and `ENABLED` are out of the prover's reach):
`OrphanReclaimed`, `WatchdogsReclaim`, `EveryCallEnds`, `EveryStartReturns`,
`EveryCallReturns`.

## 5. Not modelled

Not modelled: the TOML encoder, tar, gzip and hashing (libraries), the parsing of
`/proc` and `ps`, the URLs and arguments of the servers, log tails and messages beyond
what the retry decision reads, the setters of `Config` (each copies the value and sets
one field), the examples and the smoke test.
