---------------------------- MODULE BinaryCache ----------------------------
(***************************************************************************)
(* The version cache of binaries.go: resolveBinaries called by any number  *)
(* of processes at once, the download lock (withFileLock), and the         *)
(* download-verify-rename of each executable.  Any process may die at any  *)
(* step and any transfer may fail, stop short or arrive altered.           *)
(***************************************************************************)
EXTENDS Naturals, FiniteSets

CONSTANTS
  Procs,       \* calls of resolveBinaries, each in a process of its own
  Supplied,    \* those given a directory, by BinariesPath or the environment
  Unsupported, \* those on a host nothing is published for
  Published    \* components the mirror's manifests resolve

Components == 1..2   \* 1 is pd-server, 2 is tikv-server: the order of the loop

ASSUME PublishedAssumption ==
  /\ Published \subseteq Components
  /\ Supplied \subseteq Procs /\ Unsupported \subseteq Procs

VARIABLES
  pc,        \* where each call is
  k,         \* the component it is at
  temp,      \* what its temporary file holds
  intact,    \* has the whole body arrived as the manifest describes it?
  file,      \* file[j]: what is at the final path, executable
  litter     \* components with an abandoned temporary file

vars == <<pc, k, temp, intact, file, litter>>

PCs == {"resolve", "own", "stat", "lock", "held", "manifest", "fetch", "extract", "drain",
        "verify", "chmod", "rename", "fail", "ready", "failed", "dead"}
Done == {"own", "ready", "failed", "dead"}
Contents == {"none", "part", "good", "bad"}

TypeOK ==
  /\ pc \in [Procs -> PCs]
  /\ k \in [Procs -> 1..3]
  /\ temp \in [Procs -> Contents]
  /\ intact \in [Procs -> BOOLEAN]
  /\ file \in [Components -> {"none", "good", "bad"}]
  /\ litter \subseteq Components

Init ==
  /\ pc = [p \in Procs |-> "resolve"]
  /\ k = [p \in Procs |-> 1]
  /\ temp = [p \in Procs |-> "none"]
  /\ intact = [p \in Procs |-> FALSE]
  /\ file = [j \in Components |-> "none"]
  /\ litter = {}

Critical == {"held", "manifest", "fetch", "extract", "drain", "verify", "chmod", "rename", "fail"}

\* Mutant: a call that fails keeps the lock.
FailedHolding(p) == pc[p] \in Critical \cup {"failed"}

\* Between flock and release.  The lock file itself is never removed, so
\* path and inode are one here.
Holding(p) == pc[p] \in Critical

\* Only the final name counts: a temporary file has another one.
isExecutable(j) == file[j] # "none"

Goto(p, l) == pc' = [pc EXCEPT ![p] = l]

\* suppliedBinaries: the directory has both executables, or the call fails.
suppliedBinaries(p) ==
  /\ p \in Supplied
  /\ Goto(p, "own") \/ Goto(p, "failed")

\* platformFor, unless a directory is given.
platformFor(p) ==
  /\ p \notin Supplied
  /\ Goto(p, IF p \in Unsupported THEN "failed" ELSE "stat")

Resolve(p) ==
  /\ pc[p] = "resolve"
  /\ suppliedBinaries(p) \/ platformFor(p)
  /\ UNCHANGED <<k, temp, intact, file, litter>>

\* The fast path: stat pd-server, then tikv-server; without both, MkdirAll
\* and the lock.
StatInstalled(p) ==
  /\ pc[p] = "stat"
  /\ \/ /\ k[p] \in Components /\ isExecutable(k[p])
        /\ k' = [k EXCEPT ![p] = @ + 1]
        /\ UNCHANGED pc
     \/ /\ k[p] \in Components /\ ~isExecutable(k[p])
        /\ k' = [k EXCEPT ![p] = 1]
        /\ Goto(p, "lock") \/ Goto(p, "failed")
     \/ /\ k[p] \notin Components
        /\ Goto(p, "ready")
        /\ UNCHANGED k
  /\ UNCHANGED <<temp, intact, file, litter>>

\* withFileLock waits for its turn, as long as it takes ...
Lock(p) ==
  /\ pc[p] = "lock" /\ \A q \in Procs : ~Holding(q)
  /\ Goto(p, "held")
  /\ UNCHANGED <<k, temp, intact, file, litter>>

\* ... unless the file cannot be opened or locked.
LockFails(p) ==
  /\ pc[p] = "lock"
  /\ Goto(p, "failed")
  /\ UNCHANGED <<k, temp, intact, file, litter>>

\* Mutant: what was missing before the lock is fetched, whatever has
\* happened since.
FetchAnyway(p) ==
  /\ pc[p] = "held" /\ k[p] \in Components
  /\ Goto(p, "manifest")
  /\ UNCHANGED <<k, temp, intact, file, litter>>

\* Mutant: the loop has no end.
PastTheEnd(p) ==
  /\ pc[p] = "held"
  /\ k' = [k EXCEPT ![p] = @ + 1]
  /\ UNCHANGED <<pc, temp, intact, file, litter>>

\* The loop looks again under the lock, and fetches what is missing.
NextComponent(p) ==
  /\ pc[p] = "held" /\ k[p] \in Components
  /\ IF isExecutable(k[p])
     THEN k' = [k EXCEPT ![p] = @ + 1] /\ UNCHANGED pc
     ELSE Goto(p, "manifest") /\ UNCHANGED k
  /\ UNCHANGED <<temp, intact, file, litter>>

\* mirror.resolve: the manifests have the version, or they do not, or the
\* mirror is away.  Its client gives up after 30 seconds.
ResolveEntry(p) ==
  /\ pc[p] = "manifest"
  /\ (k[p] \in Published /\ Goto(p, "fetch")) \/ Goto(p, "fail")
  /\ UNCHANGED <<k, temp, intact, file, litter>>

Unlock(p) ==
  /\ pc[p] = "held" /\ k[p] \notin Components
  /\ Goto(p, "ready")
  /\ UNCHANGED <<k, temp, intact, file, litter>>

\* GET and CreateTemp; either may fail.
Fetch(p) ==
  /\ pc[p] = "fetch"
  /\ \/ Goto(p, "extract") /\ temp' = [temp EXCEPT ![p] = "part"]
     \/ Goto(p, "fail") /\ UNCHANGED temp
  /\ intact' = [intact EXCEPT ![p] = FALSE]
  /\ UNCHANGED <<k, file, litter>>

\* extractEntry stops after the entry, right or wrong, or fails.
Extract(p) ==
  /\ pc[p] = "extract"
  /\ \/ \E got \in {"good", "bad"} :
          Goto(p, "drain") /\ temp' = [temp EXCEPT ![p] = got]
     \/ Goto(p, "fail") /\ UNCHANGED temp
  /\ UNCHANGED <<k, intact, file, litter>>

\* The rest of the body goes through the hash only.
Drain(p) ==
  /\ pc[p] = "drain"
  /\ \/ /\ Goto(p, "verify")
        /\ \E whole \in BOOLEAN :
             /\ whole => temp[p] = "good"
             /\ intact' = [intact EXCEPT ![p] = whole]
     \/ Goto(p, "fail") /\ UNCHANGED intact
  /\ UNCHANGED <<k, temp, file, litter>>

\* Mutant: the sum is computed and not compared.
VerifyNothing(p) ==
  /\ pc[p] = "verify"
  /\ Goto(p, "chmod")
  /\ UNCHANGED <<k, temp, intact, file, litter>>

Verify(p) ==
  /\ pc[p] = "verify"
  /\ Goto(p, IF intact[p] THEN "chmod" ELSE "fail")
  /\ UNCHANGED <<k, temp, intact, file, litter>>

\* Chmod and Close, while the file still has its temporary name.
MakeExecutable(p) ==
  /\ pc[p] = "chmod"
  /\ Goto(p, "rename") \/ Goto(p, "fail")
  /\ UNCHANGED <<k, temp, intact, file, litter>>

Rename(p) ==
  /\ pc[p] = "rename"
  /\ \/ /\ file' = [file EXCEPT ![k[p]] = temp[p]]
        /\ temp' = [temp EXCEPT ![p] = "none"]
        /\ k' = [k EXCEPT ![p] = @ + 1]
        /\ Goto(p, "held")
     \/ Goto(p, "fail") /\ UNCHANGED <<k, temp, file>>
  /\ UNCHANGED <<intact, litter>>

\* The deferred calls: remove the temporary file, release the lock.
Fail(p) ==
  /\ pc[p] = "fail"
  /\ temp' = [temp EXCEPT ![p] = "none"]
  /\ Goto(p, "failed")
  /\ UNCHANGED <<k, intact, file, litter>>

\* The kernel releases the lock; nobody removes the temporary file.
Die(p) ==
  /\ pc[p] \notin Done
  /\ Goto(p, "dead")
  /\ litter' = IF temp[p] = "none" THEN litter ELSE litter \cup {k[p]}
  /\ temp' = [temp EXCEPT ![p] = "none"]
  /\ UNCHANGED <<k, intact, file>>

Step(p) ==
  \/ Resolve(p) \/ StatInstalled(p) \/ Lock(p) \/ NextComponent(p) \/ Unlock(p)
  \/ ResolveEntry(p) \/ Fetch(p) \/ Extract(p) \/ Drain(p) \/ Verify(p)
  \/ MakeExecutable(p) \/ Rename(p) \/ Fail(p)

Next == \E p \in Procs : Step(p) \/ LockFails(p) \/ Die(p)

Spec == Init /\ [][Next]_vars

\* The network decides how long these last: the fetcher has no deadline.
Transferring(p) == pc[p] \in {"fetch", "extract", "drain"}

\* Each process runs, and flock lets a waiter in when the lock is free; a
\* transfer need not end, and opening the lock file need not fail.
FairSpec == Spec /\ \A p \in Procs : WF_vars(~Transferring(p) /\ Step(p))

(***************************************************************************)
(* Properties                                                              *)
(***************************************************************************)
\* withFileLock "stops several go test processes starting at once from each
\* downloading the same few-hundred-megabyte tarball": no call is at work on
\* an executable that is there, however long ago it found it missing.
Downloading(p) ==
  pc[p] \in {"manifest", "fetch", "extract", "drain", "verify", "chmod", "rename"}

NoSecondDownload ==
  \A p \in Procs : Downloading(p) =>
    /\ ~isExecutable(k[p])
    /\ \A q \in Procs : Downloading(q) => p = q

\* resolveBinaries as BinaryStore promises it: each executable appears once,
\* in one step and with the published contents, whatever fails or dies, and
\* a call returns paths only when both are there.
Store == INSTANCE BinaryStore WITH
           store <- [j \in Components |-> file[j] = "good"],
           using <- {p \in Procs : pc[p] = "ready"}
ImplementsStore == Store!Spec

\* A waiter is never left behind by a holder that fails or dies: every call
\* of resolveBinaries ends, unless some transfer never does.
EveryCallEnds ==
  \A p \in Procs :
    \/ <>(pc[p] \in Done)
    \/ \E q \in Procs : <>[]Transferring(q)
=============================================================================
