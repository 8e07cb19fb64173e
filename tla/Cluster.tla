------------------------------ MODULE Cluster ------------------------------
(***************************************************************************)
(* One Cluster value shared by goroutines (embedded_tikv.go): the mutex    *)
(* around Start, Stop and the accessors, the retry loop with its partial   *)
(* failures, and what attempts leave behind: servers that would not stop,  *)
(* kept records, data in directories.  Other processes sweep meanwhile.    *)
(*                                                                         *)
(* A sweep is one step here, its steps are Registry's; how the waits end   *)
(* is Startup's.  The owner does not die here, it does in Registry.        *)
(***************************************************************************)
EXTENDS Integers, FiniteSets

CONSTANTS
  Goroutines,
  Calls,          \* Calls[g]: the methods g calls
  NoOne,          \* nobody holds the mutex
  Configs,        \* configurations given to New
  MaxStores,
  StartAttempts,  \* startAttempts
  MaxIds          \* bound: identities openRecord claims

Ops == {"Start", "Stop", "Endpoints", "StoreAddrs", "DataPath"}

\* dataPath: a DataPath is set; reapOrphans: as in Config.
ASSUME ClusterAssumption ==
  /\ NoOne \notin Goroutines
  /\ Calls \in [Goroutines -> SUBSET Ops]
  /\ {MaxStores, StartAttempts, MaxIds} \subseteq Nat \ {0}
  /\ Configs \subseteq [tikvCount : 0..MaxStores, dataPath : BOOLEAN, reapOrphans : BOOLEAN]

Servers == 0..MaxStores   \* 0 is pd-0, k is tikv-(k-1)
Ids == 1..MaxIds
NoPath == 0               \* an owned directory is named after its identity
CallerDir == -1

VARIABLES
  config,    \* c.config
  call,      \* the call each goroutine is in
  ans,       \* what its last call returned
  mu,        \* who holds c.mu
  at,        \* where the holder is
  started, record, pd, tikvs, dataPath, ownsDataPath,   \* fields of c
  attempt,   \* of the retry loop
  lastErr,   \* startOnce's error: a port conflict or another
  stopped,   \* servers teardown is through with
  firstErr,  \* has teardown met an error?
  made,      \* identities claimed so far
  alive,     \* <<i, k>>: identity i's server k runs; a process with SIGKILL
             \* pending runs no more
  rec,       \* the record of each identity
  listed,    \* the servers it names
  wrote      \* <<p, k, i>>: server k's part of p holds data of identity i

callVars == <<call, ans>>
handleVars == <<started, record, pd, tikvs, dataPath, ownsDataPath>>
loopVars == <<attempt, lastErr, stopped, firstErr>>
worldVars == <<made, alive, rec, listed, wrote>>
vars == <<config, callVars, mu, at, handleVars, loopVars, worldVars>>

Points == {"free", "enter", "sweep", "resolve", "open", "prepare", "setPath",
           "startPD", "waitPD", "startTiKV", "waitStores", "stopTiKV", "stopPD",
           "clear", "release", "stopSweep"}
\* held: with its lock; kept: abandoned; reclaimed: kept, then swept.
RecStates == {"none", "held", "closed", "kept", "reclaimed"}

TypeOK ==
  /\ config \in Configs
  /\ call \in [Goroutines -> Ops \cup {"none"}]
  /\ mu \in Goroutines \cup {NoOne} /\ at \in Points
  /\ started \in BOOLEAN /\ record \in {0} \cup Ids
  /\ pd \subseteq Ids \X {0} /\ tikvs \subseteq Ids \X (1..config.tikvCount)
  /\ dataPath \in {NoPath, CallerDir} \cup Ids /\ ownsDataPath \in BOOLEAN
  /\ attempt \in 1..StartAttempts /\ lastErr \in {"none", "conflict", "other"}
  /\ stopped \subseteq Servers /\ firstErr \in BOOLEAN
  /\ made \in 0..MaxIds
  /\ alive \subseteq Ids \X Servers
  /\ rec \in [Ids -> RecStates]
  /\ listed \in [Ids -> SUBSET Servers]
  /\ wrote \subseteq ({CallerDir} \cup Ids) \X Servers \X Ids

Nothing == [err |-> "none", addrs |-> {}, path |-> NoPath]

Init ==
  /\ config \in Configs
  /\ call = [g \in Goroutines |-> "none"]
  /\ ans = [g \in Goroutines |-> Nothing]
  /\ mu = NoOne /\ at = "free"
  /\ started = FALSE /\ record = 0 /\ pd = {} /\ tikvs = {}
  /\ dataPath = NoPath /\ ownsDataPath = FALSE
  /\ attempt = 1 /\ lastErr = "none" /\ stopped = {} /\ firstErr = FALSE
  /\ made = 0
  /\ alive = {}
  /\ rec = [i \in Ids |-> "none"]
  /\ listed = [i \in Ids |-> {}]
  /\ wrote = {}

(***************************************************************************)
(* Calls                                                                   *)
(***************************************************************************)
Begin(g, op) ==
  /\ call[g] = "none"
  /\ call' = [call EXCEPT ![g] = op]
  /\ ans' = [ans EXCEPT ![g] = Nothing]
  /\ UNCHANGED <<config, mu, at, handleVars, loopVars, worldVars>>

\* c.mu.Lock().
Lock(g) ==
  /\ call[g] # "none" /\ mu = NoOne
  /\ mu' = g
  /\ at' = "enter"
  /\ UNCHANGED <<config, callVars, handleVars, loopVars, worldVars>>

\* The call of the holder is at point l.
In(op, l) == mu # NoOne /\ call[mu] = op /\ at = l

\* The deferred c.mu.Unlock(), and the end of start's and teardown's locals.
Return(a) ==
  /\ ans' = [ans EXCEPT ![mu] = a]
  /\ call' = [call EXCEPT ![mu] = "none"]
  /\ mu' = NoOne
  /\ at' = "free"
  /\ attempt' = 1 /\ lastErr' = "none" /\ stopped' = {} /\ firstErr' = FALSE

\* Mutant: an early return without the deferred unlock.
ReturnLocked(e) ==
  /\ ans' = [ans EXCEPT ![mu] = [Nothing EXCEPT !.err = e]]
  /\ call' = [call EXCEPT ![mu] = "none"]
  /\ at' = "free"
  /\ UNCHANGED <<mu, loopVars>>

ReturnErr(e) == Return([Nothing EXCEPT !.err = e])

Goto(l) == at' = l /\ UNCHANGED <<callVars, mu>>
Proceeds(l) == Goto(l) /\ UNCHANGED loopVars

\* Mutant: the accessor does not take the lock.
EndpointsUnlocked ==
  \E g \in Goroutines :
    /\ call[g] = "Endpoints"
    /\ call' = [call EXCEPT ![g] = "none"]
    /\ ans' = [ans EXCEPT ![g] = [Nothing EXCEPT !.addrs = pd]]
    /\ mu' = IF mu = g THEN NoOne ELSE mu
    /\ at' = IF mu = g THEN "free" ELSE at
    /\ UNCHANGED <<config, handleVars, loopVars, worldVars>>

\* Endpoints and ClientURLs.
Endpoints ==
  /\ In("Endpoints", "enter")
  /\ Return([Nothing EXCEPT !.addrs = pd])
  /\ UNCHANGED <<config, handleVars, worldVars>>

StoreAddrs ==
  /\ In("StoreAddrs", "enter")
  /\ Return([Nothing EXCEPT !.addrs = tikvs])
  /\ UNCHANGED <<config, handleVars, worldVars>>

DataPath ==
  /\ In("DataPath", "enter")
  /\ Return([Nothing EXCEPT !.path = dataPath])
  /\ UNCHANGED <<config, handleVars, worldVars>>

(***************************************************************************)
(* Sweeps, of this process and of others, see kept records                 *)
(***************************************************************************)
PathOf(i) == IF config.dataPath THEN CallerDir ELSE i

\* reclaimRecord finds the recorded servers and, by their command lines,
\* those of a directory of the library's own.
Reachable(i, k) == ~config.dataPath \/ k \in listed[i]

\* Has a teardown reported that something of i may be left?
Unstopped(i) == rec[i] \in {"kept", "reclaimed"}

\* The data a sweep removes: pass 1 that of a record, pass 2 that of a
\* directory whose record is gone.
Leftover == {w \in wrote : w[1] \in Ids /\ Unstopped(w[1])}

\* Nobody looks at RemoveAll's error: the record goes in any case, and what
\* could not be removed is left to a later pass 2.
CleanOrphans ==
  /\ alive' = {s \in alive : rec[s[1]] = "kept" => ~Reachable(s[1], s[2])}
  /\ \E left \in SUBSET Leftover : wrote' = (wrote \ Leftover) \cup left
  /\ rec' = [i \in Ids |-> IF rec[i] = "kept" THEN "reclaimed" ELSE rec[i]]
  /\ UNCHANGED <<made, listed>>

(***************************************************************************)
(* Start                                                                   *)
(***************************************************************************)
StartEnter ==
  /\ In("Start", "enter")
  /\ \/ started /\ ReturnErr("already")
     \/ ~started /\ config.tikvCount < 1 /\ ReturnErr("error")
     \/ /\ ~started /\ config.tikvCount >= 1
        /\ Proceeds(IF config.reapOrphans THEN "sweep" ELSE "resolve")
  /\ UNCHANGED <<config, handleVars, worldVars>>

StartSweep ==
  /\ In("Start", "sweep")
  /\ CleanOrphans
  /\ Proceeds("resolve")
  /\ UNCHANGED <<config, handleVars>>

\* resolveBinaries, which a download may hold up for as long as it likes.
resolveBinaries ==
  /\ In("Start", "resolve")
  /\ Proceeds("open") \/ ReturnErr("error")
  /\ UNCHANGED <<config, handleVars, worldVars>>

\* teardown begins, after a failed attempt or for Stop.
Teardown ==
  /\ Goto("stopTiKV")
  /\ stopped' = {} /\ firstErr' = FALSE

\* startOnce returns an error.
Fails(e) == Teardown /\ lastErr' = e /\ UNCHANGED attempt

\* The files of an identity whose first save failed are Registry's subject.
openRecord ==
  /\ In("Start", "open")
  /\ \/ /\ made < MaxIds
        /\ made' = made + 1
        /\ record' = made + 1
        /\ rec' = [rec EXCEPT ![made + 1] = "held"]
        /\ Proceeds("prepare")
     \/ Fails("other") /\ UNCHANGED <<made, record, rec>>
  /\ UNCHANGED <<config, started, pd, tikvs, dataPath, ownsDataPath, alive, listed, wrote>>

\* Mutant: the subdirectories are left as they are.
PrepareKept ==
  /\ In("Start", "prepare")
  /\ dataPath' = PathOf(record)
  /\ ownsDataPath' = ~config.dataPath
  /\ Proceeds("setPath")
  /\ UNCHANGED <<config, started, record, pd, tikvs, worldVars>>

\* Every server's subdirectory is cleared, or RemoveAll stops at one of them.
\* A server that still runs goes on writing under its path.
prepareDataPath ==
  /\ In("Start", "prepare")
  /\ dataPath' = IF dataPath = NoPath THEN PathOf(record) ELSE dataPath
  /\ ownsDataPath' = IF dataPath = NoPath THEN ~config.dataPath ELSE ownsDataPath
  /\ \E cleared \in {0..j : j \in -1..config.tikvCount} :
       /\ wrote' = {w \in wrote : \/ w[1] # dataPath' \/ w[2] \notin cleared
                                  \/ <<w[3], w[2]>> \in alive}
       /\ \/ cleared = 0..config.tikvCount /\ Proceeds("setPath")
          \/ cleared # 0..config.tikvCount /\ Fails("other")
  /\ UNCHANGED <<config, started, record, pd, tikvs, made, alive, rec, listed>>

\* setDataPath saves the record; freePorts follows, and may find none.
setDataPath ==
  /\ In("Start", "setPath")
  /\ \/ Proceeds("startPD")
     \/ \E e \in {"conflict", "other"} : Fails(e)
  /\ UNCHANGED <<config, handleVars, worldVars>>

\* startPD and startTiKV: directory, config file and process, then the
\* handle, then addServer, whose save may fail.
StartServer(k, l) ==
  \/ Fails("other") /\ UNCHANGED <<pd, tikvs, worldVars>>
  \/ /\ alive' = alive \cup {<<record, k>>}
     /\ wrote' = wrote \cup {<<dataPath, k, record>>}
     /\ pd' = IF k = 0 THEN {<<record, k>>} ELSE pd
     /\ tikvs' = IF k = 0 THEN tikvs ELSE tikvs \cup {<<record, k>>}
     /\ \/ listed' = [listed EXCEPT ![record] = @ \cup {k}] /\ Proceeds(l)
        \/ Fails("other") /\ UNCHANGED listed
     /\ UNCHANGED <<made, rec>>

startPD ==
  /\ In("Start", "startPD")
  /\ StartServer(0, "waitPD")
  /\ UNCHANGED <<config, started, record, dataPath, ownsDataPath>>

\* Startup says when the waits succeed, and why they end.
waitPDReady ==
  /\ In("Start", "waitPD")
  /\ Proceeds("startTiKV") \/ \E e \in {"conflict", "other"} : Fails(e)
  /\ UNCHANGED <<config, handleVars, worldVars>>

\* Mutant: one store too many.
LastStoreLate(k) == k = config.tikvCount + 1

LastStore(k) == k = config.tikvCount

startTiKV ==
  /\ In("Start", "startTiKV")
  /\ LET k == Cardinality(tikvs) + 1
     IN  StartServer(k, IF LastStore(k) THEN "waitStores" ELSE "startTiKV")
  /\ UNCHANGED <<config, started, record, dataPath, ownsDataPath>>

waitStoresUp ==
  /\ In("Start", "waitStores")
  /\ \/ started' = TRUE /\ ReturnErr("nil")
     \/ UNCHANGED started /\ \E e \in {"conflict", "other"} : Fails(e)
  /\ UNCHANGED <<config, record, pd, tikvs, dataPath, ownsDataPath, worldVars>>

(***************************************************************************)
(* Stop and teardown                                                       *)
(***************************************************************************)
StopEnter ==
  /\ In("Stop", "enter")
  /\ \/ ~started /\ ReturnErr("notStarted")
     \/ started /\ Teardown /\ UNCHANGED <<attempt, lastErr>>
  /\ UNCHANGED <<config, handleVars, worldVars>>

\* process.stop: the server is gone; or it could not be signalled, or its
\* exit has not been reported even after SIGKILL.
StopServer(k) ==
  /\ stopped' = stopped \cup {k}
  /\ \/ alive' = alive \ {<<record, k>>} /\ firstErr' \in {firstErr, TRUE}
     \/ firstErr' = TRUE /\ UNCHANGED alive

\* The stores are stopped in parallel.
StopTiKV ==
  /\ mu # NoOne /\ at = "stopTiKV"
  /\ \/ \E k \in {t[2] : t \in tikvs} \ stopped :
          StopServer(k) /\ Goto("stopTiKV")
     \/ /\ {t[2] : t \in tikvs} \subseteq stopped
        /\ Goto("stopPD")
        /\ UNCHANGED <<stopped, firstErr, alive>>
  /\ UNCHANGED <<config, handleVars, attempt, lastErr, made, rec, listed, wrote>>

StopPD ==
  /\ mu # NoOne /\ at = "stopPD"
  /\ IF pd = {} THEN UNCHANGED <<stopped, firstErr, alive>> ELSE StopServer(0)
  /\ pd' = {} /\ tikvs' = {}
  /\ Goto("clear")
  /\ UNCHANGED <<config, started, record, dataPath, ownsDataPath, attempt, lastErr,
                 made, rec, listed, wrote>>

ClearDataPath ==
  /\ mu # NoOne /\ at = "clear"
  /\ IF ownsDataPath /\ dataPath # NoPath
     THEN /\ dataPath' = NoPath
          /\ \/ wrote' = {w \in wrote : w[1] # dataPath} /\ UNCHANGED firstErr
             \/ firstErr' = TRUE /\ UNCHANGED wrote
     ELSE UNCHANGED <<dataPath, firstErr, wrote>>
  /\ Goto("release")
  /\ UNCHANGED <<config, started, record, pd, tikvs, ownsDataPath, attempt, lastErr,
                 stopped, made, alive, rec, listed>>

\* Mutant: the record goes whatever is left.
AlwaysClosed(err) == "closed"

\* abandon or close.
RecordAfter(err) == IF err THEN "kept" ELSE "closed"

\* teardown returns: Start ignores its error and tries again, or gives up;
\* Stop sweeps, or returns it.
Release ==
  /\ mu # NoOne /\ at = "release"
  /\ rec' = IF record = 0 THEN rec ELSE [rec EXCEPT ![record] = RecordAfter(firstErr)]
  /\ listed' = IF record = 0 \/ firstErr THEN listed ELSE [listed EXCEPT ![record] = {}]
  /\ record' = 0
  /\ \/ /\ call[mu] = "Start" /\ lastErr = "conflict" /\ attempt < StartAttempts
        /\ attempt' = attempt + 1
        /\ Goto("open")
        /\ UNCHANGED <<started, lastErr, stopped, firstErr>>
     \/ /\ call[mu] = "Start" /\ ~(lastErr = "conflict" /\ attempt < StartAttempts)
        /\ ReturnErr("error")
        /\ UNCHANGED started
     \/ /\ call[mu] = "Stop"
        /\ started' = FALSE
        /\ IF config.reapOrphans THEN Proceeds("stopSweep")
           ELSE ReturnErr(IF firstErr THEN "error" ELSE "nil")
  /\ UNCHANGED <<config, pd, tikvs, dataPath, ownsDataPath, made, alive, wrote>>

StopSweep ==
  /\ In("Stop", "stopSweep")
  /\ CleanOrphans
  /\ ReturnErr(IF firstErr THEN "error" ELSE "nil")
  /\ UNCHANGED <<config, handleVars>>

(***************************************************************************)
(* Servers and other processes                                             *)
(***************************************************************************)
ServerExits(i, k) ==
  /\ <<i, k>> \in alive
  /\ alive' = alive \ {<<i, k>>}
  /\ UNCHANGED <<config, callVars, mu, at, handleVars, loopVars, made, rec, listed, wrote>>

OtherSweep ==
  /\ CleanOrphans
  /\ UNCHANGED <<config, callVars, mu, at, handleVars, loopVars>>

(***************************************************************************)
(* The system                                                              *)
(***************************************************************************)
\* The holder's steps, but for the download.
HolderStep ==
  \/ Endpoints \/ StoreAddrs \/ DataPath
  \/ StartEnter \/ StartSweep \/ openRecord \/ prepareDataPath \/ setDataPath
  \/ startPD \/ waitPDReady \/ startTiKV \/ waitStoresUp
  \/ StopEnter \/ StopTiKV \/ StopPD \/ ClearDataPath \/ Release \/ StopSweep

Next ==
  \/ \E g \in Goroutines : Lock(g) \/ \E op \in Calls[g] : Begin(g, op)
  \/ HolderStep \/ resolveBinaries
  \/ \E i \in Ids, k \in Servers : ServerExits(i, k)
  \/ OtherSweep

Spec == Init /\ [][Next]_vars

\* The holder runs; sync.Mutex starves no waiter.  A download need not end,
\* no server has to exit and nobody has to call anything.
FairSpec ==
  /\ Spec /\ WF_vars(HolderStep)
  /\ \A g \in Goroutines : SF_vars(Lock(g))

(***************************************************************************)
(* Properties                                                              *)
(***************************************************************************)
\* prepareDataPath discards "any state left by a previous attempt so a retry
\* never inherits a half-bootstrapped PD": a server of the cluster shares its
\* directory with no earlier attempt, or earlier Start, under the caller's
\* path, except with one whose teardown failed.
DataToItself ==
  \A s \in pd \cup tikvs, i \in Ids :
    <<dataPath, s[2], i>> \in wrote => i = s[1] \/ Unstopped(i)

\* The instant between startProcess and a failed addServer, and a failed stop.
Unlisted(i, k) == config.dataPath /\ k \notin listed[i]

\* Between calls, every server this value has ever started is one the handle
\* can stop, or runs under a record that was kept for a later sweep; and every
\* directory of the library's own is the running cluster's, or one whose
\* teardown reported it and kept its record, until a sweep took that.
NothingLost ==
  mu = NoOne =>
    \A i \in Ids :
      /\ \A k \in Servers :
           <<i, k>> \in alive =>
             <<i, k>> \in pd \cup tikvs \/ rec[i] = "kept" \/ Unlisted(i, k)
      /\ (\E k \in Servers : <<i, k, i>> \in wrote) =>
             (started /\ dataPath = i) \/ Unstopped(i)

\* Each call is atomic: no goroutine sees a cluster half started or half
\* stopped, however calls overlap and however often attempts fail.
Handle == INSTANCE ClusterHandle WITH
            up <- IF started \/ at = "stopSweep" THEN made ELSE 0
ImplementsHandle == Handle!Spec

\* "mu makes Start and Stop safe to call from more than one goroutine": no
\* call waits for ever, unless for a download that never ends.
EveryCallReturns ==
  \A g \in Goroutines :
    \/ call[g] # "none" ~> call[g] = "none"
    \/ <>[](at = "resolve")
=============================================================================
