--------------------------- MODULE ClusterProofs ---------------------------
(***************************************************************************)
(* Proofs about Cluster, for any number of goroutines, stores, attempts    *)
(* and identities: the handle is atomic.                                   *)
(***************************************************************************)
EXTENDS Cluster, FiniteSetTheorems, TLAPS

Claimed == {"prepare", "setPath", "startPD", "waitPD", "startTiKV", "waitStores"}
StartPoints == {"sweep", "resolve", "open"} \cup Claimed
TearPoints == {"stopTiKV", "stopPD", "clear", "release"}
Between == {"free", "enter"}

\* The mutex, and what each point of a call knows about the call.
CallOK ==
  /\ mu = NoOne <=> at = "free"
  /\ mu # NoOne => call[mu] # "none"
  /\ at \in StartPoints => call[mu] = "Start" /\ ~started /\ config.tikvCount >= 1
  /\ at \in TearPoints => call[mu] \in {"Start", "Stop"} /\ (started <=> call[mu] = "Stop")
  /\ at \in TearPoints /\ call[mu] = "Start" => config.tikvCount >= 1
  /\ at = "stopSweep" => call[mu] = "Stop" /\ ~started /\ made # 0
  /\ started => made # 0
  /\ at \in Claimed => record = made /\ made # 0

\* The handle describes the cluster that is up, what there is of the one that
\* is starting, or nothing.
Stores(n) == {made} \X (1..n)

ServersOK ==
  /\ ((at \in Between /\ started) \/ at = "waitStores") =>
       pd = {<<made, 0>>} /\ tikvs = Stores(config.tikvCount)
  /\ at = "startTiKV" =>
       pd = {<<made, 0>>} /\ \E n \in 0..(config.tikvCount - 1) : tikvs = Stores(n)
  /\ at = "waitPD" => pd = {<<made, 0>>} /\ tikvs = {}
  /\ (\/ at \in Between /\ ~started
      \/ at \in {"sweep", "resolve", "open", "prepare", "setPath", "startPD",
                 "clear", "release", "stopSweep"})
       => pd = {} /\ tikvs = {}

PathOK ==
  /\ config.dataPath => dataPath \in {NoPath, CallerDir}
  /\ dataPath # NoPath => ownsDataPath = ~config.dataPath
  /\ ((at \in Between /\ started) \/ at \in Claimed \ {"prepare"})
       => dataPath = PathOf(made)
  /\ (\/ at \in Between /\ ~started
      \/ at \in {"sweep", "resolve", "open", "prepare", "release", "stopSweep"})
       => (~config.dataPath => dataPath = NoPath)

ClusterInv == TypeOK /\ CallOK /\ ServersOK /\ PathOK

\* What the assumptions say about the bounds and the configuration.
LEMMA Bounds ==
  /\ MaxStores \in Nat \ {0} /\ StartAttempts \in Nat \ {0} /\ MaxIds \in Nat \ {0}
  /\ NoOne \notin Goroutines
  /\ \A c \in Configs : c.tikvCount \in 0..MaxStores /\ c.dataPath \in BOOLEAN
  BY ClusterAssumption

\* The first attempt is one of them, the first identity too.
LEMMA First == 1 \in 1..StartAttempts /\ 0 \in 0..MaxIds
  BY Bounds

\* A new Cluster value satisfies the invariant.
LEMMA ClusterInvInit == Init => ClusterInv
<1> SUFFICES ASSUME Init PROVE ClusterInv
  OBVIOUS
<1>1. TypeOK
  BY First DEF Init, TypeOK, Points, RecStates
<1>2. CallOK /\ ServersOK /\ PathOK
  BY DEF Init, CallOK, ServersOK, PathOK, StartPoints, Claimed, TearPoints, Between
<1>3. QED
  BY <1>1, <1>2 DEF ClusterInv

\* Calls that begin, and goroutines that get the mutex.
LEMMA BeginLock ==
  ASSUME ClusterInv, NEW g \in Goroutines,
         Lock(g) \/ \E op \in Calls[g] : Begin(g, op)
  PROVE  ClusterInv'
<1> USE DEF ClusterInv
<1>1. CASE Lock(g)
  <2>1. TypeOK'
    BY <1>1 DEF Lock, TypeOK, Points, callVars, handleVars, loopVars, worldVars
  <2>2. CallOK'
    BY <1>1, Bounds DEF Lock, CallOK, StartPoints, Claimed, TearPoints, callVars,
       handleVars, worldVars
  <2>3. ServersOK' /\ PathOK'
    BY <1>1 DEF Lock, CallOK, ServersOK, PathOK, Between, Stores, PathOf, Claimed,
       handleVars, worldVars
  <2>4. QED
    BY <2>1, <2>2, <2>3
<1>2. ASSUME NEW op \in Calls[g], Begin(g, op) PROVE ClusterInv'
  <2>0. op \in Ops /\ op # "none"
    BY <1>2, ClusterAssumption DEF Ops
  <2>1. TypeOK'
    BY <1>2, <2>0 DEF Begin, TypeOK, handleVars, loopVars, worldVars
  <2>2. CallOK'
    BY <1>2, <2>0, Bounds DEF Begin, CallOK, TypeOK, StartPoints, Claimed,
       TearPoints, handleVars, worldVars
  <2>3. ServersOK' /\ PathOK'
    BY <1>2 DEF Begin, ServersOK, PathOK, Stores, PathOf, handleVars, worldVars
  <2>4. QED
    BY <2>1, <2>2, <2>3
<1>3. QED
  BY <1>1, <1>2

\* A call that returns without having touched anything.
LEMMA Returns ==
  ASSUME ClusterInv, NEW a, mu # NoOne, at \in {"enter", "resolve"}, Return(a),
         UNCHANGED <<config, handleVars, worldVars>>
  PROVE  ClusterInv'
<1> USE DEF ClusterInv, Return, handleVars, worldVars
<1>1. TypeOK'
  BY First DEF TypeOK, Points
<1>2. CallOK'
  BY DEF CallOK, StartPoints, Claimed, TearPoints
<1>3. ServersOK' /\ PathOK'
  BY DEF CallOK, StartPoints, ServersOK, PathOK, Between, Stores, PathOf, Claimed
<1>4. QED
  BY <1>1, <1>2, <1>3

\* What a failing attempt has to show for itself.
HandleType ==
  /\ record \in {0} \cup Ids
  /\ pd \subseteq Ids \X {0} /\ tikvs \subseteq Ids \X (1..config.tikvCount)
  /\ dataPath \in {NoPath, CallerDir} \cup Ids /\ ownsDataPath \in BOOLEAN
  /\ made \in 0..MaxIds
  /\ alive \subseteq Ids \X Servers
  /\ rec \in [Ids -> RecStates]
  /\ listed \in [Ids -> SUBSET Servers]
  /\ wrote \subseteq ({CallerDir} \cup Ids) \X Servers \X Ids

PathKind ==
  /\ config.dataPath => dataPath \in {NoPath, CallerDir}
  /\ dataPath # NoPath => ownsDataPath = ~config.dataPath

\* An attempt that fails: whatever it has, teardown begins.
LEMMA Failing ==
  ASSUME ClusterInv, NEW e \in {"conflict", "other"}, mu # NoOne,
         at \in Claimed \cup {"open"}, Fails(e), config' = config, started' = started,
         HandleType', PathKind'
  PROVE  ClusterInv'
<1> USE DEF ClusterInv, Fails, Teardown, Goto, callVars
<1>1. TypeOK'
  BY DEF TypeOK, HandleType, Points
<1>2. CallOK'
  BY DEF CallOK, StartPoints, Claimed, TearPoints
<1>3. ServersOK' /\ PathOK'
  BY DEF ServersOK, PathOK, PathKind, Between, Claimed
<1>4. QED
  BY <1>1, <1>2, <1>3

\* Start up to the claim of an identity.
LEMMA StartBegins ==
  ASSUME ClusterInv, StartEnter \/ StartSweep \/ resolveBinaries
  PROVE  ClusterInv'
<1> USE DEF In
<1>1. CASE StartEnter
  <2>1. CASE \E e : ReturnErr(e)
    BY <1>1, <2>1, Returns DEF StartEnter, ReturnErr
  <2>2. CASE /\ ~started /\ config.tikvCount >= 1
             /\ Proceeds(IF config.reapOrphans THEN "sweep" ELSE "resolve")
    <3> USE <1>1, <2>2 DEF ClusterInv, StartEnter, Proceeds, Goto, callVars, loopVars,
            handleVars, worldVars
    <3>1. at' \in {"sweep", "resolve"}
      OBVIOUS
    <3>2. TypeOK'
      BY <3>1 DEF TypeOK, Points
    <3>3. CallOK'
      BY <3>1 DEF CallOK, StartPoints, Claimed, TearPoints
    <3>4. ServersOK' /\ PathOK'
      BY <3>1 DEF ServersOK, PathOK, Between, Stores, PathOf, Claimed
    <3>5. QED
      BY <3>2, <3>3, <3>4
  <2>3. QED
    BY <1>1, <2>1, <2>2 DEF StartEnter
<1>2. CASE StartSweep
  <2> USE <1>2 DEF ClusterInv, StartSweep, CleanOrphans, Leftover, Proceeds, Goto, callVars,
     loopVars, handleVars
  <2>1. TypeOK'
    BY DEF TypeOK, Points, RecStates
  <2>2. CallOK'
    BY DEF CallOK, StartPoints, Claimed, TearPoints
  <2>3. ServersOK' /\ PathOK'
    BY DEF ServersOK, PathOK, Between, Stores, PathOf, Claimed
  <2>4. QED
    BY <2>1, <2>2, <2>3
<1>3. CASE resolveBinaries
  <2>1. CASE ReturnErr("error")
    BY <1>3, <2>1, Returns DEF resolveBinaries, ReturnErr
  <2>2. CASE Proceeds("open")
    <3> USE <1>3, <2>2 DEF ClusterInv, resolveBinaries, Proceeds, Goto, callVars, loopVars,
            handleVars, worldVars
    <3>2. TypeOK'
      BY DEF TypeOK, Points
    <3>3. CallOK'
      BY DEF CallOK, StartPoints, Claimed, TearPoints
    <3>4. ServersOK' /\ PathOK'
      BY DEF ServersOK, PathOK, Between, Stores, PathOf, Claimed
    <3>5. QED
      BY <3>2, <3>3, <3>4
  <2>3. QED
    BY <1>3, <2>1, <2>2 DEF resolveBinaries
<1>4. QED
  BY <1>1, <1>2, <1>3

\* An identity is claimed and its directory prepared.
LEMMA AttemptBegins ==
  ASSUME ClusterInv, openRecord \/ prepareDataPath \/ setDataPath
  PROVE  ClusterInv'
<1> USE DEF In
<1>1. CASE openRecord
  <2> USE <1>1 DEF ClusterInv, openRecord
  <2>1. CASE Fails("other") /\ UNCHANGED <<made, record, rec>>
    <3>1. HandleType'
      BY <2>1 DEF TypeOK, HandleType
    <3>2. PathKind'
      BY <2>1 DEF PathOK, PathKind, PathOf
    <3>3. QED
      BY <3>1, <3>2, <2>1, Failing DEF Claimed
  <2>2. CASE /\ made < MaxIds /\ made' = made + 1 /\ record' = made + 1
             /\ rec' = [rec EXCEPT ![made + 1] = "held"] /\ Proceeds("prepare")
    <3> USE <2>2 DEF Proceeds, Goto, callVars, loopVars
    <3>1. made + 1 \in 0..MaxIds /\ made + 1 \in Ids /\ made + 1 # 0
      BY Bounds DEF TypeOK, Ids
    <3>2. TypeOK'
      BY <3>1 DEF TypeOK, Points, RecStates
    <3>3. CallOK'
      BY <3>1 DEF CallOK, StartPoints, Claimed, TearPoints
    <3>4. ServersOK' /\ PathOK'
      BY DEF ServersOK, PathOK, Between, Claimed
    <3>5. QED
      BY <3>2, <3>3, <3>4
  <2>3. QED
    BY <2>1, <2>2
<1>2. CASE prepareDataPath
  <2> USE <1>2 DEF ClusterInv, prepareDataPath
  <2>1. config.dataPath \in BOOLEAN /\ record = made /\ made \in Ids /\ made # 0
    BY Bounds DEF TypeOK, CallOK, Claimed, Ids
  <2>2. /\ dataPath' = PathOf(made) /\ ownsDataPath' = ~config.dataPath
        /\ dataPath' \in {CallerDir} \cup Ids /\ dataPath' # NoPath
    <3> USE DEF PathOK
    <3>1. PathOf(made) \in {CallerDir} \cup Ids /\ PathOf(made) # NoPath
      BY <2>1 DEF PathOf, NoPath, CallerDir, Ids
    <3>2. CASE dataPath = NoPath
      BY <2>1, <3>1, <3>2
    <3>3. CASE dataPath # NoPath
      <4>1. config.dataPath /\ dataPath = CallerDir /\ PathOf(made) = CallerDir
        BY <2>1, <3>3 DEF PathOf
      <4>2. QED
        BY <3>1, <3>3, <4>1
    <3>4. QED
      BY <3>2, <3>3
  <2>3. PICK j \in -1..config.tikvCount :
          /\ wrote' = {w \in wrote : \/ w[1] # dataPath' \/ w[2] \notin 0..j
                                     \/ <<w[3], w[2]>> \in alive}
          /\ \/ 0..j = 0..config.tikvCount /\ Proceeds("setPath")
             \/ 0..j # 0..config.tikvCount /\ Fails("other")
    OBVIOUS
  <2>4. wrote' \subseteq wrote
    BY <2>3
  <2>5. CASE Fails("other")
    <3>1. HandleType'
      BY <2>1, <2>2, <2>4, <2>5 DEF TypeOK, HandleType
    <3>2. PathKind'
      BY <2>1, <2>2, <2>5 DEF PathOK, PathKind, PathOf
    <3>3. QED
      BY <3>1, <3>2, <2>5, Failing DEF Claimed
  <2>6. CASE Proceeds("setPath")
    <3> USE <2>6 DEF Proceeds, Goto, callVars, loopVars
    <3>2. TypeOK'
      BY <2>1, <2>2, <2>4 DEF TypeOK, Points
    <3>3. CallOK'
      BY DEF CallOK, StartPoints, Claimed, TearPoints
    <3>4. ServersOK'
      BY DEF ServersOK, Between
    <3>5. PathOK'
      BY <2>1, <2>2 DEF PathOK, PathOf, Between, Claimed
    <3>6. QED
      BY <3>2, <3>3, <3>4, <3>5
  <2>7. QED
    BY <2>3, <2>5, <2>6
<1>3. CASE setDataPath
  <2> USE <1>3 DEF ClusterInv, setDataPath, handleVars, worldVars
  <2>1. ASSUME NEW e \in {"conflict", "other"}, Fails(e) PROVE ClusterInv'
    <3>1. HandleType'
      BY <2>1 DEF TypeOK, HandleType
    <3>2. PathKind'
      BY <2>1 DEF PathOK, PathKind, PathOf
    <3>3. QED
      BY <3>1, <3>2, <2>1, Failing DEF Claimed
  <2>2. CASE Proceeds("startPD")
    <3> USE <2>2 DEF Proceeds, Goto, callVars, loopVars
    <3>2. TypeOK'
      BY DEF TypeOK, Points
    <3>3. CallOK'
      BY DEF CallOK, StartPoints, Claimed, TearPoints
    <3>4. ServersOK' /\ PathOK'
      BY DEF ServersOK, PathOK, PathOf, Between, Claimed
    <3>5. QED
      BY <3>2, <3>3, <3>4
  <2>3. QED
    BY <2>1, <2>2
<1>4. QED
  BY <1>1, <1>2, <1>3

\* One more store.
LEMMA StoreCount ==
  ASSUME NEW n \in Nat
  PROVE  /\ Cardinality(Stores(n)) = n
         /\ Stores(n) \cup {<<made, n + 1>>} = Stores(n + 1)
<1>1. IsFiniteSet(1..n) /\ Cardinality(1..n) = n
  BY FS_Interval
<1>2. IsFiniteSet({made}) /\ Cardinality({made}) = 1
  BY FS_Singleton
<1>3. Cardinality(Stores(n)) = 1 * n
  BY <1>1, <1>2, FS_Product DEF Stores
<1>4. 1..(n + 1) = (1..n) \cup {n + 1}
  OBVIOUS
<1>5. QED
  BY <1>3, <1>4 DEF Stores

\* What starting server k leaves, and where it leads.
LEMMA ServerStarts ==
  ASSUME ClusterInv, at \in {"startPD", "startTiKV"}, mu # NoOne,
         NEW k \in Servers, k <= config.tikvCount, NEW l, StartServer(k, l),
         UNCHANGED <<config, started, record, dataPath, ownsDataPath>>
  PROVE  \/ ClusterInv' /\ at' = "stopTiKV"
         \/ /\ HandleType' /\ PathKind' /\ Proceeds(l)
            /\ pd' = (IF k = 0 THEN {<<made, 0>>} ELSE pd)
            /\ tikvs' = (IF k = 0 THEN tikvs ELSE tikvs \cup {<<made, k>>})
            /\ made' = made
<1> USE DEF ClusterInv
<1>1. /\ record = made /\ made \in Ids /\ dataPath \in {CallerDir} \cup Ids
      /\ k \in 0..config.tikvCount
  BY Bounds DEF TypeOK, CallOK, PathOK, PathOf, Claimed, Ids, Servers
<1>2. PathKind'
  BY DEF PathOK, PathKind
<1>3. ASSUME HandleType', Fails("other")
      PROVE  ClusterInv' /\ at' = "stopTiKV"
  BY <1>2, <1>3, Failing DEF Claimed, Fails, Teardown, Goto
<1>4. CASE Fails("other") /\ UNCHANGED <<pd, tikvs, worldVars>>
  <2>1. HandleType'
    BY <1>4 DEF TypeOK, HandleType, worldVars
  <2>2. QED
    BY <1>3, <1>4, <2>1
<1>5. CASE /\ alive' = alive \cup {<<record, k>>}
           /\ wrote' = wrote \cup {<<dataPath, k, record>>}
           /\ pd' = IF k = 0 THEN {<<record, k>>} ELSE pd
           /\ tikvs' = IF k = 0 THEN tikvs ELSE tikvs \cup {<<record, k>>}
           /\ \/ listed' = [listed EXCEPT ![record] = @ \cup {k}] /\ Proceeds(l)
              \/ Fails("other") /\ UNCHANGED listed
           /\ UNCHANGED <<made, rec>>
  <2>1. /\ pd' \subseteq Ids \X {0} /\ tikvs' \subseteq Ids \X (1..config'.tikvCount)
        /\ alive' \subseteq Ids \X Servers
        /\ wrote' \subseteq ({CallerDir} \cup Ids) \X Servers \X Ids
    BY <1>1, <1>5 DEF TypeOK
  <2>2. listed' \in [Ids -> SUBSET Servers]
    BY <1>1, <1>5 DEF TypeOK
  <2>3. HandleType'
    BY <1>5, <2>1, <2>2 DEF TypeOK, HandleType
  <2>4. QED
    BY <1>1, <1>2, <1>3, <1>5, <2>3
<1>6. QED
  BY <1>4, <1>5 DEF StartServer

\* The servers of an attempt, and the waits.
LEMMA AttemptEnds ==
  ASSUME ClusterInv, startPD \/ waitPDReady \/ startTiKV \/ waitStoresUp
  PROVE  ClusterInv'
<1> USE DEF In, ClusterInv
<1>0. config.tikvCount \in 0..MaxStores /\ MaxStores \in Nat
  BY Bounds DEF TypeOK
<1>1. CASE startPD
  <2>1. 0 \in Servers /\ 0 <= config.tikvCount
    BY <1>0 DEF Servers
  <2>2. CASE /\ HandleType' /\ PathKind' /\ Proceeds("waitPD")
             /\ pd' = {<<made, 0>>} /\ tikvs' = tikvs /\ made' = made
    <3> USE <1>1, <2>2 DEF startPD, Proceeds, Goto, callVars, loopVars
    <3>1. TypeOK'
      BY DEF TypeOK, HandleType, Points
    <3>2. CallOK'
      BY DEF CallOK, StartPoints, Claimed, TearPoints
    <3>3. ServersOK' /\ PathOK'
      BY DEF ServersOK, PathOK, PathOf, Between, Claimed
    <3>4. QED
      BY <3>1, <3>2, <3>3
  <2>3. QED
    BY <1>1, <2>1, <2>2, ServerStarts DEF startPD
<1>2. CASE startTiKV
  <2> DEFINE k == Cardinality(tikvs) + 1
             l == IF LastStore(k) THEN "waitStores" ELSE "startTiKV"
  <2>1. PICK n \in 0..(config.tikvCount - 1) : tikvs = Stores(n)
    BY <1>2 DEF startTiKV, ServersOK
  <2>2. n \in Nat /\ n + 1 <= config.tikvCount /\ n + 1 \in Servers /\ n + 1 # 0
    BY <1>0, <2>1 DEF Servers
  <2>3. k = n + 1
    BY <2>1, <2>2, StoreCount
  <2>4. CASE /\ HandleType' /\ PathKind' /\ Proceeds(l)
             /\ pd' = pd /\ tikvs' = tikvs \cup {<<made, k>>} /\ made' = made
    <3> HIDE DEF k
    <3> USE <1>2, <2>4 DEF startTiKV, Proceeds, Goto, callVars, loopVars
    <3>1. at' = l /\ at' \in {"waitStores", "startTiKV"}
      OBVIOUS
    <3>2. TypeOK'
      BY <3>1 DEF TypeOK, HandleType, Points
    <3>3. CallOK'
      BY <3>1 DEF CallOK, StartPoints, Claimed, TearPoints
    <3>4. PathOK'
      BY <3>1 DEF PathOK, PathOf, Between, Claimed
    <3>5. tikvs' = Stores(n + 1) /\ Stores(n + 1)' = Stores(n + 1)
      BY <2>1, <2>2, <2>3, StoreCount DEF Stores
    <3>6. ServersOK'
      <4>1. pd' = {<<made', 0>>}
        BY DEF ServersOK
      <4>2. CASE at' = "waitStores"
        <5>1. n + 1 = config'.tikvCount
          BY <2>3, <3>1, <4>2 DEF LastStore
        <5>2. QED
          BY <3>5, <4>1, <4>2, <5>1 DEF ServersOK, Between, Stores
      <4>3. CASE at' = "startTiKV"
        <5>1. n + 1 \in 0..(config'.tikvCount - 1)
          BY <1>0, <2>2, <2>3, <3>1, <4>3 DEF LastStore
        <5>2. QED
          BY <3>5, <4>1, <4>3, <5>1 DEF ServersOK, Between, Stores
      <4>4. QED
        BY <3>1, <4>2, <4>3
    <3>7. QED
      BY <3>2, <3>3, <3>4, <3>6
  <2>5. StartServer(n + 1, l) /\ UNCHANGED <<config, started, record, dataPath, ownsDataPath>>
    BY <1>2, <2>3 DEF startTiKV
  <2>6. \/ ClusterInv'
        \/ /\ HandleType' /\ PathKind' /\ Proceeds(l)
           /\ pd' = pd /\ tikvs' = tikvs \cup {<<made, n + 1>>} /\ made' = made
    <3> HIDE DEF l
    <3>1. QED
      BY <1>2, <2>2, <2>5, ServerStarts DEF startTiKV
  <2>7. QED
    BY <2>3, <2>4, <2>6
<1>3. CASE waitPDReady \/ waitStoresUp
  <2>1. ASSUME NEW e \in {"conflict", "other"}, Fails(e),
               UNCHANGED <<config, handleVars, worldVars>>
        PROVE  ClusterInv'
    <3>1. HandleType' /\ PathKind'
      BY <2>1 DEF TypeOK, HandleType, PathOK, PathKind, handleVars, worldVars
    <3>2. QED
      BY <1>3, <2>1, <3>1, Failing DEF waitPDReady, waitStoresUp, Claimed, handleVars
  <2>2. CASE waitPDReady /\ Proceeds("startTiKV")
    <3> USE <2>2 DEF waitPDReady, Proceeds, Goto, callVars, loopVars, handleVars, worldVars
    <3>1. TypeOK'
      BY DEF TypeOK, Points
    <3>2. CallOK'
      BY DEF CallOK, StartPoints, Claimed, TearPoints
    <3>3. PathOK'
      BY DEF PathOK, PathOf, Between, Claimed
    <3>4. ServersOK'
      <4>1. 0 \in 0..(config.tikvCount - 1)
        BY <1>0 DEF CallOK, StartPoints, Claimed
      <4>2. tikvs = Stores(0)'
        BY DEF ServersOK, Stores
      <4>3. QED
        BY <4>1, <4>2 DEF ServersOK, Between
    <3>5. QED
      BY <3>1, <3>2, <3>3, <3>4
  <2>3. CASE waitStoresUp /\ started' = TRUE /\ ReturnErr("nil")
    <3> USE <2>3 DEF waitStoresUp, ReturnErr, Return, worldVars
    <3>1. TypeOK'
      BY First DEF TypeOK, Points
    <3>2. CallOK'
      BY DEF CallOK, StartPoints, Claimed, TearPoints
    <3>3. ServersOK' /\ PathOK'
      BY DEF ServersOK, PathOK, PathOf, Between, Claimed, Stores
    <3>4. QED
      BY <3>1, <3>2, <3>3
  <2>4. QED
    BY <1>3, <2>1, <2>2, <2>3 DEF waitPDReady, waitStoresUp, handleVars
<1>4. QED
  BY <1>1, <1>2, <1>3

\* Stop, and teardown for either.
LEMMA TeardownSteps ==
  ASSUME ClusterInv, StopEnter \/ StopTiKV \/ StopPD \/ ClearDataPath
  PROVE  ClusterInv'
<1> USE DEF In, ClusterInv
<1>1. CASE StopEnter
  <2>1. CASE ReturnErr("notStarted")
    BY <1>1, <2>1, Returns DEF StopEnter, ReturnErr
  <2>2. CASE started /\ Teardown /\ UNCHANGED <<attempt, lastErr>>
    <3> USE <1>1, <2>2 DEF StopEnter, Teardown, Goto, callVars, handleVars, worldVars
    <3>1. TypeOK'
      BY DEF TypeOK, Points
    <3>2. CallOK'
      BY DEF CallOK, StartPoints, Claimed, TearPoints
    <3>3. ServersOK' /\ PathOK'
      BY DEF ServersOK, PathOK, PathOf, Between, Claimed
    <3>4. QED
      BY <3>1, <3>2, <3>3
  <2>3. QED
    BY <1>1, <2>1, <2>2 DEF StopEnter
<1>2. CASE StopTiKV
  <2> USE <1>2 DEF StopTiKV, StopServer, Goto, callVars, handleVars
  <2>1. at' \in {"stopTiKV", "stopPD"} /\ mu' = mu /\ call' = call
    OBVIOUS
  <2>2. \A k \in {t[2] : t \in tikvs} : k \in Servers
    BY Bounds DEF TypeOK, Servers
  <2>3. stopped' \subseteq Servers /\ alive' \subseteq alive /\ firstErr' \in BOOLEAN
    BY <2>2 DEF TypeOK
  <2>4. TypeOK'
    BY <2>1, <2>3 DEF TypeOK, Points
  <2>5. CallOK'
    BY <2>1 DEF CallOK, StartPoints, Claimed, TearPoints
  <2>6. ServersOK' /\ PathOK'
    BY <2>1 DEF ServersOK, PathOK, Between, Claimed
  <2>7. QED
    BY <2>4, <2>5, <2>6
<1>3. CASE StopPD
  <2> USE <1>3 DEF StopPD, StopServer, Goto, callVars
  <2>0. 0 \in Servers
    BY Bounds DEF Servers
  <2>1. stopped' \subseteq Servers /\ alive' \subseteq alive /\ firstErr' \in BOOLEAN
    BY <2>0 DEF TypeOK
  <2>2. TypeOK'
    BY <2>1 DEF TypeOK, Points
  <2>3. CallOK'
    BY DEF CallOK, StartPoints, Claimed, TearPoints
  <2>4. ServersOK' /\ PathOK'
    BY DEF ServersOK, PathOK, Between, Claimed
  <2>5. QED
    BY <2>2, <2>3, <2>4
<1>4. CASE ClearDataPath
  <2> USE <1>4 DEF ClearDataPath, Goto, callVars
  <2>1. wrote' \subseteq wrote /\ firstErr' \in BOOLEAN /\ dataPath' \in {dataPath, NoPath}
    BY DEF TypeOK
  <2>2. TypeOK'
    BY <2>1 DEF TypeOK, Points
  <2>3. CallOK'
    BY DEF CallOK, StartPoints, Claimed, TearPoints
  <2>4. ServersOK'
    BY DEF ServersOK, Between
  <2>5. ~config.dataPath => dataPath' = NoPath
    BY DEF PathOK
  <2>6. PathOK'
    BY <2>1, <2>5 DEF PathOK, Between, Claimed
  <2>7. QED
    BY <2>2, <2>3, <2>4, <2>6
<1>5. QED
  BY <1>1, <1>2, <1>3, <1>4

\* The end of teardown, and Stop's sweep.
LEMMA ReleaseSteps ==
  ASSUME ClusterInv, Release \/ StopSweep
  PROVE  ClusterInv'
<1> USE DEF In, ClusterInv
<1>1. CASE Release
  <2>1. /\ rec' \in [Ids -> RecStates] /\ listed' \in [Ids -> SUBSET Servers] /\ record' = 0
    BY <1>1 DEF Release, TypeOK, RecStates, RecordAfter
  <2>2. CASE /\ call[mu] = "Start" /\ lastErr = "conflict" /\ attempt < StartAttempts
             /\ attempt' = attempt + 1 /\ Goto("open")
             /\ UNCHANGED <<started, lastErr, stopped, firstErr>>
    <3> USE <1>1, <2>2 DEF Release, Goto, callVars
    <3>1. attempt' \in 1..StartAttempts
      BY Bounds DEF TypeOK
    <3>2. TypeOK'
      BY <2>1, <3>1 DEF TypeOK, Points
    <3>4. CallOK'
      BY DEF CallOK, StartPoints, Claimed, TearPoints
    <3>5. ServersOK' /\ PathOK'
      BY DEF ServersOK, PathOK, Between, Claimed
    <3>6. QED
      BY <3>2, <3>4, <3>5
  <2>3. ASSUME NEW e, ReturnErr(e), started' = FALSE
        PROVE  ClusterInv'
    <3> USE <1>1, <2>3 DEF Release, ReturnErr, Return
    <3>1. TypeOK'
      BY <2>1, First DEF TypeOK, Points
    <3>2. CallOK'
      BY DEF CallOK, StartPoints, Claimed, TearPoints
    <3>3. ServersOK' /\ PathOK'
      BY DEF ServersOK, PathOK, Between, Claimed
    <3>4. QED
      BY <3>1, <3>2, <3>3
  <2>4. CASE call[mu] = "Stop" /\ started' = FALSE /\ Proceeds("stopSweep")
    <3> USE <1>1, <2>4 DEF Release, Proceeds, Goto, callVars, loopVars
    <3>1. TypeOK'
      BY <2>1 DEF TypeOK, Points
    <3>2. CallOK'
      BY DEF CallOK, StartPoints, Claimed, TearPoints
    <3>3. ServersOK' /\ PathOK'
      BY DEF ServersOK, PathOK, Between, Claimed
    <3>4. QED
      BY <3>1, <3>2, <3>3
  <2>5. call[mu] = "Start" => started = FALSE
    BY <1>1 DEF Release, CallOK, TearPoints, TypeOK
  <2>6. QED
    BY <1>1, <2>2, <2>3, <2>4, <2>5 DEF Release
<1>2. CASE StopSweep
  <2> USE <1>2 DEF StopSweep, CleanOrphans, Leftover, ReturnErr, Return, handleVars
  <2>1. TypeOK'
    BY First DEF TypeOK, Points, RecStates
  <2>2. CallOK'
    BY DEF CallOK, StartPoints, Claimed, TearPoints
  <2>3. ServersOK' /\ PathOK'
    BY DEF CallOK, ServersOK, PathOK, Between, Claimed
  <2>4. QED
    BY <2>1, <2>2, <2>3
<1>3. QED
  BY <1>1, <1>2

\* The invariant is inductive.
LEMMA ClusterInvStep ==
  ASSUME ClusterInv, [Next]_vars
  PROVE  ClusterInv'
<1>1. CASE UNCHANGED vars
  BY <1>1 DEF vars, callVars, handleVars, loopVars, worldVars, ClusterInv, TypeOK, CallOK,
     ServersOK, PathOK, PathOf, Stores
<1>2. CASE Endpoints \/ StoreAddrs \/ DataPath
  BY <1>2, Returns DEF Endpoints, StoreAddrs, DataPath, In
<1>3. CASE (\E i \in Ids, k \in Servers : ServerExits(i, k)) \/ OtherSweep
  <2> USE <1>3 DEF ServerExits, OtherSweep, CleanOrphans, Leftover, callVars, handleVars, loopVars
  <2>1. UNCHANGED <<config, callVars, mu, at, handleVars, loopVars, made, listed>>
    OBVIOUS
  <2>2. alive' \subseteq alive /\ wrote' \subseteq wrote /\ rec' \in [Ids -> RecStates]
    BY DEF ClusterInv, TypeOK, RecStates
  <2>3. QED
    BY <2>1, <2>2 DEF ClusterInv, TypeOK, CallOK, ServersOK, PathOK, PathOf, Stores
<1>4. QED
  BY <1>1, <1>2, <1>3, BeginLock, StartBegins, AttemptBegins, AttemptEnds, TeardownSteps,
     ReleaseSteps DEF Next, HolderStep

\* Every variable keeps its type: the loop starts as many stores as were
\* asked for, and stays within its attempts.
THEOREM ClusterTypeCorrect == Spec => []TypeOK
<1>1. ClusterInv => TypeOK
  BY DEF ClusterInv
<1>2. QED
  BY <1>1, ClusterInvInit, ClusterInvStep, PTL DEF Spec

Up == IF started \/ at = "stopSweep" THEN made ELSE 0

\* The accessors, and Start and Stop when they return, as ClusterHandle has
\* them.
LEMMA AccessorAnswers ==
  ASSUME ClusterInv, Endpoints \/ StoreAddrs \/ DataPath
  PROVE  Handle!Next
<1> USE DEF In, ClusterInv
<1>1. mu \in Goroutines /\ at = "enter" /\ Up' = Up /\ Up = IF started THEN made ELSE 0
  BY DEF Endpoints, StoreAddrs, DataPath, TypeOK, Return, Up, handleVars, worldVars
<1>2. CASE Endpoints
  <2>1. pd = IF Up = 0 THEN {} ELSE {<<Up, 0>>}
    BY <1>1 DEF ServersOK, CallOK, Between
  <2>2. Handle!Endpoints(mu)
    BY <1>1, <1>2, <2>1 DEF Endpoints, Return, Nothing, NoPath, Up, Handle!Endpoints,
       Handle!Answer, Handle!Nothing
  <2>3. QED
    BY <1>1, <2>2 DEF Handle!Next
<1>3. CASE StoreAddrs
  <2>1. tikvs = IF Up = 0 THEN {} ELSE {Up} \X (1..config.tikvCount)
    BY <1>1 DEF ServersOK, CallOK, Between, Stores
  <2>2. Handle!StoreAddrs(mu)
    BY <1>1, <1>3, <2>1 DEF StoreAddrs, Return, Nothing, NoPath, Up, Handle!StoreAddrs,
       Handle!Answer, Handle!Nothing
  <2>3. QED
    BY <1>1, <2>2 DEF Handle!Next
<1>4. CASE DataPath
  <2>1. /\ dataPath \in {Up, CallerDir}
        /\ dataPath = CallerDir => config.dataPath
        /\ config.dataPath /\ Up # 0 => dataPath = CallerDir
    BY <1>1, Bounds DEF PathOK, CallOK, TypeOK, Between, PathOf, NoPath, CallerDir
  <2>2. Handle!DataPath(mu)
    BY <1>1, <1>4, <2>1 DEF DataPath, Return, Nothing, NoPath, CallerDir, Up,
       Handle!DataPath, Handle!Answer, Handle!Nothing, Handle!CallerDir
  <2>3. QED
    BY <1>1, <2>2 DEF Handle!Next
<1>5. QED
  BY <1>2, <1>3, <1>4

\* A return of Start or Stop with error e.
LEMMA ReturnAnswers ==
  ASSUME NEW op, NEW e, mu \in Goroutines, call[mu] = op, ReturnErr(e), config' = config
  PROVE  Handle!Answer(mu, op, Handle!Err(e))
  BY DEF ReturnErr, Return, Nothing, NoPath, Handle!Answer, Handle!Err, Handle!Nothing

Stutters == UNCHANGED <<config, call, ans>> /\ Up' = Up

\* Start takes effect when it returns.
LEMMA StartAnswers ==
  ASSUME ClusterInv,
         \/ StartEnter \/ StartSweep \/ resolveBinaries \/ openRecord \/ prepareDataPath
         \/ setDataPath \/ startPD \/ waitPDReady \/ startTiKV \/ waitStoresUp
  PROVE  Handle!Next \/ Stutters
<1> USE DEF ClusterInv, In
<1>1. mu \in Goroutines /\ call[mu] = "Start"
  BY DEF TypeOK, StartEnter, StartSweep, resolveBinaries, openRecord, prepareDataPath,
     setDataPath, startPD, waitPDReady, startTiKV, waitStoresUp
<1>2. CASE StartEnter
  <2>1. at' # "stopSweep" /\ at = "enter" /\ Up' = Up /\ config' = config
    BY <1>2 DEF StartEnter, ReturnErr, Return, Proceeds, Goto, handleVars, worldVars, Up
  <2>2. CASE started /\ ReturnErr("already")
    <3>1. Up # 0
      BY <2>2 DEF Up, CallOK
    <3>2. Handle!Start(mu)
      BY <1>1, <2>1, <2>2, <3>1, ReturnAnswers DEF Handle!Start, Up
    <3>3. QED
      BY <1>1, <3>2 DEF Handle!Next
  <2>3. CASE ~started /\ ReturnErr("error")
    <3>1. Up = 0
      BY <2>1, <2>3 DEF Up
    <3>2. Handle!Start(mu)
      BY <1>1, <2>1, <2>3, <3>1, ReturnAnswers DEF Handle!Start, Up
    <3>3. QED
      BY <1>1, <3>2 DEF Handle!Next
  <2>4. CASE Proceeds(IF config.reapOrphans THEN "sweep" ELSE "resolve")
    BY <2>1, <2>4 DEF Proceeds, Goto, callVars, Stutters
  <2>5. QED
    BY <1>2, <2>2, <2>3, <2>4 DEF StartEnter
<1>3. CASE ~StartEnter
  <2>1. ~started /\ at \in StartPoints /\ Up = 0 /\ config.tikvCount >= 1
    BY <1>3 DEF CallOK, Up, StartPoints, Claimed, StartSweep, resolveBinaries, openRecord,
       prepareDataPath, setDataPath, startPD, waitPDReady, startTiKV, waitStoresUp
  <2>2. config' = config
    BY <1>3 DEF StartSweep, resolveBinaries, openRecord, prepareDataPath, setDataPath,
       startPD, waitPDReady, startTiKV, waitStoresUp
  <2>3. CASE resolveBinaries /\ ReturnErr("error")
    <3>1. Up' = Up
      BY <2>1, <2>3 DEF resolveBinaries, ReturnErr, Return, handleVars, Up
    <3>2. Handle!Start(mu)
      BY <1>1, <2>1, <2>2, <2>3, <3>1, ReturnAnswers DEF Handle!Start, Up
    <3>3. QED
      BY <1>1, <3>2 DEF Handle!Next
  <2>4. CASE waitStoresUp /\ started' = TRUE /\ ReturnErr("nil")
    <3>1. Up' \in Nat \ {0}
      BY <2>4, Bounds DEF waitStoresUp, CallOK, TypeOK, Claimed, worldVars, Up
    <3>2. Handle!Start(mu)
      BY <1>1, <2>1, <2>2, <2>4, <3>1, ReturnAnswers DEF Handle!Start, Up
    <3>3. QED
      BY <1>1, <3>2 DEF Handle!Next
  <2>5. CASE ~(resolveBinaries /\ ReturnErr("error"))
             /\ ~(waitStoresUp /\ started' = TRUE /\ ReturnErr("nil"))
    <3>1. \/ \E l \in {"resolve", "open", "prepare", "setPath", "startPD", "waitPD", "startTiKV",
                      "waitStores"} : Goto(l)
          \/ \E e : Fails(e)
      BY <1>3, <2>5 DEF StartSweep, resolveBinaries, openRecord, prepareDataPath,
         setDataPath, startPD, waitPDReady, startTiKV, waitStoresUp, Proceeds, StartServer
    <3>2. UNCHANGED callVars /\ at' # "stopSweep"
      BY <3>1 DEF Goto, Fails, Teardown
    <3>3. started' = started
      BY <1>3, <2>5 DEF StartSweep, resolveBinaries, openRecord, prepareDataPath,
         setDataPath, startPD, waitPDReady, startTiKV, waitStoresUp, handleVars
    <3>4. QED
      BY <2>1, <2>2, <3>2, <3>3 DEF Up, Stutters, callVars
  <2>6. QED
    BY <2>3, <2>4, <2>5
<1>4. QED
  BY <1>2, <1>3

\* Stop takes effect when it returns; Start, when its last attempt fails.
LEMMA StopAnswers ==
  ASSUME ClusterInv,
         StopEnter \/ StopTiKV \/ StopPD \/ ClearDataPath \/ Release \/ StopSweep
  PROVE  Handle!Next \/ Stutters
<1> USE DEF ClusterInv, In
<1>1. mu \in Goroutines
  BY DEF TypeOK, StopEnter, StopTiKV, StopPD, ClearDataPath, Release, StopSweep
<1>2. CASE StopEnter
  <2>1. CASE ~started /\ ReturnErr("notStarted")
    <3>1. Up = 0 /\ Up' = Up /\ config' = config
      BY <1>2, <2>1 DEF StopEnter, ReturnErr, Return, handleVars, Up
    <3>2. Handle!Stop(mu)
      BY <1>1, <1>2, <2>1, <3>1, ReturnAnswers DEF StopEnter, Handle!Stop, Up
    <3>3. QED
      BY <1>1, <3>2 DEF Handle!Next
  <2>2. CASE started /\ Teardown
    BY <1>2, <2>2 DEF StopEnter, Teardown, Goto, callVars, handleVars, worldVars, Up, Stutters
  <2>3. QED
    BY <1>2, <2>1, <2>2 DEF StopEnter
<1>3. CASE StopTiKV \/ StopPD \/ ClearDataPath
  <2>1. UNCHANGED <<config, callVars, started, made>> /\ {at, at'} \subseteq TearPoints
    BY <1>3 DEF StopTiKV, StopPD, ClearDataPath, StopServer, Goto, handleVars, TearPoints
  <2>2. QED
    BY <2>1 DEF Up, Stutters, callVars, TearPoints
<1>4. CASE Release
  <2>1. /\ at = "release" /\ config' = config /\ made' = made
        /\ call[mu] = "Start" => Up = 0 /\ started = FALSE
        /\ call[mu] = "Stop" => Up = made /\ made # 0 /\ started = TRUE
    BY <1>4 DEF Release, CallOK, TearPoints, Up, TypeOK
  <2>2. CASE call[mu] = "Start" /\ Goto("open") /\ started' = started
    BY <2>1, <2>2 DEF Goto, callVars, Up, Stutters
  <2>3. CASE call[mu] = "Start" /\ ReturnErr("error") /\ started' = started
    <3>1. Up' = Up
      BY <2>1, <2>3 DEF ReturnErr, Return, Up
    <3>2. Handle!Start(mu)
      BY <1>1, <2>1, <2>3, <3>1, ReturnAnswers DEF Handle!Start, Up
    <3>3. QED
      BY <1>1, <3>2 DEF Handle!Next
  <2>4. CASE call[mu] = "Stop" /\ started' = FALSE /\ Proceeds("stopSweep")
    BY <2>1, <2>4 DEF Proceeds, Goto, callVars, Up, Stutters
  <2>5. ASSUME NEW e \in {"nil", "error"}, call[mu] = "Stop", started' = FALSE, ReturnErr(e)
        PROVE  Handle!Next
    <3>1. Up' = 0
      BY <2>5 DEF ReturnErr, Return, Up
    <3>2. Handle!Stop(mu)
      BY <1>1, <2>1, <2>5, <3>1, ReturnAnswers DEF Handle!Stop, Up
    <3>3. QED
      BY <1>1, <3>2 DEF Handle!Next
  <2>6. QED
    BY <1>4, <2>2, <2>3, <2>4, <2>5 DEF Release
<1>5. CASE StopSweep
  <2>1. Up # 0 /\ Up' = 0 /\ config' = config /\ call[mu] = "Stop"
    BY <1>5 DEF StopSweep, CallOK, ReturnErr, Return, handleVars, Up
  <2>2. PICK e \in {"nil", "error"} : ReturnErr(e)
    BY <1>5 DEF StopSweep
  <2>3. Handle!Stop(mu)
    BY <1>1, <2>1, <2>2, ReturnAnswers DEF Handle!Stop, Up
  <2>4. QED
    BY <1>1, <2>3 DEF Handle!Next
<1>6. QED
  BY <1>2, <1>3, <1>4, <1>5

\* A Cluster value implements ClusterHandle: each call takes effect at one
\* instant, for any number of goroutines that share the value and whatever
\* fails in between.
THEOREM HandleAtomic == Spec => ImplementsHandle
<1>1. Init => Handle!Init
  BY DEF Init, Nothing, NoPath, Handle!Init, Handle!Nothing
<1>2. ASSUME ClusterInv, [Next]_vars
      PROVE  [Handle!Next]_<<config, Up, call, ans>>
  <2>1. CASE UNCHANGED vars
    BY <2>1 DEF vars, callVars, handleVars, worldVars, Up
  <2>2. ASSUME NEW g \in Goroutines, NEW op \in Calls[g], Begin(g, op)
        PROVE  Handle!Next
    <3>1. op \in {"Start", "Stop", "Endpoints", "StoreAddrs", "DataPath"}
      BY <2>2, ClusterAssumption DEF Ops
    <3>2. Handle!Begin(g, op)
      BY <2>2 DEF Begin, Nothing, NoPath, handleVars, worldVars, Up, Handle!Begin,
         Handle!Nothing
    <3>3. QED
      BY <2>2, <3>1, <3>2 DEF Handle!Next
  <2>3. ASSUME NEW g \in Goroutines, Lock(g)
        PROVE  Stutters
    BY <1>2, <2>3 DEF ClusterInv, CallOK, Lock, callVars, handleVars, worldVars, Up, Stutters
  <2>4. ASSUME (\E i \in Ids, k \in Servers : ServerExits(i, k)) \/ OtherSweep
        PROVE  Stutters
    <3>1. UNCHANGED <<config, call, ans, at, started, made>>
      BY <2>4 DEF ServerExits, OtherSweep, CleanOrphans, Leftover, callVars, handleVars
    <3>2. QED
      BY <3>1 DEF Stutters, Up
  <2>5. QED
    BY <1>2, <2>1, <2>2, <2>3, <2>4, AccessorAnswers, StartAnswers, StopAnswers
       DEF Next, HolderStep, Stutters
<1>3. QED
  BY <1>1, <1>2, ClusterInvInit, ClusterInvStep, PTL
     DEF Spec, ImplementsHandle, Handle!Spec, Handle!vars, Up
=============================================================================
