------------------------- MODULE ClusterRestProofs -------------------------
(***************************************************************************)
(* Proofs about what the attempts of a Cluster value leave behind, for any *)
(* number of goroutines, stores, attempts and identities: nothing is lost, *)
(* and no cluster runs on the data of another attempt.                     *)
(***************************************************************************)
EXTENDS ClusterProofs

\* The cluster has an identity while there is anything of it, and that is the
\* identity claimed last.
IdentityOK ==
  /\ record \in {0, made}
  /\ started => record = made
  /\ ~started /\ at \in Between \cup {"sweep", "resolve", "open", "stopSweep"} => record = 0
  /\ pd \cup tikvs \subseteq {made} \X Servers
  /\ pd \cup tikvs # {} => record = made
  /\ \A i \in Ids : i > made => rec[i] = "none"
  /\ \A i \in Ids : rec[i] = "held" <=> i = record

\* teardown is through with the stores before it turns to PD.
TearOK == at = "stopPD" => {t[2] : t \in tikvs} \subseteq stopped

\* A server that runs is one the handle still has to stop, one that teardown
\* could not stop and has noted, or one of an earlier attempt: under a kept
\* record, or out of reach of the sweep that took the record.
ToStop(k) == <<record, k>> \in pd \cup tikvs /\ (at \in TearPoints => k \notin stopped)
Noted == at \in TearPoints /\ firstErr

AliveOK ==
  \A i \in Ids, k \in Servers : <<i, k>> \in alive =>
    IF i = record THEN ToStop(k) \/ Noted
    ELSE rec[i] = "kept" \/ (rec[i] = "reclaimed" /\ Unlisted(i, k))

\* A directory of the library's own holds its identity's data only, and is in
\* use, due to be removed, or one whose teardown kept its record.
OwnDirOK ==
  \A w \in wrote : w[1] # CallerDir =>
    /\ w[1] = w[3]
    /\ \/ Unstopped(w[1])
       \/ w[1] = record /\ (dataPath = record \/ (at = "release" /\ firstErr))

\* Once prepareDataPath is through, a directory of the cluster's holds its own
\* data and that of attempts whose teardown failed.
Prepared == pd \cup tikvs # {} \/ at \in Claimed \ {"prepare"}

CleanOK ==
  Prepared =>
    \A w \in wrote : w[1] = dataPath /\ w[2] <= config.tikvCount =>
      w[3] = made \/ Unstopped(w[3])

RestInv == ClusterInv /\ IdentityOK /\ TearOK /\ AliveOK /\ OwnDirOK /\ CleanOK

\* A new Cluster value has nothing to lose.
LEMMA RestInvInit == Init => RestInv
<1> SUFFICES ASSUME Init PROVE RestInv
  OBVIOUS
<1>1. ClusterInv
  BY ClusterInvInit
<1>2. IdentityOK /\ TearOK /\ AliveOK /\ OwnDirOK /\ CleanOK
  BY Bounds DEF Init, IdentityOK, TearOK, AliveOK, OwnDirOK, CleanOK, Between, Ids
<1>3. QED
  BY <1>1, <1>2 DEF RestInv

\* A step outside teardown, or into it, that leaves servers, records and
\* directories as they are.
LEMMA Quiet ==
  ASSUME RestInv, ClusterInv',
         UNCHANGED <<config, record, pd, tikvs, dataPath, worldVars>>,
         at \notin TearPoints,
         at' \in TearPoints => at' = "stopTiKV" /\ stopped' = {},
         at' \in Claimed \ {"prepare"} => at \in Claimed \ {"prepare"},
         started' => record = made,
         ~started' /\ at' \in Between \cup {"sweep", "resolve", "open", "stopSweep"}
           => record = 0
  PROVE  RestInv'
<1> USE DEF RestInv, worldVars
<1>1. IdentityOK'
  BY DEF IdentityOK
<1>2. TearOK'
  BY DEF TearOK, TearPoints
<1>3. AliveOK'
  <2>1. ASSUME NEW k \in Servers, ToStop(k) PROVE ToStop(k)'
    BY <2>1 DEF ToStop
  <2>2. ~Noted
    BY DEF Noted
  <2>3. QED
    BY <2>1, <2>2 DEF AliveOK, Unlisted
<1>4. OwnDirOK'
  BY DEF OwnDirOK, TearPoints, Unstopped
<1>5. CleanOK'
  BY DEF CleanOK, Prepared, Unstopped
<1>6. QED
  BY <1>1, <1>2, <1>3, <1>4, <1>5

\* Calls that begin, wait, answer, or go on without an effect, and attempts
\* that fail with what they have.
LEMMA QuietSteps ==
  ASSUME RestInv, ClusterInv',
         \/ \E g \in Goroutines : Lock(g) \/ \E op \in Calls[g] : Begin(g, op)
         \/ Endpoints \/ StoreAddrs \/ DataPath
         \/ StartEnter \/ resolveBinaries \/ setDataPath \/ waitPDReady \/ waitStoresUp
         \/ StopEnter
         \/ openRecord /\ Fails("other") /\ UNCHANGED <<made, record, rec>>
         \/ /\ startPD \/ startTiKV
            /\ Fails("other") /\ UNCHANGED <<pd, tikvs, worldVars>>
  PROVE  RestInv'
<1> USE DEF In, handleVars, TearPoints, Between, Claimed
<1>1. CASE \E g \in Goroutines : Lock(g) \/ \E op \in Calls[g] : Begin(g, op)
  <2>1. ASSUME NEW g \in Goroutines, Lock(g) PROVE RestInv'
    BY <2>1, Quiet DEF Lock, RestInv, IdentityOK, ClusterInv, CallOK
  <2>2. ASSUME NEW g \in Goroutines, NEW op \in Calls[g], Begin(g, op) PROVE RestInv'
    <3>1. CASE at \notin TearPoints
      BY <2>2, <3>1, Quiet DEF Begin, RestInv, IdentityOK
    <3>2. CASE at \in TearPoints
      BY <2>2, <3>2 DEF Begin, loopVars, worldVars, RestInv, IdentityOK, TearOK, AliveOK,
         ToStop, Noted, Unlisted, OwnDirOK, CleanOK, Prepared, Unstopped
    <3>3. QED
      BY <3>1, <3>2
  <2>3. QED
    BY <1>1, <2>1, <2>2
<1>2. CASE Endpoints \/ StoreAddrs \/ DataPath
  BY <1>2, Quiet DEF Endpoints, StoreAddrs, DataPath, Return, RestInv, IdentityOK
<1>3. CASE StartEnter
  BY <1>3, Quiet DEF StartEnter, ReturnErr, Return, Proceeds, Goto, RestInv, IdentityOK
<1>4. CASE resolveBinaries
  BY <1>4, Quiet DEF resolveBinaries, ReturnErr, Return, Proceeds, Goto, RestInv, IdentityOK,
     ClusterInv, CallOK, StartPoints
<1>5. CASE setDataPath \/ waitPDReady
  BY <1>5, Quiet DEF setDataPath, waitPDReady, Fails, Teardown, Proceeds, Goto, RestInv,
     IdentityOK
<1>6. CASE waitStoresUp
  <2>1. record = made
    BY <1>6 DEF waitStoresUp, RestInv, ClusterInv, CallOK
  <2>2. QED
    BY <1>6, <2>1, Quiet DEF waitStoresUp, ReturnErr, Return, Fails, Teardown, Goto, RestInv,
       IdentityOK
<1>7. CASE StopEnter
  BY <1>7, Quiet DEF StopEnter, ReturnErr, Return, Teardown, Goto, RestInv, IdentityOK
<1>8. CASE openRecord /\ Fails("other") /\ UNCHANGED <<made, record, rec>>
  BY <1>8, Quiet DEF openRecord, Fails, Teardown, Goto, worldVars, RestInv, IdentityOK
<1>9. CASE (startPD \/ startTiKV) /\ Fails("other") /\ UNCHANGED <<pd, tikvs, worldVars>>
  BY <1>9, Quiet DEF startPD, startTiKV, Fails, Teardown, Goto, RestInv, IdentityOK
<1>10. QED
  BY <1>1, <1>2, <1>3, <1>4, <1>5, <1>6, <1>7, <1>8, <1>9

\* The types of what is written where, and of the servers that run.
LEMMA RestTypes ==
  ASSUME TypeOK
  PROVE  /\ \A w \in wrote : w[1] \in {CallerDir} \cup Ids /\ w[2] \in Servers /\ w[3] \in Ids
                             /\ w = <<w[1], w[2], w[3]>>
         /\ CallerDir \notin Ids /\ NoPath \notin Ids /\ CallerDir # NoPath
  BY Bounds DEF TypeOK, CallerDir, NoPath, Ids

\* A sweep, of this process or another: what it kills, empties and takes was
\* kept, and it leaves what it cannot reach.
LEMMA Swept ==
  ASSUME RestInv, ClusterInv', CleanOrphans,
         UNCHANGED <<config, started, record, pd, tikvs, dataPath>>,
         \/ UNCHANGED <<at, stopped, firstErr>>
         \/ at' \in {"resolve", "free"} /\ record = 0 /\ pd = {} /\ tikvs = {} /\ ~started
  PROVE  RestInv'
<1> USE DEF RestInv, CleanOrphans
<1>0. /\ \A i \in Ids : rec'[i] = IF rec[i] = "kept" THEN "reclaimed" ELSE rec[i]
      /\ made' = made /\ listed' = listed /\ record \in {0} \cup Ids /\ 0 \notin Ids
      /\ wrote' \subseteq wrote
  BY DEF ClusterInv, TypeOK, Ids, Leftover
<1>1. IdentityOK'
  BY <1>0 DEF IdentityOK, Between
<1>2. TearOK'
  BY DEF TearOK
<1>3. AliveOK'
  <2>1. ASSUME NEW i \in Ids, NEW k \in Servers, <<i, k>> \in alive', i = record
        PROVE  ToStop(k)' \/ Noted'
    <3>1. ToStop(k) \/ Noted
      BY <2>1 DEF AliveOK
    <3>2. UNCHANGED <<at, stopped, firstErr>>
      BY <1>0, <2>1
    <3>3. QED
      BY <3>1, <3>2 DEF ToStop, Noted
  <2>2. ASSUME NEW i \in Ids, NEW k \in Servers, <<i, k>> \in alive', i # record
        PROVE  rec'[i] = "reclaimed" /\ Unlisted(i, k)'
    <3>1. rec[i] = "kept" => ~Reachable(i, k)
      BY <2>2
    <3>2. Unlisted(i, k)
      BY <2>2, <3>1 DEF AliveOK, Reachable, Unlisted
    <3>3. rec[i] = "kept" \/ rec[i] = "reclaimed"
      BY <2>2 DEF AliveOK
    <3>4. QED
      BY <1>0, <3>2, <3>3 DEF Unlisted
  <2>3. QED
    BY <2>1, <2>2 DEF AliveOK
<1>4. OwnDirOK'
  <2>1. SUFFICES ASSUME NEW w \in wrote', w[1] # CallerDir
                 PROVE  /\ w[1] = w[3]
                        /\ \/ Unstopped(w[1])'
                           \/ w[1] = record /\ (dataPath = record \/ (at' = "release" /\ firstErr'))
    BY DEF OwnDirOK
  <2>2. w \in wrote /\ w[1] \in Ids
    BY <1>0, <2>1, RestTypes DEF ClusterInv
  <2>3. CASE Unstopped(w[1])
    BY <1>0, <2>1, <2>2, <2>3 DEF OwnDirOK, Unstopped
  <2>4. CASE ~Unstopped(w[1])
    <3>1. w[1] = w[3] /\ w[1] = record /\ (dataPath = record \/ (at = "release" /\ firstErr))
      BY <2>1, <2>2, <2>4 DEF OwnDirOK
    <3>2. QED
      BY <1>0, <2>2, <3>1
  <2>5. QED
    BY <2>3, <2>4
<1>5. CleanOK'
  <2>1. SUFFICES ASSUME Prepared', NEW w \in wrote', w[1] = dataPath, w[2] <= config.tikvCount
                 PROVE  w[3] = made \/ Unstopped(w[3])'
    BY <1>0 DEF CleanOK
  <2>2. Prepared /\ w \in wrote /\ w[3] \in Ids
    BY <1>0, <2>1, RestTypes DEF Prepared, Claimed, ClusterInv
  <2>3. w[3] = made \/ Unstopped(w[3])
    BY <2>1, <2>2 DEF CleanOK
  <2>4. QED
    BY <1>0, <2>2, <2>3 DEF Unstopped
<1>6. QED
  BY <1>1, <1>2, <1>3, <1>4, <1>5

\* Start's sweep, Stop's and those of others.
LEMMA SweepSteps ==
  ASSUME RestInv, ClusterInv', StartSweep \/ StopSweep \/ OtherSweep
  PROVE  RestInv'
<1> USE DEF RestInv, ClusterInv, In, handleVars
<1>1. CASE StartSweep
  <2>1. record = 0 /\ pd = {} /\ tikvs = {} /\ ~started
    BY <1>1 DEF StartSweep, IdentityOK, ServersOK, CallOK, StartPoints
  <2>2. QED
    BY <1>1, <2>1, Swept DEF StartSweep, Proceeds, Goto
<1>2. CASE StopSweep
  <2>1. record = 0 /\ pd = {} /\ tikvs = {} /\ ~started
    BY <1>2 DEF StopSweep, IdentityOK, ServersOK, CallOK
  <2>2. QED
    BY <1>2, <2>1, Swept DEF StopSweep, ReturnErr, Return
<1>3. CASE OtherSweep
  BY <1>3, Swept DEF OtherSweep, loopVars
<1>4. QED
  BY <1>1, <1>2, <1>3

\* A new identity has neither servers nor data.
LEMMA Claims ==
  ASSUME RestInv, ClusterInv', openRecord
  PROVE  RestInv'
<1> USE DEF RestInv, openRecord, In
<1>1. CASE Fails("other") /\ UNCHANGED <<made, record, rec>>
  BY <1>1, QuietSteps
<1>2. CASE /\ made < MaxIds /\ made' = made + 1 /\ record' = made + 1
           /\ rec' = [rec EXCEPT ![made + 1] = "held"] /\ Proceeds("prepare")
  <2> USE <1>2 DEF Proceeds, Goto
  <2>1. /\ made \in Nat /\ made + 1 \in Ids /\ made + 1 > made /\ ~started
        /\ record = 0 /\ 0 \notin Ids /\ pd = {} /\ tikvs = {}
    BY Bounds DEF ClusterInv, TypeOK, CallOK, StartPoints, IdentityOK, ServersOK, Ids
  <2>2. rec[made + 1] = "none"
    BY <2>1 DEF IdentityOK
  <2>3. \A i \in Ids : rec'[i] = IF i = made + 1 THEN "held" ELSE rec[i]
    BY DEF ClusterInv, TypeOK
  <2>4. IdentityOK'
    <3>1. \A i \in Ids : i > made + 1 => rec'[i] = "none"
      BY <2>1, <2>3 DEF IdentityOK, Ids
    <3>2. \A i \in Ids : rec'[i] = "held" <=> i = made + 1
      BY <2>1, <2>3 DEF IdentityOK
    <3>3. QED
      BY <2>1, <3>1, <3>2 DEF IdentityOK, Between
  <2>5. TearOK'
    BY DEF TearOK
  <2>6. AliveOK'
    <3>1. SUFFICES ASSUME NEW i \in Ids, NEW k \in Servers, <<i, k>> \in alive
                   PROVE  /\ i # made + 1
                          /\ rec'[i] = "kept" \/ (rec'[i] = "reclaimed" /\ Unlisted(i, k)')
      BY DEF AliveOK
    <3>2. rec[i] = "kept" \/ (rec[i] = "reclaimed" /\ Unlisted(i, k))
      BY <2>1, <3>1 DEF AliveOK
    <3>3. QED
      BY <2>2, <2>3, <3>2 DEF Unlisted
  <2>7. OwnDirOK'
    <3>1. SUFFICES ASSUME NEW w \in wrote, w[1] # CallerDir
                   PROVE  w[1] = w[3] /\ Unstopped(w[1])'
      BY DEF OwnDirOK
    <3>2. w[1] = w[3] /\ w[1] \in Ids /\ Unstopped(w[1])
      BY <2>1, <3>1, RestTypes DEF OwnDirOK, ClusterInv
    <3>3. QED
      BY <2>2, <2>3, <3>2 DEF Unstopped
  <2>8. CleanOK'
    BY <2>1 DEF CleanOK, Prepared, Claimed
  <2>9. QED
    BY <2>4, <2>5, <2>6, <2>7, <2>8
<1>3. QED
  BY <1>1, <1>2

\* prepareDataPath clears the directories of the attempt's servers, but for
\* what servers that still run write; those are of attempts whose teardown
\* failed.
LEMMA Prepares ==
  ASSUME RestInv, ClusterInv', prepareDataPath
  PROVE  RestInv'
<1> USE DEF RestInv
<1>1. PICK j \in -1..config.tikvCount :
        /\ wrote' = {w \in wrote : \/ w[1] # dataPath' \/ w[2] \notin 0..j
                                   \/ <<w[3], w[2]>> \in alive}
        /\ \/ 0..j = 0..config.tikvCount /\ Proceeds("setPath")
           \/ 0..j # 0..config.tikvCount /\ Fails("other")
  BY DEF prepareDataPath
<1>2. /\ record = made /\ made \in Ids /\ pd = {} /\ tikvs = {} /\ ~started
      /\ at = "prepare"
      /\ at' \in {"setPath", "stopTiKV"} /\ (at' = "stopTiKV" => stopped' = {})
      /\ config.tikvCount \in Nat
      /\ UNCHANGED <<config, started, record, pd, tikvs, made, alive, rec, listed>>
      /\ dataPath' = IF dataPath = NoPath THEN PathOf(record) ELSE dataPath
  BY <1>1, Bounds DEF prepareDataPath, In, ClusterInv, TypeOK, CallOK, StartPoints, Claimed,
     ServersOK, Ids, Proceeds, Fails, Teardown, Goto
<1>3. \A i \in Ids, k \in Servers : <<i, k>> \in alive => i # made /\ Unstopped(i)
  BY <1>2 DEF prepareDataPath, In, AliveOK, ToStop, Noted, TearPoints, Unstopped
<1>4. IdentityOK'
  BY <1>2 DEF IdentityOK, Between
<1>5. TearOK'
  BY <1>2 DEF TearOK
<1>6. AliveOK'
  BY <1>2, <1>3 DEF AliveOK, Unlisted
<1>7. OwnDirOK'
  <2>2. dataPath = record => dataPath' = record
    BY <1>2, RestTypes DEF ClusterInv
  <2>3. QED
    BY <1>1, <1>2, <2>2 DEF OwnDirOK, Unstopped
<1>8. CleanOK'
  <2>1. SUFFICES ASSUME at' = "setPath", NEW w \in wrote', w[1] = dataPath',
                        w[2] <= config.tikvCount
                 PROVE  Unstopped(w[3])
    BY <1>2 DEF CleanOK, Prepared, Claimed, Unstopped
  <2>2. 0..j = 0..config.tikvCount
    BY <1>1, <2>1 DEF Fails, Teardown, Goto
  <2>3. w[2] \in 0..config.tikvCount /\ w[3] \in Ids /\ w[2] \in Servers
    BY <1>1, <1>2, <2>1, RestTypes, Bounds DEF ClusterInv, Servers
  <2>4. QED
    BY <1>1, <1>3, <2>1, <2>2, <2>3
<1>9. QED
  BY <1>4, <1>5, <1>6, <1>7, <1>8

\* A server that has been started is the handle's to stop, recorded or not.
LEMMA ServerRuns ==
  ASSUME RestInv, ClusterInv', at \in {"startPD", "startTiKV"},
         NEW k \in Servers,
         alive' = alive \cup {<<record, k>>},
         wrote' = wrote \cup {<<dataPath, k, record>>},
         pd' = IF k = 0 THEN {<<record, k>>} ELSE pd,
         tikvs' = IF k = 0 THEN tikvs ELSE tikvs \cup {<<record, k>>},
         listed' \in {listed, [listed EXCEPT ![record] = @ \cup {k}]},
         at' \in {"waitPD", "startTiKV", "waitStores", "stopTiKV"},
         at' = "stopTiKV" => stopped' = {},
         UNCHANGED <<config, started, record, dataPath, made, rec>>
  PROVE  RestInv'
<1> USE DEF RestInv
<1>1. /\ record = made /\ made \in Ids /\ ~started
      /\ dataPath = CallerDir \/ dataPath = record
  BY Bounds DEF ClusterInv, TypeOK, CallOK, StartPoints, PathOK, PathOf, Claimed, Ids
<1>2. IdentityOK'
  BY <1>1 DEF IdentityOK, Between
<1>3. TearOK'
  BY DEF TearOK
<1>4. AliveOK'
  <2>1. ASSUME NEW j \in Servers, <<record, j>> \in alive' PROVE ToStop(j)'
    <3>1. CASE j = k
      BY <3>1 DEF ToStop, TearPoints
    <3>2. CASE j # k
      <4>1. <<record, j>> \in pd \cup tikvs
        BY <1>1, <2>1, <3>2 DEF AliveOK, ToStop, Noted, TearPoints
      <4>2. <<record, j>> \in pd => j = 0
        BY DEF ClusterInv, TypeOK
      <4>3. QED
        BY <3>2, <4>1, <4>2 DEF ToStop, TearPoints
    <3>3. QED
      BY <3>1, <3>2
  <2>2. ASSUME NEW i \in Ids, NEW j \in Servers, <<i, j>> \in alive', i # record
        PROVE  rec[i] = "kept" \/ (rec[i] = "reclaimed" /\ Unlisted(i, j)')
    <3>1. rec[i] = "kept" \/ (rec[i] = "reclaimed" /\ Unlisted(i, j))
      BY <2>2 DEF AliveOK
    <3>2. listed'[i] = listed[i]
      BY <1>1, <2>2 DEF ClusterInv, TypeOK
    <3>3. QED
      BY <3>1, <3>2 DEF Unlisted
  <2>3. QED
    BY <2>1, <2>2 DEF AliveOK
<1>5. OwnDirOK'
  <2>1. SUFFICES ASSUME NEW w \in wrote', w[1] # CallerDir
                 PROVE  w[1] = w[3] /\ (Unstopped(w[1]) \/ (w[1] = record /\ dataPath = record))
    BY DEF OwnDirOK, Unstopped
  <2>2. CASE w \in wrote
    BY <2>1, <2>2 DEF OwnDirOK
  <2>3. CASE w = <<dataPath, k, record>>
    BY <1>1, <2>1, <2>3
  <2>4. QED
    BY <2>2, <2>3
<1>6. CleanOK'
  <2>1. Prepared
    BY DEF Prepared, Claimed
  <2>2. ASSUME NEW w \in wrote', w[1] = dataPath, w[2] <= config.tikvCount
        PROVE  w[3] = made \/ Unstopped(w[3])
    <3>1. CASE w \in wrote
      BY <2>1, <2>2, <3>1 DEF CleanOK
    <3>2. CASE w = <<dataPath, k, record>>
      BY <1>1, <3>2
    <3>3. QED
      BY <3>1, <3>2
  <2>3. QED
    BY <2>2 DEF CleanOK, Unstopped
<1>7. QED
  BY <1>2, <1>3, <1>4, <1>5, <1>6

\* startPD and startTiKV.
LEMMA ServerSteps ==
  ASSUME RestInv, ClusterInv', startPD \/ startTiKV
  PROVE  RestInv'
<1> USE DEF In
<1>1. ASSUME NEW k \in Servers, NEW l \in {"waitPD", "startTiKV", "waitStores"},
             StartServer(k, l)
      PROVE  RestInv'
  <2>1. CASE Fails("other") /\ UNCHANGED <<pd, tikvs, worldVars>>
    BY <2>1, QuietSteps
  <2>2. CASE ~(Fails("other") /\ UNCHANGED <<pd, tikvs, worldVars>>)
    <3>1. /\ alive' = alive \cup {<<record, k>>}
          /\ wrote' = wrote \cup {<<dataPath, k, record>>}
          /\ pd' = (IF k = 0 THEN {<<record, k>>} ELSE pd)
          /\ tikvs' = (IF k = 0 THEN tikvs ELSE tikvs \cup {<<record, k>>})
          /\ listed' \in {listed, [listed EXCEPT ![record] = @ \cup {k}]}
          /\ UNCHANGED <<made, rec>>
      BY <1>1, <2>2 DEF StartServer
    <3>2. Proceeds(l) \/ Fails("other")
      BY <1>1, <2>2 DEF StartServer
    <3>3. /\ at' \in {"waitPD", "startTiKV", "waitStores", "stopTiKV"}
          /\ at' = "stopTiKV" => stopped' = {}
      BY <3>2 DEF Proceeds, Fails, Teardown, Goto
    <3>4. /\ at \in {"startPD", "startTiKV"}
          /\ UNCHANGED <<config, started, record, dataPath>>
      BY DEF startPD, startTiKV
    <3>5. QED
      BY <3>1, <3>3, <3>4, ServerRuns
  <2>3. QED
    BY <2>1, <2>2
<1>2. CASE startPD
  BY <1>1, <1>2, Bounds DEF startPD, Servers
<1>3. CASE startTiKV
  <2>1. PICK n \in 0..(config.tikvCount - 1) : tikvs = Stores(n)
    BY <1>3 DEF startTiKV, RestInv, ClusterInv, ServersOK
  <2>2. config.tikvCount \in 0..MaxStores /\ MaxStores \in Nat
    BY Bounds DEF RestInv, ClusterInv, TypeOK
  <2>3. Cardinality(tikvs) = n /\ n + 1 \in Servers
    BY <2>1, <2>2, StoreCount DEF Servers
  <2>4. QED
    BY <1>1, <1>3, <2>3 DEF startTiKV
<1>4. QED
  BY <1>2, <1>3

\* process.stop is through with server k: it is gone, or teardown has noted
\* an error.
LEMMA StopNotes ==
  ASSUME TypeOK, NEW k \in Servers, StopServer(k)
  PROVE  /\ stopped' = stopped \cup {k} /\ alive' \subseteq alive
         /\ firstErr => firstErr'
         /\ <<record, k>> \in alive' => firstErr'
  BY DEF TypeOK, StopServer

\* teardown stops the stores ...
LEMMA StopsStores ==
  ASSUME RestInv, ClusterInv', StopTiKV
  PROVE  RestInv'
<1> USE DEF RestInv
<1>0. /\ UNCHANGED <<config, started, record, pd, tikvs, dataPath, made, rec, listed, wrote>>
      /\ at = "stopTiKV" /\ at' \in {"stopTiKV", "stopPD"}
  BY DEF StopTiKV, Goto, handleVars
<1>1. CASE \E k \in {t[2] : t \in tikvs} \ stopped : StopServer(k) /\ Goto("stopTiKV")
  <2>1. PICK k \in {t[2] : t \in tikvs} \ stopped : StopServer(k) /\ Goto("stopTiKV")
    BY <1>1
  <2>2. k \in Servers /\ TypeOK
    BY Bounds DEF ClusterInv, TypeOK, Servers
  <2>3. /\ stopped' = stopped \cup {k} /\ alive' \subseteq alive /\ at' = "stopTiKV"
        /\ firstErr => firstErr'
        /\ <<record, k>> \in alive' => firstErr'
    BY <2>1, <2>2, StopNotes DEF Goto
  <2>4. IdentityOK' /\ TearOK' /\ OwnDirOK' /\ CleanOK'
    BY <1>0, <2>3 DEF IdentityOK, TearOK, OwnDirOK, CleanOK, Prepared, Unstopped, Claimed,
       Between
  <2>5. ASSUME NEW j \in Servers, <<record, j>> \in alive', ToStop(j) \/ Noted
        PROVE  ToStop(j)' \/ Noted'
    BY <1>0, <2>3, <2>5 DEF ToStop, Noted, TearPoints
  <2>6. AliveOK'
    BY <1>0, <2>3, <2>5 DEF AliveOK, Unlisted
  <2>7. QED
    BY <2>4, <2>6
<1>2. CASE /\ {t[2] : t \in tikvs} \subseteq stopped /\ Goto("stopPD")
           /\ UNCHANGED <<stopped, firstErr, alive>>
  <2>1. IdentityOK' /\ TearOK' /\ OwnDirOK' /\ CleanOK'
    BY <1>0, <1>2 DEF Goto, IdentityOK, TearOK, OwnDirOK, CleanOK, Prepared, Unstopped, Claimed,
       Between
  <2>2. ASSUME NEW j \in Servers, ToStop(j) \/ Noted
        PROVE  ToStop(j)' \/ Noted'
    BY <1>0, <1>2, <2>2 DEF Goto, ToStop, Noted, TearPoints
  <2>3. AliveOK'
    BY <1>0, <1>2, <2>2 DEF AliveOK, Unlisted
  <2>4. QED
    BY <2>1, <2>3
<1>3. QED
  BY <1>1, <1>2 DEF StopTiKV

\* ... then PD, and whatever of the cluster still runs has been noted ...
LEMMA StopsPD ==
  ASSUME RestInv, ClusterInv', StopPD
  PROVE  RestInv'
<1> USE DEF RestInv
<1>0. /\ UNCHANGED <<config, started, record, dataPath, made, rec, listed, wrote>>
      /\ at = "stopPD" /\ at' = "clear" /\ pd' = {} /\ tikvs' = {}
  BY DEF StopPD, Goto
<1>1. 0 \in Servers /\ TypeOK
  BY Bounds DEF ClusterInv, Servers
<1>2. /\ alive' \subseteq alive
      /\ firstErr => firstErr'
      /\ pd # {} /\ <<record, 0>> \in alive' => firstErr'
  BY <1>1, StopNotes DEF StopPD
<1>3. IdentityOK' /\ TearOK' /\ OwnDirOK' /\ CleanOK'
  BY <1>0 DEF IdentityOK, TearOK, OwnDirOK, CleanOK, Prepared, Unstopped, Claimed, Between
<1>4. ASSUME NEW j \in Servers, <<record, j>> \in alive', ToStop(j) \/ Noted
      PROVE  Noted'
  <2>1. CASE Noted
    BY <1>0, <1>2, <2>1 DEF Noted, TearPoints
  <2>2. CASE ToStop(j)
    <3>1. <<record, j>> \in pd \cup tikvs /\ j \notin stopped
      BY <1>0, <2>2 DEF ToStop, TearPoints
    <3>2. <<record, j>> \notin tikvs
      <4>1. SUFFICES ASSUME <<record, j>> \in tikvs PROVE FALSE
        OBVIOUS
      <4>2. <<record, j>>[2] \in {t[2] : t \in tikvs}
        BY <4>1
      <4>3. QED
        BY <1>0, <3>1, <4>2 DEF TearOK
    <3>3. <<record, j>> \in pd /\ j = 0
      BY <3>1, <3>2, <1>1 DEF TypeOK
    <3>4. QED
      BY <1>0, <1>2, <1>4, <3>3 DEF Noted, TearPoints
  <2>3. QED
    BY <1>4, <2>1, <2>2
<1>5. AliveOK'
  BY <1>0, <1>2, <1>4 DEF AliveOK, Unlisted
<1>6. QED
  BY <1>3, <1>5

\* ... and removes the directory, if it is the library's own, or notes that it
\* could not.
LEMMA ClearsPath ==
  ASSUME RestInv, ClusterInv', ClearDataPath
  PROVE  RestInv'
<1> USE DEF RestInv
<1>0. /\ UNCHANGED <<config, started, record, pd, tikvs, made, alive, rec, listed, stopped>>
      /\ at = "clear" /\ at' = "release" /\ pd = {} /\ tikvs = {}
      /\ wrote' \subseteq wrote
      /\ firstErr => firstErr'
  BY DEF ClearDataPath, Goto, ClusterInv, ServersOK, TypeOK
<1>1. IdentityOK' /\ TearOK' /\ CleanOK'
  BY <1>0 DEF IdentityOK, TearOK, CleanOK, Prepared, Claimed, Between
<1>2. AliveOK'
  BY <1>0 DEF AliveOK, ToStop, Noted, Unlisted, TearPoints
<1>3. OwnDirOK'
  <2>1. SUFFICES ASSUME NEW w \in wrote', w[1] # CallerDir
                 PROVE  w[1] = w[3] /\ (Unstopped(w[1]) \/ (w[1] = record /\ firstErr'))
    BY <1>0 DEF OwnDirOK, Unstopped
  <2>2. w \in wrote /\ w[1] = w[3] /\ (Unstopped(w[1]) \/ (w[1] = record /\ dataPath = record))
    BY <1>0, <2>1 DEF OwnDirOK
  <2>3. ASSUME w[1] = record, dataPath = record PROVE firstErr'
    <3>1. dataPath \in Ids
      BY <2>1, <2>2, <2>3, RestTypes DEF ClusterInv
    <3>2. ~config.dataPath /\ dataPath # NoPath
      BY <3>1, RestTypes DEF ClusterInv, PathOK
    <3>3. ownsDataPath /\ dataPath # NoPath
      BY <3>2 DEF ClusterInv, PathOK
    <3>4. QED
      BY <2>1, <2>3, <3>3 DEF ClearDataPath
  <2>4. QED
    BY <2>2, <2>3
<1>4. QED
  BY <1>1, <1>2, <1>3

\* At the end the record is kept if anything was noted.
LEMMA Releases ==
  ASSUME RestInv, ClusterInv', Release
  PROVE  RestInv'
<1> USE DEF RestInv
<1>0. /\ UNCHANGED <<config, pd, tikvs, dataPath, made, alive, wrote>>
      /\ at = "release" /\ record' = 0 /\ pd = {} /\ tikvs = {}
      /\ firstErr \in BOOLEAN
  BY DEF Release, ClusterInv, ServersOK, TypeOK
<1>1. ~started' /\ at' \in {"open", "free", "stopSweep"}
  BY DEF Release, ClusterInv, CallOK, TearPoints, Goto, Proceeds, ReturnErr, Return
<1>2. ASSUME NEW i \in Ids
      PROVE  /\ i = record => rec'[i] = IF firstErr THEN "kept" ELSE "closed"
             /\ i # record => rec'[i] = rec[i] /\ listed'[i] = listed[i]
  BY DEF Release, RecordAfter, ClusterInv, TypeOK, Ids
<1>3. IdentityOK'
  <2>1. \A i \in Ids : i > made => rec'[i] = "none"
    <3>1. record \in {0, made} /\ made \in Nat /\ Ids \subseteq Nat
      BY DEF IdentityOK, ClusterInv, TypeOK, Ids
    <3>2. QED
      BY <1>2, <3>1 DEF IdentityOK
  <2>2. \A i \in Ids : rec'[i] # "held" /\ i # 0
    BY <1>2 DEF IdentityOK, Ids
  <2>3. QED
    BY <1>0, <1>1, <2>1, <2>2 DEF IdentityOK
<1>4. TearOK' /\ CleanOK'
  BY <1>0, <1>1 DEF TearOK, CleanOK, Prepared, Claimed
<1>5. AliveOK'
  <2>1. SUFFICES ASSUME NEW i \in Ids, NEW k \in Servers, <<i, k>> \in alive
                 PROVE  rec'[i] = "kept" \/ (rec'[i] = "reclaimed" /\ Unlisted(i, k)')
    BY <1>0 DEF AliveOK, Ids
  <2>2. CASE i = record
    <3>1. firstErr
      BY <1>0, <2>1, <2>2 DEF AliveOK, ToStop, Noted
    <3>2. QED
      BY <1>2, <2>2, <3>1
  <2>3. CASE i # record
    BY <1>0, <1>2, <2>1, <2>3 DEF AliveOK, Unlisted
  <2>4. QED
    BY <2>2, <2>3
<1>6. OwnDirOK'
  <2>1. SUFFICES ASSUME NEW w \in wrote, w[1] # CallerDir
                 PROVE  w[1] = w[3] /\ Unstopped(w[1])'
    BY <1>0 DEF OwnDirOK
  <2>2. w[1] \in Ids /\ w[1] = w[3]
    BY <2>1, RestTypes DEF ClusterInv, OwnDirOK
  <2>3. CASE w[1] = record
    <3>1. dataPath # record
      BY <1>0, <2>2, <2>3, RestTypes, Bounds DEF ClusterInv, PathOK
    <3>2. firstErr
      BY <2>1, <2>2, <2>3, <3>1 DEF OwnDirOK, IdentityOK, Unstopped
    <3>3. QED
      BY <1>2, <2>2, <2>3, <3>2 DEF Unstopped
  <2>4. CASE w[1] # record
    BY <1>2, <2>1, <2>2, <2>4 DEF OwnDirOK, Unstopped
  <2>5. QED
    BY <2>3, <2>4
<1>7. QED
  BY <1>3, <1>4, <1>5, <1>6

\* The invariant is inductive.
LEMMA RestInvStep ==
  ASSUME RestInv, [Next]_vars
  PROVE  RestInv'
<1>0. ClusterInv'
  BY ClusterInvStep DEF RestInv
<1>1. CASE UNCHANGED vars
  BY <1>0, <1>1 DEF vars, callVars, handleVars, loopVars, worldVars, RestInv, IdentityOK,
     TearOK, AliveOK, ToStop, Noted, Unlisted, OwnDirOK, CleanOK, Prepared, Unstopped
<1>2. CASE \E i \in Ids, k \in Servers : ServerExits(i, k)
  <2>1. alive' \subseteq alive
    BY <1>2 DEF ServerExits
  <2>2. UNCHANGED <<config, callVars, mu, at, handleVars, loopVars, made, rec, listed, wrote>>
    BY <1>2 DEF ServerExits
  <2>3. QED
    BY <1>0, <2>1, <2>2 DEF callVars, handleVars, loopVars, RestInv, IdentityOK,
       TearOK, AliveOK, ToStop, Noted, Unlisted, OwnDirOK, CleanOK, Prepared, Unstopped
<1>3. QED
  BY <1>0, <1>1, <1>2, QuietSteps, SweepSteps, Claims, Prepares, ServerSteps, StopsStores,
     StopsPD, ClearsPath, Releases DEF Next, HolderStep

\* Between calls nothing of a cluster is forgotten: teardown keeps the record
\* of every server it could not stop and of every directory of the library's
\* own that it could not remove, whatever attempts and teardowns fail; and
\* whoever sweeps, whenever, and whatever it fails to remove, a record goes
\* only after the servers that can be found under it.
THEOREM NothingIsLost == Spec => []NothingLost
<1>1. RestInv => NothingLost
  <2> SUFFICES ASSUME RestInv, mu = NoOne, NEW i \in Ids
               PROVE  /\ \A k \in Servers : <<i, k>> \in alive =>
                           <<i, k>> \in pd \cup tikvs \/ rec[i] = "kept" \/ Unlisted(i, k)
                      /\ (\E k \in Servers : <<i, k, i>> \in wrote) =>
                           (started /\ dataPath = i) \/ Unstopped(i)
    BY DEF NothingLost
  <2>1. at = "free" /\ (~started => record = 0) /\ i # 0 /\ i # CallerDir
    BY Bounds DEF RestInv, ClusterInv, CallOK, IdentityOK, Between, Ids, CallerDir
  <2>2. ASSUME NEW k \in Servers, <<i, k>> \in alive
        PROVE  <<i, k>> \in pd \cup tikvs \/ rec[i] = "kept" \/ Unlisted(i, k)
    BY <2>1, <2>2 DEF RestInv, AliveOK, ToStop, Noted, TearPoints
  <2>3. ASSUME NEW k \in Servers, <<i, k, i>> \in wrote
        PROVE  (started /\ dataPath = i) \/ Unstopped(i)
    <3>1. <<i, k, i>>[1] = i
      OBVIOUS
    <3>2. Unstopped(i) \/ (i = record /\ dataPath = record)
      BY <2>1, <2>3, <3>1 DEF RestInv, OwnDirOK
    <3>3. QED
      BY <2>1, <3>2
  <2>4. QED
    BY <2>2, <2>3
<1>2. QED
  BY <1>1, RestInvInit, RestInvStep, PTL DEF Spec

\* prepareDataPath keeps its word: no server of the cluster finds data of an
\* earlier attempt or an earlier Start, unless one whose teardown failed.
THEOREM NoInheritedData == Spec => []DataToItself
<1>1. RestInv => DataToItself
  <2> SUFFICES ASSUME RestInv, NEW s \in pd \cup tikvs, NEW i \in Ids,
                      <<dataPath, s[2], i>> \in wrote
               PROVE  i = s[1] \/ Unstopped(i)
    BY DEF DataToItself
  <2>1. s[1] = made /\ s[2] <= config.tikvCount
    BY Bounds DEF RestInv, IdentityOK, ClusterInv, TypeOK
  <2>2. Prepared
    BY DEF Prepared
  <2>3. QED
    BY <2>1, <2>2 DEF RestInv, CleanOK
<1>2. QED
  BY <1>1, RestInvInit, RestInvStep, PTL DEF Spec
=============================================================================
