--------------------------- MODULE ClusterHandle ---------------------------
(***************************************************************************)
(* What a Cluster value promises the goroutines that share it: every call  *)
(* takes effect at one instant between its beginning and its return.       *)
(* Start brings up a cluster with an identity of its own, Stop ends it,    *)
(* and the accessors describe the cluster that is up, whole, or none.      *)
(***************************************************************************)
EXTENDS Integers

CONSTANTS
  Goroutines,
  Configs      \* the values config may have

VARIABLES
  config,      \* of the Cluster value
  up,          \* the identity of the running cluster, or 0
  call,        \* the call each goroutine is in
  ans          \* what its last call returned

vars == <<config, up, call, ans>>

Nothing == [err |-> "none", addrs |-> {}, path |-> 0]
CallerDir == -1

Init ==
  /\ config \in Configs
  /\ up = 0
  /\ call = [g \in Goroutines |-> "none"]
  /\ ans = [g \in Goroutines |-> Nothing]

Begin(g, op) ==
  /\ call[g] = "none"
  /\ call' = [call EXCEPT ![g] = op]
  /\ ans' = [ans EXCEPT ![g] = Nothing]
  /\ UNCHANGED <<config, up>>

Answer(g, op, a) ==
  /\ call[g] = op
  /\ call' = [call EXCEPT ![g] = "none"]
  /\ ans' = [ans EXCEPT ![g] = a]
  /\ UNCHANGED config

Err(e) == [Nothing EXCEPT !.err = e]

Start(g) ==
  \/ up # 0 /\ Answer(g, "Start", Err("already")) /\ UNCHANGED up
  \/ up = 0 /\ Answer(g, "Start", Err("error")) /\ UNCHANGED up
  \/ /\ up = 0 /\ config.tikvCount >= 1
     /\ Answer(g, "Start", Err("nil"))
     /\ up' \in Nat \ {0}

Stop(g) ==
  \/ up = 0 /\ Answer(g, "Stop", Err("notStarted")) /\ UNCHANGED up
  \/ /\ up # 0 /\ up' = 0
     /\ \E e \in {"nil", "error"} : Answer(g, "Stop", Err(e))

\* Server 0 is PD; the others are the stores.
Endpoints(g) ==
  /\ Answer(g, "Endpoints",
            [Nothing EXCEPT !.addrs = IF up = 0 THEN {} ELSE {<<up, 0>>}])
  /\ UNCHANGED up

StoreAddrs(g) ==
  /\ Answer(g, "StoreAddrs",
            [Nothing EXCEPT !.addrs = IF up = 0 THEN {} ELSE {up} \X (1..config.tikvCount)])
  /\ UNCHANGED up

\* A path of the caller's is still reported when the cluster is gone.
DataPath(g) ==
  /\ \E p \in {up, CallerDir} :
       /\ p = CallerDir => config.dataPath
       /\ config.dataPath /\ up # 0 => p = CallerDir
       /\ Answer(g, "DataPath", [Nothing EXCEPT !.path = p])
  /\ UNCHANGED up

Next ==
  \E g \in Goroutines :
    \/ \E op \in {"Start", "Stop", "Endpoints", "StoreAddrs", "DataPath"} : Begin(g, op)
    \/ Start(g) \/ Stop(g) \/ Endpoints(g) \/ StoreAddrs(g) \/ DataPath(g)

Spec == Init /\ [][Next]_vars
=============================================================================
