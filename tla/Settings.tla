------------------------------ MODULE Settings ------------------------------
(***************************************************************************)
(* The settings of a server on their way to its config file: the defaults  *)
(* of pd.go and tikv.go, mergeConfig and the loop of nestConfig in         *)
(* toml.go, and what the encoder writes.                                   *)
(*                                                                         *)
(* A key is the sequence of its segments.  Of values the model keeps where *)
(* they come from, nil, and a map the caller gave as a value ("table"),    *)
(* which has a value "inner" under each segment in Inner.                  *)
(***************************************************************************)
EXTENDS Naturals, Sequences, FiniteSets, SequencesExt

CONSTANTS
  KeyOrder,    \* every key there is, in the order of its dotted string
  Inner,       \* segments of a caller's table
  Overrides,   \* what callers give to PDConfig and TiKVConfig
  Counts       \* what they give to TiKVCount

VARIABLES
  defaults,    \* of the server whose file is written
  overrides,   \* the caller's
  rest,        \* keys that nestConfig has still to come to
  current,     \* the key it has come to last
  tree,        \* the nested tables, as a function from the paths that are there
  verdict      \* "ok" or the error

vars == <<defaults, overrides, rest, current, tree, verdict>>

Keys == ToSet(KeyOrder)
ProperPrefix(p, q) == Len(p) < Len(q) /\ \A i \in 1..Len(p) : p[i] = q[i]
Earlier(p, q) == \E j \in DOMAIN KeyOrder : KeyOrder[j] = q /\ \E i \in 1..(j - 1) : KeyOrder[i] = p

defaultPDConfig(tikvCount) ==
  [k \in {<<"election-interval">>, <<"tick-interval">>,
          <<"schedule", "patrol-region-interval">>, <<"schedule", "low-space-ratio">>}
         \cup (IF tikvCount < 3 THEN {<<"replication", "max-replicas">>} ELSE {})
     |-> "default"]

defaultTiKVConfig ==
  [k \in {<<"storage", "reserve-space">>, <<"storage", "reserve-raft-space">>,
          <<"storage", "block-cache", "capacity">>, <<"rocksdb", "max-open-files">>,
          <<"raftdb", "max-open-files">>,
          <<"raftstore", "pd-store-heartbeat-tick-interval">>,
          <<"server", "graceful-shutdown-timeout">>}
     |-> "default"]

Defaults == {defaultPDConfig(n) : n \in Counts} \cup {defaultTiKVConfig}

\* In byte order a string comes before its extensions.
ASSUME SettingsAssumption ==
  /\ KeyOrder \in Seq(Seq(STRING)) /\ Inner \subseteq STRING
  /\ \A i, j \in DOMAIN KeyOrder :
       /\ KeyOrder[i] # <<>>
       /\ KeyOrder[i] = KeyOrder[j] => i = j
       /\ ProperPrefix(KeyOrder[i], KeyOrder[j]) => i < j
  /\ \A o \in Overrides : /\ DOMAIN o \subseteq Keys
                          /\ o \in [DOMAIN o -> {"override", "nil", "table"}]
  /\ \A d \in Defaults : DOMAIN d \subseteq Keys

mergeConfig ==
  [k \in DOMAIN defaults \cup DOMAIN overrides |->
     IF k \in DOMAIN overrides THEN overrides[k] ELSE defaults[k]]

(***************************************************************************)
(* nestConfig.  "{}" is a table made on the way to a key.                  *)
(***************************************************************************)
At(path) == IF path \in DOMAIN tree THEN tree[path] ELSE "nil"
IsTable(v) == v \in {"{}", "table"}
Prefix(key, i) == SubSeq(key, 1, i)

\* Where the way to the key's table ends, if it does.
Obstacles(key) ==
  {i \in 1..(Len(key) - 1) :
     key[i] = "" \/ (At(Prefix(key, i)) # "nil" /\ ~IsTable(At(Prefix(key, i))))}

\* Mutant: a value in the way gives way.
VerdictLenient(key) ==
  IF \E i \in 1..Len(key) : key[i] = "" THEN "invalid" ELSE "ok"

Verdict(key) ==
  CASE Obstacles(key) # {} ->
         IF key[Min(Obstacles(key))] = "" THEN "invalid" ELSE "conflicts"
    [] Obstacles(key) = {} /\ Last(key) = "" -> "invalid"
    [] Obstacles(key) = {} /\ Last(key) # "" /\ IsTable(At(key)) -> "also a table"
    [] OTHER -> "ok"

\* table[leaf] = config[key], after the tables on the way.  A caller's table
\* is taken as it is, and its contents with it.
Put(key, v) ==
  LET way == {Prefix(key, i) : i \in 1..(Len(key) - 1)}
      below == IF v = "table" THEN {Append(key, s) : s \in Inner} ELSE {}
  IN  [p \in DOMAIN tree \cup way \cup {key} \cup below |->
         IF p \in below THEN "inner"
         ELSE IF p = key THEN v
         ELSE IF p \in way /\ At(p) = "nil" THEN "{}"
         ELSE tree[p]]

\* What an error leaves: the tables made before the obstacle.
Begun(key) ==
  LET way == {Prefix(key, i) : i \in {j \in 1..(Len(key) - 1) : \A o \in Obstacles(key) : j < o}}
  IN  [p \in DOMAIN tree \cup way |-> IF p \in way /\ At(p) = "nil" THEN "{}" ELSE tree[p]]

Init ==
  /\ defaults \in Defaults /\ overrides \in Overrides
  /\ rest = DOMAIN mergeConfig
  /\ current = <<>> /\ tree = [p \in {} |-> "nil"] /\ verdict = "ok"

\* One pass of the loop over sortedKeys, which an error ends.
NestKey(key) ==
  /\ verdict = "ok" /\ key \in rest
  /\ \A l \in rest : l = key \/ Earlier(key, l)
  /\ current' = key /\ rest' = rest \ {key}
  /\ verdict' = Verdict(key)
  /\ tree' = IF Verdict(key) = "ok" THEN Put(key, mergeConfig[key]) ELSE Begun(key)
  /\ UNCHANGED <<defaults, overrides>>

Next == \E key \in rest : NestKey(key)
Spec == Init /\ [][Next]_vars

Settled == verdict # "ok" \/ rest = {}

\* What the encoder makes of a tree: a line for each value that is not nil.
Written ==
  {m \in (DOMAIN tree) \X {"default", "override", "inner"} : tree[m[1]] = m[2]}

(***************************************************************************)
(* Reference: what a caller means                                          *)
(***************************************************************************)
\* What a caller means by overrides: its values, nil for none, and the
\* defaults it has not mentioned.
Meant ==
  {<<k, "override">> : k \in {x \in DOMAIN overrides : overrides[x] = "override"}}
    \cup {<<k, "default">> : k \in DOMAIN defaults \ DOMAIN overrides}
    \cup {<<Append(k, s), "inner">> :
            k \in {x \in DOMAIN overrides : overrides[x] = "table"}, s \in Inner}

\* Keys to be reported: malformed, or below another one's value.
Faulty ==
  {k \in DOMAIN mergeConfig :
     \/ \E i \in DOMAIN k : k[i] = ""
     \/ \E m \in Meant : ProperPrefix(m[1], k)}

\* Keys below a table the caller gave as one value: nestConfig takes the map
\* for its own table, writes into it, and a key replaces what it had there.
Mixed ==
  \E k \in DOMAIN overrides, l \in DOMAIN mergeConfig :
    overrides[k] = "table" /\ ProperPrefix(k, l)

\* When startPD and startTiKV write their config files, nestConfig reports
\* "any path that collides with another rather than silently dropping one of
\* them", "against the same key on every run", and otherwise the file says
\* what was meant: each override, nothing for a nil, every other default.
SettingsWritten ==
  Settled /\ ~Mixed =>
    IF Faulty = {}
    THEN verdict = "ok" /\ Written = Meant
    ELSE /\ verdict # "ok" /\ current \in Faulty
         /\ \A k \in Faulty : k = current \/ Earlier(current, k)
=============================================================================
