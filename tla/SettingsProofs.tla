--------------------------- MODULE SettingsProofs ---------------------------
(***************************************************************************)
(* Proofs about Settings: for any keys, defaults' counts and overrides,    *)
(* the loop of nestConfig reports the first faulty key, or comes to a tree *)
(* that says what was meant.                                               *)
(***************************************************************************)
EXTENDS Settings, SequenceTheorems, TLAPS

Done == DOMAIN mergeConfig \ rest

\* Paths on the way to a key, and those a caller's table brings.
Way(k) == {Prefix(k, i) : i \in 1..(Len(k) - 1)}
Below(k) == IF mergeConfig[k] = "table" THEN {Append(k, s) : s \in Inner} ELSE {}

\* The tree t has what the keys in K put there, and nothing else.
Has(t, K) ==
  /\ \A p \in DOMAIN t : p \in K \/ \E k \in K : p \in Way(k) \cup Below(k)
  /\ \A k \in K : {k} \cup Way(k) \cup Below(k) \subseteq DOMAIN t

\* Values stay what they were set to; a nil may have become a table.
Says(t, K) ==
  \A k \in K :
    /\ t[k] = mergeConfig[k] \/ (mergeConfig[k] = "nil" /\ t[k] = "{}")
    /\ \A p \in Way(k) : t[p] = "{}"
    /\ \A p \in Below(k) : t[p] = "inner"

TreeHas == Has(tree, Done)
TreeSays == Says(tree, Done)

FirstFault == current \in Faulty /\ \A k \in Faulty : k = current \/ Earlier(current, k)

\* The loop has gone through the keys in order ...
LoopOK ==
  /\ defaults \in Defaults /\ overrides \in Overrides
  /\ rest \subseteq DOMAIN mergeConfig
  /\ \A k \in Done, l \in rest : Earlier(k, l)

\* ... met no faulty key, and built the tree of those it has met; or stopped
\* at the first one.
NestInv ==
  /\ LoopOK
  /\ ~Mixed => IF verdict = "ok" THEN TreeHas /\ TreeSays /\ Done \cap Faulty = {}
                                 ELSE FirstFault

(***************************************************************************)
(* Keys and prefixes                                                       *)
(***************************************************************************)
Paths == Seq(STRING)

LEMMA KeyOrderFacts ==
  /\ DOMAIN KeyOrder = 1..Len(KeyOrder) /\ Len(KeyOrder) \in Nat
  /\ \A i \in DOMAIN KeyOrder : KeyOrder[i] \in Paths
  BY SettingsAssumption DEF Paths

LEMMA KeyIsPath ==
  ASSUME NEW q \in Keys
  PROVE  q \in Paths /\ Len(q) \in Nat \ {0} /\ DOMAIN q = 1..Len(q)
<1>1. PICK i \in DOMAIN KeyOrder : q = KeyOrder[i]
  BY DEF Keys, ToSet
<1>2. q \in Paths /\ q # <<>>
  BY <1>1, KeyOrderFacts, SettingsAssumption
<1>3. QED
  BY <1>2, EmptySeq, LenProperties DEF Paths

\* Dotted order is a strict order, in which a key comes before those below it.
LEMMA EarlierOrder ==
  ASSUME NEW p \in Keys, NEW q \in Keys
  PROVE  /\ ~(Earlier(p, q) /\ Earlier(q, p)) /\ ~Earlier(p, p)
         /\ ProperPrefix(p, q) => Earlier(p, q)
<1> DEFINE L == Len(KeyOrder)
<1>0. /\ L \in Nat /\ DOMAIN KeyOrder = 1..L
      /\ \A i, j \in 1..L : KeyOrder[i] = KeyOrder[j] => i = j
      /\ \A i, j \in 1..L : ProperPrefix(KeyOrder[i], KeyOrder[j]) => i < j
  BY KeyOrderFacts, SettingsAssumption
<1>1. PICK i \in 1..L : KeyOrder[i] = p
  BY <1>0 DEF Keys, ToSet
<1>2. PICK j \in 1..L : KeyOrder[j] = q
  BY <1>0 DEF Keys, ToSet
<1> HIDE DEF L
<1>3. Earlier(p, q) => i < j
  BY <1>0, <1>1, <1>2 DEF Earlier
<1>4. Earlier(q, p) => j < i
  BY <1>0, <1>1, <1>2 DEF Earlier
<1>5. ~Earlier(p, p)
  BY <1>0, <1>1 DEF Earlier
<1>6. ASSUME ProperPrefix(p, q) PROVE Earlier(p, q)
  <2>1. i < j /\ i \in 1..(j - 1)
    BY <1>0, <1>1, <1>2, <1>6
  <2>2. QED
    BY <1>0, <1>1, <1>2, <2>1 DEF Earlier
<1>7. QED
  BY <1>0, <1>3, <1>4, <1>5, <1>6

\* A path on the way to q is a prefix of it, and the other way round.
LEMMA PrefixIs ==
  ASSUME NEW q \in Paths, NEW i \in 1..(Len(q) - 1)
  PROVE  Prefix(q, i) \in Paths /\ Len(Prefix(q, i)) = i /\ ProperPrefix(Prefix(q, i), q)
<1>1. Len(q) \in Nat /\ i \in Int /\ 1 \in Int /\ i < Len(q) /\ 1 <= i
  BY DEF Paths
<1>2. \A j \in 1..i : q[j] \in STRING
  BY <1>1 DEF Paths
<1>3. /\ SubSeq(q, 1, i) \in Seq(STRING) /\ Len(SubSeq(q, 1, i)) = i
      /\ \A j \in 1..i : SubSeq(q, 1, i)[j] = q[j]
  BY <1>1, <1>2
<1>4. QED
  BY <1>1, <1>3 DEF Prefix, ProperPrefix, Paths

LEMMA WayIs ==
  ASSUME NEW q \in Paths, NEW p
  PROVE  /\ p \in Way(q) => p \in Paths /\ Len(p) > 0 /\ ProperPrefix(p, q)
         /\ p \in Paths /\ Len(p) > 0 /\ ProperPrefix(p, q) =>
              p \in Way(q) /\ Len(p) \in 1..(Len(q) - 1) /\ p = Prefix(q, Len(p))
<1>1. ASSUME p \in Way(q) PROVE p \in Paths /\ Len(p) > 0 /\ ProperPrefix(p, q)
  <2>1. PICK i \in 1..(Len(q) - 1) : p = Prefix(q, i)
    BY <1>1 DEF Way
  <2>2. p \in Paths /\ Len(p) = i /\ ProperPrefix(p, q)
    BY <2>1, PrefixIs
  <2>3. Len(q) \in Nat
    BY DEF Paths
  <2>4. QED
    BY <2>1, <2>2, <2>3
<1>2. ASSUME p \in Paths, Len(p) > 0, ProperPrefix(p, q)
      PROVE  p \in Way(q) /\ Len(p) \in 1..(Len(q) - 1) /\ p = Prefix(q, Len(p))
  <2>1. Len(p) \in Nat /\ Len(q) \in Nat /\ Len(p) \in 1..(Len(q) - 1)
    BY <1>2 DEF ProperPrefix, Paths
  <2>2. /\ Prefix(q, Len(p)) \in Paths /\ Len(Prefix(q, Len(p))) = Len(p)
        /\ ProperPrefix(Prefix(q, Len(p)), q)
    BY <2>1, PrefixIs
  <2>3. \A j \in 1..Len(p) : p[j] = Prefix(q, Len(p))[j]
    BY <1>2, <2>2 DEF ProperPrefix
  <2>4. p = Prefix(q, Len(p))
    BY <1>2, <2>2, <2>3, SeqEqual DEF Paths
  <2>5. QED
    BY <2>1, <2>4 DEF Way
<1>3. QED
  BY <1>1, <1>2

LEMMA PrefixTransitive ==
  ASSUME NEW p \in Paths, NEW q \in Paths, NEW r \in Paths,
         ProperPrefix(p, q), ProperPrefix(q, r)
  PROVE  ProperPrefix(p, r)
<1>1. Len(p) \in Nat /\ Len(q) \in Nat /\ Len(r) \in Nat
  BY DEF Paths
<1>2. QED
  BY <1>1 DEF ProperPrefix

LEMMA AppendIs ==
  ASSUME NEW p \in Paths, NEW s \in STRING
  PROVE  Append(p, s) \in Paths /\ Len(Append(p, s)) = Len(p) + 1 /\ ProperPrefix(p, Append(p, s))
<1>1. Len(p) \in Nat
  BY DEF Paths
<1>2. /\ Append(p, s) \in Paths /\ Len(Append(p, s)) = Len(p) + 1
      /\ \A i \in 1..Len(p) : Append(p, s)[i] = p[i]
  <2>1. p \in Seq(STRING)
    BY DEF Paths
  <2>2. Append(p, s) \in Seq(STRING)
    BY <2>1, AppendProperties, ZenonT(60)
  <2>3. Len(Append(p, s)) = Len(p) + 1
    BY <2>1, AppendProperties, ZenonT(60)
  <2>4. ASSUME NEW i \in 1..Len(p) PROVE Append(p, s)[i] = p[i]
    BY <2>1, AppendProperties, ZenonT(60)
  <2>5. QED
    BY <2>2, <2>3, <2>4 DEF Paths
<1>3. Len(p) < Len(Append(p, s))
  BY <1>1, <1>2
<1>4. QED
  BY <1>2, <1>3 DEF ProperPrefix

(***************************************************************************)
(* What is merged, and what is meant                                       *)
(***************************************************************************)
LEMMA MergeIs ==
  ASSUME LoopOK
  PROVE  /\ DOMAIN mergeConfig = DOMAIN defaults \cup DOMAIN overrides
         /\ DOMAIN mergeConfig \subseteq Keys
         /\ \A k \in DOMAIN overrides :
              mergeConfig[k] = overrides[k] /\ overrides[k] \in {"override", "nil", "table"}
         /\ \A k \in DOMAIN defaults \ DOMAIN overrides : mergeConfig[k] = "default"
<1>1. DOMAIN mergeConfig = DOMAIN defaults \cup DOMAIN overrides
  BY DEF mergeConfig
<1>2. DOMAIN overrides \subseteq Keys /\ DOMAIN defaults \subseteq Keys
  BY SettingsAssumption DEF LoopOK
<1>3. \A k \in DOMAIN overrides : overrides[k] \in {"override", "nil", "table"}
  BY SettingsAssumption DEF LoopOK
<1>4. \A k \in DOMAIN defaults : defaults[k] = "default"
  BY DEF LoopOK, Defaults, defaultPDConfig, defaultTiKVConfig
<1>5. /\ \A k \in DOMAIN overrides : mergeConfig[k] = overrides[k]
      /\ \A k \in DOMAIN defaults \ DOMAIN overrides : mergeConfig[k] = defaults[k]
  BY DEF mergeConfig
<1>6. QED
  BY <1>1, <1>2, <1>3, <1>4, <1>5

\* In terms of the merged settings: values and tables' contents are meant, and
\* no key is below a table.
LEMMA MeantIs ==
  ASSUME LoopOK
  PROVE  /\ \A k \in DOMAIN mergeConfig :
              /\ mergeConfig[k] \in {"default", "override", "nil", "table"}
              /\ mergeConfig[k] \in {"default", "override"} => <<k, mergeConfig[k]>> \in Meant
              /\ \A p \in Below(k) : <<p, "inner">> \in Meant
         /\ \A m \in Meant :
              \/ m[1] \in DOMAIN mergeConfig /\ m[2] = mergeConfig[m[1]]
                 /\ m[2] \in {"default", "override"}
              \/ m[2] = "inner" /\ \E k \in DOMAIN mergeConfig : m[1] \in Below(k)
         /\ ~Mixed => \A k, l \in DOMAIN mergeConfig :
                        mergeConfig[k] = "table" => ~ProperPrefix(k, l)
<1> USE MergeIs
<1>1. \A k \in DOMAIN mergeConfig :
        /\ mergeConfig[k] \in {"default", "override", "nil", "table"}
        /\ mergeConfig[k] \in {"default", "override"} => <<k, mergeConfig[k]>> \in Meant
  BY DEF Meant
<1>2. \A k \in DOMAIN mergeConfig :
        mergeConfig[k] = "table" => k \in DOMAIN overrides /\ overrides[k] = "table"
  OBVIOUS
<1>3. ASSUME NEW k \in DOMAIN mergeConfig, NEW p \in Below(k) PROVE <<p, "inner">> \in Meant
  <2>1. mergeConfig[k] = "table" /\ \E s \in Inner : p = Append(k, s)
    BY <1>3 DEF Below
  <2>2. QED
    BY <1>2, <2>1 DEF Meant
<1>4. ASSUME NEW m \in Meant
      PROVE  \/ m[1] \in DOMAIN mergeConfig /\ m[2] = mergeConfig[m[1]]
                /\ m[2] \in {"default", "override"}
             \/ m[2] = "inner" /\ \E k \in DOMAIN mergeConfig : m[1] \in Below(k)
  <2>1. CASE \E k \in DOMAIN overrides : overrides[k] = "override" /\ m = <<k, "override">>
    BY <2>1
  <2>2. CASE \E k \in DOMAIN defaults \ DOMAIN overrides : m = <<k, "default">>
    BY <2>2
  <2>3. CASE \E k \in DOMAIN overrides, s \in Inner :
               overrides[k] = "table" /\ m = <<Append(k, s), "inner">>
    BY <2>3 DEF Below
  <2>4. QED
    BY <1>4, <2>1, <2>2, <2>3 DEF Meant
<1>5. ~Mixed => \A k, l \in DOMAIN mergeConfig : mergeConfig[k] = "table" => ~ProperPrefix(k, l)
  BY <1>2 DEF Mixed
<1>6. QED
  BY <1>1, <1>3, <1>4, <1>5

LEMMA BelowIs ==
  ASSUME LoopOK, NEW k \in DOMAIN mergeConfig, NEW p \in Below(k)
  PROVE  mergeConfig[k] = "table" /\ p \in Paths /\ ProperPrefix(k, p) /\ Len(p) = Len(k) + 1
<1>1. mergeConfig[k] = "table" /\ \E s \in Inner : p = Append(k, s)
  BY DEF Below
<1>2. k \in Paths /\ Inner \subseteq STRING
  BY MergeIs, KeyIsPath, SettingsAssumption
<1>3. QED
  BY <1>1, <1>2, AppendIs

(***************************************************************************)
(* A pass of the loop                                                      *)
(***************************************************************************)
\* What the paths in the tree hold; a path that a key is below is no caller's.
LEMMA TreeIs ==
  ASSUME LoopOK, ~Mixed, TreeHas, TreeSays, NEW p \in DOMAIN tree
  PROVE  \/ p \in Done /\ tree[p] = mergeConfig[p]
         \/ p \in Done /\ mergeConfig[p] = "nil" /\ tree[p] = "{}"
         \/ \E k \in Done : p \in Way(k) /\ tree[p] = "{}"
         \/ \E k \in Done : p \in Below(k) /\ tree[p] = "inner"
  BY ZenonT(60) DEF TreeHas, TreeSays, Has, Says

\* nestConfig has come to this key.
Turn(key) ==
  /\ LoopOK /\ ~Mixed /\ TreeHas /\ TreeSays /\ key \in rest
  /\ \A l \in rest : l = key \/ Earlier(key, l)

\* Where it stands among the keys, their ways and the callers' tables.
TurnSays(key) ==
  /\ key \in DOMAIN mergeConfig \ Done /\ key \in Keys /\ key \in Paths
  /\ Len(key) \in Nat \ {0} /\ DOMAIN key = 1..Len(key)
  /\ \A k \in Done : k \in DOMAIN mergeConfig /\ k \in Keys /\ k \in Paths
  /\ \A k \in DOMAIN mergeConfig : ProperPrefix(k, key) => k \in Done
  /\ \A k \in Done : ~ProperPrefix(key, k)
  /\ \A k \in Done : key \notin Way(k) /\ key \notin Below(k)
  /\ \A k \in Done : \A p \in Below(k) : p # key /\ ~ProperPrefix(p, key)

LEMMA TurnFacts ==
  ASSUME NEW key, Turn(key)
  PROVE  TurnSays(key)
<1> USE DEF Turn
<1>1. key \in DOMAIN mergeConfig /\ key \notin Done /\ key \in Keys
  BY MergeIs DEF LoopOK, Done
<1>2. key \in Paths /\ Len(key) \in Nat \ {0} /\ DOMAIN key = 1..Len(key)
  BY <1>1, KeyIsPath
<1>3. \A k \in DOMAIN mergeConfig : k \in Keys /\ k \in Paths
  BY MergeIs, KeyIsPath
<1>4. ASSUME NEW k \in DOMAIN mergeConfig, ProperPrefix(k, key) PROVE k \in Done
  <2>1. Earlier(k, key)
    BY <1>1, <1>3, <1>4, EarlierOrder
  <2>2. k # key /\ ~Earlier(key, k)
    BY <1>1, <1>3, <2>1, EarlierOrder
  <2>3. QED
    BY <1>4, <2>2 DEF Done
<1>5. ASSUME NEW k \in Done, ProperPrefix(key, k) PROVE FALSE
  <2>1. k \in Keys /\ Earlier(k, key)
    BY <1>3 DEF Done, LoopOK
  <2>2. Earlier(key, k)
    BY <1>1, <1>5, <2>1, EarlierOrder
  <2>3. QED
    BY <1>1, <2>1, <2>2, EarlierOrder
<1>6. \A k \in Done : k \in DOMAIN mergeConfig
  BY DEF Done
<1>7. ASSUME NEW k \in Done, key \in Way(k) PROVE FALSE
  BY <1>3, <1>5, <1>6, <1>7, WayIs
<1>8. ASSUME NEW k \in Done, NEW p \in Below(k), p = key \/ ProperPrefix(p, key) PROVE FALSE
  <2>1. mergeConfig[k] = "table" /\ p \in Paths /\ ProperPrefix(k, p)
    BY <1>6, BelowIs
  <2>2. ProperPrefix(k, key)
    BY <1>2, <1>3, <1>6, <1>8, <2>1, PrefixTransitive
  <2>3. QED
    BY <1>1, <1>6, <2>1, <2>2, MeantIs
<1>9. QED
  BY <1>1, <1>2, <1>3, <1>4, <1>5, <1>6, <1>7, <1>8 DEF TurnSays

\* A key that is not faulty finds its way and its place, ...
LEMMA SoundKey ==
  ASSUME NEW key, Turn(key), key \notin Faulty
  PROVE  Verdict(key) = "ok"
<1>0. TurnSays(key)
  BY TurnFacts
<1>a. Len(key) \in Nat \ {0}
  BY <1>0 DEF TurnSays
<1>b. /\ 1..Len(key) = 1..(Len(key) - 1) \cup {Len(key)}
      /\ 1..(Len(key) - 1) \subseteq 1..Len(key) /\ Len(key) \in 1..Len(key)
  BY <1>a
<1> USE <1>0 DEF TurnSays
<1>1. \A i \in 1..Len(key) : key[i] # ""
  BY DEF Faulty
<1>2. \A m \in Meant : ~ProperPrefix(m[1], key)
  BY DEF Faulty
<1>3. ASSUME NEW i \in Obstacles(key) PROVE FALSE
  <2> DEFINE p == Prefix(key, i)
  <2>1. i \in 1..(Len(key) - 1) /\ i \in 1..Len(key)
    BY <1>b DEF Obstacles
  <2>2. p \in Paths /\ ProperPrefix(p, key)
    BY <2>1, PrefixIs
  <2>3. p \in DOMAIN tree /\ tree[p] \notin {"nil", "{}", "table"}
    BY <1>1, <2>1 DEF Obstacles, At, IsTable
  <2> HIDE DEF p
  <2>4. CASE p \in Done /\ tree[p] = mergeConfig[p]
    <3>1. p \in DOMAIN mergeConfig /\ mergeConfig[p] \in {"default", "override"}
      BY <2>3, <2>4, MeantIs DEF Turn
    <3>2. <<p, mergeConfig[p]>> \in Meant
      BY <3>1, MeantIs DEF Turn
    <3>3. QED
      BY <1>2, <2>2, <3>2
  <2>5. CASE \E k \in Done : p \in Below(k)
    BY <2>2, <2>5
  <2>6. QED
    BY <2>3, <2>4, <2>5, TreeIs DEF Turn
<1>4. Last(key) # ""
  BY <1>b, <1>1 DEF Last
<1>5. ASSUME IsTable(At(key)) PROVE FALSE
  <2>1. key \in DOMAIN tree
    BY <1>5 DEF IsTable, At
  <2>2. QED
    BY <2>1, TreeIs DEF Turn
<1>6. Obstacles(key) = {}
  BY <1>3
<1>7. QED
  BY <1>4, <1>5, <1>6 DEF Verdict

\* ... and a faulty one is reported.
LEMMA FaultyKey ==
  ASSUME NEW key, Turn(key), key \in Faulty
  PROVE  Verdict(key) # "ok"
<1>0. TurnSays(key)
  BY TurnFacts
<1>a. Len(key) \in Nat \ {0}
  BY <1>0 DEF TurnSays
<1>b. /\ 1..Len(key) = 1..(Len(key) - 1) \cup {Len(key)}
      /\ 1..(Len(key) - 1) \subseteq 1..Len(key) /\ Len(key) \in 1..Len(key)
  BY <1>a
<1> USE <1>0 DEF TurnSays
<1>1. ASSUME NEW i \in 1..(Len(key) - 1), i \in Obstacles(key) PROVE Verdict(key) # "ok"
  BY <1>1 DEF Verdict
<1>2. CASE \E i \in DOMAIN key : key[i] = ""
  <2>1. PICK i \in 1..Len(key) : key[i] = ""
    BY <1>2
  <2>2. CASE i = Len(key)
    BY <2>1, <2>2 DEF Verdict, Last
  <2>3. CASE i # Len(key)
    <3>1. i \in 1..(Len(key) - 1)
      BY <1>b, <2>3
    <3>2. QED
      BY <1>1, <2>1, <3>1 DEF Obstacles
  <2>4. QED
    BY <2>2, <2>3
<1>3. CASE \E m \in Meant : ProperPrefix(m[1], key)
  <2>1. PICK m \in Meant : ProperPrefix(m[1], key)
    BY <1>3
  <2> DEFINE k == m[1]
  <2>2. CASE k \in DOMAIN mergeConfig /\ mergeConfig[k] \in {"default", "override"}
    <3>1. k \in Done
      BY <2>1, <2>2
    <3>2. k \in Paths /\ Len(k) > 0
      BY <3>1, KeyIsPath
    <3>3. Len(k) \in 1..(Len(key) - 1) /\ k = Prefix(key, Len(k))
      BY <2>1, <3>2, WayIs
    <3>4. k \in DOMAIN tree /\ tree[k] = mergeConfig[k]
      BY <2>2, <3>1 DEF Turn, TreeHas, TreeSays, Has, Says
    <3> HIDE DEF k
    <3>5. Len(k) \in Obstacles(key)
      BY <2>2, <3>3, <3>4 DEF Obstacles, At, IsTable
    <3>6. QED
      BY <1>1, <3>3, <3>5
  <2>3. CASE \E l \in DOMAIN mergeConfig : k \in Below(l)
    <3>1. PICK l \in DOMAIN mergeConfig : k \in Below(l)
      BY <2>3
    <3>2. k \in Paths /\ ProperPrefix(l, k) /\ mergeConfig[l] = "table" /\ l \in Paths
      BY <3>1, BelowIs, MergeIs, KeyIsPath DEF Turn
    <3>3. ProperPrefix(l, key)
      BY <2>1, <3>2, PrefixTransitive
    <3>4. QED
      BY <3>2, <3>3, MeantIs DEF Turn
  <2>4. QED
    BY <2>2, <2>3, MeantIs DEF Turn
<1>4. QED
  BY <1>2, <1>3 DEF Faulty

LEMMA PutIs ==
  ASSUME NEW key
  PROVE  LET t == Put(key, mergeConfig[key])
         IN  /\ DOMAIN t = DOMAIN tree \cup Way(key) \cup {key} \cup Below(key)
             /\ \A p \in DOMAIN t :
                  t[p] = IF p \in Below(key) THEN "inner"
                         ELSE IF p = key THEN mergeConfig[key]
                         ELSE IF p \in Way(key) /\ At(p) = "nil" THEN "{}"
                         ELSE tree[p]
  BY DEF Put, Way, Below

\* The key's table, leaf and contents are added; what is there stays, but for
\* a nil that the way goes through.
LEMMA PutKeeps ==
  ASSUME NEW key, Turn(key), Verdict(key) = "ok"
  PROVE  /\ Has(Put(key, mergeConfig[key]), Done \cup {key})
         /\ Says(Put(key, mergeConfig[key]), Done \cup {key})
<1> DEFINE t == Put(key, mergeConfig[key])
           K == Done \cup {key}
<1>0. TurnSays(key)
  BY TurnFacts
<1>1. /\ DOMAIN t = DOMAIN tree \cup Way(key) \cup {key} \cup Below(key)
      /\ \A p \in DOMAIN t :
           t[p] = IF p \in Below(key) THEN "inner"
                  ELSE IF p = key THEN mergeConfig[key]
                  ELSE IF p \in Way(key) /\ At(p) = "nil" THEN "{}"
                  ELSE tree[p]
  BY PutIs
<1> HIDE DEF t
<1>2. Has(tree, Done) /\ Says(tree, Done)
  BY DEF Turn, TreeHas, TreeSays
<1>3. Has(t, K)
  BY <1>1, <1>2 DEF Has
<1>4. \A p \in Below(key) : ProperPrefix(key, p) /\ p \in Paths /\ Len(p) = Len(key) + 1
  BY <1>0, BelowIs DEF Turn, TurnSays
<1>5. \A p \in Way(key) : ProperPrefix(p, key) /\ p \in Paths
  BY <1>0, WayIs DEF TurnSays
<1>6. \A k \in Done : \A p \in Way(k) : ProperPrefix(p, k) /\ p \in Paths
  BY <1>0, WayIs DEF TurnSays
<1>7. Len(key) \in Nat /\ key \in DOMAIN t /\ ~ProperPrefix(key, key)
  BY <1>0, <1>1 DEF TurnSays, ProperPrefix
<1>8. t[key] = mergeConfig[key] /\ \A p \in Below(key) : t[p] = "inner"
  <2>1. key \notin Below(key)
    BY <1>4, <1>7
  <2>2. QED
    BY <1>1, <1>7, <2>1
<1>9. ASSUME NEW p \in Way(key) PROVE t[p] = "{}"
  <2>1. p # key /\ p \in DOMAIN t /\ ProperPrefix(p, key)
    BY <1>1, <1>5, <1>7
  <2>2. p \notin Below(key)
    <3>1. Len(p) < Len(key) /\ Len(p) \in Nat
      BY <1>5 DEF ProperPrefix, Paths
    <3>2. QED
      BY <1>4, <1>7, <3>1
  <2>3. CASE At(p) # "nil"
    <3>1. p \in DOMAIN tree /\ At(p) = tree[p]
      BY <2>3 DEF At
    <3>2. PICK i \in 1..(Len(key) - 1) : p = Prefix(key, i)
      BY <1>9 DEF Way
    <3>3. Obstacles(key) = {}
      BY DEF Verdict
    <3>4. IsTable(At(p))
      BY <2>3, <3>2, <3>3 DEF Obstacles
    <3>5. tree[p] # "table"
      <4>1. SUFFICES ASSUME tree[p] = "table" PROVE FALSE
        OBVIOUS
      <4>2. p \in Done /\ mergeConfig[p] = "table"
        BY <3>1, <4>1, TreeIs DEF Turn
      <4>3. p \in DOMAIN mergeConfig /\ key \in DOMAIN mergeConfig
        BY <1>0, <4>2 DEF TurnSays
      <4>4. QED
        BY <2>1, <4>2, <4>3, MeantIs DEF Turn
    <3>6. QED
      BY <1>1, <2>1, <2>2, <2>3, <3>1, <3>4, <3>5 DEF IsTable
  <2>4. QED
    BY <1>1, <1>9, <2>1, <2>2, <2>3
<1>10. ASSUME NEW k \in Done
       PROVE  t[k] = mergeConfig[k] \/ (mergeConfig[k] = "nil" /\ t[k] = "{}")
  <2>1. k \notin Below(key) /\ k # key
    BY <1>0, <1>4 DEF TurnSays
  <2>2. k \in DOMAIN t /\ k \in DOMAIN tree /\ At(k) = tree[k]
    BY <1>1, <1>2 DEF Has, At
  <2>3. tree[k] = mergeConfig[k] \/ (mergeConfig[k] = "nil" /\ tree[k] = "{}")
    BY <1>2 DEF Says
  <2>4. t[k] = IF k \in Way(key) /\ At(k) = "nil" THEN "{}" ELSE tree[k]
    BY <1>1, <2>1, <2>2
  <2>5. QED
    BY <2>2, <2>3, <2>4
<1>11. ASSUME NEW k \in Done, NEW p \in Way(k) PROVE t[p] = "{}"
  <2>1. p \in DOMAIN tree /\ tree[p] = "{}" /\ At(p) = "{}" /\ p \in DOMAIN t
    BY <1>1, <1>2 DEF Has, Says, At
  <2>2. p # key /\ k \in Paths /\ key \in Paths /\ ~ProperPrefix(key, k)
    BY <1>0 DEF TurnSays
  <2>3. p \notin Below(key)
    BY <1>4, <1>6, <2>2, PrefixTransitive
  <2>4. QED
    BY <1>1, <2>1, <2>2, <2>3
<1>12. ASSUME NEW k \in Done, NEW p \in Below(k) PROVE t[p] = "inner"
  <2>1. p \in DOMAIN tree /\ tree[p] = "inner" /\ p \in DOMAIN t
    BY <1>1, <1>2 DEF Has, Says
  <2>2. p # key /\ p \notin Way(key)
    BY <1>0, <1>5 DEF TurnSays
  <2>3. QED
    BY <1>1, <2>1, <2>2
<1>13. Says(t, K)
  BY <1>8, <1>9, <1>10, <1>11, <1>12 DEF Says
<1>14. QED
  BY <1>3, <1>13 DEF t

(***************************************************************************)
(* The loop                                                                *)
(***************************************************************************)
LEMMA NestInit == Init => NestInv
<1>1. SUFFICES ASSUME Init PROVE NestInv
  OBVIOUS
<1>2. Done = {} /\ DOMAIN tree = {}
  BY <1>1 DEF Init, Done
<1>3. LoopOK
  BY <1>1, <1>2 DEF Init, LoopOK
<1>4. TreeHas /\ TreeSays
  BY <1>2 DEF TreeHas, TreeSays, Has, Says
<1>5. QED
  BY <1>1, <1>2, <1>3, <1>4 DEF Init, NestInv

LEMMA NestStep ==
  ASSUME NestInv, NEW key \in rest, NestKey(key)
  PROVE  NestInv'
<1>1. mergeConfig' = mergeConfig /\ Faulty' = Faulty /\ Mixed' = Mixed
  BY DEF NestKey, mergeConfig, Faulty, Meant, Mixed
<1>2. LoopOK /\ key \in DOMAIN mergeConfig
  BY DEF NestInv, LoopOK
<1>3. Done' = Done \cup {key} /\ rest' = rest \ {key}
  BY <1>1, <1>2 DEF NestKey, Done, LoopOK
<1>4. LoopOK'
  BY <1>1, <1>2, <1>3 DEF NestKey, LoopOK
<1>5. CASE Mixed
  BY <1>1, <1>4, <1>5 DEF NestInv
<1>6. CASE ~Mixed
  <2>1. Turn(key) /\ Done \cap Faulty = {} /\ verdict' = Verdict(key)
    BY <1>2, <1>6 DEF NestInv, NestKey, Turn
  <2>2. CASE Verdict(key) = "ok"
    <3>1. key \notin Faulty
      BY <2>1, <2>2, FaultyKey
    <3>2. Done' \cap Faulty' = {}
      BY <1>1, <1>3, <2>1, <3>1
    <3>3. /\ Has(tree', Done') /\ Says(tree', Done')
          /\ tree' = Put(key, mergeConfig[key])
      BY <1>3, <2>1, <2>2, PutKeeps DEF NestKey
    <3>4. TreeHas' /\ TreeSays'
      <4>1. \A k : Below(k)' = Below(k)
        BY <1>1 DEF Below
      <4>2. QED
        BY <1>1, <3>3, <4>1 DEF TreeHas, TreeSays, Has, Says
    <3>5. QED
      BY <1>4, <2>1, <2>2, <3>2, <3>4 DEF NestInv
  <2>3. CASE Verdict(key) # "ok"
    <3>1. key \in Faulty
      BY <2>1, <2>3, SoundKey
    <3>2. ASSUME NEW k \in Faulty PROVE k = key \/ Earlier(key, k)
      <4>1. k \in rest
        BY <2>1 DEF Faulty, Done
      <4>2. QED
        BY <4>1 DEF NestKey
    <3>3. FirstFault'
      BY <1>1, <3>1, <3>2 DEF FirstFault, NestKey, Earlier
    <3>4. QED
      BY <1>4, <2>1, <2>3, <3>3 DEF NestInv
  <2>4. QED
    BY <2>2, <2>3
<1>7. QED
  BY <1>5, <1>6

\* When the loop is through, the lines written are the values of the keys that
\* are done and the contents of their tables.
LEMMA TreeWritten ==
  ASSUME LoopOK, ~Mixed, TreeHas, TreeSays, rest = {}
  PROVE  Written = Meant
<1>1. Done = DOMAIN mergeConfig
  BY DEF Done
<1>2. ASSUME NEW m \in Written PROVE m \in Meant
  <2>1. /\ m[1] \in DOMAIN tree /\ m[2] \in {"default", "override", "inner"}
        /\ tree[m[1]] = m[2] /\ m = <<m[1], m[2]>>
    BY DEF Written
  <2>2. CASE m[1] \in Done /\ tree[m[1]] = mergeConfig[m[1]]
    BY <1>1, <2>1, <2>2, MeantIs
  <2>3. CASE \E k \in Done : m[1] \in Below(k) /\ tree[m[1]] = "inner"
    BY <1>1, <2>1, <2>3, MeantIs, ZenonT(60)
  <2>4. QED
    BY <2>1, <2>2, <2>3, TreeIs
<1>3. ASSUME NEW m \in Meant PROVE m \in Written
  <2>1. m = <<m[1], m[2]>>
    BY DEF Meant
  <2>2. CASE m[1] \in DOMAIN mergeConfig /\ m[2] = mergeConfig[m[1]]
             /\ m[2] \in {"default", "override"}
    <3>1. m[1] \in DOMAIN tree /\ tree[m[1]] = m[2]
      BY <1>1, <2>2 DEF TreeHas, TreeSays, Has, Says
    <3>2. QED
      BY <2>1, <2>2, <3>1 DEF Written
  <2>3. CASE m[2] = "inner" /\ \E k \in DOMAIN mergeConfig : m[1] \in Below(k)
    <3>1. m[1] \in DOMAIN tree /\ tree[m[1]] = m[2]
      BY <1>1, <2>3 DEF TreeHas, TreeSays, Has, Says
    <3>2. QED
      BY <2>1, <2>3, <3>1 DEF Written
  <2>4. QED
    BY <2>2, <2>3, MeantIs
<1>4. QED
  BY <1>2, <1>3

LEMMA NestSettles == NestInv => SettingsWritten
<1>1. SUFFICES ASSUME NestInv, Settled, ~Mixed
               PROVE  IF Faulty = {}
                      THEN verdict = "ok" /\ Written = Meant
                      ELSE /\ verdict # "ok" /\ current \in Faulty
                           /\ \A k \in Faulty : k = current \/ Earlier(current, k)
  BY DEF SettingsWritten
<1>2. CASE Faulty = {}
  <2>1. verdict = "ok" /\ LoopOK /\ TreeHas /\ TreeSays
    BY <1>1, <1>2 DEF NestInv, FirstFault
  <2>2. QED
    BY <1>1, <1>2, <2>1, TreeWritten DEF Settled
<1>3. CASE Faulty # {}
  <2>1. verdict # "ok"
    <3>1. SUFFICES ASSUME verdict = "ok" PROVE FALSE
      OBVIOUS
    <3>2. rest = {} /\ Done \cap Faulty = {}
      BY <1>1, <3>1 DEF Settled, NestInv
    <3>3. Faulty \subseteq Done
      BY <3>2 DEF Faulty, Done
    <3>4. QED
      BY <1>3, <3>2, <3>3
  <2>2. QED
    BY <1>1, <1>3, <2>1 DEF NestInv, FirstFault
<1>4. QED
  BY <1>2, <1>3

LEMMA NestKept == NestInv /\ [Next]_vars => NestInv'
<1>1. SUFFICES ASSUME NestInv, [Next]_vars PROVE NestInv'
  OBVIOUS
<1>2. CASE Next
  BY <1>1, <1>2, NestStep DEF Next
<1>3. CASE UNCHANGED vars
  <2>1. mergeConfig' = mergeConfig /\ Faulty' = Faulty /\ Mixed' = Mixed
    BY <1>3 DEF vars, mergeConfig, Faulty, Meant, Mixed
  <2>2. Done' = Done /\ LoopOK' = LoopOK /\ \A k : Below(k)' = Below(k)
    BY <1>3, <2>1 DEF vars, Done, LoopOK, Below
  <2>3. TreeHas' = TreeHas /\ TreeSays' = TreeSays /\ FirstFault' = FirstFault
    BY <1>3, <2>1, <2>2 DEF vars, TreeHas, TreeSays, Has, Says, FirstFault
  <2>4. QED
    BY <1>1, <1>3, <2>1, <2>2, <2>3 DEF vars, NestInv
<1>4. QED
  BY <1>1, <1>2, <1>3

\* For any keys, any defaults and any overrides that do not mix a nested map
\* with keys below it: nestConfig (toml.go) reports the first key, in sorted
\* order, that is malformed or lies below another key's value; if there is
\* none, what is written is every override, nothing for a nil, and every
\* other default.
THEOREM SettingsRight == Spec => []SettingsWritten
  BY NestInit, NestKept, NestSettles, PTL DEF Spec
=============================================================================
