---------------------------- MODULE MCRegistry ----------------------------
(* Instances of Registry for TLC. *)
EXTENDS Registry

CONSTANTS c1, c2, s1, s2

\* Callers' directories: c1's /tmp/embedded-tikv-1, which the second pass
\* lists, and c2's /data/tmp/embedded-tikv-12, which holds c1's and a digit.
Prefixed == {<<c2, c1>>}

\* Where two clusters meet: c1's owner is dead and has left a complete record
\* and some of its servers; c2 has not started.
OrphanInit ==
  /\ opc = [c \in Clusters |-> IF c = c1 THEN "dead" ELSE "init"]
  /\ ofd = [c \in Clusters |-> NoFile]
  /\ \E n \in 0..(TiKVCount + 1), up \in SUBSET Servers :
       /\ up \subseteq 0..n
       /\ count = [c \in Clusters |-> IF c = c1 THEN n ELSE 0]
       /\ record = [c \in Clusters |-> IF c = c1
            THEN [on |-> TRUE, bad |-> FALSE, path |-> TRUE, n |-> n]
            ELSE NoRecord]
       /\ srv = [c \in Clusters |-> [k \in Servers |->
            IF c # c1 \/ k > n THEN "off" ELSE IF k \in up THEN "up"
            ELSE IF k = n THEN "off" ELSE "down"]]
  /\ stop = [c \in Clusters |-> [k \in Servers |-> "no"]]
  /\ lockAt = [c \in Clusters |-> IF c = c1 THEN 1 ELSE NoFile]
  /\ dir = [c \in Clusters |->
       IF c \in CallerOwned THEN "old" ELSE IF c = c1 THEN "young" ELSE "none"]
  /\ dog = [c \in Clusters |-> [k \in Servers |->
       IF HaveShell /\ srv[c][k] # "off" THEN "eof" ELSE "none"]]
  /\ pass = [s \in Sweepers |-> 1]
  /\ spc = [s \in Sweepers |-> "idle"]
  /\ todo = [s \in Sweepers |-> {}]
  /\ cur = [s \in Sweepers |-> None]
  /\ sfd = [s \in Sweepers |-> NoFile]
  /\ seen = [s \in Sweepers |-> NoContents]
  /\ deaths = 0

OrphanSpec == OrphanInit /\ [][Next]_vars
=============================================================================
