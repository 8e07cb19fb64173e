--------------------------- MODULE StartupProofs ---------------------------
(***************************************************************************)
(* Proofs about Startup, for any constants and whatever other programs     *)
(* take: the retry loop and the port allocator stay within their bounds;   *)
(* a port that a cluster waits for is handed to nobody until its Start has *)
(* outlasted the reservation; and the clusters of one process share no     *)
(* port until a Start of the process has.                                  *)
(***************************************************************************)
EXTENDS Startup, FiniteSetTheorems, TLAPS

(***************************************************************************)
(* Types                                                                   *)
(***************************************************************************)
Staged == {"waitPD", "waitStores", "running"}

\* Where an attempt is says how many ports it has, and whether servers run.
StageOK ==
  \A c \in Clusters :
    /\ pc[c] \in {"idle", "failed"} => Len(handed[c]) = 0
    /\ pc[c] \in {"alloc", "reserve"} => Len(handed[c]) <= TiKVCount
    /\ pc[c] \in {"handed"} \cup Staged => Len(handed[c]) = TiKVCount + 1
    /\ pc[c] = "reserve" => probe[c] \in Ports
    /\ pc[c] \notin Staged => timer[c] = 0 /\ \A k \in Servers : srv[c][k] = "off"

StageInv == TypeOK /\ StageOK

(***************************************************************************)
(* Ports                                                                   *)
(***************************************************************************)
OneProcess == \A c, d \in Clusters : Home[c] = Home[d]

\* No Start outlasts the reservations of its ports, and none ever has.
NoneSlow == \A c \in Clusters : ~Slow(c)
Punctual == \A c \in Clusters : Home[c] \notin late

\* late remembers the Start that is slow.
LateOK == \A c \in Clusters : Slow(c) => Home[c] \in late

\* The ports c has or may still want: all it was handed until Start returns,
\* then those its servers listen on.
Claims(c, k) == k < Len(handed[c]) /\ (pc[c] # "running" \/ srv[c][k] = "serving")

\* The reservation of a handed port is as old as the context, if not younger.
ReservedOK ==
  \A c \in Clusters, k \in Servers :
    pc[c] # "running" /\ k < Len(handed[c]) => reserved[Home[c]][Port(c, k)] <= timer[c]

\* A port that came out of listenForPort and has been bound since is reserved.
ProbeOK ==
  \A c, d \in Clusters, k \in Servers :
    pc[c] = "reserve" /\ srv[d][k] = "serving" /\ Port(d, k) = probe[c] =>
      ~Expired(reserved[Home[c]][probe[c]])

\* No two clusters claim a port.
ClaimsOK ==
  \A c, d \in Clusters, i, j \in Servers :
    c # d /\ Claims(c, i) /\ Claims(d, j) => Port(c, i) # Port(d, j)

\* Servers come up while Start polls, and stores join their own PD.
OwnOK ==
  \A c \in Clusters, k \in Servers :
    /\ srv[c][k] = "booting" => Polling(c)
    /\ joined[c][k] \in {None, c}

AgeInv == StageInv /\ ReservedOK

PortInv == AgeInv /\ ProbeOK /\ ClaimsOK /\ OwnOK

(***************************************************************************)
(* The loop and the allocator stay within their bounds                     *)
(***************************************************************************)
\* What the assumptions say, one constant at a time.
LEMMA StartupBounds ==
  /\ Home \in [Clusters -> Processes] /\ NoPort \notin Ports /\ None \notin Clusters
  /\ TiKVCount \in Nat \ {0} /\ StartTimeout \in Nat \ {0}
  /\ StartAttempts \in Nat \ {0} /\ MaxTries \in Nat \ {0}
  /\ TTL \in Nat /\ MaxTaken \in Nat /\ 0 \in Servers
  BY StartupAssumption DEF Servers

LEMMA StageInit == Init => StageInv
<1> SUFFICES ASSUME Init PROVE StageInv
  OBVIOUS
<1> USE StartupBounds DEF Init
<1>1. TypeOK
  BY DEF TypeOK, PCs, SrvStates
<1>2. StageOK
  BY DEF StageOK, Staged
<1>3. QED
  BY <1>1, <1>2 DEF StageInv

\* One port more.
LEMMA OneMore ==
  ASSUME NEW q \in Seq(Ports), NEW p \in Ports
  PROVE  /\ Append(q, p) \in Seq(Ports) /\ Len(Append(q, p)) = Len(q) + 1 /\ Len(q) \in Nat
         /\ \A k \in Nat : k < Len(q) => Append(q, p)[k + 1] = q[k + 1]
         /\ Append(q, p)[Len(q) + 1] = p
  OBVIOUS

\* freePort.
LEMMA AllocStage ==
  ASSUME StageInv, NEW c \in Clusters, listenForPort(c) \/ reservePort(c) \/ Withheld(c)
  PROVE  StageInv'
<1> USE StartupBounds DEF StageInv, clockVars, srvVars
<1>1. CASE listenForPort(c)
  <2>1. TypeOK'
    BY <1>1, SMTT(30) DEF listenForPort, TypeOK, PCs
  <2>2. StageOK'
    BY <1>1, ZenonT(60) DEF listenForPort, TypeOK, StageOK, Staged
  <2>3. QED
    BY <2>1, <2>2
<1>2. CASE reservePort(c)
  <2>0. handed[c] \in Seq(Ports) /\ probe[c] \in Ports /\ Len(handed[c]) <= TiKVCount
    BY <1>2 DEF reservePort, TypeOK, StageOK
  <2>1. /\ handed'[c] \in Seq(Ports) /\ Len(handed'[c]) = Len(handed[c]) + 1
        /\ Len(handed[c]) \in Nat
    BY <1>2, <2>0, OneMore DEF reservePort, TypeOK
  <2>2. handed' \in [Clusters -> Seq(Ports)]
    BY <1>2, <2>1 DEF reservePort, TypeOK
  <2>3. \A d \in Clusters : d # c => handed'[d] = handed[d]
    BY <1>2 DEF reservePort, TypeOK
  <2>4. reserved' \in [Processes -> [Ports -> 0..(TTL + 1)]]
    BY <1>2, <2>0, SMTT(30) DEF reservePort, TypeOK
  <2>5. TypeOK'
    <3>1. \A d \in Clusters : Len(handed'[d]) <= TiKVCount + 1
      <4>1. Len(handed'[c]) <= TiKVCount + 1
        BY <2>0, <2>1
      <4>2. QED
        BY <2>3, <4>1 DEF TypeOK
    <3>2. pc' \in [Clusters -> PCs]
      BY <1>2 DEF reservePort, TypeOK, PCs
    <3>3. tries' \in [Clusters -> 0..(MaxTries - 1)] /\ probe' \in [Clusters -> Ports \cup {NoPort}]
      BY <1>2, SMTT(30) DEF reservePort, TypeOK
    <3>4. QED
      BY <1>2, <2>2, <2>4, <3>1, <3>2, <3>3 DEF reservePort, TypeOK
  <2>6. StageOK'
    <3>1. /\ pc'[c] = (IF Len(handed[c]) = TiKVCount THEN "handed" ELSE "alloc")
          /\ \A d \in Clusters : d # c => pc'[d] = pc[d] /\ probe'[d] = probe[d]
          /\ timer' = timer /\ srv' = srv
      BY <1>2 DEF reservePort, TypeOK
    <3>2. /\ pc'[c] = "alloc" => Len(handed'[c]) <= TiKVCount
          /\ pc'[c] = "handed" => Len(handed'[c]) = TiKVCount + 1
      BY <2>0, <2>1, <3>1
    <3>3. timer[c] = 0 /\ \A k \in Servers : srv[c][k] = "off"
      BY <1>2 DEF reservePort, StageOK, Staged
    <3>4. QED
      BY <2>3, <3>1, <3>2, <3>3, SMTT(30) DEF StageOK, Staged
  <2>7. QED
    BY <2>5, <2>6
<1>3. CASE Withheld(c)
  <2>1. TypeOK'
    <3>1. tries[c] + 1 \in 0..(MaxTries - 1)
      BY <1>3, SMTT(30) DEF Withheld, TypeOK
    <3>2. tries' \in [Clusters -> 0..(MaxTries - 1)]
      BY <1>3, <3>1 DEF Withheld, TypeOK
    <3>3. probe' \in [Clusters -> Ports \cup {NoPort}] /\ pc' \in [Clusters -> PCs]
      BY <1>3 DEF Withheld, TypeOK, PCs
    <3>4. QED
      BY <1>3, <3>2, <3>3 DEF Withheld, TypeOK
  <2>2. StageOK'
    BY <1>3 DEF Withheld, TypeOK, StageOK, Staged
  <2>3. QED
    BY <2>1, <2>2
<1>4. QED
  BY <1>1, <1>2, <1>3

\* teardown leaves neither ports nor servers.
LEMMA TeardownStage ==
  ASSUME StageInv, NEW c \in Clusters, teardown(c), NEW l \in {"idle", "alloc", "failed"},
         pc' = [pc EXCEPT ![c] = l], attempt' \in [Clusters -> 1..StartAttempts]
  PROVE  StageInv'
<1> USE StartupBounds DEF StageInv, teardown
<1>1. handed' \in [Clusters -> Seq(Ports)] /\ handed'[c] = <<>>
      /\ \A d \in Clusters : d # c => handed'[d] = handed[d]
  BY DEF TypeOK
<1>2. joined' \in [Clusters -> [Servers -> Clusters \cup {None}]]
  BY DEF TypeOK
<1>3. Len(<<>>) = 0
  OBVIOUS
<1>4. TypeOK'
  BY <1>1, <1>2, <1>3, SMTT(30) DEF TypeOK, PCs, SrvStates
<1>5. StageOK'
  BY <1>1, <1>3, SMTT(30) DEF TypeOK, StageOK, Staged
<1>6. QED
  BY <1>4, <1>5

\* The loop stops at the last attempt.
LEMMA FailsStage ==
  ASSUME StageInv, NEW c \in Clusters, NEW conflict, AttemptFails(c, conflict)
  PROVE  StageInv'
<1>1. PICK l \in {"alloc", "failed"} : pc' = [pc EXCEPT ![c] = l]
  BY DEF AttemptFails
<1>2. attempt' \in [Clusters -> 1..StartAttempts]
  <2>1. CASE Retries(c, conflict)
    <3>1. attempt[c] + 1 \in 1..StartAttempts
      BY <2>1, StartupBounds DEF Retries, StageInv, TypeOK
    <3>2. QED
      BY <2>1, <3>1 DEF AttemptFails, StageInv, TypeOK
  <2>2. CASE ~Retries(c, conflict)
    <3>1. 1 \in 1..StartAttempts
      BY StartupBounds
    <3>2. QED
      BY <2>2, <3>1 DEF AttemptFails, StageInv, TypeOK
  <2>3. QED
    BY <2>1, <2>2
<1>3. QED
  BY <1>1, <1>2, TeardownStage DEF AttemptFails

\* The attempts' ends.
LEMMA EndStage ==
  ASSUME StageInv, NEW c \in Clusters,
         OutOfTries(c) \/ aliveGuard(c) \/ TimesOut(c) \/ StartFails(c) \/ Stop(c)
  PROVE  StageInv'
<1>1. CASE Stop(c)
  BY <1>1, TeardownStage DEF Stop, StageInv, TypeOK
<1>2. CASE ~Stop(c)
  <2>1. \E conflict : AttemptFails(c, conflict)
    BY <1>2 DEF OutOfTries, aliveGuard, TimesOut, StartFails
  <2>2. QED
    BY <2>1, FailsStage
<1>3. QED
  BY <1>1, <1>2

\* The steps of Start that get somewhere.
LEMMA ProgressStage ==
  ASSUME StageInv, NEW c \in Clusters,
         Start(c) \/ startPD(c) \/ waitPDReady(c) \/ waitStoresUp(c)
  PROVE  StageInv'
<1> USE StartupBounds DEF StageInv, portVars, clockVars, srvVars
<1>1. CASE Start(c)
  BY <1>1, SMTT(30) DEF Start, TypeOK, PCs, StageOK, Staged
<1>2. CASE startPD(c)
  <2>1. TypeOK'
    BY <1>2 DEF startPD, TypeOK, PCs, SrvStates
  <2>2. StageOK'
    BY <1>2 DEF startPD, TypeOK, StageOK, Staged
  <2>3. QED
    BY <2>1, <2>2
<1>3. CASE waitPDReady(c)
  <2>1. TypeOK'
    BY <1>3 DEF waitPDReady, TypeOK, PCs, SrvStates
  <2>2. StageOK'
    BY <1>3 DEF waitPDReady, TypeOK, StageOK, Staged
  <2>3. QED
    BY <2>1, <2>2
<1>4. CASE waitStoresUp(c)
  <2>1. 1 \in 1..StartAttempts /\ 0 \in 0..StartTimeout
    OBVIOUS
  <2>2. TypeOK'
    BY <1>4, <2>1 DEF waitStoresUp, TypeOK, PCs
  <2>3. StageOK'
    BY <1>4 DEF waitStoresUp, TypeOK, StageOK, Staged
  <2>4. QED
    BY <2>2, <2>3
<1>5. QED
  BY <1>1, <1>2, <1>3, <1>4

\* Servers, other programs and time.
LEMMA WorldStage ==
  ASSUME StageInv,
         \/ \E c \in Clusters, k \in Servers :
              Bind(c, k) \/ LosePort(c, k) \/ Crash(c, k) \/ Reap(c, k)
         \/ \E p \in Ports : Take(p) \/ Drop(p)
         \/ Tick
  PROVE  StageInv'
<1> USE StartupBounds DEF StageInv, callVars, portVars, clockVars, srvVars
<1>1. ASSUME NEW c \in Clusters, NEW k \in Servers, Bind(c, k) PROVE StageInv'
  <2>0. joined' \in [Clusters -> [Servers -> Clusters \cup {None}]]
    <3>1. joined' = joined \/ \E d \in Clusters : joined' = [joined EXCEPT ![c][k] = d]
      BY <1>1 DEF Bind
    <3>2. ASSUME NEW d \in Clusters, joined' = [joined EXCEPT ![c][k] = d]
          PROVE  joined' \in [Clusters -> [Servers -> Clusters \cup {None}]]
      BY <3>2 DEF TypeOK
    <3>3. QED
      BY <3>1, <3>2 DEF TypeOK
  <2>1. TypeOK'
    BY <1>1, <2>0 DEF Bind, TypeOK, SrvStates
  <2>2. StageOK'
    BY <1>1 DEF Bind, TypeOK, StageOK, Staged
  <2>3. QED
    BY <2>1, <2>2
<1>2. ASSUME NEW c \in Clusters, NEW k \in Servers, LosePort(c, k) \/ Crash(c, k)
      PROVE  StageInv'
  <2>0. PICK e \in SrvStates : srv' = [srv EXCEPT ![c][k] = e]
    BY <1>2 DEF LosePort, Crash, SrvStates
  <2>1. TypeOK'
    BY <1>2, <2>0 DEF LosePort, Crash, TypeOK
  <2>2. StageOK'
    <3>1. pc' = pc /\ handed' = handed /\ probe' = probe /\ timer' = timer
      BY <1>2 DEF LosePort, Crash
    <3>2. pc[c] \in Staged
      BY <1>2 DEF LosePort, Crash, StageOK
    <3>3. \A d \in Clusters : d # c => srv'[d] = srv[d]
      BY <2>0 DEF TypeOK
    <3>4. QED
      BY <3>1, <3>2, <3>3 DEF StageOK, Staged
  <2>3. QED
    BY <2>1, <2>2
<1>3. ASSUME NEW c \in Clusters, NEW k \in Servers, Reap(c, k) PROVE StageInv'
  BY <1>3 DEF Reap, TypeOK, StageOK, Staged
<1>4. ASSUME NEW p \in Ports, Take(p) \/ Drop(p) PROVE StageInv'
  BY <1>4 DEF Take, Drop, TypeOK, StageOK, Staged
<1>5. CASE Tick
  <2>1. timer' \in [Clusters -> 0..StartTimeout]
    <3>1. ASSUME NEW c \in Clusters
          PROVE  (IF Polling(c) THEN timer[c] + 1 ELSE timer[c]) \in 0..StartTimeout
      <4>1. timer[c] \in 0..StartTimeout
        BY DEF TypeOK
      <4>2. Polling(c) => timer[c] < StartTimeout
        BY <1>5 DEF Tick
      <4>3. QED
        BY <4>1, <4>2
    <3>2. QED
      BY <1>5, <3>1 DEF Tick
  <2>2. reserved' \in [Processes -> [Ports -> 0..(TTL + 1)]]
    <3>1. ASSUME NEW h \in Processes, NEW p \in Ports
          PROVE  (IF reserved[h][p] > TTL THEN TTL + 1 ELSE reserved[h][p] + 1) \in 0..(TTL + 1)
      <4>1. reserved[h][p] \in 0..(TTL + 1)
        BY DEF TypeOK
      <4>2. QED
        BY <4>1
    <3>2. QED
      BY <1>5, <3>1 DEF Tick
  <2>3. TypeOK'
    <3>1. late' \in SUBSET Processes
      <4>1. {Home[c] : c \in {d \in Clusters : timer'[d] > TTL}} \subseteq Processes
        OBVIOUS
      <4>2. QED
        BY <1>5, <4>1 DEF Tick, TypeOK
    <3>2. QED
      BY <1>5, <2>1, <2>2, <3>1 DEF Tick, TypeOK
  <2>4. StageOK'
    BY <1>5 DEF Tick, TypeOK, StageOK, Staged, Polling
  <2>5. QED
    BY <2>3, <2>4
<1>6. QED
  BY <1>1, <1>2, <1>3, <1>4, <1>5

LEMMA StageStep ==
  ASSUME StageInv, [Next]_vars
  PROVE  StageInv'
<1>1. CASE UNCHANGED vars
  BY <1>1 DEF vars, callVars, portVars, clockVars, srvVars, StageInv, TypeOK, StageOK
<1>2. CASE Next
  BY <1>2, AllocStage, EndStage, ProgressStage, WorldStage DEF Next, StartStep
<1>3. QED
  BY <1>1, <1>2

\* The retry loop, freePort and the contexts stay within their bounds, and an
\* attempt is handed one port per server and no more, for any constants.
THEOREM StartupTypeCorrect == Spec => []TypeOK
<1>1. StageInv => TypeOK
  BY DEF StageInv
<1>2. QED
  BY <1>1, StageInit, StageStep, PTL DEF Spec

(***************************************************************************)
(* Reservations                                                            *)
(***************************************************************************)
\* A handed port is a port.
LEMMA HandedPort ==
  ASSUME StageInv, NEW c \in Clusters, NEW k \in Servers, k < Len(handed[c])
  PROVE  Port(c, k) \in Ports
<1>1. handed[c] \in Seq(Ports) /\ k \in Nat /\ k + 1 \in 1..Len(handed[c])
  BY StartupBounds DEF StageInv, TypeOK, Servers
<1>2. QED
  BY <1>1 DEF Port

\* What reservePort does to the table and to the ports of the attempt.
LEMMA Handing ==
  ASSUME StageInv, NEW c \in Clusters, reservePort(c)
  PROVE  /\ probe[c] \in Ports /\ Home[c] \in Processes /\ Len(handed[c]) \in Nat
         /\ Expired(reserved[Home[c]][probe[c]])
         /\ \A d \in Clusters : d # c => handed'[d] = handed[d]
         /\ handed'[c] = Append(handed[c], probe[c])
         /\ pc'[c] \in {"handed", "alloc"}
         /\ \A h \in Processes, q \in Ports :
              reserved'[h][q] = IF h = Home[c] /\ q = probe[c] THEN 0 ELSE reserved[h][q]
         /\ Len(handed'[c]) = Len(handed[c]) + 1
         /\ \A k \in Servers : k < Len(handed[c]) => Port(c, k)' = Port(c, k)
         /\ \A k \in Servers : k < Len(handed[c]) + 1 /\ ~(k < Len(handed[c])) => Port(c, k)' = probe[c]
         /\ \A d \in Clusters, k \in Servers : d # c => Port(d, k)' = Port(d, k)
<1>1. /\ probe[c] \in Ports /\ Home[c] \in Processes /\ handed[c] \in Seq(Ports)
      /\ Len(handed[c]) \in Nat /\ Expired(reserved[Home[c]][probe[c]])
  <2>1. handed[c] \in Seq(Ports)
    BY DEF StageInv, TypeOK
  <2>2. probe[c] \in Ports /\ Home[c] \in Processes /\ Expired(reserved[Home[c]][probe[c]])
    BY StartupBounds DEF reservePort, StageInv, StageOK
  <2>3. QED
    BY <2>1, <2>2
<1>2. /\ \A d \in Clusters : d # c => handed'[d] = handed[d]
      /\ handed'[c] = Append(handed[c], probe[c])
      /\ pc'[c] \in {"handed", "alloc"}
  BY DEF reservePort, StageInv, TypeOK
<1>3. \A h \in Processes, q \in Ports :
        reserved'[h][q] = IF h = Home[c] /\ q = probe[c] THEN 0 ELSE reserved[h][q]
  BY <1>1 DEF reservePort, StageInv, TypeOK
<1>4. Servers \subseteq Nat
  BY StartupBounds DEF Servers
<1>5. /\ Len(handed'[c]) = Len(handed[c]) + 1 /\ handed'[c][Len(handed[c]) + 1] = probe[c]
      /\ \A k \in Nat : k < Len(handed[c]) => handed'[c][k + 1] = handed[c][k + 1]
  BY <1>1, <1>2, OneMore
<1>6. /\ \A k \in Servers : k < Len(handed[c]) => Port(c, k)' = Port(c, k)
      /\ \A d \in Clusters, k \in Servers : d # c => Port(d, k)' = Port(d, k)
  BY <1>2, <1>4, <1>5 DEF Port
<1>7. ASSUME NEW k \in Servers, k < Len(handed[c]) + 1, ~(k < Len(handed[c]))
      PROVE  Port(c, k)' = probe[c]
  <2>1. k = Len(handed[c])
    BY <1>1, <1>4, <1>7
  <2>2. QED
    BY <1>5, <2>1 DEF Port
<1>8. QED
  BY <1>1, <1>2, <1>3, <1>5, <1>6, <1>7

\* A step that hands out nothing and lets no reservation age.
LEMMA SteadyAge ==
  ASSUME AgeInv, StageInv', UNCHANGED <<handed, reserved>>,
         \A c \in Clusters : pc'[c] # "running" => pc[c] # "running" /\ timer'[c] = timer[c]
  PROVE  AgeInv'
  BY DEF AgeInv, ReservedOK, Port

LEMMA AllocAge ==
  ASSUME AgeInv, StageInv', NEW c \in Clusters,
         listenForPort(c) \/ reservePort(c) \/ Withheld(c)
  PROVE  AgeInv'
<1> USE DEF AgeInv
<1>0. /\ timer' = timer /\ pc[c] # "running"
      /\ \A d \in Clusters : d # c => pc'[d] = pc[d]
  BY DEF listenForPort, reservePort, Withheld, clockVars, srvVars, StageInv, TypeOK
<1>1. CASE ~reservePort(c)
  <2>1. UNCHANGED <<handed, reserved>>
    BY <1>1 DEF listenForPort, Withheld
  <2>2. QED
    BY <1>0, <2>1, SteadyAge
<1>2. CASE reservePort(c)
  <2>1. SUFFICES ASSUME NEW d \in Clusters, NEW k \in Servers, pc'[d] # "running",
                        k < Len(handed'[d])
                 PROVE  reserved'[Home[d]][Port(d, k)'] <= timer[d]
    BY <1>0 DEF ReservedOK
  <2>2. timer[d] \in Nat /\ Home[d] \in Processes
    BY StartupBounds DEF StageInv, TypeOK
  <2>3. CASE d = c /\ ~(k < Len(handed[c]))
    <3>1. Port(c, k)' = probe[c]
      BY <1>2, <2>1, <2>3, Handing
    <3>2. reserved'[Home[c]][probe[c]] = 0
      BY <1>2, Handing
    <3>3. QED
      BY <2>2, <2>3, <3>1, <3>2
  <2>4. CASE d # c \/ k < Len(handed[c])
    <3>1. Port(d, k)' = Port(d, k) /\ pc[d] # "running" /\ k < Len(handed[d])
      BY <1>0, <1>2, <2>1, <2>4, Handing
    <3>2. reserved[Home[d]][Port(d, k)] <= timer[d] /\ Port(d, k) \in Ports
      BY <3>1, HandedPort DEF ReservedOK
    <3>3. reserved'[Home[d]][Port(d, k)] \in {0, reserved[Home[d]][Port(d, k)]}
      BY <1>2, <2>2, <3>2, Handing
    <3>4. QED
      BY <2>2, <3>1, <3>2, <3>3
  <2>5. QED
    BY <2>3, <2>4
<1>3. QED
  BY <1>1, <1>2

LEMMA EndAge ==
  ASSUME AgeInv, StageInv', NEW c \in Clusters,
         OutOfTries(c) \/ aliveGuard(c) \/ TimesOut(c) \/ StartFails(c) \/ Stop(c)
  PROVE  AgeInv'
<1>1. \E conflict : AttemptFails(c, conflict) \/ Stop(c)
  BY DEF OutOfTries, aliveGuard, TimesOut, StartFails
<1>2. teardown(c) /\ \E l \in {"idle", "alloc", "failed"} : pc' = [pc EXCEPT ![c] = l]
  BY <1>1 DEF AttemptFails, Stop
<1>3. /\ \A d \in Clusters : d # c => /\ handed'[d] = handed[d] /\ pc'[d] = pc[d]
                                     /\ timer'[d] = timer[d]
      /\ handed'[c] = <<>> /\ reserved' = reserved
  BY <1>2 DEF teardown, AgeInv, StageInv, TypeOK
<1>4. \A k \in Servers : ~(k < Len(handed'[c]))
  BY <1>3, StartupBounds DEF Servers
<1>5. QED
  BY <1>3, <1>4 DEF AgeInv, ReservedOK, Port

LEMMA ProgressAge ==
  ASSUME AgeInv, StageInv', NEW c \in Clusters,
         Start(c) \/ startPD(c) \/ waitPDReady(c) \/ waitStoresUp(c)
  PROVE  AgeInv'
<1> USE DEF AgeInv, StageInv, TypeOK, portVars, clockVars, srvVars
<1>1. UNCHANGED <<handed, reserved>>
  BY DEF Start, startPD, waitPDReady, waitStoresUp
<1>2. CASE ~waitStoresUp(c)
  <2>1. timer' = timer /\ pc[c] # "running" /\ \A d \in Clusters : d # c => pc'[d] = pc[d]
    BY <1>2 DEF Start, startPD, waitPDReady
  <2>2. QED
    BY <1>1, <2>1, SteadyAge
<1>3. CASE waitStoresUp(c)
  <2>1. /\ pc'[c] = "running"
        /\ \A d \in Clusters : d # c => pc'[d] = pc[d] /\ timer'[d] = timer[d]
    BY <1>3 DEF waitStoresUp
  <2>2. QED
    BY <1>1, <2>1, SteadyAge
<1>4. QED
  BY <1>2, <1>3

\* A reservation ages no faster than the context it was made for.
LEMMA TickAge ==
  ASSUME AgeInv, StageInv', Tick
  PROVE  AgeInv'
<1> USE DEF AgeInv
<1>0. /\ UNCHANGED <<pc, handed>>
      /\ \A c \in Clusters : pc[c] \notin {"alloc", "reserve", "handed"}
  BY DEF Tick, callVars, portVars
<1>1. SUFFICES ASSUME NEW c \in Clusters, NEW k \in Servers, pc[c] # "running",
                      k < Len(handed[c])
               PROVE  reserved'[Home[c]][Port(c, k)] <= timer'[c]
  BY <1>0 DEF ReservedOK, Port
<1>2. Polling(c)
  <2>1. pc[c] \notin {"idle", "failed"}
    BY <1>1, StartupBounds DEF StageInv, StageOK, Servers
  <2>2. QED
    BY <1>0, <1>1, <2>1 DEF Polling, StageInv, TypeOK, PCs
<1>3. /\ reserved[Home[c]][Port(c, k)] <= timer[c] /\ timer[c] \in Nat
      /\ Port(c, k) \in Ports
  BY <1>1, HandedPort DEF ReservedOK, StageInv, TypeOK
<1>4. reserved[Home[c]][Port(c, k)] \in Nat /\ Home[c] \in Processes
  BY <1>3, StartupBounds DEF StageInv, TypeOK
<1>5. timer'[c] = timer[c] + 1
  BY <1>2 DEF Tick
<1>6. reserved'[Home[c]][Port(c, k)] =
        IF reserved[Home[c]][Port(c, k)] > TTL THEN TTL + 1 ELSE reserved[Home[c]][Port(c, k)] + 1
  BY <1>3, <1>4 DEF Tick
<1>7. QED
  BY <1>3, <1>4, <1>5, <1>6, StartupBounds

LEMMA AgeInit == Init => AgeInv
<1> SUFFICES ASSUME Init PROVE AgeInv
  OBVIOUS
<1>1. \A c \in Clusters, k \in Servers : ~(k < Len(handed[c]))
  BY StartupBounds DEF Init, Servers
<1>2. QED
  BY <1>1, StageInit DEF AgeInv, ReservedOK

LEMMA AgeStep ==
  ASSUME AgeInv, [Next]_vars
  PROVE  AgeInv'
<1>0. StageInv'
  BY StageStep DEF AgeInv
<1>1. CASE UNCHANGED vars
  BY <1>0, <1>1 DEF vars, callVars, portVars, clockVars, srvVars, AgeInv, ReservedOK, Port
<1>2. CASE \E c \in Clusters : Start(c) \/ StartStep(c) \/ Stop(c)
  BY <1>0, <1>2, AllocAge, EndAge, ProgressAge DEF StartStep
<1>3. CASE Tick
  BY <1>0, <1>3, TickAge
<1>4. CASE \/ \E c \in Clusters, k \in Servers :
                Bind(c, k) \/ LosePort(c, k) \/ Crash(c, k) \/ Reap(c, k)
           \/ \E p \in Ports : Take(p) \/ Drop(p)
  <2>1. UNCHANGED <<pc, handed, reserved, timer>>
    BY <1>4 DEF Bind, LosePort, Crash, Reap, Take, Drop, callVars, portVars, clockVars, srvVars
  <2>2. QED
    BY <1>0, <2>1, SteadyAge
<1>5. QED
  BY <1>1, <1>2, <1>3, <1>4 DEF Next

\* freePort: a port that a cluster still waits to bind is handed to nobody of
\* its process, itself included, until its Start has taken longer than a
\* reservation lasts: for any number of clusters and processes, any
\* StartTimeout, and whatever other programs take.
THEOREM PortsHandedOnce == Spec => HandedOnce
<1>1. ASSUME AgeInv, Next, NEW c \in Clusters, NEW d \in Clusters, Home[c] = Home[d], ~Slow(c),
             NEW p \in Awaited(c), handed'[d] = Append(handed[d], p)
      PROVE  FALSE
  <2>1. handed[d] \in Seq(Ports) /\ handed \in [Clusters -> Seq(Ports)]
    BY <1>1 DEF AgeInv, StageInv, TypeOK
  <2>2. PICK k \in Servers : p = Port(c, k) /\ k < Len(handed[c]) /\ pc[c] # "running"
    BY DEF Awaited
  <2>3. p \in Ports /\ reserved[Home[c]][p] <= timer[c]
    BY <1>1, <2>2, HandedPort DEF AgeInv, ReservedOK
  <2>4. /\ handed'[d] # handed[d] /\ handed'[d] # <<>>
        /\ handed'[d][Len(handed[d]) + 1] = p
    <3>1. /\ Len(handed'[d]) = Len(handed[d]) + 1 /\ Len(handed[d]) \in Nat
          /\ handed'[d][Len(handed[d]) + 1] = p
      BY <1>1, <2>1, <2>3, OneMore
    <3>2. Len(<<>>) = 0
      OBVIOUS
    <3>3. QED
      BY <3>1, <3>2
  <2>5. reservePort(d)
    <3>1. ASSUME NEW e \in Clusters, teardown(e) PROVE FALSE
      BY <2>1, <2>4, <3>1 DEF teardown
    <3>2. ASSUME NEW e \in Clusters, Start(e) \/ StartStep(e) \/ Stop(e) PROVE reservePort(e)
      <4>1. handed' # handed
        BY <2>4
      <4>2. \A conflict : ~AttemptFails(e, conflict)
        BY <3>1 DEF AttemptFails
      <4>3. QED
        BY <3>1, <3>2, <4>1, <4>2 DEF Start, StartStep, Stop, listenForPort, Withheld, OutOfTries,
           startPD, waitPDReady, waitStoresUp, aliveGuard, TimesOut, StartFails, portVars
    <3>3. \E e \in Clusters : reservePort(e)
      BY <1>1, <2>4, <3>2 DEF Next, Bind, LosePort, Crash, Reap, Take, Drop, Tick, portVars
    <3>4. QED
      BY <2>1, <2>4, <3>3 DEF reservePort
  <2>6. /\ Expired(reserved[Home[d]][probe[d]]) /\ handed'[d] = Append(handed[d], probe[d])
        /\ probe[d] \in Ports
    BY <1>1, <2>5, Handing DEF AgeInv
  <2>7. probe[d] = p
    BY <2>1, <2>4, <2>6, OneMore
  <2>8. timer[c] \in Nat /\ reserved[Home[c]][p] \in Nat
    BY <1>1, <2>3, StartupBounds DEF AgeInv, StageInv, TypeOK
  <2>9. QED
    BY <1>1, <2>3, <2>6, <2>7, <2>8, StartupBounds DEF Slow, Expired
<1>2. AgeInv /\ [Next]_vars =>
        [\A c, d \in Clusters :
           Home[c] = Home[d] /\ ~Slow(c) =>
             \A p \in Awaited(c) : handed'[d] # Append(handed[d], p)]_vars
  BY <1>1
<1>3. QED
  BY <1>2, AgeInit, AgeStep, PTL DEF Spec, HandedOnce

(***************************************************************************)
(* Ports of one process                                                    *)
(***************************************************************************)
\* A server that listens has a port, and the kernel knows.
LEMMA ServingPort ==
  ASSUME StageInv, NEW d \in Clusters, NEW k \in Servers, srv[d][k] = "serving"
  PROVE  k < Len(handed[d]) /\ Port(d, k) \in Bound
<1>1. Len(handed[d]) = TiKVCount + 1
  BY DEF StageInv, StageOK
<1>2. k < Len(handed[d])
  BY <1>1, StartupBounds DEF Servers
<1>3. <<d, k>> \in {r \in Clusters \X Servers : srv[r[1]][r[2]] = "serving"}
  OBVIOUS
<1>4. Port(d, k) \in Bound
  BY <1>3 DEF Bound
<1>5. QED
  BY <1>2, <1>4

\* A handed port is still reserved while Start runs.
LEMMA Unexpired ==
  ASSUME AgeInv, NEW c \in Clusters, ~Slow(c), NEW k \in Servers,
         pc[c] # "running", k < Len(handed[c])
  PROVE  Port(c, k) \in Ports /\ ~Expired(reserved[Home[c]][Port(c, k)])
<1>1. Port(c, k) \in Ports
  BY HandedPort DEF AgeInv
<1>2. reserved[Home[c]][Port(c, k)] <= timer[c] /\ timer[c] \in Nat
  BY DEF AgeInv, ReservedOK, StageInv, TypeOK
<1>3. reserved[Home[c]][Port(c, k)] \in Nat
  BY <1>1, StartupBounds DEF AgeInv, StageInv, TypeOK
<1>4. QED
  BY <1>1, <1>2, <1>3, StartupBounds DEF Slow, Expired

\* While Start polls, the PD that answers is the cluster's own.
LEMMA OwnPD ==
  ASSUME PortInv, NEW c \in Clusters, NEW d \in Clusters, Polling(c), PDAnswers(c, d)
  PROVE  d = c
<1>1. Len(handed[c]) = TiKVCount + 1 /\ pc[c] # "running" /\ 0 < Len(handed[c])
  BY StartupBounds DEF PortInv, AgeInv, StageInv, StageOK, Staged, Polling
<1>2. Claims(c, 0) /\ Claims(d, 0) /\ Port(c, 0) = Port(d, 0)
  BY <1>1, ServingPort, StartupBounds DEF Claims, PDAnswers, PortInv, AgeInv
<1>3. QED
  BY <1>2, StartupBounds DEF PortInv, ClaimsOK

\* The stores that satisfy waitStoresUp are the cluster's own, all of them.
LEMMA OwnStores ==
  ASSUME PortInv, NEW c \in Clusters, waitStoresUp(c), NEW k \in Servers
  PROVE  srv[c][k] \in {"serving", "gone"}
<1>1. PICK d \in Clusters : PDAnswers(c, d) /\ StoresUp(d) >= TiKVCount
  BY DEF waitStoresUp
<1>2. d = c
  BY <1>1, OwnPD DEF waitStoresUp, Polling
<1>3. CASE k = 0
  BY <1>1, <1>2, <1>3 DEF PDAnswers
<1>4. CASE k # 0
  <2> DEFINE S == {q \in Clusters \X (Servers \ {0}) :
                     joined[q[1]][q[2]] = c /\ srv[q[1]][q[2]] \in {"serving", "gone"}}
             T == {c} \X (1..TiKVCount)
  <2>1. Cardinality(S) >= TiKVCount
    BY <1>1, <1>2 DEF StoresUp
  <2>2. S \subseteq T
    <3>1. SUFFICES ASSUME NEW q \in S PROVE q \in T
      OBVIOUS
    <3>2. q[1] = c
      BY StartupBounds DEF PortInv, OwnOK
    <3>3. q[2] \in 1..TiKVCount
      BY StartupBounds DEF Servers
    <3>4. QED
      BY <3>2, <3>3
  <2>3. IsFiniteSet(T) /\ Cardinality(T) = TiKVCount
    <3>1. IsFiniteSet(1..TiKVCount) /\ Cardinality(1..TiKVCount) = TiKVCount
      BY StartupBounds, FS_Interval
    <3>2. IsFiniteSet({c}) /\ Cardinality({c}) = 1
      BY FS_Singleton
    <3>3. QED
      BY <3>1, <3>2, FS_Product, StartupBounds
  <2>4. S = T
    <3>1. IsFiniteSet(S) /\ Cardinality(S) <= Cardinality(T)
          /\ (Cardinality(S) = Cardinality(T) => S = T) /\ Cardinality(S) \in Nat
      BY <2>2, <2>3, FS_Subset, FS_CardinalityType
    <3>2. QED
      BY <2>1, <2>3, <3>1, StartupBounds
  <2>5. <<c, k>> \in S
    BY <1>4, <2>4, StartupBounds DEF Servers
  <2>6. QED
    BY <2>5
<1>5. QED
  BY <1>3, <1>4

\* A step that hands out nothing, lets no reservation age and binds no port.
LEMMA Steady ==
  ASSUME PortInv, AgeInv', UNCHANGED <<handed, reserved>>,
         \A c \in Clusters : pc'[c] = "running" <=> pc[c] = "running",
         \A c \in Clusters, k \in Servers : srv'[c][k] = "serving" => srv[c][k] = "serving",
         ProbeOK', OwnOK'
  PROVE  PortInv'
<1> USE DEF PortInv, AgeInv
<1>1. ClaimsOK'
  BY DEF ClaimsOK, Claims, Port
<1>2. QED
  BY <1>1

\* freePort hands out a port that nobody in the process has or waits for.
LEMMA AllocPorts ==
  ASSUME PortInv, AgeInv', OneProcess, NoneSlow, NEW c \in Clusters,
         listenForPort(c) \/ reservePort(c) \/ Withheld(c)
  PROVE  PortInv'
<1> USE DEF PortInv, AgeInv
<1>0. /\ UNCHANGED <<srv, joined, timer>>
      /\ \A d \in Clusters : d # c => pc'[d] = pc[d] /\ probe'[d] = probe[d]
      /\ pc[c] \in {"alloc", "reserve"} /\ pc'[c] \in {"alloc", "reserve", "handed"}
      /\ \A k \in Servers : srv[c][k] = "off"
  BY DEF listenForPort, reservePort, Withheld, clockVars, srvVars, StageInv, TypeOK, StageOK, Staged
<1>1. OwnOK'
  BY <1>0 DEF OwnOK, Polling
<1>2. CASE listenForPort(c)
  <2>1. PICK p \in Ports \ Bound : probe' = [probe EXCEPT ![c] = p]
    BY <1>2 DEF listenForPort
  <2>2. UNCHANGED <<handed, reserved>>
    BY <1>2 DEF listenForPort
  <2>3. ProbeOK'
    <3>1. SUFFICES ASSUME NEW e \in Clusters, NEW d \in Clusters, NEW k \in Servers,
                          pc'[e] = "reserve", srv[d][k] = "serving", Port(d, k) = probe'[e]
                   PROVE  ~Expired(reserved[Home[e]][probe'[e]])
      BY <1>0, <2>2 DEF ProbeOK, Port, Expired
    <3>2. CASE e = c
      <4>1. probe'[c] = p
        BY <2>1 DEF StageInv, TypeOK
      <4>2. Port(d, k) \in Bound
        BY <3>1, ServingPort
      <4>3. QED
        BY <2>1, <3>1, <3>2, <4>1, <4>2
    <3>3. CASE e # c
      BY <1>0, <3>1, <3>3 DEF ProbeOK
    <3>4. QED
      BY <3>2, <3>3
  <2>4. QED
    BY <1>0, <1>1, <2>2, <2>3, Steady
<1>3. CASE Withheld(c)
  <2>1. UNCHANGED <<handed, reserved>> /\ pc'[c] = "alloc"
    BY <1>3 DEF Withheld, StageInv, TypeOK
  <2>2. ProbeOK'
    BY <1>0, <2>1 DEF ProbeOK, Port, Expired
  <2>3. QED
    BY <1>0, <1>1, <2>1, <2>2, Steady
<1>4. CASE reservePort(c)
  <2> DEFINE p == probe[c]
             n == Len(handed[c])
  <2>1. p \in Ports /\ Home[c] \in Processes /\ n \in Nat /\ Expired(reserved[Home[c]][p])
    BY <1>4, Handing
  <2>2. /\ \A d \in Clusters : d # c => handed'[d] = handed[d]
        /\ pc'[c] \in {"handed", "alloc"} /\ Len(handed'[c]) = n + 1
    BY <1>4, Handing
  <2>3. \A h \in Processes, q \in Ports :
          reserved'[h][q] = IF h = Home[c] /\ q = p THEN 0 ELSE reserved[h][q]
    BY <1>4, Handing
  <2>4. /\ \A k \in Servers : k < n => Port(c, k)' = Port(c, k)
        /\ \A k \in Servers : k < n + 1 /\ ~(k < n) => Port(c, k)' = p
        /\ \A d \in Clusters, k \in Servers : d # c => Port(d, k)' = Port(d, k)
    BY <1>4, Handing
  <2>6. ProbeOK'
    <3>1. SUFFICES ASSUME NEW e \in Clusters, NEW d \in Clusters, NEW k \in Servers,
                          pc'[e] = "reserve", srv[d][k] = "serving", Port(d, k)' = probe'[e]
                   PROVE  ~Expired(reserved'[Home[e]][probe'[e]])
      BY <1>0 DEF ProbeOK, Expired
    <3>2. e # c /\ d # c /\ pc[e] = "reserve" /\ probe'[e] = probe[e] /\ Port(d, k) = probe[e]
      BY <1>0, <2>2, <2>4, <3>1
    <3>3. ~Expired(reserved[Home[e]][probe[e]]) /\ probe[e] \in Ports /\ Home[e] \in Processes
      BY <3>1, <3>2, StartupBounds DEF ProbeOK, StageInv, StageOK
    <3>4. QED
      BY <2>3, <3>2, <3>3, StartupBounds DEF Expired
  <2>7. ASSUME NEW d \in Clusters, NEW j \in Servers, d # c, Claims(d, j)
        PROVE  Port(d, j) # p
    <3>1. CASE pc[d] # "running"
      BY <2>1, <2>7, <3>1, Unexpired DEF Claims, OneProcess, NoneSlow
    <3>2. CASE srv[d][j] = "serving"
      BY <1>4, <2>1, <3>2 DEF reservePort, ProbeOK
    <3>3. QED
      BY <2>7, <3>1, <3>2 DEF Claims
  <2>8. ClaimsOK'
    <3>1. ASSUME NEW d \in Clusters, NEW j \in Servers, d # c, Claims(d, j)'
          PROVE  Claims(d, j) /\ Port(d, j)' = Port(d, j)
      BY <1>0, <2>2, <2>4, <3>1 DEF Claims
    <3>2. ASSUME NEW i \in Servers, Claims(c, i)'
          PROVE  (Claims(c, i) /\ Port(c, i)' = Port(c, i)) \/ Port(c, i)' = p
      BY <1>0, <2>2, <2>4, <3>2 DEF Claims
    <3>3. QED
      BY <2>7, <3>1, <3>2 DEF ClaimsOK
  <2>9. QED
    BY <1>1, <2>6, <2>8
<1>5. QED
  BY <1>2, <1>3, <1>4

\* What teardown gives back, nobody else loses.
LEMMA TeardownPorts ==
  ASSUME PortInv, AgeInv', NEW c \in Clusters, teardown(c),
         NEW l \in {"idle", "alloc", "failed"}, pc' = [pc EXCEPT ![c] = l]
  PROVE  PortInv'
<1> USE DEF PortInv, AgeInv
<1>1. /\ \A d \in Clusters : d # c => /\ handed'[d] = handed[d] /\ srv'[d] = srv[d]
                                     /\ pc'[d] = pc[d] /\ probe'[d] = probe[d]
      /\ handed'[c] = <<>> /\ pc'[c] = l /\ reserved' = reserved
      /\ \A k \in Servers : srv'[c][k] = "off"
      /\ \A d \in Clusters, k \in Servers : joined'[d][k] \in {None, joined[d][k]}
      /\ \A k \in Servers : joined'[c][k] = None
  BY DEF teardown, StageInv, TypeOK
<1>2. \A k \in Servers : ~(k < Len(handed'[c]))
  BY <1>1, StartupBounds DEF Servers
<1>3. ProbeOK'
  BY <1>1 DEF ProbeOK, Port, Expired
<1>4. ClaimsOK'
  BY <1>1, <1>2 DEF ClaimsOK, Claims, Port
<1>5. OwnOK'
  BY <1>1 DEF OwnOK, Polling
<1>6. QED
  BY <1>3, <1>4, <1>5

\* The attempts' ends.
LEMMA EndPorts ==
  ASSUME PortInv, AgeInv', NEW c \in Clusters,
         OutOfTries(c) \/ aliveGuard(c) \/ TimesOut(c) \/ StartFails(c) \/ Stop(c)
  PROVE  PortInv'
<1>1. \E conflict : AttemptFails(c, conflict) \/ Stop(c)
  BY DEF OutOfTries, aliveGuard, TimesOut, StartFails
<1>2. teardown(c) /\ \E l \in {"idle", "alloc", "failed"} : pc' = [pc EXCEPT ![c] = l]
  BY <1>1 DEF AttemptFails, Stop
<1>3. QED
  BY <1>2, TeardownPorts

\* The steps of Start that get somewhere.
LEMMA ProgressPorts ==
  ASSUME PortInv, AgeInv', NEW c \in Clusters,
         Start(c) \/ startPD(c) \/ waitPDReady(c) \/ waitStoresUp(c)
  PROVE  PortInv'
<1> USE DEF PortInv, AgeInv
<1>0. /\ UNCHANGED <<handed, reserved, probe, joined>>
      /\ \A d \in Clusters : d # c => pc'[d] = pc[d]
      /\ \A d \in Clusters : d # c => srv'[d] = srv[d]
      /\ pc[c] # "running" /\ pc'[c] # "reserve"
      /\ \A k \in Servers : srv'[c][k] = "serving" => srv[c][k] = "serving"
  <2> USE DEF StageInv, TypeOK, portVars, clockVars, srvVars
  <2>1. CASE Start(c)
    BY <2>1 DEF Start
  <2>2. CASE startPD(c)
    BY <2>2 DEF startPD
  <2>3. CASE waitPDReady(c)
    BY <2>3 DEF waitPDReady
  <2>4. CASE waitStoresUp(c)
    BY <2>4 DEF waitStoresUp
  <2>5. QED
    BY <2>1, <2>2, <2>3, <2>4
<1>1. ProbeOK'
  BY <1>0 DEF ProbeOK, Port, Expired
<1>2. CASE ~waitStoresUp(c)
  <2>1. pc'[c] # "running"
    BY <1>2 DEF Start, startPD, waitPDReady, StageInv, TypeOK
  <2>2. pc'[c] \in {"waitPD", "waitStores"} \/ \A k \in Servers : srv'[c][k] = "off"
    BY <1>2 DEF Start, startPD, waitPDReady, StageInv, TypeOK, StageOK, Staged, srvVars
  <2>3. OwnOK'
    BY <1>0, <2>2 DEF OwnOK, Polling
  <2>4. QED
    BY <1>0, <1>1, <2>1, <2>3, Steady
<1>3. CASE waitStoresUp(c)
  <2>1. \A k \in Servers : srv'[c][k] # "booting"
    BY <1>3, OwnStores DEF waitStoresUp, srvVars
  <2>2. OwnOK'
    BY <1>0, <2>1 DEF OwnOK, Polling
  <2>3. pc'[c] = "running"
    BY <1>3 DEF waitStoresUp, StageInv, TypeOK
  <2>4. ClaimsOK'
    BY <1>0, <2>3 DEF ClaimsOK, Claims, Port
  <2>5. QED
    BY <1>1, <2>2, <2>4
<1>4. QED
  BY <1>2, <1>3

\* A server binds a port of its own.
LEMMA BindPorts ==
  ASSUME PortInv, AgeInv', OneProcess, NoneSlow,
         NEW c \in Clusters, NEW k \in Servers, Bind(c, k)
  PROVE  PortInv'
<1> USE DEF PortInv, AgeInv
<1>0. /\ UNCHANGED <<pc, handed, reserved, probe>>
      /\ \A d \in Clusters, j \in Servers : <<d, j>> # <<c, k>> => srv'[d][j] = srv[d][j]
      /\ srv'[c][k] = "serving" /\ srv[c][k] = "booting"
  BY DEF Bind, callVars, portVars, StageInv, TypeOK
<1>1. Polling(c) /\ pc[c] # "running" /\ k < Len(handed[c])
  <2>1. Polling(c)
    BY <1>0 DEF OwnOK
  <2>2. Len(handed[c]) = TiKVCount + 1
    BY <2>1 DEF Polling, StageInv, StageOK, Staged
  <2>3. QED
    BY <2>1, <2>2, StartupBounds DEF Polling, Servers
<1>2. OwnOK'
  <2>1. ASSUME NEW d \in Clusters, PDAnswers(c, d), joined' = [joined EXCEPT ![c][k] = d]
        PROVE  joined'[c][k] = c
    BY <1>1, <2>1, OwnPD DEF StageInv, TypeOK
  <2>2. joined' = joined \/ \E d \in Clusters : PDAnswers(c, d) /\ joined' = [joined EXCEPT ![c][k] = d]
    BY DEF Bind
  <2>3. \A d \in Clusters, j \in Servers :
          joined'[d][j] = joined[d][j] \/ (d = c /\ joined'[d][j] = c)
    <3>1. CASE joined' = joined
      BY <3>1
    <3>2. CASE joined' # joined
      <4>1. PICK d \in Clusters : PDAnswers(c, d) /\ joined' = [joined EXCEPT ![c][k] = d]
        BY <2>2, <3>2
      <4>2. joined'[c][k] = c
        BY <2>1, <4>1
      <4>3. \A e \in Clusters, j \in Servers : <<e, j>> # <<c, k>> => joined'[e][j] = joined[e][j]
        BY <4>1 DEF StageInv, TypeOK
      <4>4. QED
        BY <4>2, <4>3
    <3>3. QED
      BY <3>1, <3>2
  <2>4. QED
    BY <1>0, <2>3 DEF OwnOK, Polling
<1>3. ProbeOK'
  <2>1. SUFFICES ASSUME NEW e \in Clusters, NEW d \in Clusters, NEW j \in Servers,
                        pc[e] = "reserve", srv'[d][j] = "serving", Port(d, j) = probe[e]
                 PROVE  ~Expired(reserved[Home[e]][probe[e]])
    BY <1>0 DEF ProbeOK, Port, Expired
  <2>2. CASE d = c /\ j = k
    BY <1>1, <2>1, <2>2, Unexpired DEF OneProcess, NoneSlow
  <2>3. CASE ~(d = c /\ j = k)
    BY <1>0, <2>1, <2>3 DEF ProbeOK
  <2>4. QED
    BY <2>2, <2>3
<1>4. ClaimsOK'
  <2>1. ASSUME NEW d \in Clusters, NEW j \in Servers, Claims(d, j)'
        PROVE  Claims(d, j)
    BY <1>0, <1>1, <2>1 DEF Claims
  <2>2. QED
    BY <1>0, <2>1 DEF ClaimsOK, Port
<1>5. QED
  BY <1>2, <1>3, <1>4

\* Servers that exit, other programs.
LEMMA ExitPorts ==
  ASSUME PortInv, AgeInv',
         \/ \E c \in Clusters, k \in Servers : LosePort(c, k) \/ Crash(c, k) \/ Reap(c, k)
         \/ \E p \in Ports : Take(p) \/ Drop(p)
  PROVE  PortInv'
<1> USE DEF PortInv, AgeInv
<1>1. UNCHANGED <<pc, handed, reserved, probe, joined>>
  BY DEF LosePort, Crash, Reap, Take, Drop, callVars, portVars, srvVars
<1>2. \A c \in Clusters, k \in Servers :
        srv'[c][k] = srv[c][k] \/ srv'[c][k] \in {"lost", "crashed", "gone"}
  <2>1. ASSUME NEW c \in Clusters, NEW k \in Servers, LosePort(c, k) \/ Crash(c, k)
        PROVE  \E e \in {"lost", "crashed", "gone"} : srv' = [srv EXCEPT ![c][k] = e]
    BY <2>1 DEF LosePort, Crash
  <2>2. CASE \E c \in Clusters, k \in Servers : LosePort(c, k) \/ Crash(c, k)
    <3>1. PICK c \in Clusters, k \in Servers, e \in {"lost", "crashed", "gone"} :
            srv' = [srv EXCEPT ![c][k] = e]
      BY <2>1, <2>2
    <3>2. QED
      BY <3>1 DEF StageInv, TypeOK
  <2>3. CASE ~\E c \in Clusters, k \in Servers : LosePort(c, k) \/ Crash(c, k)
    BY <2>3 DEF Reap, Take, Drop, srvVars
  <2>4. QED
    BY <2>2, <2>3
<1>3. ProbeOK'
  BY <1>1, <1>2 DEF ProbeOK, Port, Expired
<1>4. OwnOK'
  BY <1>1, <1>2 DEF OwnOK, Polling
<1>5. QED
  BY <1>1, <1>2, <1>3, <1>4, Steady

LEMMA TickPorts ==
  ASSUME PortInv, AgeInv', Tick
  PROVE  PortInv'
<1> USE DEF PortInv
<1>0. /\ UNCHANGED <<pc, handed, probe, joined, srv>>
      /\ \A c \in Clusters : pc[c] \notin {"alloc", "reserve", "handed"}
  BY DEF Tick, callVars, portVars
<1>1. ProbeOK'
  BY <1>0 DEF ProbeOK
<1>2. ClaimsOK' /\ OwnOK'
  BY <1>0 DEF ClaimsOK, Claims, Port, OwnOK, Polling
<1>3. QED
  BY <1>1, <1>2

\* The invariant is inductive while no Start is slow.
LEMMA PortStep ==
  ASSUME OneProcess, NoneSlow, PortInv, [Next]_vars
  PROVE  PortInv'
<1>0. AgeInv'
  BY AgeStep DEF PortInv
<1>1. CASE UNCHANGED vars
  BY <1>0, <1>1 DEF vars, callVars, portVars, clockVars, srvVars, PortInv, ProbeOK, ClaimsOK,
     Claims, OwnOK, Port, Polling, Expired
<1>2. CASE Next
  BY <1>0, <1>2, AllocPorts, EndPorts, ProgressPorts, BindPorts, ExitPorts, TickPorts
     DEF Next, StartStep
<1>3. QED
  BY <1>1, <1>2

\* late forgets no process, and no slow Start escapes it.
LEMMA LateStep ==
  ASSUME StageInv, LateOK, [Next]_vars
  PROVE  LateOK' /\ late \subseteq late'
<1>1. CASE Tick
  <2>1. late \subseteq late'
    BY <1>1 DEF Tick
  <2>2. ASSUME NEW c \in Clusters, Slow(c)' PROVE Home[c] \in late'
    <3>1. c \in {d \in Clusters : timer'[d] > TTL}
      BY <2>2 DEF Slow
    <3>2. QED
      BY <1>1, <3>1 DEF Tick
  <2>3. QED
    BY <2>1, <2>2 DEF LateOK
<1>2. CASE ~Tick
  <2>1. late' = late
    <3>1. CASE UNCHANGED vars
      BY <3>1 DEF vars, clockVars, srvVars
    <3>2. CASE \E c \in Clusters : Start(c) \/ StartStep(c) \/ Stop(c)
      BY <3>2 DEF Start, StartStep, Stop, AttemptFails, teardown, listenForPort, reservePort,
         Withheld, OutOfTries, startPD, waitPDReady, waitStoresUp, aliveGuard, TimesOut,
         StartFails, clockVars, srvVars
    <3>3. CASE \/ \E c \in Clusters, k \in Servers :
                    Bind(c, k) \/ LosePort(c, k) \/ Crash(c, k) \/ Reap(c, k)
               \/ \E p \in Ports : Take(p) \/ Drop(p)
      BY <3>3 DEF Bind, LosePort, Crash, Reap, Take, Drop, clockVars, srvVars
    <3>4. QED
      BY <1>2, <3>1, <3>2, <3>3 DEF Next
  <2>2. \A c \in Clusters : timer'[c] \in {0, timer[c]}
    <3>1. CASE UNCHANGED vars
      BY <3>1 DEF vars, clockVars, srvVars
    <3>2. ASSUME NEW c \in Clusters, Start(c) \/ StartStep(c) \/ Stop(c)
          PROVE  timer' = timer \/ timer' = [timer EXCEPT ![c] = 0]
      BY <3>2 DEF Start, StartStep, Stop, AttemptFails, teardown, listenForPort, reservePort,
         Withheld, OutOfTries, startPD, waitPDReady, waitStoresUp, aliveGuard, TimesOut,
         StartFails, clockVars, srvVars
    <3>3. CASE \/ \E c \in Clusters, k \in Servers :
                    Bind(c, k) \/ LosePort(c, k) \/ Crash(c, k) \/ Reap(c, k)
               \/ \E p \in Ports : Take(p) \/ Drop(p)
      BY <3>3 DEF Bind, LosePort, Crash, Reap, Take, Drop, clockVars, srvVars
    <3>4. QED
      BY <1>2, <3>1, <3>2, <3>3 DEF Next, StageInv, TypeOK
  <2>3. QED
    BY <2>1, <2>2, StartupBounds DEF LateOK, Slow
<1>3. QED
  BY <1>1, <1>2

\* The ports are apart until a Start of the process has been slow.
LateInv == StageInv /\ LateOK /\ (Punctual => PortInv)

LEMMA LateInit == Init => LateInv
<1> SUFFICES ASSUME Init PROVE LateInv
  OBVIOUS
<1>1. LateOK
  BY StartupBounds DEF Init, LateOK, Slow
<1>2. \A c \in Clusters, k \in Servers : ~(k < Len(handed[c]))
  BY StartupBounds DEF Init, Servers
<1>3. ProbeOK /\ ClaimsOK /\ OwnOK
  BY <1>2 DEF Init, ProbeOK, ClaimsOK, Claims, OwnOK
<1>4. QED
  BY <1>1, <1>3, AgeInit DEF LateInv, PortInv, AgeInv

LEMMA LateInvStep ==
  ASSUME OneProcess, LateInv, [Next]_vars
  PROVE  LateInv'
<1>1. StageInv' /\ LateOK' /\ late \subseteq late'
  BY StageStep, LateStep DEF LateInv
<1>2. ASSUME Punctual' PROVE PortInv'
  <2>1. Punctual
    BY <1>1, <1>2 DEF Punctual
  <2>2. PortInv /\ NoneSlow
    BY <2>1 DEF LateInv, LateOK, Punctual, NoneSlow
  <2>3. QED
    BY <2>2, PortStep
<1>3. QED
  BY <1>1, <1>2 DEF LateInv

\* In one process the answers that make waitPDReady and waitStoresUp succeed
\* come from the cluster's own PD and count its own stores: until one of the
\* process's Starts has outlasted a reservation, Start never returns nil for
\* a cluster one of whose servers lost its port.
THEOREM StartsOnItsOwn == OneProcess => (Spec => StartedOnItsOwn)
<1> SUFFICES ASSUME OneProcess PROVE Spec => StartedOnItsOwn
  OBVIOUS
<1>1. ASSUME PortInv, Next, NEW c \in Clusters, pc[c] = "waitStores", pc'[c] = "running",
             NEW k \in Servers
      PROVE  srv[c][k] \in {"serving", "gone"}
  <2>1. waitStoresUp(c)
    <3>1. ASSUME NEW d \in Clusters, NEW l \in PCs \ {"running"}, pc' = [pc EXCEPT ![d] = l]
          PROVE  FALSE
      BY <1>1, <3>1 DEF PortInv, AgeInv, StageInv, TypeOK
    <3>2. ASSUME NEW d \in Clusters, AttemptFails(d, TRUE) \/ AttemptFails(d, FALSE)
          PROVE  FALSE
      BY <3>1, <3>2 DEF AttemptFails, PCs
    <3>3. ASSUME NEW d \in Clusters, Start(d) \/ StartStep(d) \/ Stop(d), ~waitStoresUp(d)
          PROVE  FALSE
      <4>1. \/ \E l \in PCs \ {"running"} : pc' = [pc EXCEPT ![d] = l]
            \/ \E conflict : AttemptFails(d, conflict)
        BY <3>3 DEF Start, StartStep, Stop, listenForPort, reservePort, Withheld, OutOfTries,
           startPD, waitPDReady, aliveGuard, TimesOut, StartFails, PCs
      <4>2. \E l \in PCs \ {"running"} : pc' = [pc EXCEPT ![d] = l]
        BY <4>1 DEF AttemptFails, PCs
      <4>3. QED
        BY <3>1, <4>2
    <3>4. \E d \in Clusters : waitStoresUp(d)
      <4>1. pc' # pc
        BY <1>1
      <4>2. QED
        BY <1>1, <3>3, <4>1 DEF Next, Bind, LosePort, Crash, Reap, Take, Drop, Tick, callVars
    <3>5. PICK d \in Clusters : waitStoresUp(d)
      BY <3>4
    <3>6. pc \in [Clusters -> PCs] /\ pc' = [pc EXCEPT ![d] = "running"]
      BY <1>1, <3>5 DEF waitStoresUp, PortInv, AgeInv, StageInv, TypeOK
    <3>7. d = c
      BY <1>1, <3>6
    <3>8. QED
      BY <3>5, <3>7
  <2>2. QED
    BY <1>1, <2>1, OwnStores
<1>2. LateInv /\ [Next]_vars =>
        [\A c \in Clusters :
           pc[c] = "waitStores" /\ pc'[c] = "running" /\ Home[c] \notin late =>
             \A k \in Servers : srv[c][k] \in {"serving", "gone"}]_vars
  <2>1. ASSUME NEW c \in Clusters, Home[c] \notin late PROVE Punctual
    BY <2>1 DEF OneProcess, Punctual
  <2>2. QED
    BY <1>1, <2>1 DEF LateInv
<1>3. QED
  BY <1>2, LateInit, LateInvStep, PTL DEF Spec, StartedOnItsOwn
=============================================================================
