------------------------------ MODULE Startup ------------------------------
(***************************************************************************)
(* How Start brings clusters up on ports nobody promised it: the table of  *)
(* reserved ports (ports.go), startOnce with its two waits (pd.go,         *)
(* tikv.go), aliveGuard, isPortConflict and the retry loop of              *)
(* embedded_tikv.go.  Several clusters start and stop in one or more test  *)
(* processes, next to other programs that take ports of their own.         *)
(*                                                                         *)
(* Of the two ports of each server the model keeps the one others connect  *)
(* to.  Time goes in ticks of a minute, each of them hundreds of polls.     *)
(***************************************************************************)
EXTENDS Naturals, Sequences, FiniteSets, FiniteSetsExt

CONSTANTS
  Clusters,       \* Cluster values
  Processes,      \* the processes they live in
  Home,           \* Home[c]: c's process
  Ports,          \* the kernel's ephemeral ports
  NoPort,
  None,           \* no cluster
  TiKVCount,      \* Config.TiKVCount
  TTL,            \* portReservationTTL, in ticks
  StartTimeout,   \* Config.StartTimeout, in ticks
  StartAttempts,  \* startAttempts
  MaxTries,       \* how often freePort asks the kernel
  Tee,            \* a Logger is set and there is a shell: see Reap
  MaxTaken        \* bound: ports other programs listen on at a time

ASSUME StartupAssumption ==
  /\ Home \in [Clusters -> Processes]
  /\ NoPort \notin Ports /\ None \notin Clusters
  /\ {TiKVCount, StartTimeout, StartAttempts, MaxTries} \subseteq Nat \ {0}
  /\ TTL \in Nat /\ MaxTaken \in Nat
  /\ Tee \in BOOLEAN

Servers == 0..TiKVCount   \* 0 is PD

VARIABLES
  pc,        \* where the cluster's Start is
  attempt,   \* of the retry loop, and 1 when there is none
  tries,     \* of freePort
  probe,     \* what listenForPort returned
  handed,    \* the ports of this attempt: PD's, then one per store
  srv,       \* srv[c][k]
  joined,    \* joined[c][k]: the cluster whose PD the store registered with
  done,      \* the servers whose done channel is closed
  timer,     \* ticks since the context was made
  late,      \* history: processes in which a Start has outlasted the TTL
  reserved,  \* portReserved of each process: ticks since the reservation
  taken      \* ports other programs listen on

callVars == <<pc, attempt>>
portVars == <<tries, probe, handed>>
clockVars == <<timer, late>>
srvVars == <<srv, joined, done, clockVars>>
vars == <<callVars, portVars, srvVars, reserved, taken>>

PCs == {"idle", "alloc", "reserve", "handed", "waitPD", "waitStores",
        "running", "failed"}
\* lost: exited, its port was taken; crashed and gone: exited for another
\* reason, before and after it served.
SrvStates == {"off", "booting", "serving", "lost", "crashed", "gone"}

TypeOK ==
  /\ pc \in [Clusters -> PCs]
  /\ attempt \in [Clusters -> 1..StartAttempts]
  /\ tries \in [Clusters -> 0..(MaxTries - 1)]
  /\ probe \in [Clusters -> Ports \cup {NoPort}]
  /\ handed \in [Clusters -> Seq(Ports)]
  /\ \A c \in Clusters : Len(handed[c]) <= TiKVCount + 1
  /\ srv \in [Clusters -> [Servers -> SrvStates]]
  /\ joined \in [Clusters -> [Servers -> Clusters \cup {None}]]
  /\ done \in [Clusters -> SUBSET Servers]
  /\ timer \in [Clusters -> 0..StartTimeout]
  /\ late \in SUBSET Processes
  /\ reserved \in [Processes -> [Ports -> 0..(TTL + 1)]]
  /\ taken \in SUBSET Ports

Init ==
  /\ pc = [c \in Clusters |-> "idle"]
  /\ attempt = [c \in Clusters |-> 1]
  /\ tries = [c \in Clusters |-> 0]
  /\ probe = [c \in Clusters |-> NoPort]
  /\ handed = [c \in Clusters |-> <<>>]
  /\ srv = [c \in Clusters |-> [k \in Servers |-> "off"]]
  /\ joined = [c \in Clusters |-> [k \in Servers |-> None]]
  /\ done = [c \in Clusters |-> {}]
  /\ timer = [c \in Clusters |-> 0]
  /\ late = {}
  /\ reserved = [h \in Processes |-> [p \in Ports |-> TTL + 1]]
  /\ taken = {}

(***************************************************************************)
(* Ports                                                                   *)
(***************************************************************************)
Port(c, k) == handed[c][k + 1]

\* What the kernel will not hand out or let anybody bind again.
Bound ==
  taken \cup {Port(q[1], q[2]) : q \in {r \in Clusters \X Servers :
                                         srv[r[1]][r[2]] = "serving"}}

\* Mutant: a reservation ends one instant early.
ExpiredEarly(a) == a >= TTL

\* Mutant: nothing is withheld.
NeverReserved(a) == TRUE

\* reservePort deletes what is older than the TTL before it looks: an entry
\* past it is as good as none.
Expired(a) == a > TTL

\* listenForPort: bind to port 0, note the number, close.
listenForPort(c) ==
  /\ pc[c] = "alloc"
  /\ \E p \in Ports \ Bound : probe' = [probe EXCEPT ![c] = p]
  /\ pc' = [pc EXCEPT ![c] = "reserve"]
  /\ UNCHANGED <<attempt, tries, handed, srvVars, reserved, taken>>

\* reservePort, under portMu: the port is this attempt's, freePorts goes on.
reservePort(c) ==
  /\ pc[c] = "reserve" /\ Expired(reserved[Home[c]][probe[c]])
  /\ reserved' = [reserved EXCEPT ![Home[c]][probe[c]] = 0]
  /\ handed' = [handed EXCEPT ![c] = Append(@, probe[c])]
  /\ tries' = [tries EXCEPT ![c] = 0]
  /\ probe' = [probe EXCEPT ![c] = NoPort]
  /\ pc' = [pc EXCEPT ![c] =
              IF Len(handed[c]) = TiKVCount THEN "handed" ELSE "alloc"]
  /\ UNCHANGED <<attempt, srvVars, taken>>

\* It is withheld: freePort asks again, MaxTries times in all (see freePort).
Withheld(c) ==
  /\ pc[c] = "reserve" /\ ~Expired(reserved[Home[c]][probe[c]])
  /\ tries[c] + 1 < MaxTries
  /\ tries' = [tries EXCEPT ![c] = @ + 1]
  /\ probe' = [probe EXCEPT ![c] = NoPort]
  /\ pc' = [pc EXCEPT ![c] = "alloc"]
  /\ UNCHANGED <<attempt, handed, srvVars, reserved, taken>>

(***************************************************************************)
(* Start                                                                   *)
(***************************************************************************)
Start(c) ==
  /\ pc[c] \in {"idle", "failed"}
  /\ pc' = [pc EXCEPT ![c] = "alloc"]
  /\ UNCHANGED <<attempt, portVars, srvVars, reserved, taken>>

\* teardown, as far as ports are concerned: every server is gone, and with
\* PD the membership of the stores that registered with it.
teardown(c) ==
  /\ tries' = [tries EXCEPT ![c] = 0]
  /\ probe' = [probe EXCEPT ![c] = NoPort]
  /\ handed' = [handed EXCEPT ![c] = <<>>]
  /\ srv' = [srv EXCEPT ![c] = [k \in Servers |-> "off"]]
  /\ joined' = [d \in Clusters |-> [k \in Servers |->
                  IF d = c \/ joined[d][k] = c THEN None ELSE joined[d][k]]]
  /\ done' = [done EXCEPT ![c] = {}]
  /\ timer' = [timer EXCEPT ![c] = 0]
  /\ UNCHANGED <<late, reserved, taken>>

\* Mutant: the loop runs once too often.
RetryOnceMore(c, conflict) == conflict /\ attempt[c] <= StartAttempts

Retries(c, conflict) == conflict /\ attempt[c] < StartAttempts

\* Mutant: a conflict does not count as an attempt.
RetryForever(c, conflict) ==
  /\ teardown(c)
  /\ pc' = [pc EXCEPT ![c] = IF conflict THEN "alloc" ELSE "failed"]
  /\ UNCHANGED attempt

\* startOnce has returned an error; conflict is isPortConflict's verdict.
AttemptFails(c, conflict) ==
  /\ teardown(c)
  /\ IF Retries(c, conflict)
     THEN /\ attempt' = [attempt EXCEPT ![c] = @ + 1]
          /\ pc' = [pc EXCEPT ![c] = "alloc"]
     ELSE /\ attempt' = [attempt EXCEPT ![c] = 1]
          /\ pc' = [pc EXCEPT ![c] = "failed"]

\* freePort gives up.
OutOfTries(c) ==
  /\ pc[c] = "reserve" /\ ~Expired(reserved[Home[c]][probe[c]])
  /\ tries[c] + 1 = MaxTries
  /\ AttemptFails(c, FALSE)

\* The context's clock starts after the ports are handed out.
startPD(c) ==
  /\ pc[c] = "handed"
  /\ pc' = [pc EXCEPT ![c] = "waitPD"]
  /\ srv' = [srv EXCEPT ![c][0] = "booting"]
  /\ UNCHANGED <<attempt, portVars, joined, done, clockVars, reserved, taken>>

\* GET on c's client port: the cluster, whichever it is, whose PD answers.
PDAnswers(c, d) == srv[d][0] = "serving" /\ Port(d, 0) = Port(c, 0)

\* The stores d's PD reports Up; a dead one stays Up for a while.
StoresUp(d) ==
  Cardinality({q \in Clusters \X (Servers \ {0}) :
                 joined[q[1]][q[2]] = d /\ srv[q[1]][q[2]] \in {"serving", "gone"}})

\* poll in waitPDReady: aliveGuard is content and PD is ready.  startTiKV
\* follows, once per store.
waitPDReady(c) ==
  /\ pc[c] = "waitPD" /\ done[c] = {} /\ \E d \in Clusters : PDAnswers(c, d)
  /\ pc' = [pc EXCEPT ![c] = "waitStores"]
  /\ srv' = [srv EXCEPT ![c] = [k \in Servers |-> IF k = 0 THEN @[0] ELSE "booting"]]
  /\ UNCHANGED <<attempt, portVars, joined, done, clockVars, reserved, taken>>

\* poll in waitStoresUp: Start returns nil, and its context is done with.
waitStoresUp(c) ==
  /\ pc[c] = "waitStores" /\ done[c] = {}
  /\ \E d \in Clusters : PDAnswers(c, d) /\ StoresUp(d) >= TiKVCount
  /\ pc' = [pc EXCEPT ![c] = "running"]
  /\ attempt' = [attempt EXCEPT ![c] = 1]
  /\ timer' = [timer EXCEPT ![c] = 0]
  /\ UNCHANGED <<portVars, srv, joined, done, late, reserved, taken>>

Polling(c) == pc[c] \in {"waitPD", "waitStores"}

\* aliveGuard fails the poll and quotes the log of the first dead server in
\* the order of processes().
aliveGuard(c) ==
  /\ Polling(c) /\ done[c] # {}
  /\ AttemptFails(c, srv[c][Min(done[c])] = "lost")

\* The context expires; startupError quotes the server started last.
TimesOut(c) ==
  /\ Polling(c) /\ timer[c] = StartTimeout
  /\ AttemptFails(c, srv[c][IF pc[c] = "waitPD" THEN 0 ELSE TiKVCount] = "lost")

\* Anything else: a file that cannot be written, an exec that fails, a host
\* that cannot be listened on, or no port at all, which reads as a conflict.
StartFails(c) ==
  \/ /\ \/ pc[c] \in {"alloc", "handed"}
        \/ pc[c] = "waitPD" /\ \E d \in Clusters : PDAnswers(c, d)
     /\ AttemptFails(c, FALSE)
  \/ pc[c] = "alloc" /\ AttemptFails(c, TRUE)

Stop(c) ==
  /\ pc[c] = "running"
  /\ teardown(c)
  /\ pc' = [pc EXCEPT ![c] = "idle"]
  /\ UNCHANGED attempt

(***************************************************************************)
(* Servers, other programs, time                                           *)
(***************************************************************************)
\* A server binds its port, a store once it has registered with the PD it
\* was pointed at ...
Bind(c, k) ==
  /\ srv[c][k] = "booting" /\ Port(c, k) \notin Bound
  /\ \/ k = 0 /\ UNCHANGED joined
     \/ k # 0 /\ \E d \in Clusters : /\ PDAnswers(c, d)
                                    /\ joined' = [joined EXCEPT ![c][k] = d]
  /\ srv' = [srv EXCEPT ![c][k] = "serving"]
  /\ UNCHANGED <<callVars, portVars, done, clockVars, reserved, taken>>

\* ... or reports "address already in use" and exits.
LosePort(c, k) ==
  /\ srv[c][k] = "booting" /\ Port(c, k) \in Bound
  /\ srv' = [srv EXCEPT ![c][k] = "lost"]
  /\ UNCHANGED <<callVars, portVars, joined, done, clockVars, reserved, taken>>

Crash(c, k) ==
  /\ srv[c][k] \in {"booting", "serving"}
  /\ srv' = [srv EXCEPT ![c][k] = IF @ = "booting" THEN "crashed" ELSE "gone"]
  /\ UNCHANGED <<callVars, portVars, joined, done, clockVars, reserved, taken>>

Exited(c, k) == srv[c][k] \in {"lost", "crashed", "gone"}

\* cmd.Wait returns and done is closed.  With a Logger cmd.Wait also waits
\* for the output pipe, which the watchdog shell keeps open.
Reap(c, k) ==
  /\ Exited(c, k) /\ k \notin done[c] /\ ~Tee
  /\ done' = [done EXCEPT ![c] = @ \cup {k}]
  /\ UNCHANGED <<callVars, portVars, srv, joined, clockVars, reserved, taken>>

Take(p) ==
  /\ p \notin Bound /\ Cardinality(taken) < MaxTaken
  /\ taken' = taken \cup {p}
  /\ UNCHANGED <<callVars, portVars, srvVars, reserved>>

Drop(p) ==
  /\ p \in taken
  /\ taken' = taken \ {p}
  /\ UNCHANGED <<callVars, portVars, srvVars, reserved>>

\* Allocating takes no time, and a poll comes before the next tick: it finds
\* the context expired, or a server whose exit has been reported.
Tick ==
  /\ \A c \in Clusters :
       /\ pc[c] \notin {"alloc", "reserve", "handed"}
       /\ Polling(c) => /\ timer[c] < StartTimeout
                        /\ Tee \/ \A k \in Servers : ~Exited(c, k)
  /\ timer' = [c \in Clusters |-> IF Polling(c) THEN timer[c] + 1 ELSE timer[c]]
  /\ late' = late \cup {Home[c] : c \in {d \in Clusters : timer'[d] > TTL}}
  /\ reserved' = [h \in Processes |-> [p \in Ports |->
                    IF reserved[h][p] > TTL THEN TTL + 1 ELSE reserved[h][p] + 1]]
  /\ UNCHANGED <<callVars, portVars, srv, joined, done, taken>>

(***************************************************************************)
(* The system                                                              *)
(***************************************************************************)
StartStep(c) ==
  \/ listenForPort(c) \/ reservePort(c) \/ Withheld(c) \/ OutOfTries(c)
  \/ startPD(c) \/ waitPDReady(c) \/ waitStoresUp(c)
  \/ aliveGuard(c) \/ TimesOut(c) \/ StartFails(c)

Next ==
  \/ \E c \in Clusters : Start(c) \/ StartStep(c) \/ Stop(c)
  \/ \E c \in Clusters, k \in Servers :
       Bind(c, k) \/ LosePort(c, k) \/ Crash(c, k) \/ Reap(c, k)
  \/ \E p \in Ports : Take(p) \/ Drop(p)
  \/ Tick

Spec == Init /\ [][Next]_vars

\* Each call of Start keeps running and time keeps passing, however often
\* another call interrupts it; no server has to come up, or to stay up.
Fairness ==
  /\ \A c \in Clusters : /\ WF_vars(StartStep(c))
                       /\ \A k \in Servers : WF_vars(Reap(c, k))
  /\ SF_vars(Tick)

FairSpec == Spec /\ Fairness

(***************************************************************************)
(* Properties                                                              *)
(***************************************************************************)
\* Start takes longer than a reservation lasts: it may, StartTimeout being
\* two minutes by default and portReservationTTL one.
Slow(c) == timer[c] > TTL

\* The ports of c that a server has still to bind.
Awaited(c) ==
  {Port(c, k) : k \in {i \in Servers : /\ i < Len(handed[c])
                                      /\ pc[c] # "running"
                                      /\ srv[c][i] \in {"off", "booting"}}}

\* freePort: the table stops "concurrent clusters in the same test binary from
\* being handed the same number": a port that a cluster of the process still
\* waits to bind is handed to no other, nor to itself again, until its Start
\* is slow.
HandedOnce ==
  [][\A c, d \in Clusters :
       Home[c] = Home[d] /\ ~Slow(c) =>
         \A p \in Awaited(c) : handed'[d] # Append(handed[d], p)]_vars

\* When Start returns nil, the servers that made the polls succeed are the
\* cluster's own: each of them got its port.  A lost port was retried.  This
\* goes for a process until one of its Starts is slow.
StartedOnItsOwn ==
  [][\A c \in Clusters :
       pc[c] = "waitStores" /\ pc'[c] = "running" /\ Home[c] \notin late =>
         \A k \in Servers : srv[c][k] \in {"serving", "gone"}]_vars

\* Start comes to an end, whatever its servers and other programs do:
\* attempts, tries and the context bound it.
EveryStartReturns ==
  \A c \in Clusters : pc[c] = "alloc" ~> pc[c] \in {"running", "failed"}
=============================================================================
