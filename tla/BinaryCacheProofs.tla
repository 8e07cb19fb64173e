------------------------- MODULE BinaryCacheProofs -------------------------
(***************************************************************************)
(* Proofs about BinaryCache, for any number of concurrent calls.           *)
(***************************************************************************)
EXTENDS BinaryCache, TLAPS

\* The lock excludes; a component is passed only once it is installed; the
\* one being worked on is missing; past Verify the temporary file is good.
LockOK == \A p, q \in Procs : Holding(p) /\ Holding(q) => p = q

CallOK(p) ==
  /\ \A j \in Components : j < k[p] => file[j] = "good"
  /\ pc[p] = "ready" => k[p] = 3
  /\ temp[p] # "none" => k[p] \in Components /\ pc[p] \notin {"resolve", "stat", "held"}
  /\ pc[p] \in {"lock", "manifest", "fetch"} => temp[p] = "none"
  /\ Downloading(p) => k[p] \in Components /\ file[k[p]] = "none"
  /\ pc[p] \in {"verify", "chmod", "rename"} /\ intact[p] => temp[p] = "good"
  /\ pc[p] \in {"chmod", "rename"} => intact[p]

CacheInv ==
  /\ TypeOK /\ LockOK
  /\ \A p \in Procs : CallOK(p)
  /\ \A j \in Components : file[j] # "bad"

\* An empty cache satisfies the invariant.
LEMMA CacheInvInit == Init => CacheInv
  BY DEF Init, CacheInv, TypeOK, LockOK, CallOK, PCs, Contents, Components, Holding, Critical,
     Downloading

\* What a step of p does to the calls of others and to the files.
LEMMA CallFrame ==
  ASSUME CacheInv, NEW p \in Procs, Step(p) \/ LockFails(p) \/ Die(p), NEW q \in Procs, q # p
  PROVE  /\ pc'[q] = pc[q] /\ k'[q] = k[q] /\ temp'[q] = temp[q] /\ intact'[q] = intact[q]
  BY DEF CacheInv, TypeOK, Step, Resolve, suppliedBinaries, platformFor,
     StatInstalled, Lock, LockFails, NextComponent, ResolveEntry, Unlock, Fetch,
     Extract, Drain, Verify, MakeExecutable, Rename, Fail, Die, Goto

\* The files change in one way only: a good one appears where none was.
LEMMA FileStep ==
  ASSUME CacheInv, NEW p \in Procs, Step(p) \/ LockFails(p) \/ Die(p)
  PROVE  \/ file' = file
         \/ /\ Rename(p) /\ file' = [file EXCEPT ![k[p]] = "good"]
            /\ k[p] \in Components /\ file[k[p]] = "none"
<1>1. CASE Rename(p)
  BY <1>1 DEF CacheInv, TypeOK, CallOK, Downloading, Rename
<1>2. CASE ~Rename(p)
  BY <1>2 DEF Step, Resolve, suppliedBinaries, platformFor, StatInstalled, Lock, LockFails,
     NextComponent, ResolveEntry, Unlock, Fetch, Extract, Drain, Verify, MakeExecutable, Fail, Die
<1>3. QED
  BY <1>1, <1>2

\* The invariant is inductive, deaths and failures included.
LEMMA CacheInvStep ==
  ASSUME CacheInv, [Next]_vars
  PROVE  CacheInv'
<1>1. CASE UNCHANGED vars
  BY <1>1 DEF vars, CacheInv, TypeOK, LockOK, CallOK, Holding, Downloading
<1>2. ASSUME NEW p \in Procs, Step(p) \/ LockFails(p) \/ Die(p) PROVE CacheInv'
  <2> USE <1>2 DEF CacheInv
  <2>1. /\ file' \in [Components -> {"none", "good"}]
        /\ \A j \in Components : file[j] = "good" => file'[j] = "good"
    BY FileStep DEF TypeOK
  <2>2. TypeOK'
    <3> USE <2>1 DEF TypeOK, PCs, Contents, Components, Goto
    <3>1. CASE StatInstalled(p) \/ NextComponent(p)
      <4>1. k[p] \in 1..2 => k[p] + 1 \in 1..3
        OBVIOUS
      <4>2. k' \in [Procs -> 1..3]
        BY <3>1, <4>1 DEF StatInstalled, NextComponent
      <4>3. pc' \in [Procs -> PCs]
        BY <3>1 DEF StatInstalled, NextComponent
      <4>4. QED
        BY <3>1, <4>2, <4>3 DEF StatInstalled, NextComponent
    <3>2. CASE Rename(p)
      BY <3>2 DEF Rename, CallOK, Downloading
    <3>3. CASE Die(p)
      <4>1. temp[p] # "none" => k[p] \in Components
        BY DEF CallOK
      <4>2. QED
        BY <3>3, <4>1 DEF Die
    <3>4. CASE \/ Resolve(p) \/ Lock(p) \/ LockFails(p) \/ Unlock(p) \/ ResolveEntry(p)
               \/ Verify(p) \/ MakeExecutable(p) \/ Fail(p)
      BY <3>4 DEF Resolve, suppliedBinaries, platformFor, Lock, LockFails, Unlock, ResolveEntry,
         Verify, MakeExecutable, Fail
    <3>5. CASE Fetch(p) \/ Extract(p) \/ Drain(p)
      BY <3>5, ZenonT(60) DEF Fetch, Extract, Drain
    <3>6. QED
      BY <3>1, <3>2, <3>3, <3>4, <3>5 DEF Step
  <2>3. LockOK'
    BY CallFrame DEF TypeOK, LockOK, Holding, Critical, Step, Resolve, suppliedBinaries,
       platformFor, StatInstalled, Lock, LockFails, NextComponent, ResolveEntry,
       Unlock, Fetch, Extract, Drain, Verify, MakeExecutable, Rename, Fail, Die, Goto
  <2>4. ASSUME NEW q \in Procs, q # p PROVE CallOK(q)'
    <3>1. Downloading(q) => file' = file
      BY <2>4, FileStep DEF LockOK, Holding, Critical, Downloading, Rename
    <3>2. QED
      BY <2>1, <2>4, <3>1, CallFrame DEF CallOK, Downloading
  <2>5. CallOK(p)'
    <3> USE DEF TypeOK, CallOK, Downloading, Components, Goto
    <3>1. CASE StatInstalled(p) \/ NextComponent(p)
      <4>1. file' = file /\ temp' = temp /\ intact' = intact
        BY <3>1 DEF StatInstalled, NextComponent
      <4>2. CASE StatInstalled(p)
        BY <4>1, <4>2 DEF StatInstalled, isExecutable
      <4>3. CASE NextComponent(p)
        BY <4>1, <4>3 DEF NextComponent, isExecutable
      <4>4. QED
        BY <3>1, <4>2, <4>3
    <3>2. CASE Rename(p)
      BY <3>2 DEF Rename
    <3>3. CASE \/ Lock(p) \/ LockFails(p) \/ Unlock(p) \/ ResolveEntry(p) \/ Fetch(p)
               \/ Extract(p) \/ Drain(p) \/ Verify(p)
      BY <3>3 DEF Lock, LockFails, Unlock, ResolveEntry, Fetch, Extract, Drain, Verify
    <3>4. CASE Resolve(p) \/ MakeExecutable(p) \/ Fail(p) \/ Die(p)
      BY <3>4 DEF Resolve, suppliedBinaries, platformFor, MakeExecutable, Fail, Die
    <3>5. QED
      BY <3>1, <3>2, <3>3, <3>4 DEF Step
  <2>6. QED
    BY <2>1, <2>2, <2>3, <2>4, <2>5
<1>3. QED
  BY <1>1, <1>2 DEF Next

\* Every variable keeps its type; with the lock and the loop's bookkeeping
\* that keep k within the components.
THEOREM CacheTypeCorrect == Spec => []TypeOK
<1>1. CacheInv => TypeOK
  BY DEF CacheInv
<1>2. QED
  BY <1>1, CacheInvInit, CacheInvStep, PTL DEF Spec

\* No two calls of resolveBinaries download at a time, and none downloads
\* what is there.
THEOREM SingleDownload == Spec => []NoSecondDownload
<1>1. CacheInv => NoSecondDownload
  BY DEF CacheInv, LockOK, CallOK, NoSecondDownload, Downloading, Holding, Critical, isExecutable
<1>2. QED
  BY <1>1, CacheInvInit, CacheInvStep, PTL DEF Spec

\* The cache implements BinaryStore: an executable appears in one step, as
\* published, once, and callers get paths to installed executables only.
THEOREM CacheImplementsStore == Spec => ImplementsStore
<1>1. Init => Store!Init
  BY DEF Init, Store!Init
<1>2. CacheInv /\ [Next]_vars =>
        [Store!Next]_<<[j \in Components |-> file[j] = "good"],
                       {p \in Procs : pc[p] = "ready"}>>
  <2> SUFFICES ASSUME CacheInv, [Next]_vars
               PROVE  [Store!Next]_<<[j \in Components |-> file[j] = "good"],
                                     {p \in Procs : pc[p] = "ready"}>>
    OBVIOUS
  <2>1. CASE UNCHANGED vars
    BY <2>1 DEF vars
  <2>2. ASSUME NEW p \in Procs, Rename(p), file' # file
        PROVE  \E j \in Components : Store!Install(j)
    <3>1. PICK j \in Components : file[j] = "none" /\ file' = [file EXCEPT ![j] = "good"]
      BY <2>2, FileStep DEF Step
    <3>2. {q \in Procs : pc'[q] = "ready"} = {q \in Procs : pc[q] = "ready"}
      BY <2>2 DEF Rename, Goto, CacheInv, TypeOK
    <3>3. \A i \in Components : (file'[i] = "good") = (IF i = j THEN TRUE ELSE file[i] = "good")
      BY <3>1 DEF CacheInv, TypeOK
    <3>4. [i \in Components |-> file'[i] = "good"]
            = [[i \in Components |-> file[i] = "good"] EXCEPT ![j] = TRUE]
      BY <3>1, <3>3
    <3>5. Store!Install(j)
      BY <3>1, <3>2, <3>4 DEF Store!Install
    <3>6. QED
      BY <3>5
  <2>3. ASSUME NEW p \in Procs, Step(p) \/ LockFails(p) \/ Die(p),
             file' = file, pc'[p] = "ready", pc[p] # "ready"
        PROVE  Store!Use(p)
    <3>1. \A j \in Components : file[j] = "good"
      <4>1. k'[p] = 3 /\ \A j \in Components : j < k'[p] => file'[j] = "good"
        BY <2>3, CacheInvStep DEF CacheInv, CallOK
      <4>2. QED
        BY <2>3, <4>1 DEF Components
    <3>2. {q \in Procs : pc'[q] = "ready"} = {q \in Procs : pc[q] = "ready"} \cup {p}
      BY <2>3, CallFrame DEF CacheInv, TypeOK
    <3>3. QED
      BY <2>3, <3>1, <3>2 DEF Store!Use
  <2>4. ASSUME NEW p \in Procs, Step(p) \/ LockFails(p) \/ Die(p),
             file' = file, pc'[p] # "ready" \/ pc[p] = "ready"
        PROVE  UNCHANGED {q \in Procs : pc[q] = "ready"}
    BY <2>4, CallFrame DEF CacheInv, TypeOK, Step, Resolve, suppliedBinaries,
       platformFor, StatInstalled, Lock, LockFails, NextComponent, ResolveEntry,
       Unlock, Fetch, Extract, Drain, Verify, MakeExecutable, Rename, Fail, Die, Done
  <2>5. ASSUME NEW p \in Procs, Step(p) \/ LockFails(p) \/ Die(p)
        PROVE  \/ Store!Next
               \/ UNCHANGED <<[j \in Components |-> file[j] = "good"],
                              {q \in Procs : pc[q] = "ready"}>>
    <3>1. CASE file' # file
      <4>1. Rename(p)
        BY <2>5, <3>1, FileStep
      <4>2. QED
        BY <2>2, <3>1, <4>1 DEF Store!Next
    <3>2. CASE file' = file /\ pc'[p] = "ready" /\ pc[p] # "ready"
      BY <2>3, <2>5, <3>2 DEF Store!Next
    <3>3. CASE file' = file /\ (pc'[p] # "ready" \/ pc[p] = "ready")
      BY <2>4, <2>5, <3>3
    <3>4. QED
      BY <3>1, <3>2, <3>3
  <2>6. QED
    BY <2>1, <2>5 DEF Next
<1>3. QED
  BY <1>1, <1>2, CacheInvInit, CacheInvStep, PTL DEF Spec, ImplementsStore, Store!Spec
=============================================================================
