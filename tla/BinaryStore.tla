---------------------------- MODULE BinaryStore ----------------------------
(***************************************************************************)
(* What the binary cache promises its users: every executable appears in   *)
(* one step, whole and as published, and is never touched again; and a     *)
(* caller is given paths only once all of them are there.                  *)
(***************************************************************************)
CONSTANTS Procs, Components

VARIABLES store,   \* store[j]: is component j installed as published?
          using    \* callers that have been given the paths

Init == store = [j \in Components |-> FALSE] /\ using = {}

Install(j) ==
  /\ ~store[j]
  /\ store' = [store EXCEPT ![j] = TRUE]
  /\ UNCHANGED using

Use(p) ==
  /\ \A j \in Components : store[j]
  /\ using' = using \cup {p}
  /\ UNCHANGED store

Next == (\E j \in Components : Install(j)) \/ (\E p \in Procs : Use(p))

Spec == Init /\ [][Next]_<<store, using>>
=============================================================================
