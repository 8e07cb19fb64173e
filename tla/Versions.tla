------------------------------ MODULE Versions ------------------------------
(***************************************************************************)
(* Which versions resolve suggests when the one asked for is not published *)
(* (recentVersions and compareVersions of binaries.go).                    *)
(*                                                                         *)
(* A version is its dotted fields, each the sequence of its digits, and    *)
(* whether a suffix after a "-" makes it a pre-release.                    *)
(***************************************************************************)
EXTENDS BinaryCache, Integers, Sequences, SequencesExt

CONSTANTS
  Releases,      \* sets of versions a manifest may list
  RecentLimit    \* how many are suggested, 8 in the code

\* A number as a release tag writes it.
Fields == {f \in Seq(0..9) : Len(f) > 0 /\ (f[1] = 0 => Len(f) = 1)}

ASSUME VersionsAssumption ==
  /\ RecentLimit \in Nat \ {0}
  /\ \A platforms \in Releases :
       /\ IsFiniteSet(platforms)
       /\ \A v \in platforms : v \in [fields : Seq(Fields), pre : BOOLEAN]

\* The first place at which two sequences differ, or one past the shorter.
FirstDifference(s, t) ==
  Min({i \in 1..(Len(s) + 1) : i > Len(t) \/ i > Len(s) \/ s[i] # t[i]})

\* strings.Compare of two fields of one length, which differ.
TextBefore(f, g) == LET i == FirstDifference(f, g) IN f[i] < g[i]

\* Mutant: fields compared as text alone, so that 10 comes before 9.
FieldBeforeText(f, g) ==
  LET i == FirstDifference(f, g) IN i > Len(f) \/ (i <= Len(g) /\ f[i] < g[i])

\* Fewer digits first, as neither field has leading zeros.
FieldBefore(f, g) ==
  \/ Len(f) < Len(g)
  \/ Len(f) = Len(g) /\ TextBefore(f, g)

\* compareVersions(a, b) < 0.
compareVersions(a, b) ==
  LET i == FirstDifference(a.fields, b.fields)
  IN  IF i <= Len(a.fields) /\ i <= Len(b.fields)
      THEN FieldBefore(a.fields[i], b.fields[i])
      ELSE Len(a.fields) < Len(b.fields)

\* slices.SortFunc, of which only the outcome is modelled.
SortFunc(S) ==
  CHOOSE s \in SetToSeqs(S) :
    \A i, j \in DOMAIN s : i < j => compareVersions(s[i], s[j])

recentVersions(platforms) ==
  LET stable == SortFunc({v \in platforms : ~v.pre})
  IN  SubSeq(stable, IF Len(stable) > RecentLimit THEN Len(stable) - RecentLimit + 1 ELSE 1,
             Len(stable))

(***************************************************************************)
(* Reference: the order of the numbers                                     *)
(***************************************************************************)
Number(f) ==
  LET upTo[i \in 0..Len(f)] == IF i = 0 THEN 0 ELSE 10 * upTo[i - 1] + f[i]
  IN  upTo[Len(f)]

\* Field i of a version, -1 where it has none.
FieldNumber(v, i) == IF i <= Len(v.fields) THEN Number(v.fields[i]) ELSE -1

\* Version a is older than b: as numbers, at the first field that differs.
Older(a, b) ==
  \E i \in 1..Len(b.fields) :
    /\ FieldNumber(a, i) < FieldNumber(b, i)
    /\ \A j \in 1..(i - 1) : FieldNumber(a, j) = FieldNumber(b, j)

\* The suggestions ascend, and no stable release left out is newer than one
\* of them.
Newest(listed, platforms) ==
  LET stable == {v \in platforms : ~v.pre}
  IN  /\ ToSet(listed) \subseteq stable
      /\ \A i, j \in DOMAIN listed : i < j => Older(listed[i], listed[j])
      /\ \A v \in stable \ ToSet(listed) :
           Len(listed) = RecentLimit /\ \A i \in DOMAIN listed : Older(v, listed[i])

AllNewest == \A platforms \in Releases : Newest(recentVersions(platforms), platforms)

\* When resolve fails for want of a version, its error "lists the newest
\* handful of stable releases", whatever the manifest holds.
NewestListed == (\E p \in Procs : pc[p] = "fail") => AllNewest
=============================================================================
