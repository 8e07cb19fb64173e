--------------------------- MODULE MCBinaryCache ---------------------------
(* Instances of BinaryCache and Versions for TLC. *)
EXTENDS Versions

CONSTANTS p1, p2, p3, p4, p5

\* 0, 2, 9, 10 and 12 as fields; up to three versions of two or three of them.
SmallFields == {<<0>>, <<2>>, <<9>>, <<1, 0>>, <<1, 2>>}
SmallVersions ==
  [fields : [1..2 -> SmallFields], pre : {FALSE}]
    \cup [fields : {<<f, <<0>>, <<9>>>> : f \in SmallFields}, pre : BOOLEAN]
SmallReleases == {{}} \cup {{u, v, w} : u, v, w \in SmallVersions}
=============================================================================
