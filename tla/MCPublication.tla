---------------------------- MODULE MCPublication ----------------------------
(***************************************************************************)
(* Two publishers and two conflicting editions of one run, which share an  *)
(* artifact; and a smaller instance for the liveness run, in which they    *)
(* share their only artifact.                                              *)
(***************************************************************************)
EXTENDS Publication, TLC

CONSTANTS w1, w2, r1, d1, d2, e1, e2

MCPublishers == {w1, w2}
MCRuns == {r1}
MCDigests == {d1, d2}
MCEditions == {e1, e2}
MCRunOf == [e \in MCEditions |-> r1]
MCArtifactsOf == [e \in MCEditions |-> IF e = e1 THEN {d1, d2} ELSE {d2}]
MCSymmetry == Permutations(MCPublishers)

MCOneDigest == {d1}
MCSharedArtifactsOf == [e \in MCEditions |-> {d1}]

=============================================================================
