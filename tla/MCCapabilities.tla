---------------------------- MODULE MCCapabilities ----------------------------
(***************************************************************************)
(* What may happen once, for one identity, however often and in whatever   *)
(* order it is asked for: publishing a run, refreshing the dashboard, and  *)
(* the capabilities of both authorities.  They share no state, so that a   *)
(* behaviour is one of the one or of the other.                            *)
(*                                                                         *)
(* Controlled: two plans, the second with the stricter requirement and the *)
(* shorter policy; a fixture of each kind; two permits.                    *)
(* Enrolled: one enrollment registered twice, the document of another      *)
(* target to substitute for its own, two presentations.                    *)
(***************************************************************************)
EXTENDS MCPublication, DashboardRefresh, ControlledAuthority, EnrolledAuthority

CONSTANTS rev, f1, f2, p1, p2, plan1, plan2, tree1, tree2, enr, doc, k1, k2, c1, c2

VARIABLE subject

MCReviews == {rev}
MCPermits == {p1, p2}
MCPlans == {plan1, plan2}
MCTrees == {tree1, tree2}
MCRanks == {1, 2}
MCRequired == [plan \in MCPlans |-> IF plan = plan1 THEN 1 ELSE 2]
MCPolicyEnd == [plan \in MCPlans |-> IF plan = plan1 THEN 3 ELSE 2]
MCCompiledAt == [plan \in MCPlans |-> 1]
MCFixtures == {f1, f2}
MCAllowed == [f \in MCFixtures |-> IF f = f1 THEN tree1 ELSE tree2]
MCReviewNeeded == [f \in MCFixtures |-> f = f1]

MCCapabilitySet == {k1, k2}
MCEnrollmentOf == [k \in MCCapabilitySet |-> enr]
MCDocuments == {enr, doc}
MCPresentations == {c1, c2}
MCInstants == 0..4
MCClassRanks == 1..3
MCCaseRank == [d \in MCDocuments |-> 2]
MCRecordRank == [d \in MCDocuments |-> IF d = enr THEN 3 ELSE 2]
MCPlannedAt == [d \in MCDocuments |-> 0]
MCRecordedAt == [d \in MCDocuments |-> 1]
MCPolicyExpiry == [d \in MCDocuments |-> IF d = enr THEN {4} ELSE {}]

MCSymmetries ==
  MCSymmetry \union Permutations(MCPresentations) \union Permutations(MCCapabilitySet)

MCInit ==
  /\ PublicationInit /\ RefreshInit /\ PermitInit /\ EnrolledInit
  /\ subject \in {"publication", "refresh", "controlled", "enrolled"}

MCNext ==
  /\ \/ /\ subject = "publication" /\ PublicationNext
        /\ UNCHANGED <<refreshVars, permitVars, enrolledVars>>
     \/ /\ subject = "refresh" /\ RefreshNext
        /\ UNCHANGED <<publicationVars, permitVars, enrolledVars>>
     \/ /\ subject = "controlled" /\ PermitNext
        /\ UNCHANGED <<publicationVars, refreshVars, enrolledVars>>
     \/ /\ subject = "enrolled" /\ EnrolledNext
        /\ UNCHANGED <<publicationVars, refreshVars, permitVars>>
  /\ UNCHANGED subject

MCSpec ==
  MCInit /\ [][MCNext]_<<publicationVars, refreshVars, permitVars,
                         enrolledVars, subject>>

=============================================================================
