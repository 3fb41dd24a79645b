------------------------ MODULE ContainerCleanupProofs ------------------------
(***************************************************************************)
(* Proofs about removeManagedContainer(): for every number of checks and   *)
(* every delay of the daemon that the checks outlast.                      *)
(*                                                                         *)
(* The argument: while the create request is pending, each absence counted *)
(* after the first was preceded by a settlement delay the request          *)
(* survived.  Absences therefore never get more than one ahead of `lag`,   *)
(* which CreateLag bounds, and Checks of them are out of reach.            *)
(***************************************************************************)
EXTENDS ContainerCleanup, TLAPS

(* While a request is pending, the absences are paid for by delays.        *)
AbsencesPaid ==
  creation = "pending" =>
    /\ cleanup \in {"idle", "inspect"} => absences <= lag
    /\ cleanup = "settle" => absences <= lag + 1
    /\ cleanup # "verified"

Looping == {"idle", "inspect", "remove", "settle"}

CleanupIInv ==
  /\ CleanupTypeOK
  /\ AbsencesPaid
  /\ cleanup = "idle" => absences = 0
  /\ cleanup \in Looping => absences < Checks
  /\ cleanup = "verified" => container # "ours"
  /\ cleanup = "remove" => (container = "foreign" => taken) /\ absences = 0

-----------------------------------------------------------------------------
(* The initial states satisfy the invariant.                               *)
LEMMA CleanupInitially == CleanupInit => CleanupIInv
<1>1. CleanupInit => taken \in BOOLEAN
  BY Zenon DEF CleanupInit
<1> QED
  BY <1>1, CleanupAssumption
  DEF CleanupInit, CleanupIInv, CleanupTypeOK, AbsencesPaid, CleanupStates,
      Looping

(* A container of another run goes by a step of the removal only if it     *)
(* took the name after the inspection.                                     *)
KeptUnlessTaken ==
  container = "foreign" /\ container' # "foreign" /\ cleanup' # cleanup => taken

(* So does every step, and none removes what an inspection saw as foreign. *)
LEMMA CleanupInductive ==
  ASSUME CleanupIInv, [CleanupNext]_cleanupVars
  PROVE  CleanupIInv' /\ KeptUnlessTaken
<1> USE CleanupAssumption
    DEF CleanupIInv, CleanupTypeOK, AbsencesPaid, CleanupStates, Looping,
        daemonVars, loopVars, KeptUnlessTaken
<1>1. CASE RequestContainer
  BY <1>1 DEF RequestContainer
<1>2. CASE DaemonCreates
  BY <1>2 DEF DaemonCreates
<1>3. CASE DaemonRefuses
  BY <1>3 DEF DaemonRefuses
<1>4. CASE CleanupCalled
  BY <1>4 DEF CleanupCalled
<1>5. CASE InspectAbsent
  BY <1>5 DEF InspectAbsent, EnoughAbsences
<1>6. CASE InspectPresent
  BY <1>6 DEF InspectPresent, LabelMatches
<1>7. CASE InspectForeign
  BY <1>7 DEF InspectForeign
<1>8. CASE InspectFails
  BY <1>8 DEF InspectFails
<1>9. CASE RemoveReturns
  <2>1. taken' \in BOOLEAN
    BY <1>9, Zenon DEF RemoveReturns
  <2> QED
    BY <1>9, <2>1 DEF RemoveReturns
<1>10. CASE RemoveFails
  <2>1. taken' \in BOOLEAN
    BY <1>10, Zenon DEF RemoveFails
  <2> QED
    BY <1>10, <2>1 DEF RemoveFails
<1>11. CASE Settle
  BY <1>11 DEF Settle
<1>12. CASE NameTaken
  <2>1. (taken' <=> cleanup = "remove") /\ taken' \in BOOLEAN
    BY <1>12, Zenon DEF NameTaken
  <2> QED
    BY <1>12, <2>1 DEF NameTaken
<1>13. CASE NameFreed
  BY <1>13 DEF NameFreed
<1>14. CASE UNCHANGED cleanupVars
  BY <1>14 DEF cleanupVars
<1> QED
  BY <1>1, <1>2, <1>3, <1>4, <1>5, <1>6, <1>7, <1>8, <1>9, <1>10, <1>11, <1>12,
     <1>13, <1>14
  DEF CleanupNext, DaemonStep, NameStep, CleanupStep

(* The invariant holds in every reachable state.                           *)
THEOREM CleanupInvariant == CleanupSpec => []CleanupIInv
<1>1. CleanupIInv /\ [CleanupNext]_cleanupVars => CleanupIInv'
  BY CleanupInductive
<1> QED
  BY CleanupInitially, <1>1, PTL DEF CleanupSpec

(* Types, and the limits of the two counters of the loop.                  *)
THEOREM CleanupTypes == CleanupSpec => []CleanupTypeOK
<1>1. CleanupIInv => CleanupTypeOK
  BY DEF CleanupIInv
<1> QED
  BY CleanupInvariant, <1>1, PTL

(* When removeManagedContainer() resolves, the container is gone and no    *)
(* create request can bring it back, for every number of checks that       *)
(* exceeds the delays a request may survive by more than one.              *)
THEOREM VerifiedIsGone == CleanupSpec => []VerifiedMeansGone
<1>1. CleanupIInv => VerifiedMeansGone
  BY DEF CleanupIInv, AbsencesPaid, VerifiedMeansGone
<1> QED
  BY CleanupInvariant, <1>1, PTL

(* While the name changes hands at any moment: the removal takes another   *)
(* run's container away only if that run took the name after the last      *)
(* inspection, never one that an inspection saw.                           *)
THEOREM ForeignIsKept == CleanupSpec => ForeignKept
<1>1. CleanupIInv /\ [CleanupNext]_cleanupVars
        => [container = "foreign" /\ container' # "foreign" /\ cleanup' # cleanup
              => taken]_cleanupVars
  BY CleanupInductive DEF KeptUnlessTaken
<1> QED
  BY CleanupInvariant, <1>1, PTL DEF CleanupSpec, ForeignKept

=============================================================================
