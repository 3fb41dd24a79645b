-------------------------- MODULE ContainerCleanup --------------------------
(***************************************************************************)
(* removeManagedContainer() of src/src/sandbox/docker.ts against a Docker  *)
(* daemon.  `docker run` is only a client: when it is killed its create    *)
(* request may still be with the daemon, and the container may appear      *)
(* after the first inspections found nothing.  The function therefore asks *)
(* for several consecutive absences, with a settlement delay between them. *)
(*                                                                         *)
(* The daemon is external.  CreateLag bounds how many settlement delays a  *)
(* create request outlives its client: the cleanup cannot be right for an  *)
(* unbounded delay, and the assumption says how much the code tolerates.   *)
(***************************************************************************)
EXTENDS Naturals

CONSTANTS
  Checks,     (* consecutive absences asked for: managedCleanupChecks        *)
  CreateLag   (* settlement delays a pending create request may survive      *)

ASSUME CleanupAssumption ==
  /\ Checks \in Nat
  /\ CreateLag \in Nat
  /\ CreateLag + 1 < Checks

VARIABLES
  creation,   (* the create request of `docker run`                          *)
  container,  (* what the daemon holds under the managed name                *)
  lag,        (* settlement delays the pending request has survived          *)
  taken,      (* history: while a removal is under way, whether another run  *)
              (* took the name after the inspection that preceded it         *)
  cleanup,    (* where removeManagedContainer() stands                       *)
  absences,   (* consecutiveAbsenceChecks                                    *)
  removals    (* removalAttempts                                             *)

daemonVars == <<creation, container, lag, taken>>
loopVars == <<cleanup, absences, removals>>
cleanupVars == <<daemonVars, loopVars>>

CleanupStates == {"idle", "inspect", "remove", "settle", "verified", "failed"}

(* "foreign" is a container of the same name with another run's label.     *)
CleanupInit ==
  /\ creation = "none"
  /\ container \in {"absent", "foreign"}
  /\ lag = 0
  /\ taken = FALSE
  /\ cleanup = "idle"
  /\ absences = 0
  /\ removals = 0

-----------------------------------------------------------------------------
(* The session spawns `docker run --name ... --label forge.run_id=...`.    *)
RequestContainer ==
  /\ creation = "none"
  /\ cleanup = "idle"
  /\ creation' = "pending"
  /\ UNCHANGED <<container, lag, taken, loopVars>>

(* The daemon serves the create request, if the name is free ...           *)
DaemonCreates ==
  /\ creation = "pending"
  /\ creation' = "settled"
  /\ container' = IF container = "absent" THEN "ours" ELSE container
  /\ UNCHANGED <<lag, taken, loopVars>>

(* ... or never does: bad image, daemon error, client killed in time.      *)
DaemonRefuses ==
  /\ creation = "pending"
  /\ creation' = "settled"
  /\ UNCHANGED <<container, lag, taken, loopVars>>

(* Another run creates a container of this name while it is free.          *)
NameTaken ==
  /\ container = "absent"
  /\ container' = "foreign"
  /\ taken' = (cleanup = "remove")
  /\ UNCHANGED <<creation, lag, loopVars>>

(* The container that has the name ends and --rm takes it away, or its     *)
(* owner or an operator removes it.                                        *)
NameFreed ==
  /\ container # "absent"
  /\ container' = "absent"
  /\ UNCHANGED <<creation, lag, taken, loopVars>>

-----------------------------------------------------------------------------
CleanupCalled ==
  /\ cleanup = "idle"
  /\ cleanup' = "inspect"
  /\ UNCHANGED <<daemonVars, absences, removals>>

(* Mutant: one absence fewer than asked for ends the loop.                 *)
OneCheckShort(n) == n + 1 >= Checks

EnoughAbsences(n) == n >= Checks

InspectAbsent ==
  /\ cleanup = "inspect"
  /\ container = "absent"
  /\ absences' = absences + 1
  /\ cleanup' = IF EnoughAbsences(absences + 1) THEN "verified" ELSE "settle"
  /\ UNCHANGED <<daemonVars, removals>>

(* Mutant: the run label is not compared.                                  *)
AnyPresent == container # "absent"

LabelMatches == container = "ours"

(* Mutant: the removals are not counted.                                   *)
RemovesForEver ==
  /\ cleanup = "inspect"
  /\ container # "absent"
  /\ LabelMatches
  /\ absences' = 0
  /\ cleanup' = "remove"
  /\ UNCHANGED <<daemonVars, removals>>

(* A container with this run's label is present: remove it, unless the     *)
(* removals are used up.                                                   *)
InspectPresent ==
  /\ cleanup = "inspect"
  /\ container # "absent"
  /\ LabelMatches
  /\ absences' = 0
  /\ IF removals >= Checks
     THEN cleanup' = "failed" /\ removals' = removals
     ELSE cleanup' = "remove" /\ removals' = removals + 1
  /\ UNCHANGED daemonVars

InspectForeign ==
  /\ cleanup = "inspect"
  /\ container # "absent"
  /\ ~LabelMatches
  /\ absences' = 0
  /\ cleanup' = "failed"
  /\ UNCHANGED <<daemonVars, removals>>

(* The inspection fails for another reason, or exceeds its deadline.       *)
InspectFails ==
  /\ cleanup = "inspect"
  /\ cleanup' = "failed"
  /\ UNCHANGED <<daemonVars, absences, removals>>

(* `docker container rm` exits 0, or says there is no such container.  The *)
(* loop does not believe it: the daemon may still list the container.  The *)
(* command names the container, not the one that was inspected.            *)
RemoveReturns ==
  /\ cleanup = "remove"
  /\ container' \in {"absent", container}
  /\ taken' = FALSE
  /\ cleanup' = "settle"
  /\ UNCHANGED <<creation, lag, absences, removals>>

(* Any other error of `rm`, or its deadline: it may have removed or not.   *)
RemoveFails ==
  /\ cleanup = "remove"
  /\ container' \in {"absent", container}
  /\ taken' = FALSE
  /\ cleanup' = "failed"
  /\ UNCHANGED <<creation, lag, absences, removals>>

(* settle(): the delay before the next inspection.                         *)
Settle ==
  /\ cleanup = "settle"
  /\ creation = "pending" => lag < CreateLag
  /\ lag' = IF creation = "pending" THEN lag + 1 ELSE lag
  /\ cleanup' = "inspect"
  /\ UNCHANGED <<creation, container, taken, absences, removals>>

DaemonStep == DaemonCreates \/ DaemonRefuses

NameStep == NameTaken \/ NameFreed

CleanupStep ==
  \/ InspectAbsent \/ InspectPresent \/ InspectForeign \/ InspectFails
  \/ RemoveReturns \/ RemoveFails \/ Settle

CleanupNext ==
  \/ RequestContainer \/ DaemonStep \/ NameStep
  \/ CleanupCalled \/ CleanupStep

(* Every command has a deadline and the delay elapses; a pending request   *)
(* is served or dropped within the assumed lag.  The name need never       *)
(* change hands.                                                           *)
CleanupFairness == WF_cleanupVars(CleanupStep) /\ WF_cleanupVars(DaemonStep)

CleanupSpec == CleanupInit /\ [][CleanupNext]_cleanupVars /\ CleanupFairness

-----------------------------------------------------------------------------
(* Types, and the limits of the two counters of the loop.                  *)
CleanupTypeOK ==
  /\ creation \in {"none", "pending", "settled"}
  /\ container \in {"absent", "ours", "foreign"}
  /\ lag \in 0..CreateLag
  /\ taken \in BOOLEAN
  /\ cleanup \in CleanupStates
  /\ absences \in 0..Checks
  /\ removals \in 0..Checks

(* When removeManagedContainer() resolves, the run's container is gone,    *)
(* and no create request can still bring it up.                            *)
VerifiedMeansGone ==
  cleanup = "verified" => container # "ours" /\ creation # "pending"

(* A step of the removal takes another run's container away only if that   *)
(* run took the name after the inspection before the rm: no container that *)
(* an inspection saw with another label is ever removed, in a loop that    *)
(* inspects and removes by name while the name changes hands.              *)
ForeignKept ==
  [][container = "foreign" /\ container' # "foreign" /\ cleanup' # cleanup
       => taken]_cleanupVars

(* The loop ends whatever the daemon does: absences or removals run out.   *)
CleanupSettles == (cleanup # "idle") ~> (cleanup \in {"verified", "failed"})

=============================================================================
