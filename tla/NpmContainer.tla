----------------------------- MODULE NpmContainer -----------------------------
(***************************************************************************)
(* `docker run ... npm` under a timeout whose handler removes the          *)
(* container while the exit of the client is still awaited, and a second   *)
(* removal after it:                                                       *)
(*   - "acquisition": runNpmInstall() of src/src/target/prepare.ts, which  *)
(*     inspects and removes once, and settles by force when the killed     *)
(*     client does not exit;                                               *)
(*   - "lifecycle": runInstallContainer() of src/src/install/lifecycle.ts, *)
(*     whose removals are the loop of ContainerCleanup.                    *)
(* The container runs with --rm; the daemon and the client are external.   *)
(***************************************************************************)
EXTENDS McExperiment

VARIABLES
  npm,           (* where the function stands                                *)
  kind,          (* which of the two it is                                   *)
  exit,          (* processResult: "none", "zero", "failed" or "error"       *)
  timedOut,      (* the timeout fired first                                  *)
  removalError   (* cleanupError # undefined                                 *)

npmVars == <<npm, kind, exit, timedOut, removalError>>

NpmInit ==
  /\ npm = "none" /\ kind = "none"
  /\ exit = "none" /\ timedOut = FALSE /\ removalError = FALSE

Removed == cleanup \in {"verified", "failed"}

-----------------------------------------------------------------------------
StartNpm(k) ==
  /\ NewContainer
  /\ npm' = "running" /\ kind' = k
  /\ exit' = "none" /\ timedOut' = FALSE /\ removalError' = FALSE
  /\ UNCHANGED sessionVars

(* spawn() throws or the client reports `error`: nothing was asked of the  *)
(* daemon.                                                                 *)
ClientFails ==
  /\ npm = "running" /\ creation = "pending" /\ ~timedOut
  /\ creation' = "settled"
  /\ exit' = "error"
  /\ npm' = "exited"
  /\ UNCHANGED <<container, lag, taken, loopVars, sessionVars, kind, timedOut,
                 removalError>>

(* npm ends and --rm takes the container away; without a container the     *)
(* client reports the daemon's error.                                      *)
ClientExits ==
  /\ npm = "running" /\ creation = "settled"
  /\ exit' \in IF container = "ours" THEN {"zero", "failed"} ELSE {"failed"}
  /\ container' = IF container = "ours" THEN "absent" ELSE container
  /\ npm' = "exited"
  /\ UNCHANGED <<creation, lag, taken, loopVars, sessionVars, kind, timedOut,
                 removalError>>

(* The killed client exits, whatever the daemon still does with its        *)
(* request; or the forced settlement of an acquisition takes it as killed. *)
KilledClientExits ==
  /\ npm = "running" /\ timedOut
  /\ exit' = "failed"
  /\ npm' = "exited"
  /\ UNCHANGED <<cleanupVars, sessionVars, kind, timedOut, removalError>>

TimeoutFires ==
  /\ npm = "running" /\ ~timedOut
  /\ timedOut' = TRUE
  /\ CleanupCalled
  /\ UNCHANGED <<sessionVars, npm, kind, exit, removalError>>

-----------------------------------------------------------------------------
(* removeAcquisitionContainer(): the container is inspected once ...       *)
InspectOnce ==
  /\ cleanup = "inspect"
  /\ cleanup' \in {"failed",
       CASE container = "absent" -> "verified"
         [] LabelMatches -> "remove"
         [] OTHER -> "failed"}
  /\ UNCHANGED <<daemonVars, absences, removals>>

(* ... and removed once; cleanupContainer() gives both a deadline.         *)
RemoveOnce ==
  /\ cleanup = "remove"
  /\ \/ cleanup' = "verified" /\ container' = "absent"
     \/ cleanup' = "failed" /\ container' \in {"absent", container}
  /\ taken' = FALSE
  /\ UNCHANGED <<creation, lag, absences, removals>>

(* cleanupContainer() assigns its outcome, the lifecycle keeps an error.   *)
RemovalOutcome(failed) ==
  IF kind = "acquisition" THEN failed ELSE removalError \/ failed

RemovalStep ==
  /\ npm \in {"running", "exited", "removing"}
  /\ IF kind = "acquisition" THEN InspectOnce \/ RemoveOnce ELSE CleanupStep
  /\ removalError' = IF cleanup' \in {"verified", "failed"}
                     THEN RemovalOutcome(cleanup' = "failed")
                     ELSE removalError
  /\ UNCHANGED <<sessionVars, npm, kind, exit, timedOut>>

(* finally: the timeout's removal is awaited, then the second one starts.  *)
SecondRemoval ==
  /\ npm = "exited"
  /\ timedOut => Removed
  /\ cleanup' = "inspect" /\ absences' = 0 /\ removals' = 0
  /\ npm' = "removing"
  /\ UNCHANGED <<daemonVars, sessionVars, kind, exit, timedOut, removalError>>

NpmSettles ==
  /\ npm = "removing" /\ Removed
  /\ npm' = "settled"
  /\ UNCHANGED <<cleanupVars, sessionVars, kind, exit, timedOut, removalError>>

(* The function returns or throws, and its local variables are gone.       *)
NpmReturned ==
  /\ npm = "settled"
  /\ npm' = "none" /\ kind' = "none"
  /\ exit' = "none" /\ timedOut' = FALSE /\ removalError' = FALSE

NpmStep == TimeoutFires \/ RemovalStep \/ SecondRemoval \/ NpmSettles

ClientActs == ClientFails \/ ClientExits \/ KilledClientExits

(* What happens to the client if nothing else does: it exits when the      *)
(* daemon has refused or lost its container, and an acquisition gives it   *)
(* up.  SIGTERM, all that the lifecycle sends, need not end it.            *)
ClientMustEnd ==
  \/ container # "ours" /\ ClientExits
  \/ kind = "acquisition" /\ KilledClientExits

(* The client of a lifecycle outlives its timeout: the removal failed, and *)
(* nobody ends the container the client is attached to.                    *)
ClientOutlives ==
  /\ npm = "running" /\ kind = "lifecycle" /\ timedOut
  /\ cleanup = "failed" /\ container = "ours"

-----------------------------------------------------------------------------
(* How runNpmInstall() ends: it resolves only for a clean exit after which *)
(* the removal was verified.                                               *)
Acquired == ~timedOut /\ exit = "zero" /\ ~removalError

(* ... and otherwise the cleanupVerified of its NpmAcquisitionError.       *)
AcquisitionCleanupVerified == ~removalError

(* The outcome of runInstallContainer().                                   *)
InstallStatus ==
  IF timedOut THEN "timed_out"
  ELSE IF exit = "zero" THEN "completed" ELSE "failed"

(* Its `error`: that of a removal is left out when npm completed, and that *)
(* of the client stands for it when there was no process.                  *)
InstallError ==
  \/ exit = "error"
  \/ removalError /\ InstallStatus # "completed"

(* Unless its outcome has an error, an install leaves no container and no  *)
(* request that could still bring one up, although the timeout's removal   *)
(* runs while the client and its create request are still alive; and an    *)
(* acquisition whose client ended by itself leaves none when it says so.   *)
NpmOutcomeTruthful ==
  npm = "settled" =>
    /\ kind = "lifecycle" /\ ~InstallError =>
         container # "ours" /\ creation # "pending"
    /\ kind = "acquisition" /\ ~timedOut /\ AcquisitionCleanupVerified =>
         container # "ours" /\ creation # "pending"

=============================================================================
