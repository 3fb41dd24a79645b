----------------------------- MODULE MCControlled -----------------------------
(***************************************************************************)
(* What ends: the controlled run, and publishing.  The two share no state, *)
(* so a behaviour is one of the one or of the other.                       *)
(***************************************************************************)
EXTENDS ControlledRun, MCPublication

VARIABLE command   (* "run" or "publish"                                     *)

MCControlledVars == <<vars, publicationVars, command>>

MCInit ==
  /\ Init /\ PublicationInit /\ command \in {"run", "publish"}
  /\ command = "publish" => container = "absent"

RunActs(A) == command = "run" /\ A /\ UNCHANGED <<publicationVars, command>>

Publishes(A) == command = "publish" /\ A /\ UNCHANGED <<vars, command>>

MCNext == RunActs(Next) \/ Publishes(PublicationNext)

(* The controlled run's controller goes on and the daemon serves it; a     *)
(* live publisher goes on, the store serves what reached it, and the       *)
(* operator who wants the run published does not give up.                  *)
MCSpec ==
  /\ MCInit /\ [][MCNext]_MCControlledVars
  /\ WF_MCControlledVars(RunActs(Controller))
  /\ WF_MCControlledVars(RunActs(DaemonActs))
  /\ \A p \in Publishers : WF_MCControlledVars(Publishes(Progress(p)))
  /\ WF_MCControlledVars(Publishes(StoreServes))
  /\ SF_MCControlledVars(Publishes(Retry))

(* Whatever fails, the controller returns or throws.                       *)
RunSettles == command = "run" => <>(pc = "done")

=============================================================================
