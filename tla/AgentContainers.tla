-------------------------- MODULE AgentContainers --------------------------
(***************************************************************************)
(* removeAndVerifyAgentContainer() of src/src/agent/docker-cleanup.ts,     *)
(* called for one target container by two callers that may overlap: the    *)
(* quota monitor when it finds a violation, and the finally block of the   *)
(* trial.  Each call polls until it has seen enough consecutive absences.  *)
(* The Docker daemon is external; as in ContainerCleanup it may serve a    *)
(* create request after its client is gone, CreateLag delays late at most. *)
(***************************************************************************)
EXTENDS Naturals

CONSTANTS
  Checks,     (* defaultCleanupChecks                                        *)
  CreateLag   (* settlement delays a pending create request may survive      *)

ASSUME AgentCleanupAssumption ==
  Checks \in Nat /\ CreateLag \in Nat /\ CreateLag + 1 < Checks

Removers == {"quota", "final"}

VARIABLES
  creation,   (* the create request of `docker run`                          *)
  container,  (* what the daemon holds under the trial's container name      *)
  remover     (* each call: where it stands, its counters, delays survived   *)

containerVars == <<creation, container, remover>>

NotCalled == [at |-> "idle", absences |-> 0, removals |-> 0, lag |-> 0]
Ended(r) == remover[r].at \in {"verified", "failed"}

ContainersInit ==
  /\ creation = "none"
  /\ container \in {"absent", "foreign"}
  /\ remover = [r \in Removers |-> NotCalled]

-----------------------------------------------------------------------------
(* The session spawns `docker run` for the trial's container.              *)
Spawn ==
  /\ creation' = "pending"
  /\ UNCHANGED <<container, remover>>

(* The daemon serves the request if the name is free, or drops it; and a   *)
(* container goes away when its process ends (docker run --rm).  "foreign" *)
(* is a container of that name with another run's label.                   *)
DaemonServes ==
  /\ creation = "pending"
  /\ creation' = "settled"
  /\ container' \in {container, IF container = "absent" THEN "present"
                               ELSE container}
  /\ UNCHANGED remover

ContainerExits ==
  /\ container = "present"
  /\ container' = "absent"
  /\ UNCHANGED <<creation, remover>>

-----------------------------------------------------------------------------
Goes(r, place) == remover' = [remover EXCEPT ![r].at = place]

Called(r) ==
  /\ remover' = [remover EXCEPT ![r] = [NotCalled EXCEPT !.at = "inspect"]]
  /\ UNCHANGED <<creation, container>>

EnoughAbsences(n) == n >= Checks

InspectsAbsent(r) ==
  /\ remover[r].at = "inspect"
  /\ container = "absent"
  /\ LET n == remover[r].absences + 1
     IN remover' = [remover EXCEPT
          ![r].absences = n,
          ![r].at = IF EnoughAbsences(n) THEN "verified" ELSE "settle"]
  /\ UNCHANGED <<creation, container>>

(* Present, with the run's label: remove it unless the attempts are spent. *)
InspectsPresent(r) ==
  /\ remover[r].at = "inspect"
  /\ container = "present"
  /\ remover' = [remover EXCEPT
       ![r].absences = 0,
       ![r].removals = IF @ >= Checks THEN @ ELSE @ + 1,
       ![r].at = IF remover[r].removals >= Checks THEN "failed" ELSE "remove"]
  /\ UNCHANGED <<creation, container>>

(* The label is another run's: refuse to touch it.                         *)
InspectsForeign(r) ==
  /\ remover[r].at = "inspect"
  /\ container = "foreign"
  /\ Goes(r, "failed")
  /\ UNCHANGED <<creation, container>>

(* `docker rm` succeeds, or says there is no such container.               *)
Removes(r) ==
  /\ remover[r].at = "remove"
  /\ container' = "absent"
  /\ Goes(r, "settle")
  /\ UNCHANGED creation

(* A command fails or exceeds its deadline, as when the other caller's     *)
(* removal is in progress; withinDeadline() does not stop the command.     *)
CommandFails(r) ==
  /\ remover[r].at \in {"inspect", "remove"}
  /\ container' \in IF remover[r].at = "remove" THEN {"absent", container}
                    ELSE {container}
  /\ Goes(r, "failed")
  /\ UNCHANGED creation

Settles(r) ==
  /\ remover[r].at = "settle"
  /\ creation = "pending" => remover[r].lag < CreateLag
  /\ remover' = [remover EXCEPT
       ![r].at = "inspect",
       ![r].lag = IF creation = "pending" THEN @ + 1 ELSE @]
  /\ UNCHANGED <<creation, container>>

RemoverStep(r) ==
  \/ InspectsAbsent(r) \/ InspectsPresent(r) \/ InspectsForeign(r)
  \/ Removes(r) \/ CommandFails(r) \/ Settles(r)

DaemonActs == DaemonServes \/ ContainerExits

ContainersTypeOK ==
  /\ creation \in {"none", "pending", "settled"}
  /\ container \in {"absent", "present", "foreign"}
  /\ remover \in [Removers ->
       [at: {"idle", "inspect", "remove", "settle", "verified", "failed"},
        absences: 0..Checks, removals: 0..Checks, lag: 0..CreateLag]]

=============================================================================
