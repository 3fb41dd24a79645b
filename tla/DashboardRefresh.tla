-------------------------- MODULE DashboardRefresh --------------------------
(***************************************************************************)
(* The local dashboard refresh of src/src/dashboard/publish-refresh.ts:    *)
(* after its run is published, each publisher stores a projection of it    *)
(* and rebuilds one shared page from the newest projections, under a       *)
(* transaction-scoped advisory lock (postgres.ts).  The page and its       *)
(* receipt are two files, replaced by two renames with a rollback of the   *)
(* first (local-site.ts).                                                  *)
(*                                                                         *)
(* One dashboard target is modelled: a page shows the newest HistoryLimit  *)
(* projections of a target, and the targets do not interact.  A run is     *)
(* named by its place in the completion order.  The page and the receipt   *)
(* stand for the set of runs they were rendered from: rendering is a       *)
(* function of it.                                                         *)
(*                                                                         *)
(* PostgreSQL is external.  It ends a session that is idle in transaction  *)
(* for 120 s, or fails over, and then releases the lock while the          *)
(* publisher may still be writing files.  RefreshSpec assumes that this    *)
(* does not happen; LossySpec does not.                                    *)
(***************************************************************************)
EXTENDS Naturals, FiniteSets

CONSTANTS
  Refreshers,
  TargetRuns,    (* the runs of the target, numbered in completion order     *)
  HistoryLimit   (* DASHBOARD_HISTORY_LIMIT_PER_TARGET                       *)

ASSUME RefreshAssumption ==
  /\ TargetRuns \subseteq Nat
  /\ IsFiniteSet(TargetRuns)
  /\ HistoryLimit \in Nat \ {0}

VARIABLES
  at,           (* where a publisher's refresh stands                        *)
  run,          (* publisher -> {} or {the run it publishes}                 *)
  projections,  (* forge_dashboard_projections                               *)
  lock,         (* {} or {the publisher whose session holds the lock}        *)
  seen,         (* what a publisher read under the lock                      *)
  previous,     (* previousHtml                                              *)
  page,         (* dashboard-site/index.html                                 *)
  receipt,      (* dashboard-site.manifest.json                              *)
  reported      (* history: the runs whose refresh returned "refreshed"      *)

readVars == <<seen, previous>>
siteVars == <<page, receipt>>
refreshVars == <<at, run, projections, lock, readVars, siteVars, reported>>

RefreshStates ==
  {"idle", "store", "lock", "read", "compare", "page", "receipt",
   "onlyReceipt", "rollbackPage", "commit", "abort"}

(* The site was built from the pinned sample before any refresh.           *)
RefreshInit ==
  /\ at = [p \in Refreshers |-> "idle"]
  /\ run = [p \in Refreshers |-> {}]
  /\ projections = {}
  /\ lock = {}
  /\ seen = [p \in Refreshers |-> {}]
  /\ previous = [p \in Refreshers |-> {}]
  /\ page = {}
  /\ receipt = {}
  /\ reported = {}

MoveTo(p, from, to) == at[p] = from /\ at' = [at EXCEPT ![p] = to]

(* execute() returns or throws: its local variables are gone.              *)
Leave(p, states) ==
  /\ at[p] \in states
  /\ at' = [at EXCEPT ![p] = "idle"]
  /\ run' = [run EXCEPT ![p] = {}]
  /\ seen' = [seen EXCEPT ![p] = {}]
  /\ previous' = [previous EXCEPT ![p] = {}]

(* The newest projections: target_rank <= limitPerTarget.                  *)
Newest(S) == {r \in S : Cardinality({q \in S : q > r}) < HistoryLimit}

-----------------------------------------------------------------------------
(* publishRun() has finalized the run, or a retry found it published.      *)
Execute(p, r) ==
  /\ MoveTo(p, "idle", "store")
  /\ run' = [run EXCEPT ![p] = {r}]
  /\ UNCHANGED <<projections, lock, readVars, siteVars, reported>>

(* storeDashboardProjection(): inserted, or found and compared.            *)
StoreProjection(p) ==
  /\ MoveTo(p, "store", "lock")
  /\ projections' = projections \union run[p]
  /\ UNCHANGED <<run, lock, readVars, siteVars, reported>>

(* Mutant: the refreshes are not serialized.                               *)
LockNotTaken(p) == lock' = lock \union {p}

(* pg_advisory_xact_lock()                                                 *)
TakeLock(p) == lock = {} /\ lock' = {p}

AcquireLock(p) ==
  /\ MoveTo(p, "lock", "read")
  /\ TakeLock(p)
  /\ UNCHANGED <<run, projections, readVars, siteVars, reported>>

(* The query fails when the session that holds the lock is gone.           *)
ReadProjections(p) ==
  /\ MoveTo(p, "read", "compare")
  /\ p \in lock
  /\ seen' = [seen EXCEPT ![p] = Newest(projections)]
  /\ UNCHANGED <<run, projections, lock, previous, siteVars, reported>>

(* replaceDashboardIndex(): an unchanged page still gets a new receipt.    *)
AfterCompare(p) == IF page = seen[p] THEN "onlyReceipt" ELSE "page"

CompareSite(p) ==
  /\ MoveTo(p, "compare", AfterCompare(p))
  /\ previous' = [previous EXCEPT ![p] = page]
  /\ UNCHANGED <<run, projections, lock, seen, siteVars, reported>>

RenamePage(p) ==
  /\ MoveTo(p, "page", "receipt")
  /\ page' = seen[p]
  /\ UNCHANGED <<run, projections, lock, readVars, receipt, reported>>

RenameReceipt(p) ==
  /\ MoveTo(p, "receipt", "commit") \/ MoveTo(p, "onlyReceipt", "commit")
  /\ receipt' = seen[p]
  /\ UNCHANGED <<run, projections, lock, readVars, page, reported>>

(* The rename of the receipt fails: the old page is written back, ...      *)
ReceiptFails(p) ==
  /\ MoveTo(p, "receipt", "rollbackPage") \/ MoveTo(p, "onlyReceipt", "abort")
  /\ UNCHANGED <<run, projections, lock, readVars, siteVars, reported>>

RollbackPage(p) ==
  /\ MoveTo(p, "rollbackPage", "abort")
  /\ page' = previous[p]
  /\ UNCHANGED <<run, projections, lock, readVars, receipt, reported>>

(* ... or that fails as well.                                              *)
RollbackFails(p) ==
  /\ MoveTo(p, "rollbackPage", "abort")
  /\ UNCHANGED <<run, projections, lock, readVars, siteVars, reported>>

(* COMMIT releases the lock; without its session it fails.                 *)
Commit(p) ==
  /\ Leave(p, {"commit"})
  /\ p \in lock
  /\ lock' = lock \ {p}
  /\ reported' = reported \union run[p]
  /\ UNCHANGED <<projections, siteVars>>

CommitFails(p) ==
  /\ MoveTo(p, "commit", "abort")
  /\ UNCHANGED <<run, projections, lock, readVars, siteVars, reported>>

(* ROLLBACK, or the poisoned connection is destroyed.                      *)
EndTransaction(p) == lock' = lock \ {p}

Abort(p) ==
  /\ Leave(p, {"abort"})
  /\ EndTransaction(p)
  /\ UNCHANGED <<projections, siteVars, reported>>

(* A database or file operation fails before the first rename.             *)
StepFails(p) ==
  /\ \E state \in {"read", "compare", "page"} : MoveTo(p, state, "abort")
  /\ UNCHANGED <<run, projections, lock, readVars, siteVars, reported>>

(* The projection cannot be stored, or the lock is not granted in time.    *)
StartFails(p) ==
  /\ Leave(p, {"store", "lock"})
  /\ UNCHANGED <<projections, lock, siteVars, reported>>

(* The publisher's process dies, and its sockets close.                    *)
ProcessDies(p) ==
  /\ Leave(p, RefreshStates \ {"idle"})
  /\ lock' = lock \ {p}
  /\ UNCHANGED <<projections, siteVars, reported>>

(* The server ends the session: the lock is free, the files are not.       *)
SessionLost(p) ==
  /\ p \in lock
  /\ lock' = lock \ {p}
  /\ UNCHANGED <<at, run, projections, readVars, siteVars, reported>>

-----------------------------------------------------------------------------
RefreshProgress(p) ==
  \/ StoreProjection(p) \/ AcquireLock(p) \/ ReadProjections(p)
  \/ CompareSite(p) \/ RenamePage(p) \/ RenameReceipt(p) \/ ReceiptFails(p)
  \/ RollbackPage(p) \/ RollbackFails(p) \/ Commit(p) \/ CommitFails(p)
  \/ Abort(p) \/ StepFails(p) \/ StartFails(p)

RefreshNext ==
  \E p \in Refreshers :
    \/ \E r \in TargetRuns : Execute(p, r)
    \/ RefreshProgress(p) \/ ProcessDies(p)

RefreshSpec == RefreshInit /\ [][RefreshNext]_refreshVars

LossySpec ==
  /\ RefreshInit
  /\ [][RefreshNext \/ \E p \in Refreshers : SessionLost(p)]_refreshVars

-----------------------------------------------------------------------------
(* The lock "prevents an older retry from replacing a newer run": once a   *)
(* refresh was reported, its run is on the page, or as many newer runs as  *)
(* the page holds, whatever other refreshes do, roll back or leave behind. *)
ReportedStaysVisible ==
  \A r \in reported :
    r \in page \/ Cardinality({q \in page : q > r}) >= HistoryLimit

(* And a refresh that is about to be reported leaves a page with its       *)
(* receipt, whatever mismatch an earlier crash or failed rollback left:    *)
(* "repairs a stale private receipt on identical retry".                   *)
RefreshSound ==
  /\ ReportedStaysVisible
  /\ \A p \in Refreshers : at[p] = "commit" => receipt = page

=============================================================================
