----------------------------- MODULE Publication -----------------------------
(***************************************************************************)
(* publishVerifiedRun() of src/src/publish/publish-run.ts over the         *)
(* immutable object store of s3.ts and the ledger of postgres.ts: several  *)
(* publisher processes, each of which may fail or die at any await and be  *)
(* run again.                                                              *)
(*                                                                         *)
(* An edition is a verified bundle: its run, its manifest digest and the   *)
(* artifact digests the manifest binds.  The object store is external: a   *)
(* conditional PUT stays in flight until the store serves or loses it,     *)
(* also when its client has given up.  A transaction of the ledger is one  *)
(* step, because the row lock and the unique key serialize transactions on *)
(* a run; its client may not hear that it was committed.                   *)
(*                                                                         *)
(* Environment: while ~calm, requests fail, get lost and publishers crash. *)
(***************************************************************************)
EXTENDS Naturals, FiniteSets

CONSTANTS
  Publishers,
  Runs,
  Digests,       (* content addresses of artifacts                           *)
  Editions,
  RunOf,         (* the run of an edition                                    *)
  ArtifactsOf,   (* the digests of an edition's artifacts                    *)
  Concurrency    (* artifactConcurrency                                      *)

Keys == Digests \union Runs

ASSUME PublicationAssumption ==
  /\ RunOf \in [Editions -> Runs]
  /\ ArtifactsOf \in [Editions -> SUBSET Digests]
  /\ Digests \intersect Runs = {}
  /\ Digests \intersect Editions = {}
  /\ Concurrency \in Nat \ {0}

VARIABLES
  stands,      (* where a publisher stands                                   *)
  edition,     (* publisher -> {} or {the edition it publishes}              *)
  put,         (* publisher, key -> the state of that upload                 *)
  objects,     (* key -> {} or {content}: the bucket                         *)
  inflight,    (* PUT requests the store may still serve                     *)
  claim,       (* run -> {} or {edition}: forge_published_runs               *)
  published,   (* the runs whose row says 'published'                        *)
  rows,        (* run -> {} or {edition}: artifact and finding rows          *)
  calm         (* nothing fails any more                                     *)

storeVars == <<objects, inflight>>
ledgerVars == <<claim, published, rows>>
publicationVars == <<stands, edition, put, storeVars, ledgerVars, calm>>

PublisherStates ==
  {"idle", "begin", "artifacts", "manifest", "finalize", "dashboard", "done",
   "failed"}
PutStates == {"todo", "missing", "sent", "conflict", "stored", "failed"}
Put == [key: Keys, content: Digests \union Editions, from: Publishers]

PublicationInit ==
  /\ stands = [p \in Publishers |-> "idle"]
  /\ edition = [p \in Publishers |-> {}]
  /\ put = [p \in Publishers |-> [k \in Keys |-> "todo"]]
  /\ objects = [k \in Keys |-> {}]
  /\ inflight = {}
  /\ claim = [r \in Runs |-> {}]
  /\ published = {}
  /\ rows = [r \in Runs |-> {}]
  /\ calm = FALSE

GoTo(p, state) == stands' = [stands EXCEPT ![p] = state]
SetPut(p, k, state) == put' = [put EXCEPT ![p][k] = state]

(* The immutable object a publisher puts under a key: the artifact itself, *)
(* or its own manifest under the run's key.                                *)
ContentFor(p, k) == IF k \in Digests THEN {k} ELSE edition[p]

(* The keys of the uploads the publisher is busy with.                     *)
KeysOf(p) ==
  CASE stands[p] = "artifacts" -> UNION {ArtifactsOf[e] : e \in edition[p]}
    [] stands[p] = "manifest" -> {RunOf[e] : e \in edition[p]}
    [] OTHER -> {}

Busy(p) == {k \in Keys : put[p][k] \in {"missing", "sent", "conflict"}}
SomeFailed(p) == \E k \in Keys : put[p][k] = "failed"

-----------------------------------------------------------------------------
(* The bundle verifies and every input validates before anything is        *)
(* written anywhere.  A later invocation is the exact retry.               *)
Start(p, e) ==
  /\ stands[p] \in {"idle", "failed", "done"}
  /\ GoTo(p, "begin")
  /\ edition' = [edition EXCEPT ![p] = {e}]
  /\ put' = [put EXCEPT ![p] = [k \in Keys |-> "todo"]]
  /\ UNCHANGED <<storeVars, ledgerVars, calm>>

(* Mutant: a run that was begun before is not resumed.                     *)
ClaimFreshOnly(r, e) ==
  /\ claim[r] = {}
  /\ claim' = [claim EXCEPT ![r] = {e}]

(* INSERT ... ON CONFLICT (run_id) DO NOTHING, then assertRunIdentity().   *)
ClaimRun(r, e) ==
  /\ claim[r] \in {{}, {e}}
  /\ claim' = [claim EXCEPT ![r] = {e}]

Begin(p) ==
  /\ stands[p] = "begin"
  /\ \E e \in edition[p] : ClaimRun(RunOf[e], e)
  /\ GoTo(p, "artifacts")
  /\ UNCHANGED <<edition, put, storeVars, published, rows, calm>>

(* The row belongs to another edition of the run: identity_conflict.       *)
BeginConflicts(p) ==
  /\ stands[p] = "begin"
  /\ \E e \in edition[p] : claim[RunOf[e]] \notin {{}, {e}}
  /\ GoTo(p, "failed")
  /\ UNCHANGED <<edition, put, storeVars, ledgerVars, calm>>

(* The transaction is committed, but the publisher does not hear of it.    *)
BeginUnheard(p) ==
  /\ ~calm
  /\ stands[p] = "begin"
  /\ \E e \in edition[p] : ClaimRun(RunOf[e], e)
  /\ GoTo(p, "failed")
  /\ UNCHANGED <<edition, put, storeVars, published, rows, calm>>

-----------------------------------------------------------------------------
(* #putImmutable(): HEAD first.  At most Concurrency uploads run at once,  *)
(* and none is started after one has failed.                               *)
HeadObject(p, k) ==
  /\ k \in KeysOf(p)
  /\ put[p][k] = "todo"
  /\ ~SomeFailed(p)
  /\ Cardinality(Busy(p)) < Concurrency
  /\ SetPut(p, k, CASE objects[k] = {} -> "missing"
                    [] objects[k] = ContentFor(p, k) -> "stored"
                    [] OTHER -> "failed")
  /\ UNCHANGED <<stands, edition, storeVars, ledgerVars, calm>>

(* PUT with If-None-Match: *.                                              *)
SendPut(p, k) ==
  /\ put[p][k] = "missing"
  /\ SetPut(p, k, "sent")
  /\ inflight' = inflight \union
       {[key |-> k, content |-> c, from |-> p] : c \in ContentFor(p, k)}
  /\ UNCHANGED <<stands, edition, objects, ledgerVars, calm>>

StoreIfNoneMatch(m) ==
  objects' = [objects EXCEPT ![m.key] = IF @ = {} THEN {m.content} ELSE @]

ServePut(m) ==
  /\ m \in inflight
  /\ inflight' = inflight \ {m}
  /\ StoreIfNoneMatch(m)
  /\ UNCHANGED <<stands, edition, put, ledgerVars, calm>>

LosePut(m) ==
  /\ ~calm
  /\ m \in inflight
  /\ inflight' = inflight \ {m}
  /\ UNCHANGED <<stands, edition, put, objects, ledgerVars, calm>>

Own(p, k) == {m \in inflight : m.from = p /\ m.key = k}

(* The response to a served PUT: created, or 412 because the key existed.  *)
PutAnswered(p, k) ==
  /\ put[p][k] = "sent"
  /\ Own(p, k) = {}
  /\ objects[k] # {}
  /\ \/ objects[k] = ContentFor(p, k) /\ SetPut(p, k, "stored")
     \/ SetPut(p, k, "conflict")
  /\ UNCHANGED <<stands, edition, storeVars, ledgerVars, calm>>

(* 409: the store rejects a PUT that races another one of the same key,    *)
(* which need not be visible yet.                                          *)
PutRaces(p, k) ==
  /\ put[p][k] = "sent"
  /\ Own(p, k) # {}
  /\ \E m \in inflight : m.key = k /\ m.from # p
  /\ inflight' = inflight \ Own(p, k)
  /\ SetPut(p, k, "conflict")
  /\ UNCHANGED <<stands, edition, objects, ledgerVars, calm>>

(* #verifyExisting() after a create conflict: an object that is not        *)
(* visible is an error.                                                    *)
VerifyExisting(p, k) ==
  /\ put[p][k] = "conflict"
  /\ SetPut(p, k, IF objects[k] = ContentFor(p, k) THEN "stored" ELSE "failed")
  /\ UNCHANGED <<stands, edition, storeVars, ledgerVars, calm>>

(* A HEAD or PUT fails or times out; a PUT may be served nevertheless.     *)
RequestFails(p, k) ==
  /\ ~calm
  /\ \/ k \in Busy(p)
     \/ put[p][k] = "todo" /\ k \in KeysOf(p) /\ ~SomeFailed(p)
  /\ SetPut(p, k, "failed")
  /\ UNCHANGED <<stands, edition, storeVars, ledgerVars, calm>>

(* A PUT that was lost is never answered: the client's timeout ends it.    *)
PutTimesOut(p, k) ==
  /\ put[p][k] = "sent"
  /\ Own(p, k) = {}
  /\ objects[k] = {}
  /\ SetPut(p, k, "failed")
  /\ UNCHANGED <<stands, edition, storeVars, ledgerVars, calm>>

(* Promise.all of the workers rejects when the last of them has settled.   *)
UploadsFail(p) ==
  /\ stands[p] \in {"artifacts", "manifest"}
  /\ SomeFailed(p)
  /\ Busy(p) = {}
  /\ GoTo(p, "failed")
  /\ UNCHANGED <<edition, put, storeVars, ledgerVars, calm>>

UploadsDone(p) == \A k \in KeysOf(p) : put[p][k] = "stored"

(* "This is deliberately the last object-store write."                     *)
ArtifactsStored(p) ==
  /\ stands[p] = "artifacts"
  /\ UploadsDone(p)
  /\ GoTo(p, "manifest")
  /\ UNCHANGED <<edition, put, storeVars, ledgerVars, calm>>

(* Mutant: the ledger is finalized while the manifest is still being put.  *)
ManifestNotAwaited(p) ==
  /\ stands[p] = "manifest"
  /\ GoTo(p, "finalize")
  /\ UNCHANGED <<edition, put, storeVars, ledgerVars, calm>>

ManifestStored(p) ==
  /\ stands[p] = "manifest"
  /\ UploadsDone(p)
  /\ GoTo(p, "finalize")
  /\ UNCHANGED <<edition, put, storeVars, ledgerVars, calm>>

-----------------------------------------------------------------------------
(* Mutant: the rows are left as an earlier edition's.                      *)
RowsUnchecked(r, e) == rows' = rows

(* The rows are inserted, or verified row by row and counted.              *)
InsertRows(r, e) ==
  /\ rows[r] \in {{}, {e}}
  /\ rows' = [rows EXCEPT ![r] = {e}]

(* finalizePublication(): one transaction under FOR UPDATE.                *)
FinalizeRun(r, e) ==
  /\ claim[r] = {e}
  /\ InsertRows(r, e)
  /\ published' = published \union {r}
  /\ claim' = claim

Finalize(p) ==
  /\ stands[p] = "finalize"
  /\ \E e \in edition[p] : FinalizeRun(RunOf[e], e)
  /\ GoTo(p, "dashboard")
  /\ UNCHANGED <<edition, put, storeVars, calm>>

FinalizeUnheard(p) ==
  /\ ~calm
  /\ stands[p] = "finalize"
  /\ \E e \in edition[p] : FinalizeRun(RunOf[e], e)
  /\ GoTo(p, "failed")
  /\ UNCHANGED <<edition, put, storeVars, calm>>

(* A transaction fails and is rolled back, or its connection is lost.      *)
TransactionFails(p) ==
  /\ ~calm
  /\ stands[p] \in {"begin", "finalize"}
  /\ GoTo(p, "failed")
  /\ UNCHANGED <<edition, put, storeVars, ledgerVars, calm>>

(* The dashboard refresh: its failure is part of a successful result.      *)
DashboardEnds(p) ==
  /\ stands[p] = "dashboard"
  /\ GoTo(p, "done")
  /\ UNCHANGED <<edition, put, storeVars, ledgerVars, calm>>

(* The publisher's process dies.                                           *)
Crash(p) ==
  /\ ~calm
  /\ stands[p] \notin {"idle", "failed", "done"}
  /\ GoTo(p, "idle")
  /\ edition' = [edition EXCEPT ![p] = {}]
  /\ put' = [put EXCEPT ![p] = [k \in Keys |-> "todo"]]
  /\ UNCHANGED <<storeVars, ledgerVars, calm>>

BecomeCalm ==
  /\ ~calm
  /\ calm' = TRUE
  /\ UNCHANGED <<stands, edition, put, storeVars, ledgerVars>>

-----------------------------------------------------------------------------
Upload(p, k) ==
  \/ HeadObject(p, k) \/ SendPut(p, k) \/ PutAnswered(p, k) \/ PutRaces(p, k)
  \/ VerifyExisting(p, k) \/ PutTimesOut(p, k)

Progress(p) ==
  \/ Begin(p) \/ BeginConflicts(p)
  \/ \E k \in Keys : Upload(p, k)
  \/ UploadsFail(p) \/ ArtifactsStored(p) \/ ManifestStored(p)
  \/ Finalize(p) \/ DashboardEnds(p)

Fault ==
  \/ \E p \in Publishers :
       BeginUnheard(p) \/ FinalizeUnheard(p) \/ TransactionFails(p) \/ Crash(p)
  \/ \E p \in Publishers, k \in Keys : RequestFails(p, k)
  \/ \E m \in inflight : LosePut(m)

StoreServes == \E m \in inflight : ServePut(m)

PublicationNext ==
  \/ \E p \in Publishers, e \in Editions : Start(p, e)
  \/ \E p \in Publishers : Progress(p)
  \/ StoreServes
  \/ Fault \/ BecomeCalm

PublicationSpec == PublicationInit /\ [][PublicationNext]_publicationVars

(* The exact retry: the edition the run is claimed for is published again. *)
Retry ==
  \E p \in Publishers, e \in Editions :
    claim[RunOf[e]] = {e} /\ stands[p] \in {"idle", "failed"} /\ Start(p, e)

-----------------------------------------------------------------------------
Stored(e) ==
  /\ objects[RunOf[e]] = {e}
  /\ \A d \in ArtifactsOf[e] : objects[d] = {d}

(* "The per-run manifest is an artifact-completeness marker": whoever      *)
(* finds a manifest finds every artifact it binds, and the run is claimed  *)
(* for it in the ledger, also when the PUT arrived after its client died.  *)
ManifestMeansComplete ==
  \A r \in Runs : \A e \in objects[r] : Stored(e) /\ claim[r] = {e}

(* "Postgres status remains query authority": a published run has its      *)
(* manifest, its artifacts and the rows of exactly one edition, and no     *)
(* failure, no retry and no concurrent publisher makes publishRun() report *)
(* success for another edition than that.                                  *)
PublishedMeansStored ==
  /\ \A r \in published : \E e \in Editions :
       RunOf[e] = r /\ claim[r] = {e} /\ rows[r] = {e} /\ Stored(e)
  /\ \A p \in Publishers : stands[p] \in {"dashboard", "done"} =>
       \A e \in edition[p] : RunOf[e] \in published /\ claim[RunOf[e]] = {e}

(* What a name or a row points to is there, as it was claimed.             *)
StoredBeforeNamed == ManifestMeansComplete /\ PublishedMeansStored

(* "An identical retry converges": whatever earlier failures left behind,  *)
(* and whoever else publishes, once nothing fails any more a claimed run   *)
(* becomes a published one.                                                *)
RetryConverges ==
  \A r \in Runs : (calm /\ claim[r] # {}) ~> (r \in published)

(* The publishers implement the ledger's promise.                          *)
Ledger == INSTANCE RunLedger WITH available <- {e \in Editions : Stored(e)}
LedgerPromise == Ledger!Spec

=============================================================================
