--------------------------- MODULE DashboardProofs ---------------------------
(***************************************************************************)
(* Theorems about publication, for any publishers, runs, editions and      *)
(* artifacts, whatever fails, is lost, served late or tried again.         *)
(*                                                                         *)
(* The argument: whatever may come to stand under a key was fit to stand   *)
(* there when it was sent, and being fit is kept, since objects and claims *)
(* are only ever made and never changed.  So a PUT may be served at any    *)
(* later time, after its publisher failed, crashed or began another run.   *)
(***************************************************************************)
EXTENDS Publication, DashboardRefresh, FiniteSetTheorems,
        WellFoundedInduction, TLAPS

PublicationTypes ==
  /\ stands \in [Publishers -> PublisherStates]
  /\ edition \in [Publishers -> SUBSET Editions]
  /\ put \in [Publishers -> [Keys -> PutStates]]
  /\ objects \in [Keys -> SUBSET (Digests \union Editions)]
  /\ inflight \subseteq Put
  /\ claim \in [Runs -> SUBSET Editions]
  /\ published \subseteq Runs
  /\ rows \in [Runs -> SUBSET Editions]

ArtifactsIn(e) == \A d \in ArtifactsOf[e] : objects[d] = {d}

(* What may stand under a key: an artifact under its own digest, or the    *)
(* manifest of the edition its run is claimed for, when all it binds is    *)
(* there.                                                                  *)
Fit(k, c) ==
  \/ k \in Digests /\ c = k
  \/ /\ k \in Runs /\ c \in Editions /\ RunOf[c] = k
     /\ claim[k] = {c} /\ ArtifactsIn(c)

StoreInv ==
  /\ \A k \in Keys : \A c \in objects[k] : Fit(k, c) /\ objects[k] = {c}
  /\ \A m \in inflight : Fit(m.key, m.content)

LedgerInv ==
  /\ \A r \in Runs : \A e \in claim[r] : RunOf[e] = r /\ claim[r] = {e}
  /\ \A r \in published : \E e \in Editions :
       RunOf[e] = r /\ claim[r] = {e} /\ rows[r] = {e} /\ Stored(e)

(* What a publisher has heard of an upload is true of the bucket.          *)
UploadInv(p, k) ==
  put[p][k] # "todo" =>
    /\ edition[p] # {}
    /\ \A c \in ContentFor(p, k) : Fit(k, c)
    /\ put[p][k] = "stored" => objects[k] = ContentFor(p, k)

(* What a publisher has behind it.                                         *)
StageInv(p) ==
  \A e \in edition[p] :
    /\ edition[p] = {e}
    /\ stands[p] \in {"artifacts", "manifest", "finalize", "dashboard", "done"}
         => claim[RunOf[e]] = {e}
    /\ stands[p] \in {"manifest", "finalize", "dashboard", "done"}
         => ArtifactsIn(e)
    /\ stands[p] \in {"finalize", "dashboard", "done"}
         => objects[RunOf[e]] = {e}
    /\ stands[p] \in {"dashboard", "done"} => RunOf[e] \in published

PublisherInv ==
  \A p \in Publishers : StageInv(p) /\ \A k \in Keys : UploadInv(p, k)

PublicationIInv == PublicationTypes /\ StoreInv /\ LedgerInv /\ PublisherInv

(* Objects, claims and published runs are only ever added.                 *)
Keeps ==
  /\ \A k \in Keys : objects[k] # {} => objects'[k] = objects[k]
  /\ \A r \in Runs : claim[r] # {} => claim'[r] = claim[r]
  /\ published \subseteq published'

-----------------------------------------------------------------------------
LEMMA PublicationInitially ==
  ASSUME PublicationAssumption
  PROVE  PublicationInit => PublicationIInv
<1> SUFFICES ASSUME PublicationInit
             PROVE  PublicationIInv
  OBVIOUS
<1>1. PublicationTypes
  BY DEF PublicationInit, PublicationTypes, PublisherStates, PutStates, Put
<1>2. StoreInv /\ LedgerInv
  BY DEF PublicationInit, StoreInv, LedgerInv
<1>3. PublisherInv
  BY DEF PublicationInit, PublisherInv, StageInv, UploadInv
<1> QED
  BY <1>1, <1>2, <1>3 DEF PublicationIInv

(* An edition's run and artifacts have keys of their own.                  *)
LEMMA KeysApart ==
  ASSUME PublicationAssumption, NEW e \in Editions
  PROVE  /\ RunOf[e] \in Runs /\ RunOf[e] \in Keys /\ RunOf[e] \notin Digests
         /\ e \notin Digests
         /\ \A d \in ArtifactsOf[e] : d \in Digests /\ d \in Keys
BY DEF PublicationAssumption, Keys

LEMMA FitKept ==
  ASSUME PublicationAssumption, PublicationTypes, Keeps
  PROVE  /\ \A e \in Editions : ArtifactsIn(e) => ArtifactsIn(e)'
         /\ \A e \in Editions : Stored(e) => Stored(e)'
         /\ \A k, c : Fit(k, c) => Fit(k, c)'
<1>1. ASSUME NEW e \in Editions, ArtifactsIn(e)
      PROVE  ArtifactsIn(e)'
  BY <1>1, KeysApart DEF ArtifactsIn, Keeps
<1>2. ASSUME NEW e \in Editions, Stored(e)
      PROVE  Stored(e)'
  BY <1>2, KeysApart DEF Stored, Keeps
<1>3. ASSUME NEW k, NEW c, Fit(k, c)
      PROVE  Fit(k, c)'
  <2>1. CASE k \in Digests /\ c = k
    BY <2>1 DEF Fit
  <2>2. CASE /\ k \in Runs /\ c \in Editions /\ RunOf[c] = k
             /\ claim[k] = {c} /\ ArtifactsIn(c)
    <3>1. claim'[k] = {c}
      BY <2>2 DEF Keeps
    <3> QED
      BY <1>1, <2>2, <3>1 DEF Fit
  <2> QED
    BY <1>3, <2>1, <2>2 DEF Fit
<1> QED
  BY <1>1, <1>2, <1>3

(* A publisher that stays where it is, or falls back, keeps what it has.   *)
LEMMA StageKept ==
  ASSUME PublicationAssumption, PublicationTypes, Keeps,
         NEW p \in Publishers, StageInv(p), edition'[p] = edition[p],
         stands'[p] = stands[p] \/ stands'[p] \in {"idle", "begin", "failed"}
  PROVE  StageInv(p)'
<1> SUFFICES ASSUME NEW e \in edition[p]
             PROVE  /\ edition'[p] = {e}
                    /\ stands'[p] \in {"artifacts", "manifest", "finalize",
                                       "dashboard", "done"}
                         => claim'[RunOf[e]] = {e}
                    /\ stands'[p] \in {"manifest", "finalize", "dashboard", "done"}
                         => ArtifactsIn(e)'
                    /\ stands'[p] \in {"finalize", "dashboard", "done"}
                         => objects'[RunOf[e]] = {e}
                    /\ stands'[p] \in {"dashboard", "done"}
                         => RunOf[e] \in published'
  BY DEF StageInv
<1>1. e \in Editions
  BY DEF PublicationTypes
<1>2. edition'[p] = {e}
  BY DEF StageInv
<1>3. CASE stands'[p] \in {"idle", "begin", "failed"}
  BY <1>2, <1>3
<1>4. CASE stands'[p] = stands[p]
  <2>1. ArtifactsIn(e) => ArtifactsIn(e)'
    BY <1>1, FitKept
  <2>2. RunOf[e] \in Runs /\ RunOf[e] \in Keys
    BY <1>1, KeysApart
  <2> QED
    BY <1>2, <1>4, <2>1, <2>2 DEF StageInv, Keeps
<1> QED
  BY <1>3, <1>4

LEMMA UploadKept ==
  ASSUME PublicationAssumption, PublicationTypes, Keeps,
         NEW p \in Publishers, NEW k \in Keys, UploadInv(p, k),
         edition'[p] = edition[p], put'[p][k] = put[p][k]
  PROVE  UploadInv(p, k)'
<1>1. ContentFor(p, k)' = ContentFor(p, k)
  BY DEF ContentFor
<1>2. edition[p] # {} => ContentFor(p, k) # {}
  BY DEF ContentFor
<1>3. \A c : Fit(k, c) => Fit(k, c)'
  BY FitKept
<1> QED
  BY <1>1, <1>2, <1>3 DEF UploadInv, Keeps

LEMMA StoreKept ==
  ASSUME PublicationAssumption, PublicationTypes, Keeps, StoreInv,
         objects' = objects, inflight' \subseteq inflight
  PROVE  StoreInv'
BY FitKept DEF StoreInv

LEMMA LedgerKept ==
  ASSUME PublicationAssumption, PublicationTypes, Keeps, LedgerInv,
         UNCHANGED ledgerVars
  PROVE  LedgerInv'
BY FitKept DEF LedgerInv, ledgerVars

(* What one publisher does is nothing to the others.                       *)
LEMMA PublishersKept ==
  ASSUME PublicationAssumption, PublicationTypes, Keeps, PublisherInv,
         NEW p \in Publishers, StageInv(p)', \A k \in Keys : UploadInv(p, k)',
         \A q \in Publishers \ {p} : /\ stands'[q] = stands[q]
                                     /\ edition'[q] = edition[q]
                                     /\ put'[q] = put[q]
  PROVE  PublisherInv'
<1>1. ASSUME NEW q \in Publishers, q # p
      PROVE  StageInv(q)'
  BY <1>1, StageKept DEF PublisherInv
<1>2. ASSUME NEW q \in Publishers, NEW k \in Keys, q # p
      PROVE  UploadInv(q, k)'
  BY <1>2, UploadKept DEF PublisherInv
<1> QED
  BY <1>1, <1>2 DEF PublisherInv

-----------------------------------------------------------------------------
(* Only a publisher's place changes: what it has behind it there holds.    *)
LEMMA PlaceChanged ==
  ASSUME PublicationAssumption, PublicationIInv,
         NEW p \in Publishers, NEW state \in PublisherStates,
         GoTo(p, state), StageInv(p)',
         UNCHANGED <<edition, put, storeVars, ledgerVars>>
  PROVE  PublicationIInv'
<1> USE DEF PublicationIInv
<1>1. Keeps
  BY DEF Keeps, storeVars, ledgerVars
<1>2. PublicationTypes'
  BY DEF PublicationTypes, GoTo, storeVars, ledgerVars
<1>3. StoreInv' /\ LedgerInv'
  BY <1>1, StoreKept, LedgerKept DEF storeVars
<1>4. ASSUME NEW k \in Keys
      PROVE  UploadInv(p, k)'
  BY <1>1, UploadKept DEF PublisherInv
<1>5. PublisherInv'
  BY <1>1, <1>4, PublishersKept DEF GoTo, PublicationTypes
<1> QED
  BY <1>2, <1>3, <1>5

(* The publisher falls back: anything fails, or a conflict stops it.       *)
LEMMA FallsBack ==
  ASSUME PublicationAssumption, PublicationIInv,
         NEW p \in Publishers, GoTo(p, "failed"),
         UNCHANGED <<edition, put, storeVars, ledgerVars>>
  PROVE  PublicationIInv'
<1>1. StageInv(p)'
  <2>1. Keeps
    BY DEF Keeps, storeVars, ledgerVars
  <2>2. stands'[p] = "failed"
    BY DEF GoTo, PublicationIInv, PublicationTypes
  <2> QED
    BY <2>1, <2>2, StageKept DEF PublicationIInv, PublisherInv
<1> QED
  BY <1>1, PlaceChanged DEF PublisherStates

(* All uploads of a stage are stored: what they put stands in the bucket.  *)
LEMMA StageDone ==
  ASSUME PublicationAssumption, PublicationIInv, NEW p \in Publishers,
         ArtifactsStored(p) \/ ManifestStored(p) \/ DashboardEnds(p)
  PROVE  PublicationIInv'
<1> USE DEF PublicationIInv
<1>1. PICK state \in PublisherStates :
        /\ GoTo(p, state)
        /\ \/ stands[p] = "artifacts" /\ state = "manifest" /\ UploadsDone(p)
           \/ stands[p] = "manifest" /\ state = "finalize" /\ UploadsDone(p)
           \/ stands[p] = "dashboard" /\ state = "done"
  BY DEF ArtifactsStored, ManifestStored, DashboardEnds, PublisherStates
<1>2. UNCHANGED <<edition, put, storeVars, ledgerVars>>
  BY DEF ArtifactsStored, ManifestStored, DashboardEnds
<1>3. stands'[p] = state /\ UNCHANGED <<edition, objects, claim, published>>
  BY <1>1, <1>2 DEF GoTo, PublicationTypes, storeVars, ledgerVars
<1>4. ASSUME NEW e \in edition[p]
      PROVE  /\ edition[p] = {e}
             /\ state \in {"manifest", "finalize", "done"} =>
                  claim[RunOf[e]] = {e} /\ ArtifactsIn(e)
             /\ state \in {"finalize", "done"} => objects[RunOf[e]] = {e}
             /\ state = "done" => RunOf[e] \in published
  <2>1. /\ e \in Editions /\ edition[p] = {e}
        /\ stands[p] \in {"artifacts", "manifest", "dashboard"}
             => claim[RunOf[e]] = {e}
        /\ stands[p] \in {"manifest", "dashboard"} => ArtifactsIn(e)
        /\ stands[p] = "dashboard" =>
             objects[RunOf[e]] = {e} /\ RunOf[e] \in published
    BY DEF PublicationTypes, PublisherInv, StageInv
  <2>2. \A k \in Keys : put[p][k] = "stored" => objects[k] = ContentFor(p, k)
    BY DEF PublisherInv, UploadInv
  <2>3. CASE stands[p] = "artifacts" /\ state = "manifest" /\ UploadsDone(p)
    <3>1. ASSUME NEW d \in ArtifactsOf[e]
          PROVE  objects[d] = {d}
      <4>1. d \in KeysOf(p)
        BY <2>3 DEF KeysOf
      <4>2. d \in Digests /\ d \in Keys
        BY <2>1, KeysApart
      <4> QED
        BY <2>2, <2>3, <4>1, <4>2 DEF UploadsDone, ContentFor
    <3> QED
      BY <2>1, <2>3, <3>1 DEF ArtifactsIn
  <2>4. CASE stands[p] = "manifest" /\ state = "finalize" /\ UploadsDone(p)
    <3>1. RunOf[e] \in KeysOf(p)
      BY <2>4 DEF KeysOf
    <3>2. RunOf[e] \in Keys /\ RunOf[e] \notin Digests
      BY <2>1, KeysApart
    <3>3. objects[RunOf[e]] = {e}
      BY <2>1, <2>2, <2>4, <3>1, <3>2 DEF UploadsDone, ContentFor
    <3> QED
      BY <2>1, <2>4, <3>3
  <2>5. CASE stands[p] = "dashboard" /\ state = "done"
    BY <2>1, <2>5
  <2> QED
    BY <1>1, <2>3, <2>4, <2>5
<1>5. ASSUME NEW e \in edition[p]
      PROVE  ArtifactsIn(e)' <=> ArtifactsIn(e)
  BY <1>3 DEF ArtifactsIn
<1>6. StageInv(p)'
  BY <1>1, <1>3, <1>4, <1>5 DEF StageInv
<1> QED
  BY <1>1, <1>2, <1>6, PlaceChanged

-----------------------------------------------------------------------------
(* beginPublication(): the run is claimed, or is claimed already, for this *)
(* edition, whether its publisher hears of it or not.                      *)
LEMMA RunClaimed ==
  ASSUME PublicationAssumption, PublicationIInv, NEW p \in Publishers,
         Begin(p) \/ BeginUnheard(p)
  PROVE  PublicationIInv'
<1> USE DEF PublicationIInv
<1>1. PICK e \in edition[p], state \in {"artifacts", "failed"} :
        /\ claim[RunOf[e]] \in {{}, {e}}
        /\ claim' = [claim EXCEPT ![RunOf[e]] = {e}]
        /\ GoTo(p, state)
        /\ UNCHANGED <<edition, put, objects, inflight, published, rows>>
  BY DEF Begin, BeginUnheard, ClaimRun, storeVars
<1>2. e \in Editions /\ RunOf[e] \in Runs /\ edition[p] = {e}
  BY KeysApart DEF PublicationTypes, PublisherInv, StageInv
<1>3. \A r \in Runs : claim'[r] = IF r = RunOf[e] THEN {e} ELSE claim[r]
  BY <1>1 DEF PublicationTypes
<1>4. Keeps
  BY <1>1, <1>3 DEF Keeps
<1>5. PublicationTypes'
  <2>1. stands' \in [Publishers -> PublisherStates]
    BY <1>1 DEF GoTo, PublicationTypes, PublisherStates
  <2>2. claim' \in [Runs -> SUBSET Editions]
    BY <1>1, <1>2 DEF PublicationTypes
  <2> QED
    BY <1>1, <2>1, <2>2 DEF PublicationTypes
<1>6. StoreInv'
  BY <1>1, <1>4, StoreKept
<1>7. LedgerInv'
  <2>1. \A r \in Runs : \A x \in claim'[r] : RunOf[x] = r /\ claim'[r] = {x}
    BY <1>3 DEF LedgerInv
  <2>2. ASSUME NEW r \in published
        PROVE  \E x \in Editions :
                 RunOf[x] = r /\ claim'[r] = {x} /\ rows[r] = {x} /\ Stored(x)'
    BY <1>4, FitKept DEF LedgerInv, Keeps, PublicationTypes
  <2> QED
    BY <1>1, <2>1, <2>2 DEF LedgerInv
<1>8. StageInv(p)'
  <2>1. stands'[p] = state /\ edition'[p] = {e}
    BY <1>1, <1>2 DEF GoTo, PublicationTypes
  <2> QED
    BY <1>1, <1>2, <1>3, <2>1 DEF StageInv
<1>9. ASSUME NEW k \in Keys
      PROVE  UploadInv(p, k)'
  BY <1>1, <1>4, UploadKept DEF PublisherInv
<1>10. PublisherInv'
  BY <1>1, <1>4, <1>8, <1>9, PublishersKept DEF GoTo, PublicationTypes
<1> QED
  BY <1>5, <1>6, <1>7, <1>10

(* finalizePublication(): the run becomes published with its rows.         *)
LEMMA RunFinalized ==
  ASSUME PublicationAssumption, PublicationIInv, NEW p \in Publishers,
         Finalize(p) \/ FinalizeUnheard(p)
  PROVE  PublicationIInv'
<1> USE DEF PublicationIInv
<1>1. PICK e \in edition[p], state \in {"dashboard", "failed"} :
        /\ stands[p] = "finalize" /\ claim[RunOf[e]] = {e}
        /\ rows' = [rows EXCEPT ![RunOf[e]] = {e}]
        /\ published' = published \union {RunOf[e]}
        /\ GoTo(p, state)
        /\ UNCHANGED <<edition, put, objects, inflight, claim>>
  BY DEF Finalize, FinalizeUnheard, FinalizeRun, InsertRows, storeVars
<1>2. e \in Editions /\ RunOf[e] \in Runs /\ edition[p] = {e}
  BY KeysApart DEF PublicationTypes, PublisherInv, StageInv
<1>3. \A r \in Runs : rows'[r] = IF r = RunOf[e] THEN {e} ELSE rows[r]
  BY <1>1 DEF PublicationTypes
<1>4. Keeps
  BY <1>1 DEF Keeps
<1>5. PublicationTypes'
  <2>1. stands' \in [Publishers -> PublisherStates]
    BY <1>1 DEF GoTo, PublicationTypes, PublisherStates
  <2>2. rows' \in [Runs -> SUBSET Editions] /\ published' \subseteq Runs
    BY <1>1, <1>2 DEF PublicationTypes
  <2> QED
    BY <1>1, <2>1, <2>2 DEF PublicationTypes
<1>6. StoreInv'
  BY <1>1, <1>4, StoreKept
<1>7. ArtifactsIn(e) /\ objects[RunOf[e]] = {e}
  BY <1>1 DEF PublisherInv, StageInv
<1>8. LedgerInv'
  <2>1. Stored(e)
    BY <1>7 DEF Stored, ArtifactsIn
  <2>2. ASSUME NEW r \in published'
        PROVE  \E x \in Editions :
                 RunOf[x] = r /\ claim[r] = {x} /\ rows'[r] = {x} /\ Stored(x)'
    <3>1. CASE r = RunOf[e]
      BY <1>1, <1>2, <1>3, <1>4, <2>1, <3>1, FitKept
    <3>2. CASE r # RunOf[e]
      <4>1. r \in published /\ r \in Runs
        BY <1>1, <3>2 DEF PublicationTypes
      <4> QED
        BY <1>3, <1>4, <3>2, <4>1, FitKept DEF LedgerInv
    <3> QED
      BY <3>1, <3>2
  <2> QED
    BY <1>1, <2>2 DEF LedgerInv
<1>9. StageInv(p)'
  <2>1. stands'[p] = state /\ edition'[p] = {e}
    BY <1>1, <1>2 DEF GoTo, PublicationTypes
  <2>2. ArtifactsIn(e)'
    BY <1>1, <1>7 DEF ArtifactsIn
  <2> QED
    BY <1>1, <1>7, <2>1, <2>2 DEF StageInv
<1>10. ASSUME NEW k \in Keys
       PROVE  UploadInv(p, k)'
  BY <1>1, <1>4, UploadKept DEF PublisherInv
<1>11. PublisherInv'
  BY <1>1, <1>4, <1>9, <1>10, PublishersKept DEF GoTo, PublicationTypes
<1> QED
  BY <1>5, <1>6, <1>8, <1>11

-----------------------------------------------------------------------------
(* What a publisher is busy uploading is fit to stand where it puts it:    *)
(* the manifest comes after the artifacts and after the claim.             *)
LEMMA UploadFit ==
  ASSUME PublicationAssumption, PublicationIInv,
         NEW p \in Publishers, NEW k \in Keys, k \in KeysOf(p)
  PROVE  edition[p] # {} /\ \A c \in ContentFor(p, k) : Fit(k, c)
<1>1. \/ stands[p] = "artifacts" /\ \E e \in edition[p] : k \in ArtifactsOf[e]
      \/ stands[p] = "manifest" /\ \E e \in edition[p] : k = RunOf[e]
  BY DEF KeysOf
<1>2. PICK e \in edition[p] :
        \/ stands[p] = "artifacts" /\ k \in ArtifactsOf[e]
        \/ stands[p] = "manifest" /\ k = RunOf[e]
  BY <1>1
<1>3. e \in Editions /\ edition[p] = {e}
  BY DEF PublicationIInv, PublicationTypes, PublisherInv, StageInv
<1>4. CASE stands[p] = "artifacts" /\ k \in ArtifactsOf[e]
  BY <1>3, <1>4, KeysApart DEF ContentFor, Fit
<1>5. CASE stands[p] = "manifest" /\ k = RunOf[e]
  <2>1. claim[k] = {e} /\ ArtifactsIn(e)
    BY <1>5 DEF PublicationIInv, PublisherInv, StageInv
  <2>2. k \in Runs /\ k \notin Digests
    BY <1>3, <1>5, KeysApart
  <2> QED
    BY <1>3, <1>5, <2>1, <2>2 DEF ContentFor, Fit
<1> QED
  BY <1>2, <1>4, <1>5

(* One upload moves, and the requests that are in flight stay fit.         *)
LEMMA UploadMoved ==
  ASSUME PublicationAssumption, PublicationIInv,
         NEW p \in Publishers, NEW k \in Keys, NEW state \in PutStates,
         SetPut(p, k, state),
         UNCHANGED <<stands, edition, objects, ledgerVars>>,
         inflight' \subseteq Put, \A m \in inflight' : Fit(m.key, m.content),
         edition[p] # {}, \A c \in ContentFor(p, k) : Fit(k, c),
         state = "stored" => objects[k] = ContentFor(p, k)
  PROVE  PublicationIInv'
<1> USE DEF PublicationIInv
<1>1. Keeps
  BY DEF Keeps, ledgerVars
<1>2. \A q \in Publishers : \A x \in Keys :
         put'[q][x] = IF q = p /\ x = k THEN state ELSE put[q][x]
  BY DEF SetPut, PublicationTypes
<1>3. PublicationTypes'
  <2>1. put' \in [Publishers -> [Keys -> PutStates]]
    BY DEF SetPut, PublicationTypes
  <2> QED
    BY <2>1 DEF PublicationTypes, ledgerVars
<1>4. StoreInv'
  BY <1>1, FitKept DEF StoreInv
<1>5. LedgerInv'
  BY <1>1, LedgerKept
<1>6. StageInv(p)'
  BY <1>1, StageKept DEF PublisherInv
<1>7. ASSUME NEW x \in Keys
      PROVE  UploadInv(p, x)'
  <2>1. CASE x = k
    <3>1. ContentFor(p, k)' = ContentFor(p, k)
      BY DEF ContentFor
    <3>2. \A c : Fit(k, c) => Fit(k, c)'
      BY <1>1, FitKept
    <3> QED
      BY <1>2, <2>1, <3>1, <3>2 DEF UploadInv
  <2>2. CASE x # k
    BY <1>1, <1>2, <2>2, UploadKept DEF PublisherInv
  <2> QED
    BY <2>1, <2>2
<1>8. PublisherInv'
  BY <1>1, <1>6, <1>7, PublishersKept DEF SetPut, PublicationTypes
<1> QED
  BY <1>3, <1>4, <1>5, <1>8

(* #putImmutable() and #verifyExisting(), request by request.              *)
LEMMA UploadStep ==
  ASSUME PublicationAssumption, PublicationIInv,
         NEW p \in Publishers, NEW k \in Keys,
         Upload(p, k) \/ RequestFails(p, k)
  PROVE  PublicationIInv'
<1> USE DEF PublicationIInv
<1>1. /\ inflight \subseteq Put /\ \A m \in inflight : Fit(m.key, m.content)
      /\ put[p][k] # "todo" =>
           edition[p] # {} /\ \A c \in ContentFor(p, k) : Fit(k, c)
      /\ k \in KeysOf(p) =>
           edition[p] # {} /\ \A c \in ContentFor(p, k) : Fit(k, c)
  BY UploadFit DEF PublicationTypes, StoreInv, PublisherInv, UploadInv
<1>2. CASE HeadObject(p, k)
  <2>1. PICK state \in PutStates :
          /\ SetPut(p, k, state)
          /\ state = "stored" => objects[k] = ContentFor(p, k)
    <3> DEFINE state == CASE objects[k] = {} -> "missing"
                          [] objects[k] = ContentFor(p, k) -> "stored"
                          [] OTHER -> "failed"
    <3>1. SetPut(p, k, state)
      BY <1>2 DEF HeadObject
    <3>2. state \in PutStates /\ (state = "stored" => objects[k] = ContentFor(p, k))
      <4>1. CASE objects[k] = {}
        <5>1. edition[p] # {} => ContentFor(p, k) # {}
          BY DEF ContentFor
        <5>2. state = "missing"
          BY <1>1, <1>2, <4>1, <5>1 DEF HeadObject
        <5> QED
          BY <5>2 DEF PutStates
      <4>2. CASE objects[k] # {} /\ objects[k] = ContentFor(p, k)
        BY <4>2 DEF PutStates
      <4>3. CASE objects[k] # {} /\ objects[k] # ContentFor(p, k)
        BY <4>3 DEF PutStates
      <4> QED
        BY <4>1, <4>2, <4>3
    <3> QED
      BY <3>1, <3>2
  <2> QED
    BY <1>1, <1>2, <2>1, UploadMoved DEF HeadObject, storeVars
<1>3. CASE SendPut(p, k)
  <2>1. ASSUME NEW c \in ContentFor(p, k)
        PROVE  [key |-> k, content |-> c, from |-> p] \in Put
    BY DEF ContentFor, PublicationTypes, Put
  <2>2. /\ inflight' \subseteq Put
        /\ \A m \in inflight' : Fit(m.key, m.content)
    BY <1>1, <1>3, <2>1 DEF SendPut
  <2> QED
    BY <1>1, <1>3, <2>2, UploadMoved DEF SendPut, PutStates
<1>4. CASE PutAnswered(p, k)
  BY <1>1, <1>4, UploadMoved DEF PutAnswered, PutStates, storeVars
<1>5. CASE PutRaces(p, k)
  BY <1>1, <1>5, UploadMoved DEF PutRaces, PutStates
<1>6. CASE VerifyExisting(p, k)
  BY <1>1, <1>6, UploadMoved DEF VerifyExisting, PutStates, storeVars
<1>7. CASE PutTimesOut(p, k)
  BY <1>1, <1>7, UploadMoved DEF PutTimesOut, PutStates, storeVars
<1>8. CASE RequestFails(p, k)
  BY <1>1, <1>8, UploadMoved DEF RequestFails, Busy, PutStates, storeVars
<1> QED
  BY <1>2, <1>3, <1>4, <1>5, <1>6, <1>7, <1>8 DEF Upload

(* A PUT with If-None-Match is served, whoever sent it and whenever.       *)
LEMMA PutServed ==
  ASSUME PublicationAssumption, PublicationIInv, NEW m \in inflight, ServePut(m)
  PROVE  PublicationIInv'
<1> USE DEF PublicationIInv
<1>1. /\ inflight' = inflight \ {m}
      /\ objects' = [objects EXCEPT ![m.key] = IF @ = {} THEN {m.content} ELSE @]
      /\ UNCHANGED <<stands, edition, put, ledgerVars>>
  BY DEF ServePut, StoreIfNoneMatch
<1>2. m \in Put /\ m.key \in Keys /\ m.content \in Digests \union Editions
      /\ Fit(m.key, m.content)
  BY DEF PublicationTypes, StoreInv, Put
<1>3. \A k \in Keys :
         objects'[k] = IF k = m.key /\ objects[k] = {} THEN {m.content}
                       ELSE objects[k]
  BY <1>1 DEF PublicationTypes
<1>4. Keeps
  BY <1>1, <1>3 DEF Keeps, ledgerVars
<1>5. PublicationTypes'
  <2>1. objects' \in [Keys -> SUBSET (Digests \union Editions)]
    BY <1>1, <1>2 DEF PublicationTypes
  <2> QED
    BY <1>1, <2>1 DEF PublicationTypes, ledgerVars
<1>6. StoreInv'
  <2>1. ASSUME NEW k \in Keys, NEW c \in objects'[k]
        PROVE  Fit(k, c)' /\ objects'[k] = {c}
    <3>1. Fit(k, c) /\ objects'[k] = {c}
      BY <1>2, <1>3 DEF StoreInv
    <3> QED
      BY <1>4, <3>1, FitKept
  <2>2. \A x \in inflight' : Fit(x.key, x.content)'
    BY <1>1, <1>4, FitKept DEF StoreInv
  <2> QED
    BY <2>1, <2>2 DEF StoreInv
<1>7. LedgerInv'
  BY <1>1, <1>4, LedgerKept
<1>8. \A p \in Publishers : StageInv(p)'
  BY <1>1, <1>4, StageKept DEF PublisherInv
<1>9. \A p \in Publishers, k \in Keys : UploadInv(p, k)'
  BY <1>1, <1>4, UploadKept DEF PublisherInv
<1>10. PublisherInv'
  BY <1>8, <1>9 DEF PublisherInv
<1> QED
  BY <1>5, <1>6, <1>7, <1>10

(* A PUT is lost, the environment calms down, or nothing happens.          *)
LEMMA NothingMade ==
  ASSUME PublicationAssumption, PublicationIInv, inflight' \subseteq inflight,
         UNCHANGED <<stands, edition, put, objects, ledgerVars>>
  PROVE  PublicationIInv'
<1> USE DEF PublicationIInv
<1>1. Keeps
  BY DEF Keeps, ledgerVars
<1>2. PublicationTypes'
  BY DEF PublicationTypes, ledgerVars
<1>3. StoreInv' /\ LedgerInv'
  BY <1>1, StoreKept, LedgerKept
<1>4. \A p \in Publishers : StageInv(p)'
  BY <1>1, StageKept DEF PublisherInv
<1>5. \A p \in Publishers, k \in Keys : UploadInv(p, k)'
  BY <1>1, UploadKept DEF PublisherInv
<1> QED
  BY <1>2, <1>3, <1>4, <1>5 DEF PublisherInv

(* publishVerifiedRun() is called, for the first time or again, or its     *)
(* process dies: what is left of it is what it has put in flight.          *)
LEMMA PublisherRestarts ==
  ASSUME PublicationAssumption, PublicationIInv, NEW p \in Publishers,
         Crash(p) \/ \E e \in Editions : Start(p, e)
  PROVE  PublicationIInv'
<1> USE DEF PublicationIInv
<1>1. PICK state \in {"idle", "begin"}, E \in SUBSET Editions :
        /\ E = {} \/ \E e \in Editions : E = {e}
        /\ GoTo(p, state) /\ edition' = [edition EXCEPT ![p] = E]
        /\ put' = [put EXCEPT ![p] = [k \in Keys |-> "todo"]]
        /\ UNCHANGED <<storeVars, ledgerVars>>
  <2>1. CASE Crash(p)
    BY <2>1 DEF Crash
  <2>2. ASSUME NEW e \in Editions, Start(p, e)
        PROVE  /\ {e} \in SUBSET Editions
               /\ GoTo(p, "begin") /\ edition' = [edition EXCEPT ![p] = {e}]
               /\ put' = [put EXCEPT ![p] = [k \in Keys |-> "todo"]]
               /\ UNCHANGED <<storeVars, ledgerVars>>
    BY <2>2 DEF Start
  <2> QED
    BY <2>1, <2>2
<1>2. Keeps
  BY <1>1 DEF Keeps, storeVars, ledgerVars
<1>3. PublicationTypes'
  <2>1. /\ stands' \in [Publishers -> PublisherStates]
        /\ edition' \in [Publishers -> SUBSET Editions]
    BY <1>1 DEF PublicationTypes, GoTo, PublisherStates
  <2>2. put' \in [Publishers -> [Keys -> PutStates]]
    BY <1>1 DEF PublicationTypes, PutStates
  <2> QED
    BY <1>1, <2>1, <2>2 DEF PublicationTypes, storeVars, ledgerVars
<1>4. StoreInv' /\ LedgerInv'
  BY <1>1, <1>2, StoreKept, LedgerKept DEF storeVars
<1>5. stands'[p] = state /\ edition'[p] = E /\ \A k \in Keys : put'[p][k] = "todo"
  BY <1>1 DEF GoTo, PublicationTypes
<1>6. StageInv(p)' /\ \A k \in Keys : UploadInv(p, k)'
  BY <1>1, <1>5 DEF StageInv, UploadInv
<1>7. PublisherInv'
  BY <1>1, <1>2, <1>6, PublishersKept DEF GoTo, PublicationTypes
<1> QED
  BY <1>3, <1>4, <1>7

LEMMA PublicationStep ==
  ASSUME PublicationAssumption
  PROVE  PublicationIInv /\ [PublicationNext]_publicationVars => PublicationIInv'
<1> SUFFICES ASSUME PublicationIInv, [PublicationNext]_publicationVars
             PROVE  PublicationIInv'
  OBVIOUS
<1>1. ASSUME NEW p \in Publishers,
             Crash(p) \/ \E e \in Editions : Start(p, e)
      PROVE  PublicationIInv'
  BY <1>1, PublisherRestarts
<1>2. ASSUME NEW p \in Publishers, Begin(p) \/ BeginUnheard(p)
      PROVE  PublicationIInv'
  BY <1>2, RunClaimed
<1>3. ASSUME NEW p \in Publishers,
             BeginConflicts(p) \/ UploadsFail(p) \/ TransactionFails(p)
      PROVE  PublicationIInv'
  BY <1>3, FallsBack DEF BeginConflicts, UploadsFail, TransactionFails
<1>4. ASSUME NEW p \in Publishers, NEW k \in Keys,
             Upload(p, k) \/ RequestFails(p, k)
      PROVE  PublicationIInv'
  BY <1>4, UploadStep
<1>5. ASSUME NEW p \in Publishers,
             ArtifactsStored(p) \/ ManifestStored(p) \/ DashboardEnds(p)
      PROVE  PublicationIInv'
  BY <1>5, StageDone
<1>6. ASSUME NEW p \in Publishers, Finalize(p) \/ FinalizeUnheard(p)
      PROVE  PublicationIInv'
  BY <1>6, RunFinalized
<1>7. ASSUME NEW m \in inflight, ServePut(m)
      PROVE  PublicationIInv'
  BY <1>7, PutServed
<1>8. ASSUME NEW m \in inflight, LosePut(m)
      PROVE  PublicationIInv'
  BY <1>8, NothingMade DEF LosePut
<1>9. CASE BecomeCalm \/ UNCHANGED publicationVars
  BY <1>9, NothingMade DEF BecomeCalm, publicationVars, storeVars
<1> QED
  BY <1>1, <1>2, <1>3, <1>4, <1>5, <1>6, <1>7, <1>8, <1>9
     DEF PublicationNext, Progress, Fault, StoreServes

(* Whatever fails or comes late, the stores and the publishers keep the    *)
(* invariant above.                                                        *)
THEOREM PublicationInvariant == PublicationSpec => []PublicationIInv
<1> USE PublicationAssumption
<1>1. PublicationInit => PublicationIInv
  BY PublicationInitially
<1>2. PublicationIInv /\ [PublicationNext]_publicationVars => PublicationIInv'
  BY PublicationStep
<1> QED
  BY <1>1, <1>2, PTL DEF PublicationSpec

(* Who finds a manifest finds all it binds, and a published run is the one *)
(* edition that is claimed, stored and in the rows; and no publisher ever  *)
(* reports success for another.                                            *)
THEOREM NamedIsStored == PublicationSpec => []StoredBeforeNamed
<1> USE PublicationAssumption
<1>1. PublicationIInv => StoredBeforeNamed
  <2> SUFFICES ASSUME PublicationIInv
               PROVE  StoredBeforeNamed
    OBVIOUS
  <2> USE DEF PublicationIInv
  <2>1. ASSUME NEW r \in Runs, NEW e \in objects[r]
        PROVE  Stored(e) /\ claim[r] = {e}
    <3>1. r \in Keys /\ r \notin Digests
      BY DEF Keys, PublicationAssumption
    <3>2. objects[r] = {e} /\ RunOf[e] = r /\ claim[r] = {e} /\ ArtifactsIn(e)
      BY <3>1 DEF StoreInv, Fit
    <3> QED
      BY <3>2 DEF Stored, ArtifactsIn
  <2>2. \A r \in published : \E e \in Editions :
          RunOf[e] = r /\ claim[r] = {e} /\ rows[r] = {e} /\ Stored(e)
    BY DEF LedgerInv
  <2>3. \A p \in Publishers : stands[p] \in {"dashboard", "done"} =>
          \A e \in edition[p] : RunOf[e] \in published /\ claim[RunOf[e]] = {e}
    BY DEF PublisherInv, StageInv
  <2> QED
    BY <2>1, <2>2, <2>3
       DEF StoredBeforeNamed, ManifestMeansComplete, PublishedMeansStored
<1> QED
  BY <1>1, PublicationInvariant, PTL

-----------------------------------------------------------------------------
(* The refinement: a step of publication is a step of the ledger's promise *)
(* or changes nothing that it speaks of.                                   *)
Available == {e \in Editions : Stored(e)}

(* Claiming and finalizing leave the bucket as it is.                      *)
LEMMA AvailableKept ==
  ASSUME objects' = objects
  PROVE  Available' = Available
BY DEF Available, Stored

LEMMA ClaimImplements ==
  ASSUME PublicationAssumption, PublicationIInv, NEW p \in Publishers,
         Begin(p) \/ BeginUnheard(p)
  PROVE  \/ \E e \in Editions : Ledger!Claim(e)
         \/ UNCHANGED <<claim, published, Available>>
<1>1. PICK e \in edition[p] :
        /\ claim[RunOf[e]] \in {{}, {e}}
        /\ claim' = [claim EXCEPT ![RunOf[e]] = {e}]
        /\ UNCHANGED <<objects, published>>
  BY DEF Begin, BeginUnheard, ClaimRun, storeVars
<1>2. e \in Editions /\ claim \in [Runs -> SUBSET Editions]
  BY DEF PublicationIInv, PublicationTypes
<1>3. Available' = Available
  BY <1>1, AvailableKept
<1>4. CASE claim[RunOf[e]] = {}
  BY <1>1, <1>2, <1>3, <1>4 DEF Ledger!Claim, Available
<1>5. CASE claim[RunOf[e]] = {e}
  <2>1. claim' = claim
    BY <1>1, <1>2, <1>5
  <2> QED
    BY <1>1, <1>3, <2>1
<1> QED
  BY <1>1, <1>4, <1>5

LEMMA PublishImplements ==
  ASSUME PublicationAssumption, PublicationIInv, NEW p \in Publishers,
         Finalize(p) \/ FinalizeUnheard(p)
  PROVE  \E e \in Editions : Ledger!Publish(e)
<1>1. PICK e \in edition[p] :
        /\ stands[p] = "finalize" /\ claim[RunOf[e]] = {e}
        /\ published' = published \union {RunOf[e]}
        /\ UNCHANGED <<objects, claim>>
  BY DEF Finalize, FinalizeUnheard, FinalizeRun, storeVars
<1>2. e \in Editions
  BY DEF PublicationIInv, PublicationTypes
<1>3. Stored(e)
  BY <1>1 DEF PublicationIInv, PublisherInv, StageInv, Stored, ArtifactsIn
<1>4. Available' = Available
  BY <1>1, AvailableKept
<1> QED
  BY <1>1, <1>2, <1>3, <1>4 DEF Ledger!Publish, Available

(* A served artifact completes nothing, for no manifest that binds it is   *)
(* there yet; a served manifest makes its own edition available.           *)
LEMMA StoreImplements ==
  ASSUME PublicationAssumption, PublicationIInv, NEW m \in inflight, ServePut(m)
  PROVE  \/ \E e \in Editions : Ledger!Store(e)
         \/ UNCHANGED <<claim, published, Available>>
<1>1. /\ objects' = [objects EXCEPT ![m.key] = IF @ = {} THEN {m.content} ELSE @]
      /\ UNCHANGED <<claim, published>>
  BY DEF ServePut, StoreIfNoneMatch, ledgerVars
<1>2. m.key \in Keys /\ Fit(m.key, m.content)
  BY DEF PublicationIInv, PublicationTypes, StoreInv, Put
<1>3. \A k \in Keys :
         objects'[k] = IF k = m.key /\ objects[k] = {} THEN {m.content}
                       ELSE objects[k]
  BY <1>1 DEF PublicationIInv, PublicationTypes
<1>4. Keeps
  BY <1>1, <1>3 DEF Keeps
<1>5. \A e \in Editions : Stored(e) => Stored(e)'
  BY <1>4, FitKept DEF PublicationIInv
<1>6. ASSUME NEW e \in Editions, objects[RunOf[e]] = {e}
      PROVE  Stored(e)
  <2>1. Fit(RunOf[e], e) /\ RunOf[e] \notin Digests
    BY <1>6, KeysApart DEF PublicationIInv, StoreInv
  <2> QED
    BY <1>6, <2>1 DEF Fit, Stored, ArtifactsIn
<1>7. ASSUME NEW e \in Editions, Stored(e)', ~Stored(e)
      PROVE  /\ m.key \in Runs /\ e = m.content
             /\ m.content \in Editions /\ RunOf[m.content] = m.key
             /\ claim[m.key] = {m.content}
  <2>1. objects'[RunOf[e]] = {e} /\ objects[RunOf[e]] # {e}
    BY <1>6, <1>7 DEF Stored
  <2>2. RunOf[e] = m.key /\ e = m.content
    BY <1>3, <2>1, KeysApart
  <2> QED
    BY <1>2, <2>2, KeysApart DEF Fit
<1>8. CASE \E e \in Editions : Stored(e)' /\ ~Stored(e)
  <2>1. PICK e \in Editions : Stored(e)' /\ ~Stored(e)
    BY <1>8
  <2>2. /\ e = m.content /\ RunOf[e] = m.key /\ e \in claim[RunOf[e]]
    BY <1>7, <2>1
  <2>3. Available' = Available \union {e}
    BY <1>5, <1>7, <2>1, <2>2 DEF Available
  <2> QED
    BY <1>1, <2>2, <2>3 DEF Ledger!Store, Available
<1>9. CASE \A e \in Editions : Stored(e)' => Stored(e)
  <2>1. Available' = Available
    BY <1>5, <1>9 DEF Available
  <2> QED
    BY <1>1, <2>1
<1> QED
  BY <1>8, <1>9

(* The publishers, the bucket and the database together keep the ledger's  *)
(* promise: absent, claimed for one edition, published as that one once    *)
(* all of it can be fetched, for ever.                                     *)
THEOREM LedgerImplemented == PublicationSpec => LedgerPromise
<1> USE PublicationAssumption
<1>1. PublicationInit => Ledger!Init
  <2> SUFFICES ASSUME PublicationInit
               PROVE  Ledger!Init
    OBVIOUS
  <2>1. \A e \in Editions : ~Stored(e)
    BY KeysApart DEF PublicationInit, Stored
  <2> QED
    BY <2>1 DEF PublicationInit, Ledger!Init
<1>2. PublicationIInv /\ [PublicationNext]_publicationVars
        => [Ledger!Next]_<<claim, published, {e \in Editions : Stored(e)}>>
  <2> SUFFICES ASSUME PublicationIInv, [PublicationNext]_publicationVars
               PROVE  \/ Ledger!Next
                      \/ UNCHANGED <<claim, published, Available>>
    BY DEF Available
  <2>1. ASSUME NEW p \in Publishers, Begin(p) \/ BeginUnheard(p)
        PROVE  Ledger!Next \/ UNCHANGED <<claim, published, Available>>
    BY <2>1, ClaimImplements DEF Ledger!Next
  <2>2. ASSUME NEW p \in Publishers, Finalize(p) \/ FinalizeUnheard(p)
        PROVE  Ledger!Next
    BY <2>2, PublishImplements DEF Ledger!Next
  <2>3. ASSUME NEW m \in inflight, ServePut(m)
        PROVE  Ledger!Next \/ UNCHANGED <<claim, published, Available>>
    BY <2>3, StoreImplements DEF Ledger!Next
  <2>4. CASE UNCHANGED <<objects, claim, published>>
    BY <2>4, AvailableKept
  <2>5. ASSUME NEW p \in Publishers, NEW k \in Keys,
               Upload(p, k) \/ RequestFails(p, k)
        PROVE  UNCHANGED <<objects, claim, published>>
    BY <2>5 DEF Upload, HeadObject, SendPut, PutAnswered, PutRaces,
                VerifyExisting, PutTimesOut, RequestFails, storeVars, ledgerVars
  <2>6. ASSUME NEW p \in Publishers,
               \/ BeginConflicts(p) \/ UploadsFail(p) \/ TransactionFails(p)
               \/ ArtifactsStored(p) \/ ManifestStored(p) \/ DashboardEnds(p)
               \/ Crash(p) \/ \E e \in Editions : Start(p, e)
        PROVE  UNCHANGED <<objects, claim, published>>
    BY <2>6 DEF BeginConflicts, UploadsFail, TransactionFails, ArtifactsStored,
                ManifestStored, DashboardEnds, Crash, Start, storeVars, ledgerVars
  <2>7. ASSUME \/ BecomeCalm \/ UNCHANGED publicationVars
               \/ \E m \in inflight : LosePut(m)
        PROVE  UNCHANGED <<objects, claim, published>>
    BY <2>7 DEF BecomeCalm, publicationVars, LosePut, storeVars, ledgerVars
  <2> QED
    BY <2>1, <2>2, <2>3, <2>4, <2>5, <2>6, <2>7
       DEF PublicationNext, Progress, Fault, StoreServes
<1> QED
  BY <1>1, <1>2, PublicationInvariant, PTL
     DEF PublicationSpec, LedgerPromise, Ledger!Spec


-----------------------------------------------------------------------------
(***************************************************************************)
(* Theorems about the dashboard refresh, for any number of publishers,     *)
(* runs and entries on the page, while sessions last (RefreshSpec).        *)
(*                                                                         *)
(* The argument: the lock makes whoever reads the projections the only     *)
(* writer of the files until it is done, and the newest projections of a   *)
(* set show or outrank each of its members.  So both pages a refresh may   *)
(* leave behind, its own and the one it found, show what was reported.     *)
(***************************************************************************)

RefreshTypes ==
  /\ at \in [Refreshers -> RefreshStates]
  /\ run \in [Refreshers -> SUBSET TargetRuns]
  /\ projections \subseteq TargetRuns
  /\ lock \subseteq Refreshers
  /\ seen \in [Refreshers -> SUBSET TargetRuns]
  /\ previous \in [Refreshers -> SUBSET TargetRuns]
  /\ page \subseteq TargetRuns
  /\ receipt \subseteq TargetRuns
  /\ reported \subseteq projections

Holding == RefreshStates \ {"idle", "store", "lock"}
HasRead == Holding \ {"read", "abort"}

(* Who stands between reading and the end of its transaction holds the     *)
(* lock, alone.                                                            *)
LockInv ==
  /\ \A p \in Refreshers : p \in lock <=> at[p] \in Holding
  /\ \A p, q \in lock : p = q

(* A page made of S shows run r, or as many newer runs as it holds.        *)
Covers(S, r) == r \in S \/ Cardinality({q \in S : q > r}) >= HistoryLimit

(* Where a refresh stands in the replacement of the two files.             *)
FilesInv(p) ==
  /\ at[p] \notin {"idle", "store"} => run[p] \subseteq projections
  /\ at[p] \in HasRead => \A r \in reported \union run[p] : Covers(seen[p], r)
  /\ at[p] \in HasRead \ {"compare", "commit"} =>
       \A r \in reported : Covers(previous[p], r)
  /\ at[p] \in {"receipt", "onlyReceipt", "commit"} => page = seen[p]
  /\ at[p] = "commit" => receipt = seen[p]

RefreshIInv ==
  /\ RefreshTypes /\ LockInv
  /\ \A p \in Refreshers : FilesInv(p)
  /\ \A r \in reported : Covers(page, r)

-----------------------------------------------------------------------------
(* A member of F that contains no other.                                   *)
HasMinimal(F) == \E T \in F : \A U \in F : U \subseteq T => U = T

(* There is one among the subsets of a finite set.                         *)
LEMMA MinimalSubset ==
  ASSUME NEW S, IsFiniteSet(S), NEW F \in SUBSET (SUBSET S), F # {}
  PROVE  HasMinimal(F)
<1>1. IsWellFoundedOn(StrictSubsetOrdering(S), SUBSET S)
  BY FS_StrictSubsetOrderingWellFounded, FS_FiniteSubsetsOfFinite
<1>2. PICK T \in F : \A U \in F : ~ (<<U, T>> \in StrictSubsetOrdering(S))
  BY <1>1, WFMin
<1> QED
  BY <1>2 DEF StrictSubsetOrdering, HasMinimal

(* Newest() drops only what is outranked by a page full of newer ones.     *)
LEMMA NewestCovers ==
  ASSUME RefreshAssumption, NEW S \in SUBSET TargetRuns, NEW r \in S
  PROVE  Newest(S) \subseteq S /\ Covers(Newest(S), r)
<1> DEFINE Above(x) == {q \in S : q > x}
           Dropped == {x \in S : x >= r /\ x \notin Newest(S)}
<1>1. IsFiniteSet(S) /\ \A q \in S : q \in Nat
  BY FS_Subset DEF RefreshAssumption
<1>2. \A x \in S : Cardinality(Above(x)) \in Nat
  <2>1. \A x \in S : Above(x) \subseteq S
    OBVIOUS
  <2> QED
    BY <1>1, <2>1, FS_Subset, FS_CardinalityType
<1>3. /\ Newest(S) \subseteq S
      /\ \A x \in S \ Newest(S) : Cardinality(Above(x)) >= HistoryLimit
  BY <1>2 DEF Newest, RefreshAssumption
<1>4. CASE r \in Newest(S)
  BY <1>3, <1>4 DEF Covers
<1>5. CASE r \notin Newest(S)
  <2>1. r \in Dropped
    BY <1>1, <1>5
  <2>2. PICK m \in Dropped :
          \A x \in Dropped : Above(x) \subseteq Above(m) => Above(x) = Above(m)
    <3> DEFINE F == {Above(x) : x \in Dropped}
    <3>1. F \in SUBSET (SUBSET S) /\ F # {}
      BY <2>1
    <3>2. PICK T \in F : \A U \in F : U \subseteq T => U = T
      <4> HIDE DEF F, Dropped, Above
      <4>1. HasMinimal(F)
        BY <1>1, <3>1, MinimalSubset
      <4> QED
        BY <4>1 DEF HasMinimal
    <3>3. PICK m \in Dropped : T = Above(m)
      OBVIOUS
    <3>4. ASSUME NEW x \in Dropped, Above(x) \subseteq Above(m)
          PROVE  Above(x) = Above(m)
      <4>1. Above(x) \in F
        OBVIOUS
      <4> HIDE DEF F, Dropped, Above
      <4> QED
        BY <3>2, <3>3, <3>4, <4>1
    <3> QED
      BY <3>4
  <2>3. m \in S \ Newest(S) /\ m >= r
    OBVIOUS
  <2>4. ASSUME NEW x \in Above(m)
        PROVE  x \in Newest(S) /\ x > r
    <3>1. x \in S /\ x > m /\ x \in Nat /\ m \in Nat /\ r \in Nat
      BY <1>1, <2>3
    <3>2. x >= r /\ x > r /\ ~ (x > x)
      BY <2>3, <3>1
    <3>3. \A q \in S : q > x => q > m
      BY <1>1, <3>1
    <3>4. Above(x) \subseteq Above(m) /\ x \notin Above(x)
      BY <3>2, <3>3
    <3>5. x \notin Dropped
      BY <2>2, <3>4
    <3> QED
      BY <3>1, <3>2, <3>5
  <2>5. Above(m) \subseteq {q \in Newest(S) : q > r}
    BY <2>4
  <2>6. /\ IsFiniteSet({q \in Newest(S) : q > r})
        /\ Cardinality({q \in Newest(S) : q > r}) \in Nat
    <3>1. {q \in Newest(S) : q > r} \subseteq S
      BY <1>3
    <3> QED
      BY <1>1, <3>1, FS_Subset, FS_CardinalityType
  <2>7. Cardinality({q \in Newest(S) : q > r}) >= Cardinality(Above(m))
    BY <2>5, <2>6, FS_Subset
  <2>8. Cardinality({q \in Newest(S) : q > r}) >= HistoryLimit
    BY <1>2, <1>3, <2>3, <2>6, <2>7 DEF RefreshAssumption
  <2> QED
    BY <1>3, <2>8 DEF Covers
<1> QED
  BY <1>4, <1>5

LEMMA RefreshInitially == RefreshInit => RefreshIInv
BY DEF RefreshInit, RefreshIInv, RefreshTypes, LockInv, FilesInv, RefreshStates,
       Holding, HasRead

-----------------------------------------------------------------------------
(* What a publisher does leaves the others where they are: they are not    *)
(* past the lock while it writes.                                          *)
LEMMA OthersKept ==
  ASSUME RefreshIInv, NEW p \in Refreshers,
         RefreshTypes', LockInv', FilesInv(p)',
         \A q \in Refreshers \ {p} :
           /\ at'[q] = at[q] /\ run'[q] = run[q]
           /\ seen'[q] = seen[q] /\ previous'[q] = previous[q],
         projections \subseteq projections',
         UNCHANGED <<siteVars, reported>> \/ at[p] \in Holding,
         \A r \in reported' : Covers(page', r)
  PROVE  RefreshIInv'
<1>1. ASSUME NEW q \in Refreshers, q # p
      PROVE  FilesInv(q)'
  <2>1. /\ FilesInv(q) /\ at'[q] = at[q] /\ run'[q] = run[q]
        /\ seen'[q] = seen[q] /\ previous'[q] = previous[q]
    BY <1>1 DEF RefreshIInv
  <2>2. CASE UNCHANGED <<siteVars, reported>>
    BY <2>1, <2>2 DEF FilesInv, siteVars
  <2>3. CASE at[p] \in Holding
    <3>1. at[q] \notin Holding
      BY <1>1, <2>3 DEF RefreshIInv, LockInv
    <3> QED
      BY <2>1, <3>1 DEF FilesInv, HasRead, Holding, RefreshStates
  <2> QED
    BY <2>2, <2>3
<1> QED
  BY <1>1 DEF RefreshIInv

LEMMA Moves ==
  ASSUME RefreshTypes, NEW p \in Refreshers, NEW from, NEW to \in RefreshStates,
         MoveTo(p, from, to)
  PROVE  /\ at[p] = from /\ at'[p] = to
         /\ at' \in [Refreshers -> RefreshStates]
         /\ \A q \in Refreshers \ {p} : at'[q] = at[q]
BY DEF MoveTo, RefreshTypes

(* publishRun() calls the refresh, and the projection is stored.           *)
LEMMA BeforeTheLock ==
  ASSUME RefreshIInv, NEW p \in Refreshers,
         StoreProjection(p) \/ \E r \in TargetRuns : Execute(p, r)
  PROVE  RefreshIInv'
<1> USE DEF RefreshIInv
<1>1. CASE StoreProjection(p)
  <2>1. /\ MoveTo(p, "store", "lock") /\ projections' = projections \union run[p]
        /\ UNCHANGED <<run, lock, seen, previous, page, receipt, reported>>
    BY <1>1 DEF StoreProjection, readVars, siteVars
  <2>2. /\ at[p] = "store" /\ at'[p] = "lock"
        /\ at' \in [Refreshers -> RefreshStates]
        /\ \A q \in Refreshers \ {p} : at'[q] = at[q]
    BY <2>1, Moves DEF RefreshStates
  <2>3. RefreshTypes'
    BY <2>1, <2>2 DEF RefreshTypes
  <2>4. LockInv'
    BY <2>1, <2>2 DEF LockInv, Holding
  <2>5. FilesInv(p)'
    BY <2>1, <2>2 DEF FilesInv, HasRead, Holding
  <2> QED
    BY <2>1, <2>2, <2>3, <2>4, <2>5, OthersKept DEF siteVars
<1>2. ASSUME NEW r \in TargetRuns, Execute(p, r)
      PROVE  RefreshIInv'
  <2>1. /\ MoveTo(p, "idle", "store") /\ run' = [run EXCEPT ![p] = {r}]
        /\ UNCHANGED <<projections, lock, seen, previous, page, receipt, reported>>
    BY <1>2 DEF Execute, readVars, siteVars
  <2>2. /\ at[p] = "idle" /\ at'[p] = "store"
        /\ at' \in [Refreshers -> RefreshStates]
        /\ \A q \in Refreshers \ {p} : at'[q] = at[q]
    BY <2>1, Moves DEF RefreshStates
  <2>3. RefreshTypes' /\ \A q \in Refreshers \ {p} : run'[q] = run[q]
    BY <2>1, <2>2 DEF RefreshTypes
  <2>4. LockInv'
    BY <2>1, <2>2 DEF LockInv, Holding
  <2>5. FilesInv(p)'
    BY <2>2 DEF FilesInv, HasRead, Holding
  <2> QED
    BY <2>1, <2>2, <2>3, <2>4, <2>5, OthersKept DEF siteVars
<1> QED
  BY <1>1, <1>2

(* The lock is granted to one when nobody holds it.                        *)
LEMMA LockTaken ==
  ASSUME RefreshIInv, NEW p \in Refreshers, AcquireLock(p)
  PROVE  RefreshIInv'
<1> USE DEF RefreshIInv
<1>1. /\ MoveTo(p, "lock", "read") /\ lock = {} /\ lock' = {p}
      /\ UNCHANGED <<run, projections, seen, previous, page, receipt, reported>>
  BY DEF AcquireLock, TakeLock, readVars, siteVars
<1>2. /\ at[p] = "lock" /\ at'[p] = "read"
      /\ at' \in [Refreshers -> RefreshStates]
      /\ \A q \in Refreshers \ {p} : at'[q] = at[q]
  BY <1>1, Moves DEF RefreshStates
<1>3. RefreshTypes'
  BY <1>1, <1>2 DEF RefreshTypes
<1>4. LockInv'
  BY <1>1, <1>2 DEF LockInv, Holding, RefreshStates
<1>5. FilesInv(p)'
  BY <1>1, <1>2 DEF FilesInv, HasRead, Holding
<1> QED
  BY <1>1, <1>2, <1>3, <1>4, <1>5, OthersKept DEF siteVars

(* A step of the holder of the lock, inside its transaction.               *)
LEMMA HolderMoves ==
  ASSUME RefreshIInv, NEW p \in Refreshers,
         NEW from \in Holding, NEW to \in Holding, MoveTo(p, from, to),
         RefreshTypes', FilesInv(p)',
         \A q \in Refreshers \ {p} : /\ seen'[q] = seen[q]
                                     /\ previous'[q] = previous[q],
         UNCHANGED <<run, projections, lock, reported>>,
         \A r \in reported : Covers(page', r)
  PROVE  RefreshIInv'
<1>1. /\ at[p] = from /\ at'[p] = to
      /\ \A q \in Refreshers \ {p} : at'[q] = at[q]
  BY Moves DEF RefreshIInv, Holding
<1>2. LockInv'
  BY <1>1 DEF RefreshIInv, LockInv
<1> QED
  BY <1>1, <1>2, OthersKept

(* What is read covers what was reported, and the run of the reader.       *)
LEMMA ProjectionsRead ==
  ASSUME RefreshAssumption, RefreshIInv, NEW p \in Refreshers, ReadProjections(p)
  PROVE  RefreshIInv'
<1> USE DEF RefreshIInv
<1>1. /\ MoveTo(p, "read", "compare")
      /\ seen' = [seen EXCEPT ![p] = Newest(projections)]
      /\ UNCHANGED <<run, projections, lock, previous, page, receipt, reported>>
  BY DEF ReadProjections, siteVars
<1>2. /\ at[p] = "read" /\ at'[p] = "compare"
      /\ at' \in [Refreshers -> RefreshStates]
  BY <1>1, Moves DEF RefreshStates
<1>3. Newest(projections) \subseteq projections
  BY DEF Newest
<1>4. /\ seen'[p] = Newest(projections) /\ RefreshTypes'
      /\ \A q \in Refreshers \ {p} : seen'[q] = seen[q]
  <2>1. projections \subseteq TargetRuns
    BY DEF RefreshTypes
  <2>2. seen' \in [Refreshers -> SUBSET TargetRuns]
    BY <1>1, <1>3, <2>1 DEF RefreshTypes
  <2> QED
    BY <1>1, <1>2, <2>2 DEF RefreshTypes
<1>5. \A r \in projections : Covers(Newest(projections), r)
  BY NewestCovers DEF RefreshTypes
<1>6. reported \subseteq projections /\ run[p] \subseteq projections
  BY <1>2 DEF RefreshTypes, FilesInv
<1>7. FilesInv(p)'
  BY <1>1, <1>2, <1>4, <1>5, <1>6 DEF FilesInv
<1> QED
  BY <1>1, <1>4, <1>7, HolderMoves DEF Holding, RefreshStates

(* The old page is kept for the rollback.                                  *)
LEMMA SiteCompared ==
  ASSUME RefreshIInv, NEW p \in Refreshers, CompareSite(p)
  PROVE  RefreshIInv'
<1> USE DEF RefreshIInv
<1>1. PICK to \in {"onlyReceipt", "page"} :
        /\ MoveTo(p, "compare", to)
        /\ to = "onlyReceipt" => page = seen[p]
        /\ previous' = [previous EXCEPT ![p] = page]
        /\ UNCHANGED <<run, projections, lock, seen, page, receipt, reported>>
  BY DEF CompareSite, AfterCompare, siteVars
<1>2. /\ at[p] = "compare" /\ at'[p] = to
      /\ at' \in [Refreshers -> RefreshStates]
  BY <1>1, Moves DEF RefreshStates
<1>3. /\ previous'[p] = page /\ RefreshTypes'
      /\ \A q \in Refreshers \ {p} : previous'[q] = previous[q]
  BY <1>1, <1>2 DEF RefreshTypes
<1>4. FilesInv(p)'
  BY <1>1, <1>2, <1>3 DEF FilesInv, HasRead, Holding, RefreshStates
<1> QED
  BY <1>1, <1>3, <1>4, HolderMoves DEF Holding, RefreshStates

(* The files are replaced, or put back, or a step in between fails.        *)
LEMMA FilesReplaced ==
  ASSUME RefreshIInv, NEW p \in Refreshers,
         \/ RenamePage(p) \/ RenameReceipt(p) \/ ReceiptFails(p)
         \/ RollbackPage(p) \/ RollbackFails(p) \/ CommitFails(p) \/ StepFails(p)
  PROVE  RefreshIInv'
<1> USE DEF RefreshIInv
<1>1. UNCHANGED <<run, projections, lock, seen, previous, reported>>
  BY DEF RenamePage, RenameReceipt, ReceiptFails, RollbackPage, RollbackFails,
         CommitFails, StepFails, readVars
<1>2. CASE RenamePage(p)
  <2>1. MoveTo(p, "page", "receipt") /\ page' = seen[p] /\ receipt' = receipt
    BY <1>2 DEF RenamePage
  <2>2. /\ at[p] = "page" /\ at'[p] = "receipt"
        /\ at' \in [Refreshers -> RefreshStates]
    BY <2>1, Moves DEF RefreshStates
  <2>3. RefreshTypes'
    BY <1>1, <2>1, <2>2 DEF RefreshTypes
  <2>4. FilesInv(p)' /\ \A r \in reported : Covers(page', r)
    BY <1>1, <2>1, <2>2 DEF FilesInv, HasRead, Holding, RefreshStates
  <2> QED
    BY <1>1, <2>1, <2>3, <2>4, HolderMoves DEF Holding, RefreshStates
<1>3. CASE RenameReceipt(p)
  <2>1. PICK from \in {"receipt", "onlyReceipt"} :
          MoveTo(p, from, "commit") /\ receipt' = seen[p] /\ page' = page
    BY <1>3 DEF RenameReceipt
  <2>2. /\ at[p] = from /\ at'[p] = "commit"
        /\ at' \in [Refreshers -> RefreshStates]
    BY <2>1, Moves DEF RefreshStates
  <2>3. RefreshTypes'
    BY <1>1, <2>1, <2>2 DEF RefreshTypes
  <2>4. FilesInv(p)'
    BY <1>1, <2>1, <2>2 DEF FilesInv, HasRead, Holding, RefreshStates
  <2> QED
    BY <1>1, <2>1, <2>3, <2>4, HolderMoves DEF Holding, RefreshStates
<1>4. CASE RollbackPage(p)
  <2>1. /\ MoveTo(p, "rollbackPage", "abort")
        /\ page' = previous[p] /\ receipt' = receipt
    BY <1>4 DEF RollbackPage
  <2>2. /\ at[p] = "rollbackPage" /\ at'[p] = "abort"
        /\ at' \in [Refreshers -> RefreshStates]
    BY <2>1, Moves DEF RefreshStates
  <2>3. RefreshTypes'
    BY <1>1, <2>1, <2>2 DEF RefreshTypes
  <2>4. FilesInv(p)' /\ \A r \in reported : Covers(page', r)
    BY <1>1, <2>1, <2>2 DEF FilesInv, HasRead, Holding, RefreshStates
  <2> QED
    BY <1>1, <2>1, <2>3, <2>4, HolderMoves DEF Holding, RefreshStates
<1>5. CASE ReceiptFails(p) \/ RollbackFails(p) \/ CommitFails(p) \/ StepFails(p)
  <2>1. PICK from \in HasRead \union {"read"} : \E to \in {"rollbackPage", "abort"} :
          /\ MoveTo(p, from, to)
          /\ to = "rollbackPage" => from = "receipt"
          /\ UNCHANGED <<page, receipt>>
    BY <1>5 DEF ReceiptFails, RollbackFails, CommitFails, StepFails, siteVars,
                HasRead, Holding, RefreshStates
  <2>2. PICK to \in {"rollbackPage", "abort"} :
          /\ MoveTo(p, from, to)
          /\ to = "rollbackPage" => from = "receipt"
          /\ UNCHANGED <<page, receipt>>
    BY <2>1
  <2>3. /\ at[p] = from /\ at'[p] = to
        /\ at' \in [Refreshers -> RefreshStates]
    BY <2>2, Moves DEF RefreshStates
  <2>4. RefreshTypes'
    BY <1>1, <2>2, <2>3 DEF RefreshTypes
  <2>5. FilesInv(p)'
    BY <1>1, <2>2, <2>3 DEF FilesInv, HasRead, Holding, RefreshStates
  <2> QED
    BY <1>1, <2>2, <2>4, <2>5, HolderMoves DEF HasRead, Holding, RefreshStates
<1> QED
  BY <1>2, <1>3, <1>4, <1>5

(* The refresh returns or throws, or its process dies; the lock is free    *)
(* when it was its.  What Commit() reports is on the page it wrote.        *)
LEMMA RefreshEnds ==
  ASSUME RefreshIInv, NEW p \in Refreshers,
         Commit(p) \/ Abort(p) \/ StartFails(p) \/ ProcessDies(p)
  PROVE  RefreshIInv'
<1> USE DEF RefreshIInv
<1>1. /\ at' = [at EXCEPT ![p] = "idle"] /\ run' = [run EXCEPT ![p] = {}]
      /\ seen' = [seen EXCEPT ![p] = {}]
      /\ previous' = [previous EXCEPT ![p] = {}]
      /\ UNCHANGED <<projections, page, receipt>>
  BY DEF Commit, Abort, StartFails, ProcessDies, Leave, siteVars
<1>2. lock' = lock \ {p}
  <2>1. CASE StartFails(p)
    <3>1. at[p] \in {"store", "lock"} /\ lock' = lock
      BY <2>1 DEF StartFails, Leave
    <3> QED
      BY <3>1 DEF LockInv, Holding
  <2> QED
    BY <2>1 DEF Commit, Abort, EndTransaction, ProcessDies
<1>3. \/ reported' = reported
      \/ at[p] = "commit" /\ reported' = reported \union run[p]
  BY DEF Commit, Abort, StartFails, ProcessDies, Leave
<1>4. /\ reported' \subseteq projections /\ \A r \in reported' : Covers(page, r)
      /\ reported' = reported \/ at[p] \in Holding
  <2>1. CASE reported' = reported
    BY <2>1 DEF RefreshTypes
  <2>2. CASE at[p] = "commit" /\ reported' = reported \union run[p]
    BY <2>2 DEF RefreshTypes, FilesInv, HasRead, Holding, RefreshStates
  <2> QED
    BY <1>3, <2>1, <2>2
<1>5. RefreshTypes'
  BY <1>1, <1>2, <1>4 DEF RefreshTypes, RefreshStates
<1>6. /\ at'[p] = "idle"
      /\ \A q \in Refreshers \ {p} :
           /\ at'[q] = at[q] /\ run'[q] = run[q]
           /\ seen'[q] = seen[q] /\ previous'[q] = previous[q]
  BY <1>1 DEF RefreshTypes
<1>7. LockInv'
  BY <1>2, <1>6 DEF LockInv, Holding
<1>8. FilesInv(p)'
  BY <1>6 DEF FilesInv, HasRead, Holding
<1> QED
  BY <1>1, <1>4, <1>5, <1>6, <1>7, <1>8, OthersKept DEF siteVars

LEMMA RefreshStep ==
  ASSUME RefreshAssumption
  PROVE  RefreshIInv /\ [RefreshNext]_refreshVars => RefreshIInv'
<1> SUFFICES ASSUME RefreshIInv, [RefreshNext]_refreshVars
             PROVE  RefreshIInv'
  OBVIOUS
<1>1. ASSUME NEW p \in Refreshers,
             \/ \E r \in TargetRuns : Execute(p, r)
             \/ RefreshProgress(p) \/ ProcessDies(p)
      PROVE  RefreshIInv'
  BY <1>1, BeforeTheLock, LockTaken, ProjectionsRead, SiteCompared,
     FilesReplaced, RefreshEnds DEF RefreshProgress
<1>2. CASE UNCHANGED refreshVars
  <2>1. UNCHANGED <<at, run, projections, lock, seen, previous, page, receipt,
                    reported>>
    BY <1>2 DEF refreshVars, readVars, siteVars
  <2> QED
    BY <2>1 DEF RefreshIInv, RefreshTypes, LockInv, FilesInv
<1> QED
  BY <1>1, <1>2 DEF RefreshNext

-----------------------------------------------------------------------------
(* However refreshes queue, fail, roll back and die, the files and what    *)
(* the publishers hold of them keep the invariant above.                   *)
THEOREM RefreshInvariant == RefreshSpec => []RefreshIInv
<1> USE RefreshAssumption
<1>1. RefreshInit => RefreshIInv
  BY RefreshInitially
<1>2. RefreshIInv /\ [RefreshNext]_refreshVars => RefreshIInv'
  BY RefreshStep
<1> QED
  BY <1>1, <1>2, PTL DEF RefreshSpec

(* A reported run stays on the page or is outranked by a page full of      *)
(* newer ones, and a reported refresh leaves the receipt of its page.      *)
THEOREM ReportedRunsStay == RefreshSpec => []RefreshSound
<1>1. RefreshIInv => RefreshSound
  BY DEF RefreshIInv, RefreshSound, ReportedStaysVisible, Covers, FilesInv
<1> QED
  BY <1>1, RefreshInvariant, PTL

==============================================================================
