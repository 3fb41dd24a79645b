--------------------------- MODULE EnrolledAuthority ---------------------------
(***************************************************************************)
(* createEnrolledTargetAuthority() of                                      *)
(* src/src/audit/v2/enrolled-authority.ts: an enrolled target is reviewed  *)
(* once for one exact call, the review is consumed once, and the consumed  *)
(* review is presented for dispatch once.  Every link is claimed before    *)
(* anything is compared with it.  One enrollment may be registered any     *)
(* number of times, each time under a fresh capability: what may happen    *)
(* once may happen once for a capability.                                  *)
(*                                                                         *)
(* Registration, review and consumption are synchronous.  The last link is *)
(* not: revalidateDispatch() reads the clock, then waits for the prepared  *)
(* tree and for the resources to be hashed, and other calls run meanwhile. *)
(* The authority reads a clock of its own, which may be set back.          *)
(*                                                                         *)
(* A document stands for everything its digests commit to: the enrollment  *)
(* record with its target, runtime, sandbox and catalog, the plan of its   *)
(* one call and the hypothesis on it.  Callers may submit the document of  *)
(* another enrollment with any capability, but cannot forge a capability.  *)
(***************************************************************************)
EXTENDS Naturals, Sequences

CONSTANTS
  Documents,     (* whatever a caller can submit                             *)
  Capabilities,  (* the opaque objects that registrations return, ...        *)
  EnrollmentOf,  (* ... and the document each of them is made for            *)
  Presentations, (* calls of revalidateDispatch()                            *)
  Instants,      (* what the clock may read                                  *)
  ClassRanks,    (* APPROVAL_CLASS_RANK                                      *)
  OperatorRank,  (* ... of operator_review                                   *)
  CaseRank,      (* the rank a document's case requires                      *)
  RecordRank,    (* the rank its eligibility requires                        *)
  PlannedAt,     (* when its plan was compiled                               *)
  RecordedAt,    (* when it was enrolled                                     *)
  PolicyExpiry,  (* {} or {the expiry of its policy}                         *)
  ReviewLifetime (* ENROLLED_REVIEW_CAPABILITY_LIFETIME_MS                   *)

ASSUME EnrolledAssumption ==
  /\ EnrollmentOf \in [Capabilities -> Documents]
  /\ Instants \subseteq Nat /\ ClassRanks \subseteq Nat
  /\ CaseRank \in [Documents -> ClassRanks]
  /\ RecordRank \in [Documents -> ClassRanks]
  /\ PlannedAt \in [Documents -> Nat]
  /\ RecordedAt \in [Documents -> Nat]
  /\ \A d \in Documents : PolicyExpiry[d] \subseteq Nat
  /\ ReviewLifetime \in Nat

VARIABLES
  registered,      (* the capabilities that were issued                      *)
  reviewClaimed,   (* ... whose reviewClaimed is set                         *)
  callReviews,     (* capability -> {} or {its review record}                *)
  reviewUsed,      (* reviews whose `consumed` is set                        *)
  consumedAt,      (* capability -> {} or {when its review was consumed}     *)
  dispatchClaimed, (* consumed reviews whose dispatchClaimed is set          *)
  presented,       (* presentation -> {} or {where it waits}                 *)
  receipts,        (* the receipts issued, in order                          *)
  turnedAway,      (* history: <<capability, link>> that failed a check      *)
  hostTree,        (* document -> does the tree equal its snapshot?          *)
  hostResources    (* document -> do the resources equal their manifest?     *)

capabilityVars == <<registered, reviewClaimed, callReviews, reviewUsed,
                    consumedAt, dispatchClaimed>>
enrolledVars == <<capabilityVars, presented, receipts, turnedAway, hostTree,
                  hostResources>>

EnrolledInit ==
  /\ registered = {} /\ reviewClaimed = {} /\ reviewUsed = {}
  /\ callReviews = [k \in Capabilities |-> {}]
  /\ consumedAt = [k \in Capabilities |-> {}]
  /\ dispatchClaimed = {}
  /\ presented = [c \in Presentations |-> {}]
  /\ receipts = <<>>
  /\ turnedAway = {}
  /\ hostTree = [d \in Documents |-> TRUE]
  /\ hostResources = [d \in Documents |-> TRUE]

-----------------------------------------------------------------------------
(* The host may change what was enrolled, and restore it.                  *)
HostEdits(d) ==
  /\ \/ hostTree' = [hostTree EXCEPT ![d] = ~@] /\ UNCHANGED hostResources
     \/ hostResources' = [hostResources EXCEPT ![d] = ~@] /\ UNCHANGED hostTree
  /\ UNCHANGED <<capabilityVars, presented, receipts, turnedAway>>

(* validateEnrollmentContext(): the record agrees, digest by digest, with  *)
(* the target, tree, runtime, sandbox, catalog and transcript retained.    *)
ContextMatches(d, record) == record = d

(* registerVerifiedEnrollment(): a refused record registers nothing, and   *)
(* the capability is a new object.                                         *)
RegisterEnrollment(k, record) ==
  /\ k \notin registered
  /\ ContextMatches(EnrollmentOf[k], record)
  /\ registered' = registered \union {k}
  /\ UNCHANGED <<reviewClaimed, callReviews, reviewUsed, consumedAt,
                 dispatchClaimed, presented, receipts, turnedAway, hostTree,
                 hostResources>>

(* stricterApprovalClass() of what the case and the eligibility require.   *)
RequiredRank(d) ==
  IF CaseRank[d] >= RecordRank[d] THEN CaseRank[d] ELSE RecordRank[d]

(* The end of the review's window: five minutes, or the policy's expiry.   *)
CapabilityEnd(d, at) ==
  LET longest == at + ReviewLifetime
      earlier == {t \in PolicyExpiry[d] : t <= longest}
  IN IF earlier = {} THEN longest ELSE CHOOSE t \in earlier : TRUE

(* What the schema of the review record adds.                              *)
ReviewRecordValid(d, v) ==
  /\ PlannedAt[d] <= RecordedAt[d]
  /\ v.hypothesisAt >= PlannedAt[d] /\ v.hypothesisAt >= RecordedAt[d]
  /\ v.reviewedAt >= v.hypothesisAt
  /\ v.until > v.reviewedAt /\ v.until <= v.reviewedAt + ReviewLifetime
  /\ v.rank >= RequiredRank(d) /\ v.rank >= OperatorRank
  /\ \A t \in PolicyExpiry[d] : v.reviewedAt < t /\ v.until <= t

Reviewable(d, v) == v.until > v.reviewedAt /\ ReviewRecordValid(d, v)

(* "Burn before validation"                                                *)
ClaimReview(k, ok) == reviewClaimed' = reviewClaimed \union {k}

(* The review record and the capability that stands for it.                *)
IssueCallReview(k, v, ok) ==
  callReviews' = IF ok THEN [callReviews EXCEPT ![k] = {v}] ELSE callReviews

(* approveExactCall(): `record` and `hypothesis` are what was submitted.   *)
ApproveExactCall(k, record, hypothesis, hypothesisAt, rank, now) ==
  /\ k \in registered \ reviewClaimed
  /\ LET v == [hypothesisAt |-> hypothesisAt, rank |-> rank,
               reviewedAt |-> now, until |-> CapabilityEnd(EnrollmentOf[k], now)]
         ok == /\ ContextMatches(EnrollmentOf[k], record)
               /\ hypothesis = EnrollmentOf[k] /\ Reviewable(EnrollmentOf[k], v)
     IN /\ ClaimReview(k, ok)
        /\ IssueCallReview(k, v, ok)
        /\ turnedAway' = IF ok THEN turnedAway
                         ELSE turnedAway \union {<<k, "review">>}
  /\ UNCHANGED <<registered, reviewUsed, consumedAt, dispatchClaimed,
                 presented, receipts, hostTree, hostResources>>

InReviewWindow(v, from, now) == now >= from /\ now < v.until

(* consumeExactCallReview()                                                *)
ConsumeExactCallReview(k, record, now) ==
  /\ callReviews[k] # {} /\ k \notin reviewUsed
  /\ reviewUsed' = reviewUsed \union {k}
  /\ \E v \in callReviews[k] :
       IF record = EnrollmentOf[k] /\ InReviewWindow(v, v.reviewedAt, now)
       THEN /\ consumedAt' = [consumedAt EXCEPT ![k] = {now}]
            /\ UNCHANGED turnedAway
       ELSE /\ turnedAway' = turnedAway \union {<<k, "consume">>}
            /\ UNCHANGED consumedAt
  /\ UNCHANGED <<registered, reviewClaimed, callReviews, dispatchClaimed,
                 presented, receipts, hostTree, hostResources>>

(* Mutant: the claim is only made once the bytes are verified.             *)
ClaimAfterwards(k) == UNCHANGED dispatchClaimed

(* "Atomically burn the only dispatch claim before freshness work."        *)
ClaimDispatch(k) == dispatchClaimed' = dispatchClaimed \union {k}

DispatchWindow(k, v, now) ==
  /\ \A since \in consumedAt[k] : InReviewWindow(v, since, now)
  /\ \A t \in PolicyExpiry[EnrollmentOf[k]] : now < t

(* revalidateDispatch() up to its first await: `mounts` is the target whose *)
(* tree and resources the invocation mounts, `call` the one whose plan the *)
(* live catalog, the tool and the arguments give.                          *)
PresentDispatch(c, k, mounts, call, now) ==
  /\ presented[c] = {}
  /\ consumedAt[k] # {} /\ k \notin dispatchClaimed
  /\ ClaimDispatch(k)
  /\ \E v \in callReviews[k] :
       IF DispatchWindow(k, v, now) /\ mounts = EnrollmentOf[k]
       THEN /\ presented' = [presented EXCEPT ![c] =
                 {[capability |-> k, call |-> call, at |-> now,
                   waits |-> "tree"]}]
            /\ UNCHANGED turnedAway
       ELSE /\ turnedAway' = turnedAway \union {<<k, "dispatch">>}
            /\ UNCHANGED presented
  /\ UNCHANGED <<registered, reviewClaimed, callReviews, reviewUsed,
                 consumedAt, receipts, hostTree, hostResources>>

Refuse(c, k) ==
  /\ presented' = [presented EXCEPT ![c] = {}]
  /\ turnedAway' = turnedAway \union {<<k, "dispatch">>}
  /\ UNCHANGED receipts

(* verifyPreparedRuntimeTree() settles.                                    *)
TreeHashed(c) ==
  /\ \E p \in presented[c] :
       /\ p.waits = "tree"
       /\ IF hostTree[EnrollmentOf[p.capability]]
          THEN /\ presented' = [presented EXCEPT ![c] =
                                  {[p EXCEPT !.waits = "resources"]}]
               /\ UNCHANGED <<receipts, turnedAway>>
          ELSE Refuse(c, p.capability)
  /\ UNCHANGED <<capabilityVars, hostTree, hostResources>>

FreshCompilation(p) ==
  LET d == EnrollmentOf[p.capability] IN hostResources[d] /\ p.call = d

(* resources.verify() settles; the plan is compiled again, and the receipt *)
(* says when the clock was read, before the bytes were hashed.             *)
ResourcesHashed(c) ==
  /\ \E p \in presented[c] :
       /\ p.waits = "resources"
       /\ IF FreshCompilation(p)
          THEN /\ receipts' = Append(receipts,
                    [capability |-> p.capability, call |-> p.call,
                     checkedAt |-> p.at])
               /\ presented' = [presented EXCEPT ![c] = {}]
               /\ UNCHANGED turnedAway
          ELSE Refuse(c, p.capability)
  /\ UNCHANGED <<capabilityVars, hostTree, hostResources>>

EnrolledNext ==
  \/ \E k \in Capabilities, d \in Documents :
       \/ RegisterEnrollment(k, d)
       \/ \E now \in Instants :
            \/ ConsumeExactCallReview(k, d, now)
            \/ \E h \in Documents, at \in Instants, rank \in ClassRanks :
                 ApproveExactCall(k, d, h, at, rank, now)
            \/ \E c \in Presentations, call \in Documents :
                 PresentDispatch(c, k, d, call, now)
  \/ \E c \in Presentations : TreeHashed(c) \/ ResourcesHashed(c)
  \/ \E d \in Documents : HostEdits(d)

EnrolledSpec == EnrolledInit /\ [][EnrolledNext]_enrolledVars

-----------------------------------------------------------------------------
(* Types of the authority's maps.                                          *)
EnrolledTables ==
  /\ registered \subseteq Capabilities
  /\ reviewClaimed \subseteq registered
  /\ reviewUsed \subseteq reviewClaimed
  /\ dispatchClaimed \subseteq reviewUsed
  /\ callReviews \in [Capabilities -> SUBSET
       [hypothesisAt: Instants, rank: ClassRanks, reviewedAt: Instants,
        until: Nat]]
  /\ consumedAt \in [Capabilities -> SUBSET Instants]
  /\ receipts \in Seq([capability: Capabilities, call: Documents,
                       checkedAt: Instants])

(* However the calls are repeated, and although dispatches overlap while   *)
(* the bytes are hashed: one capability yields at most one receipt, and    *)
(* none once a check of any link has failed, whatever is presented later.  *)
CapabilityUsedOnce ==
  \A i \in DOMAIN receipts :
    /\ \A j \in DOMAIN receipts :
         i # j => receipts[i].capability # receipts[j].capability
    /\ \A link \in {"review", "consume", "dispatch"} :
         <<receipts[i].capability, link>> \notin turnedAway

(* A receipt is for the reviewed call, by a reviewer of sufficient class,  *)
(* and was checked after the hypothesis, the review and the consumption    *)
(* and before the review and the policy expired, however the clock jumps.  *)
ReceiptIsWhatWasReviewed ==
  \A i \in DOMAIN receipts : LET r == receipts[i]
                              k == r.capability
                              d == EnrollmentOf[k] IN
    /\ r.call = d
    /\ \E v \in callReviews[k], since \in consumedAt[k] :
         /\ RecordedAt[d] <= v.hypothesisAt
         /\ v.hypothesisAt <= v.reviewedAt
         /\ v.reviewedAt <= since /\ since <= r.checkedAt
         /\ r.checkedAt < v.until
         /\ r.checkedAt < v.reviewedAt + ReviewLifetime
         /\ \A t \in PolicyExpiry[d] : r.checkedAt < t
         /\ v.rank >= CaseRank[d] /\ v.rank >= RecordRank[d]

(* Both: a receipt is its capability's only one, and a sound one, however  *)
(* often its enrollment was registered.                                    *)
EnrolledReceiptsSound == CapabilityUsedOnce /\ ReceiptIsWhatWasReviewed

=============================================================================
