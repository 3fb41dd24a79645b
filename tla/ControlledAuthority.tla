------------------------- MODULE ControlledAuthority -------------------------
(***************************************************************************)
(* The chain of one-use capabilities that ends in a dispatched tools/call: *)
(*   - the proposal review (src/src/audit/v2/controlled-proposal.ts),      *)
(*   - the single-step permit (controlled-authority.ts), and               *)
(*   - the claim of the consumed permit by the reference monitor           *)
(*     (reference-monitor.ts).                                             *)
(* The functions are synchronous: a call is one step.  Callers may make    *)
(* any calls in any order with any arguments, their own clock included     *)
(* (every `now` is an argument); what they cannot do is forge an object,   *)
(* so an unknown capability is never found and changes nothing.            *)
(*                                                                         *)
(* A plan stands for what its digest commits to: the case with its tool    *)
(* and arguments, the catalog, the policy and the resource manifest.       *)
(* Compilation is deterministic, so two compile inputs give the same plan  *)
(* digest exactly when they give the same plan.                            *)
(***************************************************************************)
EXTENDS Naturals, Sequences

CONSTANTS
  Reviews,      (* review capabilities that may be issued                    *)
  Permits,      (* permits that may be issued                                *)
  Plans,        (* what a plan digest commits to                             *)
  Trees,        (* digests of a mounted target tree                          *)
  Fixtures,     (* the authority's allowlist entries                         *)
  Allowed,      (* the allowlisted tree of a fixture                         *)
  ReviewNeeded, (* proposalReviewRequired of a fixture                       *)
  Ranks,        (* ranks of the approval classes                             *)
  Required,     (* the rank a plan's case requires                           *)
  CompiledAt,   (* when a plan and the hypothesis on it were made            *)
  PolicyEnd,    (* the expiry of a plan's policy                             *)
  MaxTime,      (* the last instant considered                               *)
  MaxLifetime   (* of a permit and of a review: five minutes both            *)

Times == 0..MaxTime

ASSUME AuthorityAssumption ==
  /\ Allowed \in [Fixtures -> Trees]
  /\ ReviewNeeded \in [Fixtures -> BOOLEAN]
  /\ Ranks \subseteq Nat
  /\ Required \in [Plans -> Ranks]
  /\ CompiledAt \in [Plans -> Nat]
  /\ PolicyEnd \in [Plans -> Nat]
  /\ MaxTime \in Nat
  /\ MaxLifetime \in Nat
  /\ Reviews \intersect Permits = {}

VARIABLES
  reviews,      (* review capability -> {} or {its state}                    *)
  spent,        (* reviews whose `consumed` flag is set                      *)
  permits,      (* permit -> {} or {its authorization}                       *)
  consumed,     (* permit -> {} or {consumedAt}                              *)
  claimed,      (* consumed capabilities with dispatchClaimed                *)
  prepared,     (* history: the dispatches the monitor prepared, in order    *)
  refused       (* history: reviews and permits that failed a check          *)

permitVars == <<reviews, spent, permits, consumed, claimed, prepared, refused>>

Review == [plan: Plans, rank: Ranks, at: Times, until: Times]

(* The record's schema asks that expiresAt follow issuedAt.                *)
Authorization ==
  {a \in [fixture: Fixtures, plan: Plans, tree: Trees, issuedAt: Times,
          expiresAt: Times, review: SUBSET Reviews] : a.issuedAt < a.expiresAt}

PermitInit ==
  /\ reviews = [r \in Reviews |-> {}]
  /\ spent = {}
  /\ permits = [p \in Permits |-> {}]
  /\ consumed = [p \in Permits |-> {}]
  /\ claimed = {}
  /\ prepared = <<>>
  /\ refused = {}

-----------------------------------------------------------------------------
(* createControlledProposalReview(): the operator's class must reach what  *)
(* the plan requires, and the record's schema bounds the window.           *)
IssueReview(r, plan, rank, at, until) ==
  /\ reviews[r] = {}
  /\ rank >= Required[plan]
  /\ at >= CompiledAt[plan]
  /\ at < until /\ until <= at + MaxLifetime /\ until <= PolicyEnd[plan]
  /\ reviews' = [reviews EXCEPT ![r] =
                   {[plan |-> plan, rank |-> rank, at |-> at, until |-> until]}]
  /\ UNCHANGED <<spent, permits, consumed, claimed, prepared, refused>>

(* consumeControlledProposalReviewCapability(), and what the authority     *)
(* then compares with the reviewed record.                                 *)
ReviewAdmits(v, plan, issuedAt) ==
  /\ issuedAt >= v.at
  /\ issuedAt < v.until
  /\ plan = v.plan

(* The window of an authorization: within its plan's and its policy's.     *)
PermitWindow(plan, issuedAt, expiresAt) ==
  /\ issuedAt >= CompiledAt[plan]
  /\ expiresAt <= issuedAt + MaxLifetime
  /\ expiresAt <= PolicyEnd[plan]

(* The checks of issueSingleStepPermit() that a review does not change.    *)
PermitAdmissible(f, plan, submitted, mounted, rank, issuedAt, expiresAt) ==
  /\ submitted = plan
  /\ mounted = Allowed[f]
  /\ rank >= Required[plan]
  /\ issuedAt < expiresAt
  /\ PermitWindow(plan, issuedAt, expiresAt)

NewPermit(p, f, plan, mounted, issuedAt, expiresAt, used) ==
  permits' = [permits EXCEPT ![p] =
                {[fixture |-> f, plan |-> plan, tree |-> mounted,
                  issuedAt |-> issuedAt, expiresAt |-> expiresAt,
                  review |-> used]}]

WithinReview(v, expiresAt) == expiresAt <= v.until

(* Mutant: a permit that is refused leaves the review usable.              *)
SpendOnSuccessOnly(r, ok) == spent' = IF ok THEN spent \union {r} ELSE spent

(* The review is burned before anything is compared with it.               *)
Spend(r, ok) == spent' = spent \union {r}

(* issueSingleStepPermit() for a fixture that requires a review.           *)
IssueReviewed(p, f, r, plan, submitted, mounted, issuedAt, expiresAt) ==
  /\ ReviewNeeded[f]
  /\ permits[p] = {}
  /\ r \notin spent
  /\ \E v \in reviews[r] :
       LET ok == /\ ReviewAdmits(v, plan, issuedAt)
                 /\ PermitAdmissible(f, plan, submitted, mounted, v.rank,
                                     issuedAt, expiresAt)
                 /\ WithinReview(v, expiresAt)
       IN /\ Spend(r, ok)
          /\ IF ok
             THEN /\ NewPermit(p, f, plan, mounted, issuedAt, expiresAt, {r})
                  /\ refused' = refused
             ELSE /\ permits' = permits
                  /\ refused' = refused \union {r}
  /\ UNCHANGED <<reviews, consumed, claimed, prepared>>

(* ... and for one that does not.                                          *)
IssueUnreviewed(p, f, plan, submitted, mounted, rank, issuedAt, expiresAt) ==
  /\ ~ReviewNeeded[f]
  /\ permits[p] = {}
  /\ PermitAdmissible(f, plan, submitted, mounted, rank, issuedAt, expiresAt)
  /\ NewPermit(p, f, plan, mounted, issuedAt, expiresAt, {})
  /\ UNCHANGED <<reviews, spent, consumed, claimed, prepared, refused>>

(* consumeSingleStepPermit(): a failed check does not consume the permit.  *)
Consume(p, now) ==
  /\ consumed[p] = {}
  /\ \E a \in permits[p] : now >= a.issuedAt /\ now < a.expiresAt
  /\ consumed' = [consumed EXCEPT ![p] = {now}]
  /\ UNCHANGED <<reviews, spent, permits, claimed, prepared, refused>>

(* Mutant: the plan is not compiled again against the live catalog.        *)
StalePlan(a, since, plan, mounted, now) ==
  /\ now >= since
  /\ now < a.expiresAt
  /\ mounted = a.tree
  /\ now < PolicyEnd[a.plan]

(* revalidateControlledDispatch() after its claim.  `plan` is what a fresh *)
(* compilation gives against the live catalog, with the current resources  *)
(* and policy, for the tool and arguments about to be sent.                *)
PermitCurrent(a, since, plan, mounted, now) ==
  /\ now >= since
  /\ now < a.expiresAt
  /\ mounted = a.tree
  /\ plan = a.plan
  /\ now < PolicyEnd[a.plan]

(* claimConsumedControlledExecutionForDispatch(): "Claim before any        *)
(* validation so an exception cannot restore authority."                   *)
Claim(p, ok) == claimed' = claimed \union {p}

Dispatch(p, plan, mounted, now) ==
  /\ consumed[p] # {}
  /\ p \notin claimed
  /\ \E a \in permits[p], since \in consumed[p] :
       LET ok == PermitCurrent(a, since, plan, mounted, now)
       IN /\ Claim(p, ok)
          /\ prepared' = IF ~ok THEN prepared
                         ELSE Append(prepared, [permit |-> p, plan |-> plan,
                                                tree |-> mounted, at |-> now])
          /\ refused' = IF ok THEN refused ELSE refused \union {p}
  /\ UNCHANGED <<reviews, spent, permits, consumed>>

PermitNext ==
  \/ \E r \in Reviews, plan \in Plans, rank \in Ranks, at, until \in Times :
       IssueReview(r, plan, rank, at, until)
  \/ \E p \in Permits, f \in Fixtures, plan, submitted \in Plans,
        mounted \in Trees, issuedAt, expiresAt \in Times :
       \/ \E r \in Reviews :
            IssueReviewed(p, f, r, plan, submitted, mounted, issuedAt, expiresAt)
       \/ \E rank \in Ranks :
            IssueUnreviewed(p, f, plan, submitted, mounted, rank, issuedAt,
                            expiresAt)
  \/ \E p \in Permits, now \in Times : Consume(p, now)
  \/ \E p \in Permits, plan \in Plans, mounted \in Trees, now \in Times :
       Dispatch(p, plan, mounted, now)

PermitSpec == PermitInit /\ [][PermitNext]_permitVars

-----------------------------------------------------------------------------
Prepared == [permit: Permits, plan: Plans, tree: Trees, at: Times]

(* Types of the capability tables.                                         *)
PermitTypeOK ==
  /\ reviews \in [Reviews -> SUBSET Review]
  /\ spent \subseteq Reviews
  /\ permits \in [Permits -> SUBSET Authorization]
  /\ consumed \in [Permits -> SUBSET Times]
  /\ claimed \subseteq Permits
  /\ prepared \in Seq(Prepared)
  /\ refused \subseteq Permits \union Reviews

(* The review capabilities a prepared dispatch descends from.              *)
ReviewsOf(i) == UNION {a.review : a \in permits[prepared[i].permit]}

(* However calls are repeated and interleaved, one permit yields at most   *)
(* one dispatch and one review at most one, over all permits.  And "a      *)
(* failed check burns the claim": a review that was refused never stands   *)
(* behind a permit, and a permit the monitor refused never dispatches.     *)
LinksUsedOnce ==
  /\ \A i, j \in DOMAIN prepared :
       i # j => /\ prepared[i].permit # prepared[j].permit
                /\ ReviewsOf(i) \intersect ReviewsOf(j) = {}
  /\ \A p \in Permits : \A a \in permits[p] : a.review \intersect refused = {}
  /\ \A i \in DOMAIN prepared : prepared[i].permit \notin refused

(* A dispatch happens after consumption and inside every window above it,  *)
(* the review's, the permit's, the policy's and the lifetime limit; and    *)
(* it is what was reviewed: over the allowlisted tree of its fixture, and, *)
(* where the fixture requires a review, the reviewed plan by a reviewer    *)
(* whose class suffices for it.                                            *)
DispatchAsReviewed ==
  \A i \in DOMAIN prepared : LET d == prepared[i] IN
    \E a \in permits[d.permit], since \in consumed[d.permit] :
      /\ a.issuedAt <= since /\ since <= d.at
      /\ d.at < a.expiresAt /\ d.at < PolicyEnd[d.plan]
      /\ d.at < a.issuedAt + MaxLifetime
      /\ d.plan = a.plan /\ d.tree = Allowed[a.fixture]
      /\ \A r \in a.review : \A v \in reviews[r] :
           v.at <= d.at /\ d.at < v.until
      /\ ReviewNeeded[a.fixture] =>
           \E r \in a.review : \E v \in reviews[r] :
             v.plan = d.plan /\ v.rank >= Required[d.plan]

=============================================================================
