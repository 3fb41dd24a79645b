------------------------------ MODULE RunLedger ------------------------------
(***************************************************************************)
(* What publishing promises a reader of the ledger, whoever publishes and  *)
(* whatever fails: a run is absent, then claimed for one edition of its    *)
(* evidence, then published as that edition, and it is published only when *)
(* everything the edition names can be fetched, for ever.                  *)
(***************************************************************************)
CONSTANTS Runs, Editions, RunOf

VARIABLES
  claim,       (* run -> {} or {the edition it is claimed for}               *)
  published,   (* the published runs                                         *)
  available    (* the editions whose every object can be fetched             *)

Init ==
  /\ claim = [r \in Runs |-> {}]
  /\ published = {}
  /\ available = {}

Claim(e) ==
  /\ claim[RunOf[e]] = {}
  /\ claim' = [claim EXCEPT ![RunOf[e]] = {e}]
  /\ UNCHANGED <<published, available>>

Store(e) ==
  /\ e \in claim[RunOf[e]]
  /\ available' = available \union {e}
  /\ UNCHANGED <<claim, published>>

Publish(e) ==
  /\ e \in claim[RunOf[e]] \intersect available
  /\ published' = published \union {RunOf[e]}
  /\ UNCHANGED <<claim, available>>

Next == \E e \in Editions : Claim(e) \/ Store(e) \/ Publish(e)

Spec == Init /\ [][Next]_<<claim, published, available>>

=============================================================================
