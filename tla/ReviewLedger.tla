---------------------------- MODULE ReviewLedger ----------------------------
(***************************************************************************)
(* What the review queue promises (the docstring of pipeline/review.py):   *)
(* a draft waits for a person; accepting it puts exactly the version that  *)
(* was shown into the world, in one step with the decision; rejecting it   *)
(* leaves the world alone; a decided item never changes again.             *)
(***************************************************************************)
EXTENDS Drafts

VARIABLES status, payload, canon
vars == <<status, payload, canon>>

Init ==
    /\ status = [i \in Items |-> "none"]
    /\ payload \in [Items -> Revs]
    /\ canon \in HumanBundles

Propose(i) ==
    /\ status[i] = "none"
    /\ status' = [status EXCEPT ![i] = "pending_review"]
    /\ UNCHANGED <<payload, canon>>

Revise(i) ==
    /\ status[i] = "pending_review"
    /\ \E v \in Revs : payload' = [payload EXCEPT ![i] = v]
    /\ UNCHANGED <<status, canon>>

Reject(i) ==
    /\ status[i] = "pending_review"
    /\ status' = [status EXCEPT ![i] = "rejected"]
    /\ UNCHANGED <<payload, canon>>

Accept(i) ==
    /\ status[i] = "pending_review"
    /\ ItemType[i] # "patch_candidate"
    /\ status' = [status EXCEPT ![i] = "accepted"]
    /\ canon' = IF Writes(i) THEN Materialise(canon, i, payload[i]) ELSE canon
    /\ ~ Overwrites(canon, i)
    /\ LogicApplies(canon, i)
    /\ Errors(canon') \subseteq Errors(canon)
    /\ UNCHANGED payload

HumanEdit ==
    /\ \E o \in Objs : \/ o \notin Present(canon) /\ canon' = Created(canon, o)
                       \/ o \in Present(canon) /\ canon' = Deleted(canon, o)
    /\ UNCHANGED <<status, payload>>

Next ==
    \/ \E i \in Items : Propose(i) \/ Revise(i) \/ Reject(i) \/ Accept(i)
    \/ HumanEdit

Spec == Init /\ [][Next]_vars
=============================================================================
