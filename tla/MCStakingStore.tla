--------------------------- MODULE MCStakingStore ---------------------------
(***************************************************************************)
(* StakingStore for chains of three blocks.  In MCEvents operator o1       *)
(* registers and is nominated, its nominator comes twice and starts to     *)
(* withdraw, and leaves as an epoch ends and a bundle of o1 is invalid,    *)
(* while o2 registers and is gone two blocks later.  An epoch that ends    *)
(* as the two register has no price of theirs, the owner's fee is the      *)
(* registration's and pairs with no nomination, and the nominator's second *)
(* nomination has no fee.  In MCEventsReturn o1 is deactivated and returns *)
(* in the next block.                                                      *)
(***************************************************************************)
EXTENDS StakingStore

CONSTANTS o1, o2, owner, alice

MCOperators == {o1, o2}
MCAddresses == {owner, alice}

Event(kind, o, a, n) == [kind |-> kind, op |-> o, addr |-> a, n |-> n, ops |-> {}]
Epoch(n, os) == [Event("epoch", o1, owner, n) EXCEPT !.ops = os]

MCEvents ==
    << <<Event("registered", o1, owner, 0), Event("fee", o1, owner, 9),
         Event("fee", o1, alice, 1), Event("nominated", o1, alice, 0),
         Event("registered", o2, owner, 0), Epoch(6, {})>>,
       <<Event("fee", o1, alice, 2), Event("nominated", o1, alice, 0),
         Event("fee", o1, alice, 3), Event("nominated", o1, alice, 0),
         Event("nominated", o1, alice, 0),
         Event("withdrew", o1, alice, 0)>>,
       <<Event("stakedUnlocked", o1, alice, 0), Event("deregistered", o2, owner, 0),
         Event("slashed", o2, owner, 0), Event("nominatorUnlocked", o2, owner, 0),
         Epoch(7, {o1}), Event("invalid_bundle", o1, owner, 0)>> >>

MCEventsReturn ==
    << <<Event("registered", o1, owner, 0)>>,
       <<Event("deactivated", o1, owner, 0)>>,
       <<Event("reactivated", o1, owner, 0)>> >>
=============================================================================
