---------------------------- MODULE MCStakingApi ----------------------------
(***************************************************************************)
(* StakingApi for a chain of three blocks in which alice nominates o1 in   *)
(* the first block and twice in the second, bob in the last; alice         *)
(* withdraws in the first and the last, and an epoch ends in the last two. *)
(* A client asks for fewer rows than one, or for more than a page may      *)
(* hold.                                                                   *)
(***************************************************************************)
EXTENDS StakingApi

CONSTANTS o1, owner, alice, bob

MCOperators == {o1}
MCAddresses == {owner, alice, bob}

Event(kind, o, a, n) == [kind |-> kind, op |-> o, addr |-> a, n |-> n, ops |-> {}]
Epoch(n) == [Event("epoch", o1, owner, n) EXCEPT !.ops = {o1}]

MCEvents ==
    << <<Event("registered", o1, owner, 0), Event("nominated", o1, alice, 0),
         Event("withdrew", o1, alice, 0)>>,
       <<Event("nominated", o1, alice, 0), Event("nominated", o1, alice, 0),
         Epoch(1)>>,
       <<Event("nominated", o1, bob, 0), Event("withdrew", o1, alice, 0),
         Epoch(2)>> >>

MCLimit ==
    [what \in Tx \union PriceLists |->
        IF what \in {"deposits", "prices until"} THEN -1 ELSE 9]
=============================================================================
