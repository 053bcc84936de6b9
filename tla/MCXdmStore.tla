----------------------------- MODULE MCXdmStore -----------------------------
(***************************************************************************)
(* The consensus chain and one domain.  Message 1 goes from consensus to   *)
(* the domain and succeeds, message 2 fails, and a message 1 goes the      *)
(* other way.  The domain's first block fills two segments, its second one *)
(* exactly one.                                                            *)
(***************************************************************************)
EXTENDS XdmApi

Of(kind, chain, nonce, amount) ==
    [kind |-> kind, chain |-> chain, nonce |-> nonce, amount |-> amount,
     parties |-> IF nonce = 2 THEN {"alice"} ELSE {"alice", "bob"}]

MCChains == {"consensus", "domain"}
MCParties == {"alice", "bob"}

MCEvents ==
    [consensus |->
        << <<Of("initiated", "domain", 1, 10), Of("initiated", "domain", 2, 20)>>,
           <<Of("successful", "domain", 1, 10), Of("incoming", "domain", 1, 30)>>,
           <<Of("failed", "domain", 2, 20)>> >>,
     domain |->
        << <<Of("other", "domain", 0, 1), Of("other", "domain", 0, 1),
             Of("initiated", "consensus", 1, 30),
             Of("incoming", "consensus", 1, 10)>>,
           <<Of("successful", "consensus", 1, 30),
             Of("other", "domain", 0, 1)>> >>]

\* The domain's first block is older than the last two of the consensus chain.
MCTime == [consensus |-> <<1, 3, 5>>, domain |-> <<2, 4>>]
=============================================================================
