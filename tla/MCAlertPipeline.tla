-------------------------- MODULE MCAlertPipeline --------------------------
(***************************************************************************)
(* A fork of one block against two.  In a1 the watched account pays twice  *)
(* and ends below its threshold (2 AI3 of 10 Shannons), a known account    *)
(* receives from a stranger; in a2 the watched account holds just its      *)
(* threshold after a withdrawal, and sudo is used; in b1 one known account *)
(* pays the other, and the watched one is emptied and removed.             *)
(***************************************************************************)
EXTENDS AlertPipeline

CONSTANTS g, a1, a2, b1, vault, fund, hot, stranger

MCBlock == {g, a1, a2, b1}
MCParent == (a2 :> a1) @@ [b \in MCBlock |-> g]
MCNumber == [b \in MCBlock |-> CASE b = g -> 0 [] b = a2 -> 2 [] OTHER -> 1]
MCAccount == {vault, fund, hot, stranger}

Entry(kind, who, receiver) == [kind |-> kind, who |-> who, to |-> receiver]

MCEvents ==
    [b \in MCBlock |->
        CASE b = a1 -> <<Entry("Withdraw", hot, hot),
                         Entry("Transfer", stranger, fund),
                         Entry("Withdraw", hot, hot)>>
          [] b = a2 -> <<Entry("Sudo", hot, hot), Entry("Withdraw", hot, hot)>>
          [] b = b1 -> <<Entry("Deposit", stranger, hot),
                         Entry("Transfer", vault, fund),
                         Entry("Withdraw", hot, hot)>>
          [] OTHER  -> <<>>]

MCBalance ==
    [b \in MCBlock |-> [a \in MCAccount |->
        IF a # hot THEN 500 ELSE CASE b = a1 -> 19 [] b = b1 -> NoAccount [] OTHER -> 20]]

MCAccounts == <<[name |-> "old", address |-> vault], [name |-> "fund", address |-> fund],
                [name |-> "vault", address |-> vault]>>

MCBalanceAlerts == <<[name |-> "hot", address |-> hot, threshold_ai3 |-> 2]>>
=============================================================================
