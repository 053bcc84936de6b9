------------------------------- MODULE XdmApi -------------------------------
(***************************************************************************)
(* The indexer's REST endpoints for transfers and health                   *)
(* (indexer/src/api.rs), reading the tables while XdmStore's processors    *)
(* write them.  A query is one statement; an answer is a sequence of       *)
(* transfers, and where the ORDER BY leaves their order open the operator  *)
(* gives every answer the database may return.                             *)
(*                                                                         *)
(* The amounts' scale and the wording of a response are left out.          *)
(***************************************************************************)
EXTENDS XdmStore

CONSTANTS
    Time,           \* Time[c][h]: the time of block h of chain c
    MaxRecent       \* MAX_RECENT_TRANSFERS

ASSUME ApiAssumption ==
    /\ \A c \in Chains : Time[c] \in Seq(Nat) /\ Len(Time[c]) = Top(c)
    /\ MaxRecent \in Nat

VARIABLE health     \* what a health request has read so far, 0 for nothing

apiVars == <<vars, health>>

Unread == [c \in Chains |-> 0]
Healthy == \A c \in Chains : health[c] # 0
-----------------------------------------------------------------------------
\* `get_last_processed_block` for one of the keys of `health_check`.  The
\* queries of a request run side by side.
HealthRead(c) ==
    /\ health[c] = 0
    /\ checkpoint[c] # 0
    /\ health' = [health EXCEPT ![c] = checkpoint[c]]
    /\ UNCHANGED vars

\* A processor that has saved no checkpoint yet fails the request.
HealthFails ==
    /\ \E c \in Chains : health[c] = 0 /\ checkpoint[c] = 0
    /\ health # Unread
    /\ health' = Unread
    /\ UNCHANGED vars

HealthAgain ==
    /\ Healthy
    /\ health' = Unread
    /\ UNCHANGED vars

ApiInit == Init /\ health = Unread

ApiNext ==
    \/ Next /\ UNCHANGED health
    \/ \E c \in Chains : HealthRead(c)
    \/ HealthFails \/ HealthAgain

ApiSpec == ApiInit /\ [][ApiNext]_apiVars
-----------------------------------------------------------------------------
\* A block's number, hash and time, or nothing when the columns are NULL.
MaybeBlockDetails(c, h) ==
    IF h = 0 THEN <<>> ELSE <<[block_number |-> h, block_time |-> Time[c][h]]>>

\* Mutant: execution and acknowledgement change places.
XdmTransferSwapped(k) ==
    [key |-> k,
     initiated_src_block |-> MaybeBlockDetails(k[1], rows[k].initiated),
     executed_dst_block |-> MaybeBlockDetails(k[1], rows[k].acknowledged),
     acknowledged_src_block |-> MaybeBlockDetails(k[2], rows[k].executed),
     transfer_successful |-> rows[k].transfer_successful]

XdmTransfer(k) ==
    [key |-> k,
     initiated_src_block |-> MaybeBlockDetails(k[1], rows[k].initiated),
     executed_dst_block |-> MaybeBlockDetails(k[2], rows[k].executed),
     acknowledged_src_block |-> MaybeBlockDetails(k[1], rows[k].acknowledged),
     transfer_successful |-> rows[k].transfer_successful]

\* `order by transfer_initiated_on_src_at desc`, which orders no two
\* transfers of one time.
InitiatedAt(k) == Time[k[1]][rows[k].initiated]

Ordered(keys) ==
    {s \in SetToSeqs(keys) : \A i, j \in DOMAIN s :
        i < j => InitiatedAt(s[i]) >= InitiatedAt(s[j])}

Respond(s) == [i \in DOMAIN s |-> XdmTransfer(s[i])]

\* A row has no sender and receiver until its initiation is stored.
get_xdm_transfer_for_address(a) ==
    Ordered({k \in DOMAIN rows : a \in rows[k].parties})

xdm_address_transfers(a) ==
    {Respond(s) : s \in get_xdm_transfer_for_address(a)}

\* Mutant: without `desc`.
get_oldest_xdm_transfers(limit) ==
    {UpTo(Reverse(s), limit) : s \in Ordered({k \in DOMAIN rows : rows[k].initiated # 0})}

get_recent_xdm_transfers(limit) ==
    {UpTo(s, limit) : s \in Ordered({k \in DOMAIN rows : rows[k].initiated # 0})}

Limited(limit) == IF limit > MaxRecent THEN MaxRecent ELSE limit

recent_xdm_transfers(limit) ==
    {Respond(s) : s \in get_recent_xdm_transfers(Limited(limit))}
-----------------------------------------------------------------------------
\* The block of chain c up to n that holds an event of one of these kinds
\* about the transfer k, as a response gives it.
Told(k, c, n, kinds) ==
    LET at == {h \in 1 .. n : From(k, c, h, kinds)}
    IN  MaybeBlockDetails(c, IF at = {} THEN 0 ELSE Max(at))

Tells(details, c, n, k, kinds) ==
    Told(k, c, n, kinds) # <<>> => details = Told(k, c, n, kinds)

(***************************************************************************)
(* HealthCovers: a client that was told how far each chain is processed    *)
(* finds, under the sender's and the receiver's address, every transfer    *)
(* initiated up to there, with each of its blocks up to there: also while  *)
(* blocks are processed again, with the checkpoint set back below what     *)
(* the client was told, and after a crash.  A transfer whose initiation    *)
(* the source chain's processor has not reached is found under no address. *)
(***************************************************************************)
HealthCovers ==
    Healthy => \A c \in Chains : \A h \in 1 .. health[c] : \A i \in DOMAIN Events[c][h] :
        LET e == Events[c][h][i]
            k == Key(c, e)
        IN  e.kind = "initiated" =>
                \A a \in e.parties : \A answer \in xdm_address_transfers(a) :
                    \E j \in DOMAIN answer :
                        LET t == answer[j] IN
                        /\ t.key = k
                        /\ Tells(t.initiated_src_block, c, health[c], k, {"initiated"})
                        /\ Tells(t.executed_dst_block, k[2], health[k[2]], k, {"incoming"})
                        /\ Tells(t.acknowledged_src_block, c, health[c], k,
                                 {"successful", "failed"})

(***************************************************************************)
(* RecentAreNewest: of the transfers initiated up to the blocks a client   *)
(* was told of, an answer to `recent` leaves one out only for as many      *)
(* others as it may hold, none of them older, whichever chain they come    *)
(* from and whichever of the two processors is ahead.                      *)
(***************************************************************************)
RecentAreNewest ==
    Healthy => \A limit \in 0 .. MaxRecent + 1 :
        \A answer \in recent_xdm_transfers(limit) :
            /\ Len(answer) <= MaxRecent
            /\ \A c \in Chains : \A h \in 1 .. health[c] : \A i \in DOMAIN Events[c][h] :
                  Events[c][h][i].kind = "initiated" =>
                      \/ \E j \in DOMAIN answer : answer[j].key = Key(c, Events[c][h][i])
                      \/ /\ Len(answer) = Limited(limit)
                         /\ \A j \in DOMAIN answer :
                               answer[j].initiated_src_block[1].block_time >= Time[c][h]
=============================================================================
