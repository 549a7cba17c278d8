---------------------------- MODULE PublicOffer ----------------------------
(***************************************************************************)
(* The last way to sell an auction whose winners all declined: an admin or *)
(* the seller queues a public notice, the notice worker makes the offer    *)
(* and reopens the row for buyers, and the buyer who pays first gets it.   *)
(* Offer, buyer rows and auction row are saved one after the other, with   *)
(* no transaction and no lock.                                             *)
(***************************************************************************)
EXTENDS Settlement

CONSTANTS
    StartPrice,         \* what the offer costs
    PublicCalls,        \* calls of the public-fallback use cases
    MaxNotices          \* bound on public notices that are queued

ASSUME PublicOfferAssumption == StartPrice \in Nat \ {0} /\ MaxNotices \in Nat

VARIABLES
    offer,              \* the PublicFallbackAuction row: its payment status
    buyers,             \* the buyer rows: status and payment of each user
    notices,            \* notices queued so far and still in the queue
    notice,             \* the notice worker
    pub                 \* the calls of buyers

offerVars == <<offer, buyers, notices, notice, pub>>

publicVars == <<settleVars, offerVars>>

NoRow == [status |-> "NONE", payment |-> "NONE"]

Buyer == [status : {"PENDING", "REJECTED"}, payment : {"PENDING", "PAID"}] \cup {NoRow}

PublicCall == [pc : {"idle", "order", "reject", "own", "auction", "buyer", "offer",
                     "payment", "row", "done"},
               user : Users \cup {NoUser},
               buyer : Buyer, row : AuctionRow]

PublicFresh == [pc |-> "idle", user |-> NoUser, buyer |-> NoRow,
                row |-> [status |-> "ENDED", winner |-> NoUser, amount |-> 0]]

PublicOver == [PublicFresh EXCEPT !.pc = "done"]

PublicTypeOK ==
    /\ SettleTypeOK
    /\ offer \in {"NONE", "PENDING", "PAID"}
    /\ buyers \in [Users -> Buyer]
    /\ notices \in [sent : 0..MaxNotices, queued : 0..MaxNotices]
    /\ notice \in {"idle", "offer", "row"}
    /\ pub \in [PublicCalls -> PublicCall]

PublicInit ==
    /\ SettleInit
    /\ offer = "NONE"
    /\ buyers = [u \in Users |-> NoRow]
    /\ notices = [sent |-> 0, queued |-> 0]
    /\ notice = "idle"
    /\ pub = [c \in PublicCalls |-> PublicFresh]

-----------------------------------------------------------------------------
\* sendPublicFallbackNotification
SendNotice ==
    /\ auction.status = "FALLBACK_ENDED" /\ notices.sent < MaxNotices
    /\ notices' = [sent |-> notices.sent + 1, queued |-> notices.queued + 1]
    /\ UNCHANGED <<settleVars, offer, buyers, notice, pub>>

\* The worker refuses a row that is not FALLBACK_ENDED ...
NoticeTake ==
    /\ notice = "idle" /\ notices.queued > 0
    /\ notices' = [notices EXCEPT !.queued = @ - 1]
    /\ notice' = IF auction.status = "FALLBACK_ENDED" THEN "offer" ELSE "idle"
    /\ UNCHANGED <<settleVars, offer, buyers, pub>>

\* ... makes the offer, one per auction ...
NoticeSaveOffer ==
    /\ notice = "offer"
    /\ IF offer = "NONE"
       THEN offer' = "PENDING" /\ notice' = "row"
       ELSE notice' = "idle" /\ UNCHANGED offer
    /\ UNCHANGED <<settleVars, buyers, notices, pub>>

\* ... and saves the row as it was read, open to buyers; participants that
\* never won are notified.  A row that has failed meanwhile is reopened.
NoticeSaveRow ==
    /\ notice = "row"
    /\ auction' = [status |-> "FALLBACK_PUBLIC_NOTIFICATION", winner |-> NoUser, amount |-> 0]
    /\ notice' = "idle"
    /\ UNCHANGED <<winners, payments, held, endJobs, fallbackJobs, worker, call,
                   crashes, failed, offer, buyers, notices, pub>>

NoticeFails ==
    /\ notice # "idle"
    /\ notice' = "idle" /\ failed' = TRUE
    /\ UNCHANGED <<auction, winners, payments, held, endJobs, fallbackJobs, worker, call,
                   crashes, offer, buyers, notices, pub>>

-----------------------------------------------------------------------------
PubAt(c, pc) == pub[c].pc = pc

PubGoTo(c, pc) == pub' = [pub EXCEPT ![c].pc = pc]

PubEnds(c) == pub' = [pub EXCEPT ![c] = PublicOver]

\* createPaymentOrderForPublicFallbackAuction: who never won and did not
\* reject the offer gets an order of the gateway, and a buyer row first.
CreateOrder(c, u) ==
    /\ PubAt(c, "idle")
    /\ auction.status = "FALLBACK_PUBLIC_NOTIFICATION"
    /\ u \in Eligible
    /\ offer = "PENDING"
    /\ buyers[u] = NoRow
    /\ pub' = [pub EXCEPT ![c].pc = "order", ![c].user = u]
    /\ UNCHANGED <<settleVars, offer, buyers, notices, notice>>

\* declinePublicFallbackAuction
RejectOffer(c, u) ==
    /\ PubAt(c, "idle")
    /\ auction.status = "FALLBACK_PUBLIC_NOTIFICATION"
    /\ pub' = [pub EXCEPT ![c].pc = "reject", ![c].user = u]
    /\ UNCHANGED <<settleVars, offer, buyers, notices, notice>>

\* A second row for the same user is refused, which neither call notices.
SaveNewBuyer(c) ==
    /\ pub[c].pc \in {"order", "reject"}
    /\ LET u == pub[c].user
           status == IF PubAt(c, "order") THEN "PENDING" ELSE "REJECTED"
       IN  buyers' = IF buyers[u] = NoRow
                     THEN [buyers EXCEPT ![u] = [status |-> status, payment |-> "PENDING"]]
                     ELSE buyers
    /\ PubEnds(c)
    /\ UNCHANGED <<settleVars, offer, notices, notice>>

\* verifyPublicAuctionPayment reads the offer ...
VerifyOffer(c, u) ==
    /\ PubAt(c, "idle")
    /\ offer = "PENDING"
    /\ pub' = [pub EXCEPT ![c].pc = "own", ![c].user = u]
    /\ UNCHANGED <<settleVars, offer, buyers, notices, notice>>

\* ... the buyer's row, which must be there and not paid ...
VerifyReadBuyer(c) ==
    /\ PubAt(c, "own")
    /\ IF buyers[pub[c].user].payment = "PENDING"
       THEN pub' = [pub EXCEPT ![c].pc = "auction", ![c].buyer = buyers[pub[c].user]]
       ELSE PubEnds(c)
    /\ UNCHANGED <<settleVars, offer, buyers, notices, notice>>

\* ... and the auction row ...
VerifyReadRow(c) ==
    /\ PubAt(c, "auction")
    /\ pub' = [pub EXCEPT ![c].pc = "buyer", ![c].row = auction]
    /\ UNCHANGED <<settleVars, offer, buyers, notices, notice>>

\* Faulty variant: who pays shuts out the other buyers.
VerifySaveBuyer_RefusesOthers(c) ==
    /\ PubAt(c, "buyer")
    /\ buyers' = [u \in Users |->
                     IF u = pub[c].user THEN [pub[c].buyer EXCEPT !.payment = "PAID"]
                     ELSE IF buyers[u] = NoRow THEN NoRow
                     ELSE [status |-> "REJECTED", payment |-> "PENDING"]]
    /\ PubGoTo(c, "offer")
    /\ UNCHANGED <<settleVars, offer, notices, notice>>

\* ... marks the buyer's row paid ...
VerifySaveBuyer(c) ==
    /\ PubAt(c, "buyer")
    /\ buyers' = [buyers EXCEPT ![pub[c].user] = [pub[c].buyer EXCEPT !.payment = "PAID"]]
    /\ PubGoTo(c, "offer")
    /\ UNCHANGED <<settleVars, offer, notices, notice>>

\* setWinner and setStatus let a row be sold, one that has failed too.
CanSell(row) == row.status # "SOLD" /\ CanSetStatus(row, "SOLD")

\* ... then the offer; a row that was read as SOLD is refused ...
VerifySaveOffer(c) ==
    /\ PubAt(c, "offer")
    /\ offer' = "PAID"
    /\ IF CanSell(pub[c].row) THEN PubGoTo(c, "payment") ELSE PubEnds(c)
    /\ UNCHANGED <<settleVars, buyers, notices, notice>>

\* ... creates the balance payment, unless the user has one ...
VerifyCreateBalance(c) ==
    /\ PubAt(c, "payment")
    /\ payments' = [payments EXCEPT ![pub[c].user]["BALANCE"] =
                      IF @ = "NONE" THEN "PENDING" ELSE @]
    /\ PubGoTo(c, "row")
    /\ UNCHANGED <<auction, winners, held, endJobs, fallbackJobs, worker, call,
                   crashes, failed, offer, buyers, notices, notice>>

\* ... and saves the row as sold to the buyer.
VerifySaveRow(c) ==
    /\ PubAt(c, "row")
    /\ auction' = [status |-> "SOLD", winner |-> pub[c].user, amount |-> StartPrice]
    /\ PubEnds(c)
    /\ UNCHANGED <<winners, payments, held, endJobs, fallbackJobs, worker, call,
                   crashes, failed, offer, buyers, notices, notice>>

\* A query fails and the call returns.  Failed saves of the buyer's row, the
\* offer and the balance go unnoticed: SkipSave.
PublicFails(c) ==
    /\ pub[c].pc \in {"order", "reject", "own", "auction", "payment", "row"}
    /\ PubEnds(c)
    /\ failed' = TRUE
    /\ UNCHANGED <<auction, winners, payments, held, endJobs, fallbackJobs, worker, call,
                   crashes, offer, buyers, notices, notice>>

SkipSave(c) ==
    /\ \/ PubAt(c, "buyer") /\ PubGoTo(c, "offer")
       \/ PubAt(c, "offer") /\ CanSell(pub[c].row) /\ PubGoTo(c, "payment")
       \/ PubAt(c, "offer") /\ ~CanSell(pub[c].row) /\ PubEnds(c)
       \/ PubAt(c, "payment") /\ PubGoTo(c, "row")
    /\ failed' = TRUE
    /\ UNCHANGED <<auction, winners, payments, held, endJobs, fallbackJobs, worker, call,
                   crashes, offer, buyers, notices, notice>>

\* The server dies; a notice being worked on is queued again.
PublicCrash ==
    /\ SettleCrash
    /\ notices' = [notices EXCEPT !.queued = IF notice = "idle" THEN @ ELSE @ + 1]
    /\ notice' = "idle"
    /\ pub' = [c \in PublicCalls |-> IF PubAt(c, "idle") THEN pub[c] ELSE PublicOver]
    /\ UNCHANGED <<offer, buyers>>

PublicStep(c) ==
    \/ \E u \in Users : CreateOrder(c, u) \/ RejectOffer(c, u) \/ VerifyOffer(c, u)
    \/ SaveNewBuyer(c) \/ VerifyReadBuyer(c) \/ VerifyReadRow(c) \/ VerifySaveBuyer(c) \/ VerifySaveOffer(c)
    \/ VerifyCreateBalance(c) \/ VerifySaveRow(c) \/ SkipSave(c) \/ PublicFails(c)

PublicNext ==
    \/ SettleWork /\ UNCHANGED offerVars
    \/ SendNotice \/ NoticeTake \/ NoticeSaveOffer \/ NoticeSaveRow \/ NoticeFails
    \/ \E c \in PublicCalls : PublicStep(c)
    \/ PublicCrash

PublicSpec == PublicInit /\ [][PublicNext]_publicVars

-----------------------------------------------------------------------------
(***************************************************************************)
(* Properties                                                              *)
(***************************************************************************)
\* As long as every save worked, a sold auction went for the price of the
\* offer to a buyer whose row and whose offer say PAID and who owes the
\* balance, even when calls of several buyers overlap, the auction is failed
\* meanwhile or the server dies.  (PAID is what verifyPublicAuctionPayment
\* writes; it does not ask the gateway.)
SoldToPayer ==
    auction.status = "SOLD" /\ ~failed =>
        /\ buyers[auction.winner].payment = "PAID"
        /\ offer = "PAID" /\ auction.amount = StartPrice
        /\ payments[auction.winner]["BALANCE"] # "NONE"

\* Whoever has asked for an order of the offer or rejected it.
Answered == {u \in Users : buyers[u] # NoRow}

\* From the first answer to the offer on, the row is only ever sold or failed,
\* and names nobody but one who answered: no left-over fallback job, repeated
\* notice or stale copy of the row opens or hands on the auction again,
\* whatever fails and wherever the server dies.
NotOfferedAgain ==
    [][Answered # {} =>
          \/ auction' = auction
          \/ /\ auction'.status \in {"SOLD", "FAILED"}
             /\ auction'.winner \in Answered \cup {NoUser}]_publicVars
=============================================================================
