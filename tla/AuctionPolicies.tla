-------------------------- MODULE AuctionPolicies --------------------------
(***************************************************************************)
(* The rules one auction row is subject to: what the row holds, which bid  *)
(* the policy accepts, when an accepted bid prolongs the auction, which    *)
(* status may follow which, and which bid wins.  No state of its own: the  *)
(* modules that interleave requests (Bidding, AuctionRoom) apply these     *)
(* operators to the copies of the row their requests hold.                 *)
(*                                                                         *)
(* Time is counted in whole ticks, amounts are natural numbers.            *)
(***************************************************************************)
EXTENDS Integers, Sequences

CONSTANTS
    Users,          \* accounts that may join the auction
    NoUser,         \* the null user id
    Seller,         \* the account that owns the auction
    AuctionType,    \* "LONG", "LIVE" or "SEALED"
    StartAt,        \* auction.startAt
    EndAt,          \* auction.endAt when the auction is published
    MinIncrement,   \* auction.minIncrement
    AntiSnip,       \* auction.antiSnipSeconds
    MaxExtension,   \* auction.maxExtensionCount
    Cooldown        \* auction.bidCooldownSeconds

\* A SEALED auction is created with its increment, anti-snip window,
\* extensions and cooldown zeroed; a LONG one needs an increment of one.
ASSUME PolicyAssumption ==
    /\ NoUser \notin Users
    /\ AuctionType \in {"LONG", "LIVE", "SEALED"}
    /\ StartAt \in Nat /\ EndAt \in Nat
    /\ MinIncrement \in Nat /\ AntiSnip \in Nat
    /\ MaxExtension \in Nat /\ Cooldown \in Nat
    /\ AuctionType = "LONG" => MinIncrement >= 1
    /\ AuctionType = "SEALED" => MinIncrement = 0 /\ MaxExtension = 0

AuctionStatus == {"DRAFT", "ACTIVE", "PAUSED", "ENDED", "SOLD", "CANCELLED",
                  "FALLBACK_ENDED", "FAILED", "FALLBACK_PUBLIC_NOTIFICATION"}

\* The columns of the auction row that requests change.
Row == [status : AuctionStatus, endAt : Nat, ext : Nat,
        winner : Users \cup {NoUser}, winAmount : Nat]

Published == [status |-> "ACTIVE", endAt |-> EndAt, ext |-> 0,
              winner |-> NoUser, winAmount |-> 0]

\* at is createdAt, auto tells a bid of AutoBidService from a manual one.
Bid == [user : Users, amount : Nat, at : Nat, auto : BOOLEAN]

NoBid == [user |-> NoUser, amount |-> 0, at |-> 0, auto |-> FALSE]

-----------------------------------------------------------------------------
(***************************************************************************)
(* The place-bid policy.  latest is the highest stored amount (0 when      *)
(* there is none), own the createdAt of the user's last bid, as a set of   *)
(* at most one time.                                                       *)
(***************************************************************************)
\* Faulty variants: a bid may equal the latest one; no cooldown; a second
\* sealed bid.
CanPlaceBid_NoIncrement(row, user, amount, latest, own, time) ==
    /\ row.status = "ACTIVE" /\ StartAt <= time /\ row.endAt > time
    /\ user # Seller
    /\ \A t \in own : time - t >= Cooldown
    /\ AuctionType # "SEALED" => amount >= latest
    /\ AuctionType = "SEALED" => own = {}

CanPlaceBid_NoCooldown(row, user, amount, latest, own, time) ==
    /\ row.status = "ACTIVE" /\ StartAt <= time /\ row.endAt > time
    /\ user # Seller
    /\ AuctionType # "SEALED" => amount >= latest + MinIncrement
    /\ AuctionType = "SEALED" => own = {}

CanPlaceBid_SealedAgain(row, user, amount, latest, own, time) ==
    /\ row.status = "ACTIVE" /\ StartAt <= time /\ row.endAt > time
    /\ user # Seller
    /\ \A t \in own : time - t >= Cooldown
    /\ AuctionType # "SEALED" => amount >= latest + MinIncrement

CanPlaceBid(row, user, amount, latest, own, time) ==
    /\ row.status = "ACTIVE"
    /\ StartAt <= time
    /\ row.endAt > time
    /\ user # Seller
    /\ \A t \in own : time - t >= Cooldown
    /\ AuctionType # "SEALED" => amount >= latest + MinIncrement
    /\ AuctionType = "SEALED" => own = {}

\* Faulty variant: one extension too many.
ShouldExtend_OneMore(row, time) ==
    /\ AuctionType = "LONG"
    /\ row.endAt - time > 0
    /\ row.endAt - time <= AntiSnip
    /\ row.ext <= MaxExtension

\* Anti-sniping: a bid in the last AntiSnip ticks of a LONG auction.
ShouldExtend(row, time) ==
    /\ AuctionType = "LONG"
    /\ row.endAt - time > 0
    /\ row.endAt - time <= AntiSnip
    /\ row.ext < MaxExtension

\* The row placeBid and AutoBidService save when they prolong the auction:
\* every column but the two comes from the copy the request read.
Extended(row) == [row EXCEPT !.endAt = @ + AntiSnip, !.ext = @ + 1]

\* AutoBidService calls the whole anti-snip window "sniping time".
InAntiSnippingTime(row, time) == row.endAt - time <= AntiSnip

\* Auction.setStatus: the statuses that may be set on a row.
CanSetStatus(row, status) ==
    /\ row.status = "ENDED" => status = "FALLBACK_ENDED"
    /\ row.status = "FALLBACK_ENDED" =>
            status \in {"FAILED", "FALLBACK_PUBLIC_NOTIFICATION"}

-----------------------------------------------------------------------------
(***************************************************************************)
(* The winner strategies scan the bids from the newest to the oldest and   *)
(* replace their candidate only by a strictly higher amount, so among      *)
(* equal amounts the newest bid wins.  Bids with the same createdAt come   *)
(* in any order, hence a set.                                              *)
(***************************************************************************)
Winners(bids) ==
    { b \in { bids[i] : i \in DOMAIN bids } :
        /\ AuctionType = "SEALED" => b.amount > 0
        /\ \A j \in DOMAIN bids :
              \/ bids[j].amount < b.amount
              \/ bids[j].amount = b.amount /\ bids[j].at <= b.at }
=============================================================================
