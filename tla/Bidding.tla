------------------------------ MODULE Bidding ------------------------------
(***************************************************************************)
(* Concurrent bidding on one auction: PlaceBidUsecase, the Redis bid lock, *)
(* AutoBidService and the auto-bid configurations, interleaved at every    *)
(* await.  A request is one call of PlaceBidUsecase.execute; its lock      *)
(* token is generated per call, so the request itself stands for it.       *)
(*                                                                         *)
(* The lock is a Redis key with a time to live: it goes away on its own    *)
(* after TTL ticks whether or not its holder is still working.  lapsed     *)
(* records the requests that were still inside the locked section then; it *)
(* is a history variable, no step reads it.                                *)
(***************************************************************************)
EXTENDS AuctionPolicies, FiniteSets

CONSTANTS
    Requests,       \* calls of placeBid that may be made
    NoRequest,      \* the lock is free
    Amounts,        \* amounts a user may ask for
    MaxBids,        \* values of AutoBidConfig.maxBidAmount
    AutoUsers,      \* accounts that use auto-bidding
    Quota,          \* AUCTION_BIDDING feature of the user's plan
    TTL             \* BID_LOCK_TTL_SECONDS

ASSUME BiddingAssumption ==
    /\ NoRequest \notin Requests
    /\ Amounts \subseteq Nat \ {0}
    /\ MaxBids \subseteq Nat
    /\ AutoUsers \subseteq Users
    /\ Quota \in Nat
    /\ TTL \in Nat \ {0}

VARIABLES
    now,            \* Date.now(), see Horizon
    auction,        \* the row in the auction table
    bids,           \* the bid table, in the order of insertion
    participants,   \* users with an auction_participant row, all of them PAID
    configs,        \* the auto-bid table: at most one row per user
    cfgOp,          \* per user, the row an auto-bid request is about to save
    lock,           \* the Redis key: token and remaining time to live
    req,            \* the calls of placeBid: where each stands, what it read
    lapsed          \* history: requests whose lock expired under them

vars == <<now, auction, bids, participants, configs, cfgOp, lock, req, lapsed>>

(***************************************************************************)
(* No row ever ends later than Horizon, so from Horizon on every policy    *)
(* check fails with "auction ended" and later times need not be told       *)
(* apart: the clock stops there while the lock's time to live runs on.     *)
(***************************************************************************)
Horizon == EndAt + MaxExtension * AntiSnip

Config == [user : Users, max : Nat, active : BOOLEAN, since : Nat]

Lock == [holder : Requests \cup {NoRequest}, ttl : 0..TTL]

Free == [holder |-> NoRequest, ttl |-> 0]

Section == {"config", "auction", "latest", "own", "validate", "extend",
            "create", "people", "configs", "pick", "autoOwn", "autoExtend",
            "autoCreate", "disable", "release"}

PC == {"idle", "lock", "done"} \cup Section

\* user, amount, max and draft describe the bid being made: the caller's
\* first, then those of the auto-bid configurations in todo.  row is the
\* auction as the request knows it, out the one its next bid will leave.
\* last is the bid the request placed most recently.
Request == [pc : PC, user : Users \cup {NoUser}, amount : Nat, max : Nat,
            row : Row, out : Row, latest : Nat, own : SUBSET Nat,
            draft : Bid \cup {NoBid}, last : Bid \cup {NoBid},
            todo : SUBSET Config, paid : SUBSET Users, snip : BOOLEAN]

Blank(pc) == [pc |-> pc, user |-> NoUser, amount |-> 0, max |-> 0,
              row |-> Published, out |-> Published, latest |-> 0, own |-> {},
              draft |-> NoBid, last |-> NoBid,
              todo |-> {}, paid |-> {}, snip |-> FALSE]

InSection(r) == req[r].pc \in Section

\* What a request keeps from one bid it makes to the next.
Between(r, pc) == [Blank(pc) EXCEPT !.row = req[r].row, !.last = req[r].last,
                      !.todo = req[r].todo, !.paid = req[r].paid, !.snip = req[r].snip]

TypeOK ==
    /\ now \in 0..Horizon
    /\ auction \in Row
    /\ bids \in Seq(Bid)
    /\ participants \subseteq Users
    /\ configs \subseteq Config
    /\ cfgOp \in [Users -> SUBSET Config]
    /\ lock \in Lock
    /\ req \in [Requests -> Request]
    /\ lapsed \subseteq Requests

Init ==
    /\ now = 0
    /\ auction = Published
    /\ bids = <<>>
    /\ participants = {}
    /\ configs = {}
    /\ cfgOp = [u \in Users |-> {}]
    /\ lock = Free
    /\ req = [r \in Requests |-> Blank("idle")]
    /\ lapsed = {}

-----------------------------------------------------------------------------
(***************************************************************************)
(* Queries of the bid repository.                                          *)
(***************************************************************************)
BidsOf(u) == { i \in DOMAIN bids : bids[i].user = u }

\* findLatestByAuctionId(...)?.getAmount() ?? 0: a sealed bid has no amount.
IsLatestAmount(m) ==
    IF AuctionType = "SEALED" \/ bids = <<>>
    THEN m = 0
    ELSE /\ \E i \in DOMAIN bids : bids[i].amount = m
         /\ \A i \in DOMAIN bids : bids[i].amount <= m

StoredAmounts == {0} \cup { bids[i].amount : i \in DOMAIN bids }

\* findLastBidsByUser: createdAt of the newest bid of u, if there is one.
LastBidTimes(u) ==
    { t \in { bids[i].at : i \in BidsOf(u) } :
        \A i \in BidsOf(u) : bids[i].at <= t }

-----------------------------------------------------------------------------
(***************************************************************************)
(* PlaceBidUsecase.execute                                                 *)
(***************************************************************************)

\* The plan's quota is checked before the lock is asked for.
CheckQuota(r) ==
    /\ req[r].pc = "idle"
    /\ \E u \in Users, a \in Amounts :
        req' = [req EXCEPT ![r] =
                  IF Cardinality(BidsOf(u)) >= Quota
                  THEN Blank("done")
                  ELSE [Blank("lock") EXCEPT !.user = u, !.amount = a]]
    /\ UNCHANGED <<now, auction, bids, participants, configs, cfgOp, lock, lapsed>>

\* Faulty variant: SET without NX.
AcquireLock_NoNX(r) ==
    /\ req[r].pc = "lock"
    /\ lock' = [holder |-> r, ttl |-> TTL]
    /\ req' = [req EXCEPT ![r].pc = "config"]
    /\ UNCHANGED <<now, auction, bids, participants, configs, cfgOp, lapsed>>

\* SET key token EX ttl NX; a request that is refused returns, and its
\* release finds the token of another.
AcquireLock(r) ==
    /\ req[r].pc = "lock"
    /\ IF lock.holder = NoRequest
       THEN /\ lock' = [holder |-> r, ttl |-> TTL]
            /\ req' = [req EXCEPT ![r].pc = "config"]
       ELSE /\ req' = [req EXCEPT ![r] = Blank("done")]
            /\ UNCHANGED lock
    /\ UNCHANGED <<now, auction, bids, participants, configs, cfgOp, lapsed>>

\* A user with an active auto-bid may not bid by hand.
ReadConfig(r) ==
    /\ req[r].pc = "config"
    /\ req' = [req EXCEPT ![r] =
                 IF \E c \in configs : c.user = req[r].user /\ c.active
                 THEN Blank("release") ELSE [@ EXCEPT !.pc = "auction"]]
    /\ UNCHANGED <<now, auction, bids, participants, configs, cfgOp, lock, lapsed>>

ReadAuction(r) ==
    /\ req[r].pc = "auction"
    /\ req' = [req EXCEPT ![r].pc = "latest", ![r].row = auction]
    /\ UNCHANGED <<now, auction, bids, participants, configs, cfgOp, lock, lapsed>>

ReadLatest(r) ==
    /\ req[r].pc = "latest"
    /\ \E m \in StoredAmounts :
        /\ IsLatestAmount(m)
        /\ req' = [req EXCEPT ![r].pc = "own", ![r].latest = m]
    /\ UNCHANGED <<now, auction, bids, participants, configs, cfgOp, lock, lapsed>>

ReadOwnLast(r) ==
    /\ req[r].pc = "own"
    /\ req' = [req EXCEPT ![r].pc = "validate",
                          ![r].own = LastBidTimes(req[r].user)]
    /\ UNCHANGED <<now, auction, bids, participants, configs, cfgOp, lock, lapsed>>

\* Whether the bid the request is making passes the policy, given the copies
\* of the row and of the bids it has read.
Accepted(r) ==
    CanPlaceBid(req[r].row, req[r].user, req[r].amount,
                req[r].latest, req[r].own, now)

Draft(r, auto) ==
    [user |-> req[r].user, amount |-> req[r].amount, at |-> now, auto |-> auto]

\* The participants are read, then everything is judged in one go.
Validate(r) ==
    /\ req[r].pc = "validate"
    /\ req' = [req EXCEPT ![r] =
                 IF req[r].user \in participants /\ Accepted(r)
                 THEN [@ EXCEPT !.draft = Draft(r, FALSE),
                                !.out = req[r].row,
                                !.latest = 0, !.own = {},
                                !.pc = IF ShouldExtend(req[r].row, now)
                                       THEN "extend" ELSE "create"]
                 ELSE Blank("release")]
    /\ UNCHANGED <<now, auction, bids, participants, configs, cfgOp, lock, lapsed>>

\* auctionRepo.save writes the whole row from the copy read earlier.
ExtendAuction(r) ==
    /\ req[r].pc = "extend"
    /\ auction' = Extended(req[r].row)
    /\ req' = [req EXCEPT ![r].pc = "create", ![r].out = Extended(req[r].row)]
    /\ UNCHANGED <<now, bids, participants, configs, cfgOp, lock, lapsed>>

\* What the request knows once the bid it drafted is stored.
Placed(r, pc) == [Between(r, pc) EXCEPT !.last = req[r].draft, !.row = req[r].out]

\* Auto-bidding follows on a LONG auction only.
CreateBid(r) ==
    /\ req[r].pc = "create"
    /\ bids' = Append(bids, req[r].draft)
    /\ req' = [req EXCEPT ![r] = IF AuctionType = "LONG"
                                 THEN Placed(r, "people") ELSE Blank("release")]
    /\ UNCHANGED <<now, auction, participants, configs, cfgOp, lock, lapsed>>

\* Faulty variant: DEL without comparing the token.
ReleaseLock_Any(r) ==
    /\ req[r].pc = "release"
    /\ lock' = Free
    /\ req' = [req EXCEPT ![r] = Blank("done")]
    /\ UNCHANGED <<now, auction, bids, participants, configs, cfgOp, lapsed>>

\* The finally block: the script deletes the key only when it holds the
\* caller's own token.
ReleaseLock(r) ==
    /\ req[r].pc = "release"
    /\ lock' = IF lock.holder = r THEN Free ELSE lock
    /\ req' = [req EXCEPT ![r] = Blank("done")]
    /\ UNCHANGED <<now, auction, bids, participants, configs, cfgOp, lapsed>>

\* Redis does not answer: the error is swallowed and the key lives on.
ReleaseFails(r) ==
    /\ req[r].pc = "release"
    /\ req' = [req EXCEPT ![r] = Blank("done")]
    /\ UNCHANGED <<now, auction, bids, participants, configs, cfgOp, lock, lapsed>>

-----------------------------------------------------------------------------
(***************************************************************************)
(* AutoBidService.handleAuctionPlaceBid and placeAutoBidForConfig, run by  *)
(* the same request while it still believes it holds the lock.             *)
(***************************************************************************)
AutoReadPeople(r) ==
    /\ req[r].pc = "people"
    /\ req' = [req EXCEPT ![r].pc = "configs", ![r].paid = participants]
    /\ UNCHANGED <<now, auction, bids, participants, configs, cfgOp, lock, lapsed>>

\* orderBy maxBidAmount desc, createdAt asc
Before(c, d) == c.max > d.max \/ (c.max = d.max /\ c.since < d.since)

First(c, cs) == c \in cs /\ \A d \in cs : ~Before(d, c)

AutoReadConfigs(r) ==
    /\ req[r].pc = "configs"
    /\ req' = [req EXCEPT ![r].pc = "pick",
                          ![r].todo = { c \in configs : c.active },
                          ![r].snip = InAntiSnippingTime(req[r].row, now)]
    /\ UNCHANGED <<now, auction, bids, participants, configs, cfgOp, lock, lapsed>>

\* The loop passes over the user who made the last bid and users who have
\* not paid; in sniping time the first configuration is taken as it is.
Skipped(r, c) == ~req[r].snip /\ (c.user = req[r].last.user \/ c.user \notin req[r].paid)

AutoSkip(r) ==
    /\ req[r].pc = "pick"
    /\ \E c \in req[r].todo :
        /\ First(c, req[r].todo)
        /\ Skipped(r, c)
        /\ req' = [req EXCEPT ![r].todo = @ \ {c}]
    /\ UNCHANGED <<now, auction, bids, participants, configs, cfgOp, lock, lapsed>>

\* nextMin: one increment above the bid placed last.
NextMin(r) == req[r].last.amount + MinIncrement

\* The configurations left after c: in sniping time no other one follows.
Rest(r, c) == IF req[r].snip THEN {} ELSE req[r].todo \ {c}

\* Faulty variant: the loop does not move on to the next configuration.
AutoPick_Again(r) ==
    /\ req[r].pc = "pick"
    /\ \E c \in req[r].todo, m \in StoredAmounts :
        /\ First(c, req[r].todo)
        /\ ~Skipped(r, c)
        /\ IsLatestAmount(m)
        /\ req' = [req EXCEPT ![r] =
                     [@ EXCEPT !.pc = "autoOwn", !.user = c.user, !.max = c.max,
                               !.amount = NextMin(r), !.latest = m]]
    /\ UNCHANGED <<now, auction, bids, participants, configs, cfgOp, lock, lapsed>>

\* The next configuration's turn: the latest bid is read again.
AutoPick(r) ==
    /\ req[r].pc = "pick"
    /\ \E c \in req[r].todo, m \in StoredAmounts :
        /\ First(c, req[r].todo)
        /\ ~Skipped(r, c)
        /\ IsLatestAmount(m)
        /\ req' = [req EXCEPT ![r] =
                     [@ EXCEPT !.pc = "autoOwn", !.user = c.user, !.max = c.max,
                               !.amount = NextMin(r), !.latest = m,
                               !.todo = Rest(r, c)]]
    /\ UNCHANGED <<now, auction, bids, participants, configs, cfgOp, lock, lapsed>>

AutoFinish(r) ==
    /\ req[r].pc = "pick"
    /\ req[r].todo = {}
    /\ req' = [req EXCEPT ![r] = Blank(IF req[r].snip THEN "disable" ELSE "release")]
    /\ UNCHANGED <<now, auction, bids, participants, configs, cfgOp, lock, lapsed>>

\* The user's own last bid is read, then the same policy judges the auto-bid.
AutoValidate(r) ==
    /\ req[r].pc = "autoOwn"
    /\ LET own == LastBidTimes(req[r].user)
       IN  req' = [req EXCEPT ![r] =
                     IF /\ req[r].amount <= req[r].max
                        /\ CanPlaceBid(req[r].row, req[r].user, req[r].amount,
                                       req[r].latest, own, now)
                     THEN [@ EXCEPT !.draft = Draft(r, TRUE),
                                    !.out = req[r].row,
                                    !.pc = IF ShouldExtend(req[r].row, now)
                                           THEN "autoExtend" ELSE "autoCreate"]
                     ELSE Between(r, "pick")]
    /\ UNCHANGED <<now, auction, bids, participants, configs, cfgOp, lock, lapsed>>

AutoExtend(r) ==
    /\ req[r].pc = "autoExtend"
    /\ auction' = Extended(req[r].row)
    /\ req' = [req EXCEPT ![r].pc = "autoCreate", ![r].out = Extended(req[r].row)]
    /\ UNCHANGED <<now, bids, participants, configs, cfgOp, lock, lapsed>>

AutoCreate(r) ==
    /\ req[r].pc = "autoCreate"
    /\ bids' = Append(bids, req[r].draft)
    /\ req' = [req EXCEPT ![r] = Placed(r, "pick")]
    /\ UNCHANGED <<now, auction, participants, configs, cfgOp, lock, lapsed>>

\* After sniping time's one auto-bid every configuration is switched off.
DisableAllActive(r) ==
    /\ req[r].pc = "disable"
    /\ configs' = { [c EXCEPT !.active = FALSE] : c \in configs }
    /\ req' = [req EXCEPT ![r] = Blank("release")]
    /\ UNCHANGED <<now, auction, bids, participants, cfgOp, lock, lapsed>>

\* Faulty variant: when a bid cannot be stored, the row is put back as the
\* request had read it before prolonging the auction.
DatabaseError_PutBack(r) ==
    /\ InSection(r) /\ req[r].pc \notin {"release", "pick"}
    /\ auction' = IF req[r].pc \in {"create", "autoCreate"} THEN req[r].row ELSE auction
    /\ req' = [req EXCEPT ![r] =
                 IF req[r].pc \in {"autoOwn", "autoExtend", "autoCreate"} /\ ~req[r].snip
                 THEN Between(r, "pick") ELSE Blank("release")]
    /\ UNCHANGED <<now, bids, participants, configs, cfgOp, lock, lapsed>>

\* A query or a save of the request fails.  The loop of AutoBidService goes
\* on with the next configuration; anywhere else the call ends.
DatabaseError(r) ==
    /\ InSection(r) /\ req[r].pc \notin {"release", "pick"}
    /\ req' = [req EXCEPT ![r] =
                 IF req[r].pc \in {"autoOwn", "autoExtend", "autoCreate"} /\ ~req[r].snip
                 THEN Between(r, "pick") ELSE Blank("release")]
    /\ UNCHANGED <<now, auction, bids, participants, configs, cfgOp, lock, lapsed>>

-----------------------------------------------------------------------------
(***************************************************************************)
(* The other requests that touch what a bid depends on.                    *)
(***************************************************************************)

\* addAuctionParticipant, seen from the room: the participant row appears.
Join(u) ==
    /\ u \notin participants
    /\ participants' = participants \cup {u}
    /\ UNCHANGED <<now, auction, bids, configs, cfgOp, lock, req, lapsed>>

ConfigOf(u) == { c \in configs : c.user = u }

\* handleSetAutoBid up to the save: the new row is the old one with its
\* maximum replaced, or a fresh one.
SetAutoBid(u, m) ==
    /\ cfgOp[u] = {}
    /\ auction.status = "ACTIVE"
    /\ AuctionType = "LONG"
    /\ u \in participants
    /\ cfgOp' = [cfgOp EXCEPT ![u] =
                   IF ConfigOf(u) = {}
                   THEN {[user |-> u, max |-> m, active |-> TRUE, since |-> now]}
                   ELSE {[c EXCEPT !.max = m, !.active = TRUE] : c \in ConfigOf(u)}]
    /\ UNCHANGED <<now, auction, bids, participants, configs, lock, req, lapsed>>

\* handleDisableAutoBid up to the save.
DisableAutoBid(u) ==
    /\ cfgOp[u] = {}
    /\ ConfigOf(u) # {}
    /\ cfgOp' = [cfgOp EXCEPT ![u] = {[c EXCEPT !.active = FALSE] : c \in ConfigOf(u)}]
    /\ UNCHANGED <<now, auction, bids, participants, configs, lock, req, lapsed>>

\* autoBidConfigRepository.save: the whole row is written.
SaveAutoBid(u) ==
    /\ cfgOp[u] # {}
    /\ configs' = (configs \ ConfigOf(u)) \cup cfgOp[u]
    /\ cfgOp' = [cfgOp EXCEPT ![u] = {}]
    /\ UNCHANGED <<now, auction, bids, participants, lock, req, lapsed>>

-----------------------------------------------------------------------------
(***************************************************************************)
(* Time passes and the process may die.                                    *)
(***************************************************************************)

\* Faulty variants: a key without a time to live; one that outlives it.
Tick_NoTTL ==
    /\ now' = IF now < Horizon THEN now + 1 ELSE now
    /\ UNCHANGED <<auction, bids, participants, configs, cfgOp, lock, req, lapsed>>

Tick_Overdue ==
    /\ now' = IF now < Horizon THEN now + 1 ELSE now
    /\ lock' = IF lock.holder = NoRequest THEN lock ELSE [lock EXCEPT !.ttl = @ - 1]
    /\ UNCHANGED <<auction, bids, participants, configs, cfgOp, req, lapsed>>

\* One tick; the key of a lock whose time to live is used up disappears.
Tick ==
    /\ now' = IF now < Horizon THEN now + 1 ELSE now
    /\ IF lock.ttl > 1
       THEN /\ lock' = [lock EXCEPT !.ttl = @ - 1]
            /\ UNCHANGED lapsed
       ELSE /\ lock' = Free
            /\ lapsed' = lapsed \cup { r \in Requests : r = lock.holder /\ InSection(r) }
    /\ UNCHANGED <<auction, bids, participants, configs, cfgOp, req>>

\* The server stops: calls in flight are gone, the databases and Redis stay.
Crash ==
    /\ req' = [r \in Requests |-> IF req[r].pc = "idle" THEN req[r] ELSE Blank("done")]
    /\ cfgOp' = [u \in Users |-> {}]
    /\ UNCHANGED <<now, auction, bids, participants, configs, lock, lapsed>>

Step(r) ==
    \/ CheckQuota(r) \/ AcquireLock(r) \/ ReadConfig(r) \/ ReadAuction(r)
    \/ ReadLatest(r) \/ ReadOwnLast(r) \/ Validate(r) \/ ExtendAuction(r)
    \/ CreateBid(r) \/ AutoReadPeople(r) \/ AutoReadConfigs(r) \/ AutoSkip(r)
    \/ AutoPick(r) \/ AutoFinish(r) \/ AutoValidate(r) \/ AutoExtend(r)
    \/ AutoCreate(r) \/ DisableAllActive(r) \/ ReleaseLock(r)

Work ==
    \/ \E r \in Requests : Step(r) \/ DatabaseError(r) \/ ReleaseFails(r)
    \/ \E u \in Users : Join(u)
    \/ \E u \in AutoUsers :
          \/ \E m \in MaxBids : SetAutoBid(u, m)
          \/ DisableAutoBid(u)
          \/ SaveAutoBid(u)
    \/ Tick

Next == Work \/ Crash

Spec == Init /\ [][Next]_vars

\* Every started call is carried on by the event loop and Redis expires
\* keys; nobody has to bid.
Carry(r) == req[r].pc # "idle" /\ Step(r)

FairSpec == Spec /\ (\A r \in Requests : WF_vars(Carry(r))) /\ WF_vars(Tick)

-----------------------------------------------------------------------------
(***************************************************************************)
(* Properties                                                              *)
(***************************************************************************)

\* Two calls are inside the locked section at once only when the lock of
\* one of them has expired under it: the key is never taken from a working
\* holder, neither by another call nor by another call's late release.
LockExclusive ==
    \A r, s \in Requests :
        InSection(r) /\ InSection(s) /\ r # s => r \in lapsed \/ s \in lapsed

\* As long as no lock expired under its holder, every stored bid of an open
\* auction, manual or automatic, exceeds each earlier one by the increment.
BidLadder ==
    lapsed = {} /\ AuctionType # "SEALED" =>
        \A i, j \in DOMAIN bids :
            i < j => bids[j].amount >= bids[i].amount + MinIncrement

\* As long as no lock expired under its holder, two bids of one user are at
\* least the cooldown apart, whether typed in or made by auto-bidding.
CooldownKept ==
    lapsed = {} =>
        \A i, j \in DOMAIN bids :
            i < j /\ bids[i].user = bids[j].user => bids[j].at - bids[i].at >= Cooldown

\* As long as no lock expired under its holder, nobody has two bids in a
\* sealed auction, however many calls the user has in flight.
OneSealedBid ==
    lapsed = {} /\ AuctionType = "SEALED" =>
        \A i, j \in DOMAIN bids : bids[i].user = bids[j].user => i = j

\* Auto-bidding never raises a bid of the user it bids for.  In sniping time
\* nothing but the cooldown keeps it from doing so when the user switches
\* auto-bidding on while a manual bid of theirs is being stored.
NoSelfOutbid ==
    lapsed = {} /\ TTL <= Cooldown =>
        \A i \in DOMAIN bids :
            i > 1 /\ bids[i].auto => bids[i - 1].user # bids[i].user

\* The deadline is the published one plus one anti-snip window for every
\* extension counted, and the count respects its limit: whichever stale copy
\* of the row was saved last, deadline and counter stay in step.
DeadlineAccounted ==
    /\ auction.ext <= MaxExtension
    /\ auction.endAt = EndAt + auction.ext * AntiSnip

\* As long as no lock expired under its holder, an extension bidders were
\* granted is not taken back by another bid.
NoLostExtension ==
    [][lapsed' = {} => auction'.endAt >= auction.endAt]_vars

\* A lock is given up sooner or later, even when the server dies holding it.
LockFreed == \A r \in Requests : lock.holder = r ~> lock.holder # r

\* Every call of placeBid that got past the quota check comes to an end.
CallsEnd == \A r \in Requests : req[r].pc = "lock" ~> req[r].pc = "done"

\* The locked, interleaved requests together keep the promise of BidLedger:
\* a bid that placeBid stores is admissible after all bids stored before.
Ledger == INSTANCE BidLedger WITH
    Sealed <- AuctionType = "SEALED", ledger <- bids, intact <- lapsed = {}

KeepsLedger == Ledger!LedgerSpec
=============================================================================
