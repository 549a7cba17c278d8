# Verification of the auction platform backend

This directory holds TLA+ specifications of the auction platform backend
(TypeScript, Prisma/PostgreSQL, Redis, BullMQ, socket.io, mediasoup), the TLC
configurations that check them on small instances, and TLAPS proofs of the
properties that matter most for all values of the constants.

The server is one Node process. Between two `await`s a handler runs alone; at
every `await` any other handler, queue worker or timer may run. Almost no
operation is a database transaction: use cases read rows into entities, change
the entities and later write **whole rows** back. That, the one Redis lock, and
the BullMQ queues are what the models are about: one step of a model is what
happens between two awaits that read or write shared state.

## 1. Inventory

| Component | State | Operations | What is hard |
|---|---|---|---|
| Placing bids (`placeBid.usecase.ts`, `bid.lock.service.ts`, bid policies and strategies) | auction row, bid table, Redis key `bid lock` | quota check, lock, read, validate, extend, store, release | lock expires under its holder; stale row saved over another; failure between two saves |
| Auto bids (`autoBid.service.ts`, config use cases, `auction.handler.ts`) | auto-bid rows | set, disable, chain of automatic bids, one bid in sniping time | list of configurations read before they change; loop inside the locked call |
| Auction room control (`pause/resume/end/failAuction.usecase.ts`) | auction row, winner table | pause, resume, end, fail | none takes the lock; each saves the row it read |
| Settlement (`auctionEnd.worker.ts`, `auctionWinnerFallback.worker.ts`, payment use cases, `failAuction`) | auction row, winner table, payments, wallets, two queues | release deposits, create payments, verify, decline, replace the winner, fail | repeated and late jobs, crash between saves, cap on winners |
| Public fallback offer (`processFallbackPublicNotification`, `createPaymentOrderForPublicFallbackAuction`, `verifyPublicAuctionPayment`, `declinePublicfallbackAuction`) | offer row, buyer rows, auction row | notify, order, reject, verify | two buyers at once; four saves without a transaction |
| Expiry cron (`auctionExpiry.cron.ts`) | none | tick | calls `execute` detached from its object and throws |
| Wallets (`wallet.entity.ts`, wallet use cases, `addAuctionParticipant`, `releaseParticipantsWallet`) | wallet rows, transactions, the deposit setting and its cache | open, top up, credit, debit, join (hold), release | read-modify-write of one row by several callers; integer columns; a setting read twice |
| Subscriptions (checkout, `login`, Razorpay webhook) | subscription rows | assign the default, check out, activate, replace and refund, expire | webhooks twice, out of order, overlapping; no event id is kept |
| Accounts: registration, codes, passwords, profile (`auth/`, `otp/`, `user/` use cases) | user row, OTP rows | register, send, verify, reset, edit, block | every writer saves the whole user row; attempts counted from a copy |
| Fraud and suspension (`fraud/` use cases) | reports, suspensions, user row | report, mark, update, review | threshold on a copy; daily count tested with `===` |
| Seller KYC, categories, plans, drafts (`kyc/`, `seller/`, `admin/`, `create/update/publishAuction`) | KYC row, role, category row, plan rows, cached plan, auction rows | submit, decide, request, switch, create, publish | two rows saved one after the other; a plan cached for a day; category decided twice |
| Lists and counts (`auction.repo.ts` and the use cases on it) | none of its own | browse, feed, own auctions, counts | paging in two places, lists cut before merging, counts in SQL and labels in code |
| Live room and chat (`auction.handler.ts`, `liveAuctionRoom.manager.ts`) | in-memory rooms, users, transports, producers, consumers; chat table | enter, create transport, produce, consume, chat, disconnect | awaits inside every handler; disconnect meanwhile; what closes with what |
| Notifications, e-mail, uploads, assistant, HTTP layer | rows nothing else decides on, or none | CRUD and output | little |

How the parts interact: `placeBid` holds the Redis lock and runs the auto-bid
chain inside it; the room controls write the same auction row without the lock;
`endAuction` publishes `AuctionEnded` on the in-process bus, whose handler
enqueues the end job; `declinePayment` enqueues the fallback job; the fallback
worker, at the cap, leaves `FALLBACK_ENDED`, from where the public offer starts.

What makes each part correct: accepted bids rise and keep their rules (bids);
an extension that was granted stays, deadline and counter agree (deadline); a row
names a winner only if one is recorded (room); winners are asked in the order
of their bids, once each, and somebody who declines is replaced (settlement);
who the sold row names is marked as paid, and an offer that was answered is not made again (offer); the balance is covered and the books
agree with it (wallets); nothing is in force or refunded that was not paid, and
nobody is left without a plan (subscriptions); codes cannot be guessed and who is
out stays out (accounts); role and approval go together and lists stay readable
(selling); a page shows what is there, once (lists); users of a room know its
streams, empty rooms go, chats are complete (live room).

## 2. Modules

| Module | Models |
|---|---|
| `AuctionPolicies` | the auction row and the pure rules: `CanPlaceBid`, `ShouldExtend`, `Extended`, `CanSetStatus`, `Winners` |
| `Bidding` (extends it) | `PlaceBidUsecase`, `BidLockService`, `AutoBidService`, auto-bid configuration, time, failures, crash |
| `BidLedger` | abstract specification: a list of bids, each admissible after the ones before it |
| `AuctionRoom` (extends `Bidding`) | bidding together with pause, resume, fail and end |
| `Settlement` | end job, deposits, winner payments, decline, fallback job, failing the auction |
| `PublicOffer` (extends `Settlement`) | public notice, orders, rejection, verification of the public payment |
| `Wallet` | wallet rows under concurrent calls, the release job, the cached deposit setting |
| `Subscription` | the subscriptions of one user: login, checkout, webhook, default plan, clock |
| `Accounts` | one account: registration, codes, password and profile, blocking, fraud reports and suspension |
| `Selling` | KYC and role, category, plans and their cache, drafting and publishing |
| `Listings` | the queries on the auction table as operators, over every table that can come about |
| `LiveRoom` | the socket room: chat, mediasoup objects, disconnects |
| `BiddingProofs` | theorems about `Bidding`, `BidLedger` and `AuctionRoom`, in three parts (section 4) |
| `SettlementProofs` | theorems about `Settlement` and `PublicOffer` |
| `WalletProofs`, `SubscriptionProofs`, `AccountsProofs`, `SellingProofs`, `ListingsProofs`, `LiveRoomProofs` | theorems about the modules of those names |
| `MC*` | the instances for TLC: symmetry sets, bid amounts |

The definition-to-line correspondence is the `map` of `PROJECT.json`.
Definitions named `X_Something` and commented "Faulty variant" are mutated forms
of `X`; no specification uses them. They exist to show that a property can fail.

### Bidding

A request `r` is one call of `placeBid`. `req[r].pc` is the `await` it stands
at, the other fields are what it has read. `CheckQuota` and `AcquireLock` are
outside the locked section; `ReadConfig .. CreateBid` are the use case;
`AutoReadPeople .. DisableAllActive` the auto-bid service the same call runs;
`ReleaseLock` the `finally` block. `DatabaseError` stands for any rejected query:
in the auto-bid loop the next configuration follows, elsewhere the call ends.
`ReleaseFails` is Redis not answering the release. `Tick` advances the clock and
the time to live of the key; when it runs out under a request in the section,
that request is recorded in the history variable `lapsed`. `Crash` drops every
call and keeps databases and Redis.

Abstractions: amounts and times are natural numbers; every participant row is
`PAID` (the only value `addAuctionParticipant` writes); the several reads of
`handleSetAutoBid` are one step, and a user has one such request under way; the
clock stops at `Horizon`, after which all policy checks give the same answer.

`AuctionType`, increment, cooldown, window and limit are constants, with the
combinations `createAuction` allows as the named assumption `PolicyAssumption`.
With no bid stored, the policy compares with `0 + minIncrement` and never with
`startPrice`, so the start price does not occur in the model. (The knowledge text
`appKnowledge.docs.ts:62` names "bid below start price" as a reason to refuse.)

### AuctionRoom

A control call reads the row, decides, and later saves the whole row. `endAuction`
takes four steps: row, winning bid, winner row, auction row. The winner table
has a unique key on auction and user. The expiry cron changes nothing (above), so
an overdue auction is ended only by a call.

### Settlement

Starts where `endAuction` stopped: row `ENDED`, winner row of rank 1, end job
queued or (handler failure) lost. `BestBid` gives the highest bid of each user;
equal highest bids are chosen between nondeterministically. The cap on winners
is a setting an admin may edit and every job reads anew, hence the set `MaxRanks`. Worker `"end"` and
worker `"fallback"` are the two BullMQ workers, one job each at a time. A failed
`Result` is logged and the job is done (`JobFails`); the end worker does not catch
exceptions of queries, so BullMQ restarts its job (`EndThrows`); a crash puts
both jobs back (`SettleCrash`). `failed` records that some statement failed, so
that `Settled`, `DepositsReturned` and `DeclinerReplaced` can say "if nothing
failed". Reads whose result cannot change before the next write are part of that
write's step. Fraud reports and notifications sent on the way are left out.
`createPaymentOrder` changes no state of the platform. `failAuction` may come at any
time after the end: `FailAuction` reads the row and decides by `CanSetStatus`, which is
`Auction.setStatus` and refuses only an `ENDED` row, `SaveFailed` writes `FAILED` over
whatever the row is by then; winner and amount stay as they were read. Late bids that write
`ACTIVE` over an ended row (section 3, known disagreements) are not composed with Settlement.

### PublicOffer

The notice worker and the calls of buyers. `verifyPublicAuctionPayment` reads
offer, buyer row and auction row one after the other and then saves buyer row,
offer, balance payment and auction row one after the other; results of these
saves are ignored in the code (`SkipSave`). It takes the caller's word for the
payment: it asks the gateway nothing and checks no signature, so "paid" in this
module is the flag `PAID` that the call itself writes. What it saves over the row is
the copy it read (`pub[c].row`), refused if that was `SOLD` and allowed if it was
`FAILED` (`CanSell`). The unique keys on the offer
and on the buyer rows refuse a second insert, which the callers do not notice.

### Wallet

A call of the wallet controller or of `addAuctionParticipant` reads a row, stores
a transaction and writes both balances of its copy; `call[c].pc` is the `await` it
stands at. `Job` is `ReleaseParticipantsWalletUsecase` in the end worker, redelivered
after `ServerStops`. `ReadSetting`, `FillCache`, `EditSetting` and `RevalidateCache` are
`getCachedNumValue` and `editSystemConfig`, two statements each. Amounts are
counted in `Unit`s of a rupee: the columns are integers, so a deposit
with a fraction is refused by the database (`Whole`). A row with a negative balance is
stored but can never be loaded again (`Valid`, `Readable`). `Settlement` counts
deposits instead of balances; here the balances are.

### Subscription

One user, the rows by number. `Deliver .. SaveOwn` are the webhook; an event stays
in `sent` until its answer has arrived, so it may come again at any time
(`Answer`). `Begins` numbers the requests of the user, logins and checkouts.
A user starts with the default subscription that registration gives.
All paid plans cost the same; plan features and the customer at the gateway are left out.

### Accounts

One e-mail address. All use cases end in a save of a code (`SaveOtp`), of the user
(`SaveUser`) or of a report (`UpdateReport`); `then` says which comes next. Passwords
and profile data are not kept: what matters is which copy of status, verification
and fraud level is written along. A code is right or wrong by choice (`ReadOtp`).
`today` of a report is chosen, because the daily count ends at 23:23:23.

### Selling

One user and one category (its slug is unique). A plan is its default
and active flags and the limit of one feature. `Subscribe` stands for all of
`Subscription`. The cached plan leaves the cache only by expiry, as in the code.
`Loads` is `Auction.create` demanding an APPROVED category when a row is *read*.

### Listings

Queries are operators and are checked in every state against what they should
return; the state is the auction table, one step per life-cycle operation (the
modules above take these apart), failing a draft or a sold auction included;
`offered` says whether there is a public offer nobody has paid for. Rows outside `Moving` are only created and published.
`Sorted` makes a list of a set by the place of each element, the number of
elements before it, which is what an `ORDER BY` that leaves no ties returns;
said without recursion, it can be proved about.

### LiveRoom

`Sockets` are connected from the start; each handler is cut at its awaits.
Transports, producers and consumers are numbered as they are made. `heard` and
`gone` are what each client has been told of producers; `past` is what the room had
been sent when a client joined the chat, `window` what it was sent while one was
joining. `connectTransport` and
`resumeConsumer` change nothing that is modelled.

## 3. Runs

| Run | Question | Instance |
|---|---|---|
| `bidding_long` | do concurrent calls, lock expiry, failing saves and crashes keep bids, deadline and ledger of a LONG auction? | 2 calls, 2 users, one with auto-bidding, 2 extensions |
| `bidding_chain` | does the chain of two auto-bidders keep the cooldown, and do call and lock come to an end? | 1 call, 2 auto-bidders with 2 limits, fairness |
| `bidding_sealed` | is the lock exclusive and has every user one bid in a SEALED auction? | 3 calls, 2 users |
| `room` | do pause, resume, fail and end, racing bids and each other, keep row and winner table consistent? | 2 calls, 2 control calls |
| `settlement` | are winners asked in order, deposits returned, decliners replaced? | 2 bidders and one who did not bid, 3 calls that pay, decline or fail, cap 2 or 3, 1 crash, fairness |
| `public_offer` | does the sold row name a payer though two buyers order and verify at the same time, does anything left over reopen an auction whose offer was answered, is a second winner asked to pay? | 2 bidders and one who did not bid, cap 1 or 2, 2 calls that pay, decline or fail the auction, 4 public calls, 1 crash |
| `wallet` | do balances stay covered, agree with the transactions and stay loadable? | 2 users, one of them the winner, 3 calls, 2 deliveries of the job, a whole and a fractional deposit |
| `subscription` | do repeated and reordered webhooks refund at most once, activate only what was paid and leave a plan in force? | 4 rows, 2 paid plans, 2 webhooks at a time, 2 requests, 3 events |
| `accounts` | are codes and fraud points counted right, and does a blocked account stay out? | 2 requests at a time, 4 in all, 2 codes, 2 reports |
| `selling` | do role, approval, category and quota stay consistent? | 2 requests at a time, 3 in all, 2 plans, 3 auctions |
| `listings` | do pages, feed and counts show what is there? | every table of 3 auctions, clock 0..2 |
| `live_room` | do users know the streams, do empty rooms go, are chats complete? | a host and a visitor, 2 handlers at a time, 5 requests |

Properties:

* `LockExclusive`: two calls are in the locked section only if a key expired
  under one of them. `BidLadder`, `CooldownKept`, `OneSealedBid`: until that
  happens, stored bids obey the rules. `KeepsLedger`: the whole system
  implements `BidLedger`.
* `NoSelfOutbid`: in sniping time auto-bidding does not look who bid last; it
  relies on the cooldown, hence the hypothesis `TTL <= Cooldown`: only then
  is the cooldown still running in every call.
* `DeadlineAccounted`: deadline and counter stay in step whichever stale copy is
  saved last. `NoLostExtension`: no bid takes an extension back.
* `WinnerRecorded`, `WinnerOnlyWhenEnded`: row, winner table and bids agree after
  every order of saves and every crash.
* `WinnerLadder`, `OnlyWinnersPay`, `NoComeback`, `DepositsReturned`,
  `DeclinerReplaced`: the settlement. `Settled`: at rest the winner was asked for both
  payments, provided neither part of the amount is rounded to 0 (with a
  deposit ratio of 1 the balance is 0, and a payment of 0 is refused).
  `SoldToPayer`: whoever a sold row names is marked as paid and owes the balance.
  `NotOfferedAgain`: once the offer is answered the row only becomes sold or failed,
  and names one who answered. It does *not* stay sold: see `failAuction` below.
* `MainCovered`: whichever stale copy is saved last, the main balance stays
  non-negative. `BooksBalance`: while nobody else worked on the row, balances
  equal stored transactions, through holds and releases. `NeverLockedOut`:
  with the deposit unchanged and one delivery, no release makes a row unloadable.
* `PaidFirst`: under any overlap, failure and repetition a plan is in force, and
  money given back, only for a reported payment. `RefundCovered`, `NoRevival`,
  `NeverWithout`: the same under any repetition and order, one call at a time.
* `GuessesBounded`, `StaysOut`, `FraudCounted`: accounts, one request at a time
  but through every mix of purposes, expiry, profile changes and reviews; the
  first part of `FraudCounted` holds under overlap too.
* `SellerApproved`, `ListsLoad`: one request at a time, failing half-way or not.
  `AuctionQuota`: under overlap and a stale cache.
* `PagesExact`, `FeedSoonest`, `CountsAgree`: queries against a reference definition.
* `StreamsKnown`, `RoomsDisposed`, `ChatSeen`: under every interleaving; what
  still goes wrong is in the history variables `ghosts`, `lost` and `window`.
  `ChatSeen` speaks of every message: a client has all that came after its join
  and, of those before (`past`), the oldest `ChatLimit`.
* `LockFreed`, `CallsEnd`, `DeclinerReplaced`: liveness.

Properties that say "one at a time" do so through the history variable `mixed`
(or `dirty` in `Wallet`): the model still runs every overlap, and the overlaps do
break them, as the list below says. The hypothesis is the exact line between
what this code guarantees and what it does not.

Why the bounds suffice: a lock hazard needs one holder and one rival, the third
call of `bidding_sealed` adds the late release; an extension hazard needs one
extension to lose and a second to write; the chain needs two
configurations; in `settlement` the second winner may decline too, so that both
ends occur, the cap and the lack of bidders, and a wrong pick could bring the
first winner back; in `public_offer` the second bid of 3 rounds the deposit to 0. Two buyers who both
pay need two orders and two verifications of two users who never won, hence the
four public calls and the user without a bid: both are then marked as paid and one
sale overwrites the other. `FewIncidents` bounds that run: five of calls made, failures
and crashes (a decline and those four; or a decline, an order, a verification, a failure
and a crash).
A lost update needs two calls on one row and a third to make the row
worth losing (`wallet`); a replaced subscription needs the default row, two paid
ones and the row made at the end of one (`subscription`); a counter that may
be overrun needs its limit, taken as 1, and one try more (`accounts`); a quota
needs limit 2 and three auctions (`selling`); a merge or a page border needs
three rows of two types (`listings`); a stream needs a sender, a watcher, and five
requests from an empty room, or from a room in which the host is about to
produce, so that watching and replacing a transport both fit (`live_room`).
`MaxNotices`, `MaxCrashes`, `MaxRequests`, `MaxJobs`, `MaxSubs`, `MaxEvents`,
`MaxFaults`, `MaxSwitches`, `MaxCodes`, `MaxReports`, `MaxGranted`, `MaxAuctions`,
`MaxMoves`, `MostIncidents`, `MaxRows`, `Moving`, `Horizon` and the sets of calls are the named bounds.
Symmetry is used only over identifiers of calls and never in runs with liveness.
`CHECK_DEADLOCK FALSE` stands where everything is done once calls, requests and
clock are used up; the bidding and room runs never stop because time goes on.

Fairness: weak fairness of each started call (the event loop resumes it), of
`Tick` (time passes, Redis expires keys), and of the two workers (BullMQ polls).
Users owe nothing: nobody has to bid, pay or decline, and no failing branch is
fair.

### Known disagreements between code, texts and intent

Met while modelling; each is behaviour of the models, which follow the code.

* Bids. `bidRepo.create` (`placeBid.usecase.ts:220`) does not ask whether the lock
  is still held; after it expired, a bid at or below the latest is stored, though
  `appKnowledge.docs.ts:62` says "Bid must exceed latest bid". The
  quota (`:58`) is counted before the lock and not at all for auto-bids. An extension
  (`:210`) saves the row read before the auction was ended: `ENDED` becomes `ACTIVE`.
* Payments. `declinePayment.usecase.ts:74` overwrites a payment completed since it
  was read (`:66`: "Only pending payments can be declined"). Two verifications pass
  the pending check of the one public offer (`verifyPublicAuctionPayment.usecase.ts:83`)
  and both buyers are PAID, without the gateway being asked.
* Failing. `Auction.setStatus` (`auction.entity.ts:140-160`) guards neither SOLD nor
  FAILED. `failAuction.usecase.ts:36`, which any seller or administrator reaches
  (`auction.handler.ts:584`), writes `FAILED` over an auction that is offered or sold,
  though `appKnowledge.docs.ts:35` says "ENDED/SOLD/FAILED/CANCELLED: terminal or
  closed paths"; a buyer's call sells a failed auction
  (`verifyPublicAuctionPayment.usecase.ts:140`), and a notice that read the row before
  it failed opens it again.
* Wallet. A top-up order can be confirmed any number of times. A repeated join
  holds the deposit again and the release gives back one. A release after the
  setting was raised, or delivered twice, takes the held balance below zero,
  and the wallet cannot be loaded any more. Overlapping calls lose updates.
* Subscription. No event id is kept. Overlapping webhooks can revive an expired
  row, refund it twice, or leave no row ACTIVE. The end of a subscription that
  was replaced long ago creates a default row without end, which outranks a paid
  plan. Without a wallet the refund, and with it the new plan, is refused.
* Accounts. `verifyCredentials` takes a code of any purpose and so verifies the
  e-mail address. The codes for profile changes are never marked used. Overlapping
  wrong codes count once. The daily count of reports ends at 23:23:23 and
  suspends only when both counts are exactly 3. Any profile save
  overlapping a block or suspension undoes it.
* Selling. `BaseRepository.save` reports errors that callers drop, so an approval
  may answer success without one of its writes; a failure between role and record
  blocks the repetition. Documents may be replaced after approval. `isActive` of a
  category is never asked. `updateSubscriptionPlan` can make a second default, which
  `updateSubscriptionPlanStatus.usecase.ts:39` refuses. Approving and rejecting at
  once can leave auctions in a rejected category: every list with them fails.
* Lists. The total and the page number of the browse list are those of the page
  that was read: the total never exceeds the limit. The administrator's total
  leaves out what is on other pages.
* Live room. A socket that disconnects while entering stays in the room as a user
  nobody removes; a router made by the second of two first visitors is never
  closed; entering again forgets the transports of before; a host may go on
  producing after the end. Messages sent between the history and the join of a
  newcomer are missed, and the history is the *oldest* 50.

## 4. Proofs

All theorems hold for arbitrary constants that satisfy the named assumptions
(`PolicyAssumption`, `BiddingAssumption`,
`SettlementAssumption`, `PublicOfferAssumption`, `WalletAssumption`,
`SubscriptionAssumption`, `AccountsAssumption`): any number of users, calls, bids,
rows, deliveries, crashes. The assumptions say that the constants have their
types, that "nobody" is not a user, and that the system is not empty: there is
room for the first subscription (`MaxSubs # 0`; registration makes that row),
at least one request of an account (`Calls # {}`) and one socket (`Sockets # {}`);
and that the requests a seller has under way are finitely many, so that
they can be counted (`Calls` of `Selling`). Every auxiliary invariant below was an
invariant of the component's TLC run before it was proved.

* `BiddingProofs`, on bidding. `TypeCorrect` needs `DraftInv` (a request about to store a bid
  has drafted one). `LockExcludes` rests on `LockInv`: a request in the
  section holds the key or has lapsed; then two of them cannot both hold it.
  `DeadlineKept` needs `RowInv`: not only the stored row but every copy a
  request holds is accounted for, since any copy may be saved.
* `BiddingProofs`, on the ledger. `TimeInv`: stored bids and known times are not in the future.
  `AdmitInv`: while no lock has lapsed, what the request in the section has read
  (latest amount, own last bid, draft) is still true of the bid table.
  It is inductive because `LockInv` rules out a second writer. From it
  `BiddingKeepsLedger` (every step of `Bidding` is a step of `BidLedger` or
  a stutter), `StoredBidsFair`, `CooldownHolds` and `SealedOnce`.
  `ExtensionsStay` needs `NearInv`: a copy that may be written back is at most one
  extension behind the row. It cannot be "up to date": when the extension of an automatic
  bid is saved and the bid is not, the loop goes on with the copy from before,
  and what it writes next is the same deadline again.
  `AutoBidsOthers` needs `FreshInv`: during the automatic part of a call the newest bid was
  made since the lock was taken, so with `TTL <= Cooldown` its user is
  still in the cooldown; this is all that keeps the sniping branch, which
  does not look who bid last, from raising that user's own bid.
* `BiddingProofs`, on the room. The room's steps leave the invariant of the ledger alone
  (`RoomInv`), hence `RoomTypeCorrect` and `RoomKeepsLedger`. `WinnersRecorded` and
  `WinnersOfTheEnded` need `CopiesInv`: every copy of the row, of a bid, an automatic
  bid or a control call, is `Honest` (it names a winner exactly when its status is
  ENDED, and that user has a winner row and a bid of that amount), because each copy may be
  saved over the row; winner rows and bids are never deleted, so copies stay
  honest. `RoomDeadlineKept` extends `DeadlineKept` to the copies of control calls.
* `SettlementProofs`, on the settlement. `SettleInv` joins the type invariant with `JobInv` (jobs
  in queues and workers belong to winners), `PickInv` (the user the fallback
  worker has picked is still the best eligible one, and the cap is not reached,
  until the winner row is saved), `CallInv` (a call works for a winner),
  `OnlyWinnersPay` and `LadderInv` (`WinnerLadder`, plus: nobody eligible bid more than
  a recorded winner). Theorems: `SettleTypeCorrect`, `WinnersRanked`, `PaymentsOfWinners`,
  `WinnersDoNotReturn`. A row that a call is about to save as failed is a
  copy, so the last one also needs to know whom such copies name (`Names`). `DepositsGoBack` needs `DepositInv`: as long as
  nothing failed, the end job is either before its first payment, and then
  nobody can pay, decline or be replaced (`Opening`), or it has released all
  deposits but that of the winner of rank 1 (`Opened`, `Returned`). `WinnersSettled` needs `AskedInv`: `BusyInv`
  (what the fallback worker is about agrees with the row), `PaidCalls`, `HalfInv`
  (calls and half-made pairs belong to payments that exist), `AskInv` (the winner
  of the row was asked, or somebody is on the way to ask) and `DeclineInv` (a
  decline by the winner of the row has a call, a job or a worker behind it).
* `SettlementProofs`, on the public offer. `PublicInv` adds to `AskedInv` that nothing of the offer
  moves while the auction is ENDED (`StillInv`), that nobody answers before the row is open and no
  notice worker saves the row after (`StageInv`), that the row, and every copy about to be
  saved as failed, names nobody but one who answered (`NamesInv`, `BuyerInv`), and that a call which comes to the row has
  saved buyer row, offer and balance on its way unless a save failed (`PaidInv`).
  `OfferMove` says what a step of the offer may do to the settlement: only touch
  an auction past ENDED; so all of `AskedInv` survives it (`AskedStands`), and the
  settlement leaves a row past ENDED alone but for failing it (`RowRests`, `NextNames`). Theorems:
  `PublicTypeCorrect`, `SoldToThePayer`, `OfferedOnce` (`NotOfferedAgain`), `PublicStillSettled`.
* `WalletProofs`. `NeverOverdrawn` needs `Covered`: the money a call is about to take
  is in its *copy*; nothing need be known of the row it overwrites.
  `WalletsBalance` needs `Books`: on a row nobody disturbed there is one actor at most,
  its copy is the row, and the transactions add up to the row or to what is about to be
  saved. `NobodyLockedOut` needs `SettingInv` (cache and calls agree on
  the deposit while it is not edited) and `HeldInv` (from the hold to the release the
  deposit is in the held balance).
* `SubscriptionProofs`. `PaidBeforeUse`, under any overlap, needs that what a webhook
  took for paid was paid, also in its copies (`Sound`), and that ACTIVE events
  are sent for paid rows only (`SentInv`). The others rest on `AloneInv`: with one call
  at a time its copies are the rows. `RefundsCovered` further needs `Refunds` (a refunded row is
  expired or about to be) and the arithmetic of the share (`Share`);
  `AlwaysSubscribed` needs `ForceInv` (a row is in force or a call is about to put
  one in force, and none is ended before another one is).
* `AccountsProofs`. `Sound`, under any overlap: no copy holds points but those
  handed out and those its request is about to hand out. `Alone`, one
  request at a time: copies are what the rows say, and wrong tries are
  counted in the row or about to be. From both `PointsCounted`,
  `TriesBounded`, `OutUntilLifted`.

* `SellingProofs`. Every handler step of a request is shown once to be one of a few
  kinds (`Begins`, `Acts`, `Elsewhere`), and the invariants are proved of those.
  `SellersAreApproved` needs `KycInv`: one request at a time, the only one in
  flight (`Sole`) holds the record and the role as they are stored, and
  what it is about to write fits with them, half-way between the two saves too. `ListsCanBeRead` needs
  `CategoryInv`: a request about to save an auction or a category holds one that is
  still readable. `QuotaHolds`, under any overlap, needs `LimitInv` (no limit in
  a plan, in the cache or in a request's hands is above the highest there
  was) and `QuotaInv`: the auctions that exist *and those of the requests that were let in
  and have not stored theirs* exceed the highest limit by at most the number of
  other requests; the auctions alone are not inductive.
* `ListingsProofs`. `CountsAreRight` needs `RowsOK` (nobody has won what is not over):
  without it the SQL by status and the labels by winner count differently.
  `FeedIsSoonest` is about operators alone: `Sorted` lists each element once in order
  (`PlaceTaken`, by counting what is below each element), so `Ordered` does; two lists
  cut and joined hold nothing twice (`JoinedDistinct`); and what was cut away
  comes no sooner than anything in the first `limit` of the merged list (`LeftOut`): if it
  did, the `limit` elements before it in its own list would all have to come in
  fewer than `limit` places, against the pigeonhole principle.
* `LiveRoomProofs`. `RoomsAreDisposed` needs `PlaceInv`: a connected user of the
  room is in the socket room, who is about to enter has joined it, and a request
  outlives its socket only as that of a ghost. `StreamsStayKnown` needs
  `ListedInv` (a listed producer is open, on one user's list, and told to every user) and
  `WatchInv` (as long as its transport is open and its owner connected, a consumer
  is open with its producer, or its owner was told of the end). `ChatIsSeen` needs `ChatInv`:
  what was told was stored before, a client between reading the history
  and joining has read each of the oldest messages but those told in the `window`, and
  one that has joined has got those and all that was told since.

Three things came to light while proving and were corrected in the modules: `PaidFirst` was
parsed as a weaker formula than the one meant; `Settled` demanded a
balance payment the code cannot make when the deposit is the whole amount; and three
constants could be empty where the program has at least one.

Only model-checked:

* liveness (`LockFreed`, `CallsEnd`, `DeclinerReplaced`): the prover has no fairness;
* `PagesExact`: that the pages of a list put together are the list, drafts filtered out, is said
  with `FlattenSeq` and `SelectSeq`, which are recursive, and needs induction over the
  number of pages.

All other properties of section 3 are theorems.

## 5. Plan

Every part of the system that decides on state is modelled, and every safety
property but `PagesExact` is proved. What could follow:

1. Lemmas on single pages (a page is the part of the list at its place, and
   two pages have nothing in common), as far as they go without induction.
2. A refinement of `Wallet` into the deposits that `Settlement` counts, so that the
   theorem on returned deposits speaks of balances.

## 6. Not modelled

* The expiry cron: it passes `execute` without its object, so each tick throws
  before anything changes.
* E-mail, templates, notifications: output that no operation reads back. Uploads:
  signed URLs, no state. The assistant: calls to a language model, no state.
* Parsing, validation messages, formatting of answers, dependency injection; tokens,
  cookies and hashing. Statistics of the seller and the administrator, search terms
  and category filters of the lists, and the number of people watching.
* BullMQ, Redis, PostgreSQL, Razorpay and mediasoup are external and appear as the
  code uses them: queues that redeliver, a key that expires, single statements
  that succeed or fail, a gateway that repeats its events, media objects that close together.
