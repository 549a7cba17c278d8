----------------------------- MODULE Settlement -----------------------------
(***************************************************************************)
(* What happens to an auction after it ended: the job of the auction-end   *)
(* queue gives back the deposits of the losers and asks the winner for two *)
(* payments; the winner completes or declines them; a declined payment     *)
(* queues a job that hands the auction to the next best bidder, until the  *)
(* cap on winners is reached.                                              *)
(*                                                                         *)
(* The workers take one job at a time.  A failed Result is logged and the  *)
(* job counts as done; a crash, or an exception in the end job, brings the *)
(* job back to its queue.  The calls of users run beside the workers; a    *)
(* seller or an administrator may mark the auction as failed once it is    *)
(* past ENDED.  Nothing is transactional: every step below is one          *)
(* statement to the database.                                              *)
(***************************************************************************)
EXTENDS Integers, Sequences, FiniteSets

CONSTANTS
    Users,              \* who joined the auction
    NoUser,
    BestBid,            \* the highest bid of each user, 0 for none
    MaxRanks,           \* values of the setting AUCTION_WINNER_FALLBACK_MAX_RANK
    DepositParts,       \* the deposit is one part in so many of the amount
    Calls,              \* calls of verifyPayment, declinePayment, failAuction
    MaxCrashes          \* bound on crashes and on restarts of the end job

\* The highest bidders among the users in S.
Best(S) == {u \in S : /\ BestBid[u] > 0
                      /\ \A v \in S : BestBid[v] <= BestBid[u]}

ASSUME SettlementAssumption ==
    /\ NoUser \notin Users
    /\ BestBid \in [Users -> Nat]
    /\ MaxRanks \subseteq Nat /\ MaxRanks # {}
    /\ DepositParts \in Nat \ {0} /\ MaxCrashes \in Nat
    /\ Best(Users) # {}

VARIABLES
    auction,            \* the auction row: status and winner
    winners,            \* the auction_winner table
    payments,           \* the payments of the auction, by user and phase
    held,               \* deposits held in the wallet of each user
    endJobs,            \* the auction-end queue
    fallbackJobs,       \* the winner-fallback queue
    worker,             \* the two workers
    call,               \* the calls of users
    crashes,            \* crashes and restarts of the end job so far
    failed              \* whether a query or a save failed so far

settleVars == <<auction, winners, payments, held, endJobs, fallbackJobs,
                worker, call, crashes, failed>>

-----------------------------------------------------------------------------
Statuses == {"ENDED", "FALLBACK_ENDED", "FALLBACK_PUBLIC_NOTIFICATION", "SOLD", "FAILED"}

AuctionRow == [status : Statuses, winner : Users \cup {NoUser}, amount : Nat]

WinnerRow == [user : Users, amount : Nat, rank : Nat]

Phases == {"DEPOSIT", "BALANCE"}

PaymentStatus == {"NONE", "PENDING", "COMPLETED", "DECLINED"}

Job == [user : Users, amount : Nat]

Workers == {"end", "fallback"}

Worker == [pc : {"idle", "release", "cleanup", "pick", "giveup", "row", "winner",
                 "check", "deposit", "balance"},
           job : Job \cup {<<>>},          \* the job it is busy with
           user : Users \cup {NoUser},     \* who is to pay
           amount : Nat,
           todo : SUBSET Users]            \* deposits still to give back

Idle == [pc |-> "idle", job |-> <<>>, user |-> NoUser, amount |-> 0, todo |-> {}]

Call == [pc : {"idle", "complete", "decline", "enqueue", "fail", "done"},
         user : Users \cup {NoUser}, phase : Phases,    \* of the payment read
         row : AuctionRow]                              \* the row failAuction read

Fresh == [pc |-> "idle", user |-> NoUser, phase |-> "DEPOSIT",
          row |-> [status |-> "ENDED", winner |-> NoUser, amount |-> 0]]

Over == [Fresh EXCEPT !.pc = "done"]

SettleTypeOK ==
    /\ auction \in AuctionRow
    /\ winners \subseteq WinnerRow
    /\ payments \in [Users -> [Phases -> PaymentStatus]]
    /\ held \in [Users -> Int]
    /\ endJobs \in Seq(Job) /\ fallbackJobs \in Seq(Job)
    /\ worker \in [Workers -> Worker]
    /\ call \in [Calls -> Call]
    /\ crashes \in 0..MaxCrashes /\ failed \in BOOLEAN

\* The auction was just ended: the winner is recorded and the row saved.  The
\* event may not have reached the queue, OnAuctionEndHandler only logs that.
SettleInit ==
    \E w \in Best(Users) :
      /\ auction = [status |-> "ENDED", winner |-> w, amount |-> BestBid[w]]
      /\ winners = {[user |-> w, amount |-> BestBid[w], rank |-> 1]}
      /\ payments = [u \in Users |-> [p \in Phases |-> "NONE"]]
      /\ held = [u \in Users |-> 1]
      /\ \/ endJobs = <<[user |-> w, amount |-> BestBid[w]]>> /\ failed = FALSE
         \/ endJobs = <<>> /\ failed = TRUE
      /\ fallbackJobs = <<>>
      /\ worker = [k \in Workers |-> Idle]
      /\ call = [c \in Calls |-> Fresh]
      /\ crashes = 0

At(k, pc) == worker[k].pc = pc

GoTo(k, pc) == worker' = [worker EXCEPT ![k].pc = pc]

Done(k) == worker' = [worker EXCEPT ![k] = Idle]

\* BullMQ puts a job that was being worked on back into its queue.
Requeued(k, jobs) == IF At(k, "idle") THEN jobs ELSE Append(jobs, worker[k].job)

-----------------------------------------------------------------------------
(***************************************************************************)
(* The auction-end worker                                                  *)
(***************************************************************************)

\* Faulty variant: the winner's deposit is given back with the others.
EndTake_Everybody ==
    /\ At("end", "idle") /\ endJobs # <<>>
    /\ worker' = [worker EXCEPT !["end"] =
                    [Idle EXCEPT !.pc = "release", !.job = Head(endJobs),
                                 !.user = Head(endJobs).user,
                                 !.amount = Head(endJobs).amount, !.todo = Users]]
    /\ endJobs' = Tail(endJobs)
    /\ UNCHANGED <<auction, winners, payments, held, fallbackJobs, call, crashes, failed>>

\* The worker takes a job; releaseParticipantsWallet reads the row and the
\* participants, and passes over the winner the row names.
EndTake ==
    /\ At("end", "idle") /\ endJobs # <<>>
    /\ worker' = [worker EXCEPT !["end"] =
                    [Idle EXCEPT !.pc = "release", !.job = Head(endJobs),
                                 !.user = Head(endJobs).user,
                                 !.amount = Head(endJobs).amount,
                                 !.todo = Users \ {auction.winner}]]
    /\ endJobs' = Tail(endJobs)
    /\ UNCHANGED <<auction, winners, payments, held, fallbackJobs, call, crashes, failed>>

\* One wallet is read, its held deposit moved back, and saved.
ReleaseDeposit(u) ==
    /\ At("end", "release") /\ u \in worker["end"].todo
    /\ held' = [held EXCEPT ![u] = @ - 1]
    /\ worker' = [worker EXCEPT !["end"].todo = @ \ {u}]
    /\ UNCHANGED <<auction, winners, payments, endJobs, fallbackJobs, call, crashes, failed>>

\* A wallet cannot be saved: the release stops there, the job goes on.
ReleaseFails ==
    /\ At("end", "release") /\ worker["end"].todo # {}
    /\ worker' = [worker EXCEPT !["end"].todo = {}]
    /\ failed' = TRUE
    /\ UNCHANGED <<auction, winners, payments, held, endJobs, fallbackJobs, call, crashes>>

\* A wallet or a payment cannot be read: nothing catches the exception, and
\* BullMQ starts the job again from its beginning.
EndThrows ==
    /\ At("end", "release") \/ At("end", "check")
    /\ crashes < MaxCrashes
    /\ endJobs' = Requeued("end", endJobs)
    /\ Done("end")
    /\ crashes' = crashes + 1 /\ failed' = TRUE
    /\ UNCHANGED <<auction, winners, payments, held, fallbackJobs, call>>

\* Winner and losers are notified, and the winner is to be asked to pay.
EndNotify ==
    /\ At("end", "release") /\ worker["end"].todo = {}
    /\ GoTo("end", "check")
    /\ UNCHANGED <<auction, winners, payments, held, endJobs, fallbackJobs, call, crashes, failed>>

-----------------------------------------------------------------------------
(***************************************************************************)
(* createPendingPaymentForAuction, called by both workers                  *)
(***************************************************************************)

\* Nothing is created for a user with a deposit or a balance already.
CheckPending(k) ==
    /\ At(k, "check")
    /\ IF \E p \in Phases : payments[worker[k].user][p] # "NONE"
       THEN Done(k) ELSE GoTo(k, "deposit")
    /\ UNCHANGED <<auction, winners, payments, held, endJobs, fallbackJobs, call, crashes, failed>>

\* How AuctionPaymentAmountSplitStrategy splits an amount.
Split(amount) ==
    LET deposit == amount \div DepositParts
    IN  [p \in Phases |-> IF p = "DEPOSIT" THEN deposit ELSE amount - deposit]

\* A payment of 0 is refused, and so is a second one for user and phase.
CreatePayment(k, phase, next) ==
    LET u == worker[k].user
    IN  IF Split(worker[k].amount)[phase] > 0 /\ payments[u][phase] = "NONE"
        THEN /\ payments' = [payments EXCEPT ![u][phase] = "PENDING"]
             /\ next
        ELSE /\ Done(k)
             /\ UNCHANGED payments

\* Faulty variant: the job ends with the deposit.
CreateDeposit_Last(k) ==
    /\ At(k, "deposit")
    /\ CreatePayment(k, "DEPOSIT", Done(k))
    /\ UNCHANGED <<auction, winners, held, endJobs, fallbackJobs, call, crashes, failed>>

CreateDeposit(k) ==
    /\ At(k, "deposit")
    /\ CreatePayment(k, "DEPOSIT", GoTo(k, "balance"))
    /\ UNCHANGED <<auction, winners, held, endJobs, fallbackJobs, call, crashes, failed>>

\* After the balance the fallback worker still notifies the new winner.
CreateBalance(k) ==
    /\ At(k, "balance")
    /\ CreatePayment(k, "BALANCE", Done(k))
    /\ UNCHANGED <<auction, winners, held, endJobs, fallbackJobs, call, crashes, failed>>

-----------------------------------------------------------------------------
(***************************************************************************)
(* The winner-fallback worker                                              *)
(***************************************************************************)

\* Faulty variant: the job is done without looking at the row again.
FallbackTake_Unchecked ==
    /\ At("fallback", "idle") /\ fallbackJobs # <<>>
    /\ worker' = [worker EXCEPT !["fallback"] =
                    [Idle EXCEPT !.pc = "cleanup", !.job = Head(fallbackJobs)]]
    /\ fallbackJobs' = Tail(fallbackJobs)
    /\ UNCHANGED <<auction, winners, payments, held, endJobs, call, crashes, failed>>

\* The job is dropped unless the declining user still is the winner of an
\* ended auction.
FallbackTake ==
    /\ At("fallback", "idle") /\ fallbackJobs # <<>>
    /\ LET job == Head(fallbackJobs)
       IN  IF auction.status = "ENDED" /\ auction.winner = job.user
           THEN worker' = [worker EXCEPT !["fallback"] =
                             [Idle EXCEPT !.pc = "cleanup", !.job = job]]
           ELSE UNCHANGED worker
    /\ fallbackJobs' = Tail(fallbackJobs)
    /\ UNCHANGED <<auction, winners, payments, held, endJobs, call, crashes, failed>>

\* declineAllPendingForAuctionUser
FallbackCleanup ==
    /\ At("fallback", "cleanup")
    /\ payments' = [payments EXCEPT ![worker["fallback"].job.user] =
                      [p \in Phases |-> IF @[p] = "PENDING" THEN "DECLINED" ELSE @[p]]]
    /\ GoTo("fallback", "pick")
    /\ UNCHANGED <<auction, winners, held, endJobs, fallbackJobs, call, crashes, failed>>

\* Who never was a winner of this auction.
Eligible == Users \ {w.user : w \in winners}

\* GetFallBackAuctionWinnerStrategy: give up at the cap, else the best of the
\* bidders that were not winners yet; with none left the job just ends.  The
\* cap is a setting an admin may edit, read anew by every job.
PickFrom(S) ==
    /\ At("fallback", "pick")
    /\ \E max \in MaxRanks :
          \/ /\ Cardinality(winners) >= max
             /\ GoTo("fallback", "giveup")
          \/ /\ Cardinality(winners) < max
             /\ winners = {} \/ Best(S) = {}
             /\ Done("fallback")
          \/ /\ Cardinality(winners) \in 1..(max - 1)
             /\ \E u \in Best(S) :
                   worker' = [worker EXCEPT !["fallback"].pc = "row",
                                            !["fallback"].user = u,
                                            !["fallback"].amount = BestBid[u]]
    /\ UNCHANGED <<auction, winners, payments, held, endJobs, fallbackJobs, call, crashes, failed>>

\* Faulty variant: only the user who declined is passed over.
FallbackPick_OnlyDecliner == PickFrom(Users \ {worker["fallback"].job.user})

FallbackPick == PickFrom(Eligible)

FallbackGiveUp ==
    /\ At("fallback", "giveup")
    /\ auction' = [status |-> "FALLBACK_ENDED", winner |-> NoUser, amount |-> 0]
    /\ Done("fallback")
    /\ UNCHANGED <<winners, payments, held, endJobs, fallbackJobs, call, crashes, failed>>

\* Faulty variant: the payments are created before the winner is recorded.
FallbackSaveRow_PayFirst ==
    /\ At("fallback", "row")
    /\ auction' = [auction EXCEPT !.winner = worker["fallback"].user,
                                  !.amount = worker["fallback"].amount]
    /\ GoTo("fallback", "check")
    /\ UNCHANGED <<winners, payments, held, endJobs, fallbackJobs, call, crashes, failed>>

\* The row names the new winner ...
FallbackSaveRow ==
    /\ At("fallback", "row")
    /\ auction' = [auction EXCEPT !.winner = worker["fallback"].user,
                                  !.amount = worker["fallback"].amount]
    /\ GoTo("fallback", "winner")
    /\ UNCHANGED <<winners, payments, held, endJobs, fallbackJobs, call, crashes, failed>>

\* Faulty variant: the rank is that of the last winner.
FallbackSaveWinner_SameRank ==
    /\ At("fallback", "winner")
    /\ winners' = winners \cup {[user |-> worker["fallback"].user,
                                 amount |-> worker["fallback"].amount,
                                 rank |-> Cardinality(winners)]}
    /\ GoTo("fallback", "check")
    /\ UNCHANGED <<auction, payments, held, endJobs, fallbackJobs, call, crashes, failed>>

\* ... then the winner is recorded, ranked behind those before.
FallbackSaveWinner ==
    /\ At("fallback", "winner")
    /\ winners' = winners \cup {[user |-> worker["fallback"].user,
                                 amount |-> worker["fallback"].amount,
                                 rank |-> Cardinality(winners) + 1]}
    /\ GoTo("fallback", "check")
    /\ UNCHANGED <<auction, payments, held, endJobs, fallbackJobs, call, crashes, failed>>

\* A query, a save or a notification of the job fails: the Result is logged
\* and the job counts as done.
JobFails(k) ==
    /\ ~At(k, "idle") /\ worker[k].todo = {}
    /\ Done(k)
    /\ failed' = TRUE
    /\ UNCHANGED <<auction, winners, payments, held, endJobs, fallbackJobs, call, crashes>>

-----------------------------------------------------------------------------
(***************************************************************************)
(* Calls of users                                                          *)
(***************************************************************************)

CallAt(c, pc) == call[c].pc = pc

CallEnds(c) == call' = [call EXCEPT ![c] = Over]

\* verifyPayment or declinePayment reads the user's payment: only a pending
\* one is worked on.
ReadPayment(c, pc) ==
    \E u \in Users, p \in Phases :
        /\ CallAt(c, "idle") /\ payments[u][p] = "PENDING"
        /\ call' = [call EXCEPT ![c] = [Fresh EXCEPT !.pc = pc, !.user = u, !.phase = p]]
        /\ UNCHANGED <<auction, winners, payments, held, endJobs, fallbackJobs,
                       worker, crashes, failed>>

VerifyPayment(c) == ReadPayment(c, "complete")

DeclinePayment(c) == ReadPayment(c, "decline")

\* Whatever the payment is by now, the status decided on is saved.
SavePayment(c, status) ==
    /\ payments' = [payments EXCEPT ![call[c].user][call[c].phase] = status]
    /\ UNCHANGED <<auction, winners, held, endJobs, fallbackJobs, worker, crashes, failed>>

\* The gateway confirmed the payment.
SaveCompleted(c) ==
    /\ CallAt(c, "complete")
    /\ CallEnds(c)
    /\ SavePayment(c, "COMPLETED")

SaveDeclined(c) ==
    /\ CallAt(c, "decline")
    /\ call' = [call EXCEPT ![c].pc = "enqueue"]
    /\ SavePayment(c, "DECLINED")

\* Faulty variant: the job is queued for a row without a winner only.
EnqueueFallback_Lost(c) ==
    /\ CallAt(c, "enqueue")
    /\ fallbackJobs' = IF auction.winner = NoUser
                       THEN Append(fallbackJobs, [user |-> call[c].user, amount |-> 0])
                       ELSE fallbackJobs
    /\ CallEnds(c)
    /\ UNCHANGED <<auction, winners, payments, held, endJobs, worker, crashes, failed>>

\* The winner of an ended auction declined: the next one is to be found.  (A
\* report to the fraud component follows.)
EnqueueFallback(c) ==
    /\ CallAt(c, "enqueue")
    /\ fallbackJobs' = IF auction.status = "ENDED" /\ auction.winner = call[c].user
                       THEN Append(fallbackJobs, [user |-> call[c].user, amount |-> 0])
                       ELSE fallbackJobs
    /\ CallEnds(c)
    /\ UNCHANGED <<auction, winners, payments, held, endJobs, worker, crashes, failed>>

\* Auction.setStatus
CanSetStatus(row, status) ==
    /\ row.status = "ENDED" => status = "FALLBACK_ENDED"
    /\ row.status = "FALLBACK_ENDED" => status \in {"FAILED", "FALLBACK_PUBLIC_NOTIFICATION"}

\* failAuction reads the row: one that was offered or sold may fail too ...
FailAuction(c) ==
    /\ CallAt(c, "idle") /\ CanSetStatus(auction, "FAILED")
    /\ call' = [call EXCEPT ![c] = [Fresh EXCEPT !.pc = "fail", !.row = auction]]
    /\ UNCHANGED <<auction, winners, payments, held, endJobs, fallbackJobs, worker,
                   crashes, failed>>

\* ... and saves it as failed, whatever it has become since.
SaveFailed(c) ==
    /\ CallAt(c, "fail")
    /\ auction' = [call[c].row EXCEPT !.status = "FAILED"]
    /\ CallEnds(c)
    /\ UNCHANGED <<winners, payments, held, endJobs, fallbackJobs, worker, crashes, failed>>

\* The gateway refuses, or a query or a save fails: the call returns.
CallFails(c) ==
    /\ call[c].pc \in {"complete", "decline", "enqueue", "fail"}
    /\ CallEnds(c)
    /\ failed' = (failed \/ call[c].pc # "complete")
    /\ UNCHANGED <<auction, winners, payments, held, endJobs, fallbackJobs, worker, crashes>>

-----------------------------------------------------------------------------
\* The server dies: calls are lost, jobs return to their queues.
SettleCrash ==
    /\ crashes < MaxCrashes
    /\ crashes' = crashes + 1
    /\ endJobs' = Requeued("end", endJobs)
    /\ fallbackJobs' = Requeued("fallback", fallbackJobs)
    /\ worker' = [k \in Workers |-> Idle]
    /\ call' = [c \in Calls |-> IF CallAt(c, "idle") THEN call[c] ELSE Over]
    /\ UNCHANGED <<auction, winners, payments, held, failed>>

EndStep ==
    \/ EndTake \/ EndNotify
    \/ \E u \in Users : ReleaseDeposit(u)
    \/ CheckPending("end") \/ CreateDeposit("end") \/ CreateBalance("end")

FallbackStep ==
    \/ FallbackTake \/ FallbackCleanup \/ FallbackPick \/ FallbackGiveUp
    \/ FallbackSaveRow \/ FallbackSaveWinner
    \/ CheckPending("fallback") \/ CreateDeposit("fallback") \/ CreateBalance("fallback")

CallStep(c) == SaveCompleted(c) \/ SaveDeclined(c) \/ EnqueueFallback(c) \/ SaveFailed(c)

SettleWork ==
    \/ EndStep \/ FallbackStep \/ ReleaseFails \/ EndThrows
    \/ \E k \in Workers : JobFails(k)
    \/ \E c \in Calls : \/ VerifyPayment(c) \/ DeclinePayment(c) \/ FailAuction(c)
                       \/ CallStep(c) \/ CallFails(c)

SettleNext == SettleWork \/ SettleCrash

SettleSpec == SettleInit /\ [][SettleNext]_settleVars

\* The workers and the event loop go on.
SettleFairSpec ==
    /\ SettleSpec
    /\ WF_settleVars(EndStep) /\ WF_settleVars(FallbackStep)
    /\ \A c \in Calls : WF_settleVars(CallStep(c))

-----------------------------------------------------------------------------
(***************************************************************************)
(* Properties                                                              *)
(***************************************************************************)

\* However often jobs are repeated or lost, the winner rows stay a ladder: one
\* row per user, ranks 1, 2, ... without a gap, no amount above that of a
\* better rank, and the cap of the fallback is kept.
WinnerLadder ==
    /\ {w.rank : w \in winners} = 1..Cardinality(winners)
    /\ \A v, w \in winners : /\ v.user = w.user => v = w
                             /\ v.rank < w.rank => v.amount >= w.amount
    /\ Cardinality(winners) = 1 \/ \E max \in MaxRanks : Cardinality(winners) <= max

\* Only users recorded as winners are asked to pay.
OnlyWinnersPay ==
    \A u \in Users : (\E p \in Phases : payments[u][p] # "NONE")
                        => \E w \in winners : w.user = u

\* A new winner named by the row was never a winner before: a user who
\* declined does not come back by a repeated or a late job.
NoComeback ==
    [][auction'.winner \notin {auction.winner, NoUser} =>
          auction'.winner \in Eligible]_settleVars

\* Nothing failed, nothing crashed, and nothing is in flight.
Quiet ==
    /\ ~failed /\ crashes = 0
    /\ endJobs = <<>> /\ fallbackJobs = <<>>
    /\ \A k \in Workers : At(k, "idle")
    /\ \A c \in Calls : call[c].pc \in {"idle", "done"}

\* When nothing failed and nothing is in flight, the winner the row names was
\* asked for both payments (if neither is rounded to 0), and declined none of
\* them while another bidder could be asked.
Settled ==
    Quiet /\ auction.status = "ENDED" =>
        LET mine == payments[auction.winner]
        IN  /\ (\A p \in Phases : Split(auction.amount)[p] > 0) =>
                  \A p \in Phases : mine[p] # "NONE"
            /\ (\E p \in Phases : mine[p] = "DECLINED") => Best(Eligible) = {}

\* When nothing failed and nothing is in flight, everybody but the winner of
\* the ending got the deposit back, once.
DepositsReturned ==
    Quiet =>
        \A u \in Users : held[u] = IF \E w \in winners : w.user = u /\ w.rank = 1
                                   THEN 1 ELSE 0

\* A winner who declines a payment is replaced in the end, or the auction
\* leaves ENDED, unless a failure came between or nobody is left to ask.
DeclinerReplaced ==
    \A u \in Users :
        (\E p \in Phases : payments[u][p] = "DECLINED") /\ auction.winner = u
            ~> \/ auction.winner # u
               \/ failed \/ crashes > 0 \/ Best(Eligible) = {}
               \/ \A p \in Phases : payments[u][p] # "DECLINED"
=============================================================================
