-------------------------- MODULE SettlementProofs --------------------------
(***************************************************************************)
(* Proofs about Settlement and, after it, PublicOffer.  The inductive      *)
(* invariant of the settlement adds to the type what the workers and calls *)
(* know between their steps: whoever they ask to pay has a winner row, and *)
(* the winner the fallback worker has picked is the best of those who      *)
(* never won.  Nothing of the public offer moves while the auction is      *)
(* ENDED, and from the notice on the settlement leaves the row alone but   *)
(* for failing it: so these invariants survive the steps of the offer, and *)
(* the offer's own follow the buyers through their calls.                  *)
(***************************************************************************)
EXTENDS PublicOffer, FiniteSetTheorems, TLAPS

USE SettlementAssumption DEF settleVars

Won == {w.user : w \in winners}

\* A job names a winner, and the busy end worker is about one.
JobInv ==
    /\ \A i \in 1..Len(endJobs) : endJobs[i].user \in Won
    /\ ~At("end", "idle") => /\ worker["end"].job \in Job
                             /\ worker["end"].job.user \in Won
                             /\ worker["end"].user \in Won
    /\ ~At("fallback", "idle") => worker["fallback"].job \in Job

\* What the fallback worker picked stays the right pick until it is recorded.
PickInv ==
    /\ worker["fallback"].pc \in {"row", "winner"} =>
          /\ worker["fallback"].user \in Best(Eligible)
          /\ worker["fallback"].amount = BestBid[worker["fallback"].user]
          /\ \E max \in MaxRanks : Cardinality(winners) < max
    /\ worker["fallback"].pc \in {"check", "deposit", "balance"} =>
          worker["fallback"].user \in Won

\* The user of a call is known, and has won the auction.
CallUsers ==
    \A c \in Calls : call[c].pc \in {"complete", "decline", "enqueue"} => call[c].user \in Users

CallInv ==
    \A c \in Calls : call[c].pc \in {"complete", "decline", "enqueue"} => call[c].user \in Won

\* Who never won bid no more than anybody who did.
LadderInv ==
    /\ IsFiniteSet(winners) /\ winners # {}
    /\ WinnerLadder
    /\ \A w \in winners, u \in Eligible : BestBid[u] <= w.amount

-----------------------------------------------------------------------------
\* The initial state has the declared types.
LEMMA InitSettleType == SettleInit => SettleTypeOK
<1> SUFFICES ASSUME SettleInit PROVE SettleTypeOK
    OBVIOUS
<1> PICK w \in Best(Users) :
      /\ auction = [status |-> "ENDED", winner |-> w, amount |-> BestBid[w]]
      /\ winners = {[user |-> w, amount |-> BestBid[w], rank |-> 1]}
      /\ \/ endJobs = <<[user |-> w, amount |-> BestBid[w]]>> /\ failed = FALSE
         \/ endJobs = <<>> /\ failed = TRUE
    BY DEF SettleInit
<1>1. w \in Users /\ BestBid[w] \in Nat
    BY DEF Best
<1>2. auction \in AuctionRow
    BY <1>1 DEF AuctionRow, Statuses
<1>3. winners \subseteq WinnerRow
    BY <1>1 DEF WinnerRow
<1>4. endJobs \in Seq(Job) /\ failed \in BOOLEAN
  <2>1. [user |-> w, amount |-> BestBid[w]] \in Job
    BY <1>1 DEF Job
  <2>2. ASSUME NEW j \in Job PROVE <<j>> \in Seq(Job) /\ <<>> \in Seq(Job)
    OBVIOUS
  <2>3. <<[user |-> w, amount |-> BestBid[w]]>> \in Seq(Job) /\ <<>> \in Seq(Job)
    BY <2>1, <2>2
  <2> QED
    BY <2>3
<1>5. payments \in [Users -> [Phases -> PaymentStatus]]
    BY DEF SettleInit, PaymentStatus
<1>6. held \in [Users -> Int] /\ fallbackJobs \in Seq(Job) /\ crashes \in 0..MaxCrashes
    BY DEF SettleInit
<1>7. worker \in [Workers -> Worker]
    BY DEF SettleInit, Idle, Worker
<1>8. call \in [Calls -> Call]
    BY DEF SettleInit, Fresh, Call, Phases, AuctionRow, Statuses
<1> QED
    BY <1>2, <1>3, <1>4, <1>5, <1>6, <1>7, <1>8 DEF SettleTypeOK

\* Idle workers and finished calls have their types.
LEMMA BlankTypes == Idle \in Worker /\ Over \in Call /\ Fresh \in Call
BY DEF Idle, Worker, Over, Fresh, Call, Phases, AuctionRow, Statuses

\* A worker that only moves on, or becomes idle, keeps its type.
LEMMA MoveType ==
    ASSUME worker \in [Workers -> Worker], NEW k \in Workers,
           Done(k) \/ \E pc \in {"idle", "release", "cleanup", "pick", "giveup", "row",
                                 "winner", "check", "deposit", "balance"} : GoTo(k, pc)
    PROVE  worker' \in [Workers -> Worker]
<1>1. CASE Done(k)
    BY <1>1, BlankTypes DEF Done
<1>2. ASSUME NEW pc \in {"idle", "release", "cleanup", "pick", "giveup", "row",
                         "winner", "check", "deposit", "balance"}, GoTo(k, pc)
      PROVE  worker' \in [Workers -> Worker]
  <2>1. [worker[k] EXCEPT !.pc = pc] \in Worker
    BY DEF Worker
  <2> QED
    BY <1>2, <2>1 DEF GoTo
<1> QED
    BY <1>1, <1>2

\* Every step keeps the types.
LEMMA NextSettleType ==
    SettleTypeOK /\ JobInv /\ PickInv /\ CallUsers /\ LadderInv /\ [SettleNext]_settleVars
        => SettleTypeOK'
<1> SUFFICES ASSUME SettleTypeOK, JobInv, PickInv, CallUsers, LadderInv, SettleNext
             PROVE  SettleTypeOK'
    BY DEF SettleTypeOK
<1> USE DEF SettleTypeOK
<1> "end" \in Workers /\ "fallback" \in Workers
    BY DEF Workers
<1>1. CASE EndTake
  <2>1. Head(endJobs) \in Job /\ Tail(endJobs) \in Seq(Job)
    BY <1>1 DEF EndTake
  <2>2. [Idle EXCEPT !.pc = "release", !.job = Head(endJobs),
                     !.user = Head(endJobs).user, !.amount = Head(endJobs).amount,
                     !.todo = Users \ {auction.winner}] \in Worker
    BY <2>1 DEF Idle, Worker, Job
  <2>3. worker' \in [Workers -> Worker]
    BY <1>1, <2>2 DEF EndTake
  <2> QED
    BY <1>1, <2>1, <2>3 DEF EndTake
<1>2. CASE EndNotify
    BY <1>2, MoveType DEF EndNotify
<1>3. ASSUME NEW u \in Users, ReleaseDeposit(u) PROVE SettleTypeOK'
  <2>1. held' \in [Users -> Int]
    BY <1>3 DEF ReleaseDeposit
  <2>2. [worker["end"] EXCEPT !.todo = @ \ {u}] \in Worker
    <3>1. PICK W \in Worker : W = worker["end"]
      OBVIOUS
    <3>2. W.todo \ {u} \in SUBSET Users
      BY DEF Worker
    <3>3. [W EXCEPT !.todo = W.todo \ {u}] \in Worker
      BY <3>2 DEF Worker
    <3> QED
      BY <3>1, <3>3
  <2>3. worker' \in [Workers -> Worker]
    BY <1>3, <2>2 DEF ReleaseDeposit
  <2> QED
    BY <1>3, <2>1, <2>3 DEF ReleaseDeposit
<1>4. CASE ReleaseFails
  <2>2. [worker["end"] EXCEPT !.todo = {}] \in Worker
    <3>1. worker["end"] \in Worker
      OBVIOUS
    <3> QED
      BY <3>1 DEF Worker
  <2>1. worker' \in [Workers -> Worker]
    BY <1>4, <2>2 DEF ReleaseFails
  <2> QED
    BY <1>4, <2>1 DEF ReleaseFails
<1>5. ASSUME NEW k \in Workers, CheckPending(k) PROVE SettleTypeOK'
    BY <1>5, MoveType DEF CheckPending
<1>6. ASSUME NEW k \in Workers, CreateDeposit(k) \/ CreateBalance(k) PROVE SettleTypeOK'
  <2>1. worker' \in [Workers -> Worker]
    BY <1>6, MoveType DEF CreateDeposit, CreateBalance, CreatePayment
  <2>2. ASSUME NEW p \in Phases, payments' = [payments EXCEPT ![worker[k].user][p] = "PENDING"]
        PROVE  payments' \in [Users -> [Phases -> PaymentStatus]]
    BY <2>2 DEF PaymentStatus
  <2>3. payments' \in [Users -> [Phases -> PaymentStatus]]
    BY <1>6, <2>2 DEF CreateDeposit, CreateBalance, CreatePayment, Phases
  <2> QED
    BY <1>6, <2>1, <2>3 DEF CreateDeposit, CreateBalance
<1>7. CASE FallbackTake
  <2>1. Head(fallbackJobs) \in Job /\ Tail(fallbackJobs) \in Seq(Job)
    BY <1>7 DEF FallbackTake
  <2>2. [Idle EXCEPT !.pc = "cleanup", !.job = Head(fallbackJobs)] \in Worker
    BY <2>1 DEF Idle, Worker
  <2>3. worker' \in [Workers -> Worker]
    BY <1>7, <2>2 DEF FallbackTake
  <2> QED
    BY <1>7, <2>1, <2>3 DEF FallbackTake
<1>8. CASE FallbackCleanup
  <2>1. worker' \in [Workers -> Worker]
    BY <1>8, MoveType DEF FallbackCleanup
  <2> DEFINE d == worker["fallback"].job.user
             cleaned == [p \in Phases |-> IF payments[d][p] = "PENDING" THEN "DECLINED"
                                          ELSE payments[d][p]]
  <2>2. d \in Users => cleaned \in [Phases -> PaymentStatus]
    BY DEF PaymentStatus
  <2>3. payments' = [payments EXCEPT ![d] = cleaned]
    BY <1>8 DEF FallbackCleanup
  <2>4. payments' \in [Users -> [Phases -> PaymentStatus]]
    BY <2>2, <2>3
  <2> QED
    BY <1>8, <2>1, <2>4 DEF FallbackCleanup
<1>9. CASE FallbackPick
  <2>1. ASSUME NEW u \in Best(Eligible),
               worker' = [worker EXCEPT !["fallback"].pc = "row", !["fallback"].user = u,
                                        !["fallback"].amount = BestBid[u]]
        PROVE  worker' \in [Workers -> Worker]
    <3>1. u \in Users /\ BestBid[u] \in Nat
      BY DEF Best, Eligible
    <3>a. worker["fallback"] \in Worker
      OBVIOUS
    <3>2. [worker["fallback"] EXCEPT !.pc = "row", !.user = u, !.amount = BestBid[u]] \in Worker
      BY <3>1, <3>a DEF Worker
    <3> QED
      BY <2>1, <3>2
  <2>2. worker' \in [Workers -> Worker]
    BY <1>9, <2>1, MoveType DEF FallbackPick, PickFrom
  <2> QED
    BY <1>9, <2>2 DEF FallbackPick, PickFrom
<1>10. CASE FallbackGiveUp
    BY <1>10, MoveType DEF FallbackGiveUp, AuctionRow, Statuses
<1>11. CASE FallbackSaveRow
    BY <1>11, MoveType DEF FallbackSaveRow, AuctionRow, Worker
<1>12. CASE FallbackSaveWinner
  <2>1. Cardinality(winners) + 1 \in Nat
    BY FS_CardinalityType DEF LadderInv
  <2>2. worker["fallback"].user \in Users /\ worker["fallback"].amount \in Nat
    BY <1>12 DEF FallbackSaveWinner, At, PickInv, Best, Eligible, Worker
  <2>3. winners' \subseteq WinnerRow
    BY <1>12, <2>1, <2>2 DEF FallbackSaveWinner, WinnerRow
  <2> QED
    BY <1>12, <2>3, MoveType DEF FallbackSaveWinner
<1>13. ASSUME NEW k \in Workers, JobFails(k) PROVE SettleTypeOK'
    BY <1>13, MoveType DEF JobFails
<1>14. ASSUME NEW c \in Calls, VerifyPayment(c) \/ DeclinePayment(c) PROVE SettleTypeOK'
  <2>1. ASSUME NEW u \in Users, NEW p \in Phases, NEW pc \in {"complete", "decline"}
        PROVE  [Fresh EXCEPT !.pc = pc, !.user = u, !.phase = p] \in Call
    BY BlankTypes DEF Call
  <2>2. PICK u \in Users, p \in Phases, pc \in {"complete", "decline"} :
             call' = [call EXCEPT ![c] = [Fresh EXCEPT !.pc = pc, !.user = u, !.phase = p]]
    BY <1>14 DEF VerifyPayment, DeclinePayment, ReadPayment
  <2>3. call' \in [Calls -> Call]
    BY <2>1, <2>2
  <2> QED
    BY <1>14, <2>3 DEF VerifyPayment, DeclinePayment, ReadPayment
<1>15. ASSUME NEW c \in Calls, SaveCompleted(c) \/ SaveDeclined(c) PROVE SettleTypeOK'
  <2>1. [call[c] EXCEPT !.pc = "enqueue"] \in Call
    <3>1. call[c] \in Call
      OBVIOUS
    <3> QED
      BY <3>1 DEF Call
  <2>2. call' \in [Calls -> Call]
    <3>1. PICK q \in Call : call' = [call EXCEPT ![c] = q]
      BY <1>15, <2>1, BlankTypes DEF SaveCompleted, SaveDeclined, CallEnds
    <3> QED
      BY <3>1
  <2>3. ASSUME NEW st \in {"COMPLETED", "DECLINED"}, SavePayment(c, st)
        PROVE  payments' \in [Users -> [Phases -> PaymentStatus]]
    BY <2>3 DEF SavePayment, PaymentStatus
  <2>4. payments' \in [Users -> [Phases -> PaymentStatus]]
    BY <1>15, <2>3 DEF SaveCompleted, SaveDeclined
  <2> QED
    BY <1>15, <2>2, <2>4 DEF SaveCompleted, SaveDeclined, SavePayment
<1>16. ASSUME NEW c \in Calls, EnqueueFallback(c) PROVE SettleTypeOK'
  <2>1. call[c].user \in Users
    BY <1>16 DEF EnqueueFallback, CallAt, CallUsers
  <2>2. [user |-> call[c].user, amount |-> 0] \in Job
    BY <2>1 DEF Job
  <2>3. fallbackJobs' \in Seq(Job)
    BY <1>16, <2>2 DEF EnqueueFallback
  <2>4. call' \in [Calls -> Call]
    BY <1>16, BlankTypes DEF EnqueueFallback, CallEnds
  <2> QED
    BY <1>16, <2>3, <2>4 DEF EnqueueFallback
<1>17. ASSUME NEW c \in Calls, CallFails(c) PROVE SettleTypeOK'
    BY <1>17, BlankTypes DEF CallFails, CallEnds
<1>18. CASE SettleCrash
  <2>1. endJobs' \in Seq(Job) /\ fallbackJobs' \in Seq(Job)
    BY <1>18 DEF SettleCrash, Requeued, JobInv
  <2>2. worker' \in [Workers -> Worker] /\ call' \in [Calls -> Call]
    BY <1>18, BlankTypes DEF SettleCrash
  <2> QED
    BY <1>18, <2>1, <2>2 DEF SettleCrash
<1>19. CASE EndThrows
  <2>1. endJobs' \in Seq(Job)
    BY <1>19 DEF EndThrows, Requeued, JobInv
  <2>2. worker' \in [Workers -> Worker]
    BY <1>19, BlankTypes DEF EndThrows, Done
  <2> QED
    BY <1>19, <2>1, <2>2 DEF EndThrows
<1>20. ASSUME NEW c \in Calls, FailAuction(c) PROVE SettleTypeOK'
  <2>1. [Fresh EXCEPT !.pc = "fail", !.row = auction] \in Call
    BY BlankTypes DEF Call
  <2> QED
    BY <1>20, <2>1 DEF FailAuction
<1>21. ASSUME NEW c \in Calls, SaveFailed(c) PROVE SettleTypeOK'
  <2>1. [call[c].row EXCEPT !.status = "FAILED"] \in AuctionRow
    BY DEF Call, AuctionRow, Statuses
  <2>2. call' \in [Calls -> Call]
    BY <1>21, BlankTypes DEF SaveFailed, CallEnds
  <2> QED
    BY <1>21, <2>1, <2>2 DEF SaveFailed
<1> QED
    BY <1>1, <1>2, <1>3, <1>4, <1>5, <1>6, <1>7, <1>8, <1>9, <1>10, <1>11, <1>12,
       <1>13, <1>14, <1>15, <1>16, <1>17, <1>18, <1>19, <1>20, <1>21
    DEF SettleNext, SettleWork, EndStep, FallbackStep, CallStep

-----------------------------------------------------------------------------
\* Moving a worker on changes nothing but where that worker is.
LEMMA GoToFields ==
    ASSUME worker \in [Workers -> Worker], NEW k \in Workers, NEW j \in Workers,
           NEW pc, GoTo(k, pc)
    PROVE  /\ worker'[j].job = worker[j].job
           /\ worker'[j].user = worker[j].user
           /\ worker'[j].amount = worker[j].amount
           /\ worker'[j].todo = worker[j].todo
           /\ worker'[j].pc = IF j = k THEN pc ELSE worker[j].pc
           /\ j # k => worker'[j] = worker[j]
<1>1. PICK W \in Worker : W = worker[k]
    OBVIOUS
<1>2. worker' = [worker EXCEPT ![k] = [W EXCEPT !.pc = pc]]
    BY <1>1 DEF GoTo
<1> QED
    BY <1>1, <1>2 DEF Worker

LEMMA DoneFields ==
    ASSUME worker \in [Workers -> Worker], NEW k \in Workers, NEW j \in Workers, Done(k)
    PROVE  worker'[j] = IF j = k THEN Idle ELSE worker[j]
BY DEF Done

\* A job that is taken is the first one, and is about to be cleaned up for.
LEMMA TakeFields ==
    ASSUME worker \in [Workers -> Worker], "fallback" \in Workers, FallbackTake
    PROVE  \/ UNCHANGED worker
           \/ /\ worker'["fallback"].pc = "cleanup"
              /\ worker'["fallback"].job = Head(fallbackJobs)
<1>1. CASE UNCHANGED worker
    BY <1>1
<1>2. CASE worker' = [worker EXCEPT !["fallback"] =
                        [Idle EXCEPT !.pc = "cleanup", !.job = Head(fallbackJobs)]]
    BY <1>2 DEF Idle
<1> QED
    BY <1>1, <1>2 DEF FallbackTake

\* Winner rows are never removed, and only one action adds one.
LEMMA StepWinners ==
    ASSUME [SettleNext]_settleVars
    PROVE  winners \subseteq winners' /\ (winners' = winners \/ FallbackSaveWinner)
BY DEF SettleNext, SettleWork, EndStep, FallbackStep, CallStep, EndTake, EndNotify, ReleaseDeposit,
       ReleaseFails, CheckPending, CreateDeposit, CreateBalance, FallbackTake, FallbackCleanup,
       FallbackPick, PickFrom, FallbackGiveUp, FallbackSaveRow, FallbackSaveWinner, JobFails, EndThrows,
       VerifyPayment, DeclinePayment, ReadPayment, FailAuction, SaveCompleted, SaveDeclined, SaveFailed, SavePayment,
       EnqueueFallback, CallFails, SettleCrash

LEMMA WonGrows == [SettleNext]_settleVars => Won \subseteq Won'
BY StepWinners DEF Won

\* What a step does to the end worker: it takes a job, stops, or goes on with
\* the job it has.
LEMMA StepEnd ==
    ASSUME SettleTypeOK, [SettleNext]_settleVars
    PROVE  \/ EndTake
           \/ worker'["end"] = Idle
           \/ /\ worker'["end"].job = worker["end"].job
              /\ worker'["end"].user = worker["end"].user
              /\ At("end", "idle") => At("end", "idle")'
<1> "end" \in Workers /\ "fallback" \in Workers
    BY DEF Workers
<1> USE DEF SettleTypeOK, At
<1>1. CASE UNCHANGED worker
    BY <1>1
<1>2. ASSUME NEW k \in Workers, Done(k) PROVE worker'["end"] \in {Idle, worker["end"]}
    BY <1>2, DoneFields
<1>3. ASSUME NEW k \in Workers, NEW pc, GoTo(k, pc), worker[k].pc # "idle"
      PROVE  /\ worker'["end"].job = worker["end"].job
             /\ worker'["end"].user = worker["end"].user
             /\ worker["end"].pc = "idle" => worker'["end"].pc = "idle"
    BY <1>3, GoToFields
<1>4. ASSUME NEW k \in Workers, CheckPending(k) \/ CreateDeposit(k) \/ CreateBalance(k) \/ JobFails(k)
      PROVE  Done(k) \/ (worker[k].pc # "idle" /\ \E pc : GoTo(k, pc))
    BY <1>4 DEF CheckPending, CreateDeposit, CreateBalance, CreatePayment, JobFails
<1>5. CASE \/ EndNotify \/ EndThrows \/ FallbackCleanup \/ FallbackGiveUp
            \/ FallbackSaveRow \/ FallbackSaveWinner
    BY <1>5, <1>2, <1>3
    DEF EndNotify, EndThrows, FallbackCleanup, FallbackGiveUp, FallbackSaveRow, FallbackSaveWinner
<1>6. CASE FallbackTake \/ FallbackPick
  <2>1. \/ At("fallback", "pick") /\ \E pc : GoTo("fallback", pc)
        \/ Done("fallback")
        \/ worker'["end"] = worker["end"]
    BY <1>6 DEF FallbackTake, FallbackPick, PickFrom
  <2> QED
    BY <2>1, <1>2, <1>3
<1>7. ASSUME NEW u \in Users, ReleaseDeposit(u) \/ ReleaseFails
      PROVE  /\ worker'["end"].job = worker["end"].job
             /\ worker'["end"].user = worker["end"].user
             /\ worker'["end"].pc = worker["end"].pc
  <2>1. PICK W \in Worker : W = worker["end"]
    OBVIOUS
  <2>2. CASE ReleaseDeposit(u)
    <3>1. worker' = [worker EXCEPT !["end"] = [W EXCEPT !.todo = @ \ {u}]]
      BY <2>1, <2>2 DEF ReleaseDeposit
    <3> QED
      BY <2>1, <3>1 DEF Worker
  <2>3. CASE ReleaseFails
    <3>1. worker' = [worker EXCEPT !["end"] = [W EXCEPT !.todo = {}]]
      BY <2>1, <2>3 DEF ReleaseFails
    <3> QED
      BY <2>1, <3>1 DEF Worker
  <2> QED
    BY <1>7, <2>2, <2>3
<1>8. ASSUME NEW c \in Calls, VerifyPayment(c) \/ DeclinePayment(c) \/ FailAuction(c) \/ CallStep(c) \/ CallFails(c)
      PROVE  UNCHANGED worker
    BY <1>8 DEF VerifyPayment, DeclinePayment, ReadPayment, FailAuction, CallStep, SaveCompleted, SaveDeclined, SaveFailed,
                SavePayment, EnqueueFallback, CallFails
<1>9. CASE SettleCrash
    BY <1>9 DEF SettleCrash
<1>10. Users # {}
    BY DEF Best
<1> QED
    BY <1>1, <1>2, <1>3, <1>4, <1>5, <1>6, <1>7, <1>8, <1>9, <1>10
    DEF SettleNext, SettleWork, EndStep, FallbackStep

\* What a step does to the fallback worker.
LEMMA StepFallback ==
    ASSUME SettleTypeOK, [SettleNext]_settleVars
    PROVE  \/ FallbackTake \/ FallbackPick \/ FallbackSaveRow \/ FallbackSaveWinner
           \/ worker'["fallback"] = Idle
           \/ /\ worker'["fallback"].job = worker["fallback"].job
              /\ worker'["fallback"].user = worker["fallback"].user
              /\ worker'["fallback"].amount = worker["fallback"].amount
              /\ \/ worker'["fallback"].pc = worker["fallback"].pc
                 \/ worker["fallback"].pc = "cleanup" /\ worker'["fallback"].pc = "pick"
                 \/ /\ worker["fallback"].pc \in {"check", "deposit"}
                    /\ worker'["fallback"].pc \in {"deposit", "balance"}
<1> "end" \in Workers /\ "fallback" \in Workers /\ Workers = {"end", "fallback"}
    BY DEF Workers
<1> USE DEF SettleTypeOK, At
<1>1. CASE UNCHANGED worker
    BY <1>1
<1>2. ASSUME NEW k \in Workers, Done(k) PROVE worker'["fallback"] \in {Idle, worker["fallback"]}
    BY <1>2, DoneFields
<1>3. ASSUME NEW k \in Workers, NEW pc, GoTo(k, pc)
      PROVE  /\ worker'["fallback"].job = worker["fallback"].job
             /\ worker'["fallback"].user = worker["fallback"].user
             /\ worker'["fallback"].amount = worker["fallback"].amount
             /\ worker'["fallback"].pc = IF k = "fallback" THEN pc ELSE worker["fallback"].pc
    BY <1>3, GoToFields
<1>4. ASSUME NEW k \in Workers, CheckPending(k) \/ CreateDeposit(k) \/ CreateBalance(k) \/ JobFails(k)
      PROVE  \/ Done(k)
             \/ worker[k].pc = "check" /\ GoTo(k, "deposit")
             \/ worker[k].pc = "deposit" /\ GoTo(k, "balance")
    BY <1>4 DEF CheckPending, CreateDeposit, CreateBalance, CreatePayment, JobFails
<1>a. ASSUME NEW k \in Workers, CheckPending(k) \/ CreateDeposit(k) \/ CreateBalance(k) \/ JobFails(k)
      PROVE  \/ worker'["fallback"] = Idle
             \/ /\ worker'["fallback"].job = worker["fallback"].job
                /\ worker'["fallback"].user = worker["fallback"].user
                /\ worker'["fallback"].amount = worker["fallback"].amount
                /\ \/ worker'["fallback"].pc = worker["fallback"].pc
                   \/ /\ worker["fallback"].pc \in {"check", "deposit"}
                      /\ worker'["fallback"].pc \in {"deposit", "balance"}
    BY <1>a, <1>4, <1>2, <1>3
<1>5. CASE EndNotify \/ FallbackCleanup
    BY <1>5, <1>3 DEF EndNotify, FallbackCleanup
<1>6. CASE FallbackGiveUp \/ EndThrows
    BY <1>6, <1>2 DEF FallbackGiveUp, EndThrows
<1>7. ASSUME NEW u \in Users, EndTake \/ ReleaseDeposit(u) \/ ReleaseFails
      PROVE  worker'["fallback"] = worker["fallback"]
    BY <1>7 DEF EndTake, ReleaseDeposit, ReleaseFails
<1>8. ASSUME NEW c \in Calls, VerifyPayment(c) \/ DeclinePayment(c) \/ FailAuction(c) \/ CallStep(c) \/ CallFails(c)
      PROVE  UNCHANGED worker
    BY <1>8 DEF VerifyPayment, DeclinePayment, ReadPayment, FailAuction, CallStep, SaveCompleted, SaveDeclined, SaveFailed,
                SavePayment, EnqueueFallback, CallFails
<1>9. CASE SettleCrash
    BY <1>9 DEF SettleCrash
<1>10. Users # {}
    BY DEF Best
<1> QED
    BY <1>1, <1>a, <1>5, <1>6, <1>7, <1>8, <1>9, <1>10
    DEF SettleNext, SettleWork, EndStep, FallbackStep

\* The jobs of the end queue change only by being taken and by coming back.
LEMMA StepEndJobs ==
    ASSUME [SettleNext]_settleVars
    PROVE  \/ EndTake \/ UNCHANGED endJobs
           \/ (SettleCrash \/ EndThrows) /\ endJobs' = Requeued("end", endJobs)
BY DEF SettleNext, SettleWork, EndStep, FallbackStep, CallStep, EndNotify, ReleaseDeposit,
       ReleaseFails, CheckPending, CreateDeposit, CreateBalance, FallbackTake, FallbackCleanup,
       FallbackPick, PickFrom, FallbackGiveUp, FallbackSaveRow, FallbackSaveWinner, JobFails,
       VerifyPayment, DeclinePayment, ReadPayment, FailAuction, SaveCompleted, SaveDeclined, SaveFailed, SavePayment,
       EnqueueFallback, CallFails, SettleCrash, EndThrows

LEMMA NextJob == SettleTypeOK /\ JobInv /\ [SettleNext]_settleVars => JobInv'
<1> SUFFICES ASSUME SettleTypeOK, JobInv, [SettleNext]_settleVars PROVE JobInv'
    OBVIOUS
<1> USE DEF SettleTypeOK, At
<1> "end" \in Workers /\ "fallback" \in Workers
    BY DEF Workers
<1>0. Won \subseteq Won'
    BY WonGrows
<1>1. \A i \in 1..Len(endJobs') : endJobs'[i].user \in Won'
  <2>1. CASE EndTake
    <3>1. endJobs' = Tail(endJobs) /\ endJobs # <<>>
      BY <2>1 DEF EndTake
    <3>2. Len(endJobs') = Len(endJobs) - 1 /\ Len(endJobs) \in Nat
          /\ \A i \in 1..Len(endJobs') : endJobs'[i] = endJobs[i + 1]
      BY <3>1
    <3>3. ASSUME NEW i \in 1..Len(endJobs') PROVE endJobs'[i].user \in Won'
      <4>1. i + 1 \in 1..Len(endJobs) /\ endJobs'[i] = endJobs[i + 1]
        BY <3>2
      <4>2. endJobs[i + 1].user \in Won
        BY <4>1 DEF JobInv
      <4> QED
        BY <4>1, <4>2, <1>0
    <3> QED
      BY <3>3
  <2>2. CASE endJobs' = Requeued("end", endJobs)
    <3>1. CASE At("end", "idle")
      BY <2>2, <3>1, <1>0 DEF Requeued, JobInv
    <3>2. CASE ~At("end", "idle")
      <4>1. worker["end"].job \in Job /\ worker["end"].job.user \in Won
        BY <3>2 DEF JobInv
      <4>2. endJobs' = Append(endJobs, worker["end"].job)
        BY <2>2, <3>2 DEF Requeued
      <4>3. Len(endJobs') = Len(endJobs) + 1 /\ Len(endJobs) \in Nat
            /\ \A i \in 1..Len(endJobs) : endJobs'[i] = endJobs[i]
        BY <4>1, <4>2
      <4>5. endJobs'[Len(endJobs) + 1] = worker["end"].job
        BY <4>1, <4>2
      <4>4. ASSUME NEW i \in 1..Len(endJobs') PROVE endJobs'[i].user \in Won'
        <5>1. i \in 1..Len(endJobs) \/ i = Len(endJobs) + 1
          BY <4>3
        <5>2. i \in 1..Len(endJobs) => endJobs[i].user \in Won
          BY DEF JobInv
        <5>3. CASE i \in 1..Len(endJobs)
          BY <4>3, <5>2, <5>3, <1>0
        <5>4. CASE i = Len(endJobs) + 1
          BY <4>1, <4>5, <5>4, <1>0
        <5> QED
          BY <5>1, <5>3, <5>4
      <4> QED
        BY <4>4
    <3> QED
      BY <3>1, <3>2
  <2>3. CASE UNCHANGED endJobs
    BY <2>3, <1>0 DEF JobInv
  <2> QED
    BY <2>1, <2>2, <2>3, StepEndJobs
<1>2. worker'["end"].pc # "idle" => /\ worker'["end"].job \in Job
                                    /\ worker'["end"].job.user \in Won'
                                    /\ worker'["end"].user \in Won'
  <2>1. CASE EndTake
    <3>1. Head(endJobs) \in Job /\ Head(endJobs) = endJobs[1] /\ 1 \in 1..Len(endJobs)
      BY <2>1 DEF EndTake
    <3>2. worker'["end"].job = Head(endJobs) /\ worker'["end"].user = Head(endJobs).user
      BY <2>1 DEF EndTake, Idle
    <3> QED
      BY <3>1, <3>2, <1>0 DEF JobInv
  <2>2. CASE worker'["end"] = Idle
    BY <2>2 DEF Idle
  <2> QED
    BY <2>1, <2>2, <1>0, StepEnd DEF JobInv
<1>3. worker'["fallback"].pc # "idle" => worker'["fallback"].job \in Job
  <2>1. CASE FallbackTake
    <3>1. Head(fallbackJobs) \in Job
      BY <2>1 DEF FallbackTake
    <3>2. CASE UNCHANGED worker
      BY <3>2 DEF JobInv
    <3> QED
      BY <2>1, <3>1, <3>2, TakeFields
  <2>2. CASE FallbackSaveRow \/ FallbackSaveWinner
    BY <2>2, GoToFields DEF FallbackSaveRow, FallbackSaveWinner, JobInv
  <2>3. CASE FallbackPick
    <3>1. CASE Done("fallback")
      BY <3>1, DoneFields DEF Idle
    <3>2. CASE GoTo("fallback", "giveup") /\ worker["fallback"].pc = "pick"
      BY <3>2, GoToFields DEF JobInv
    <3>3. ASSUME NEW u \in Best(Eligible), worker["fallback"].pc = "pick",
                 worker' = [worker EXCEPT !["fallback"].pc = "row", !["fallback"].user = u,
                                          !["fallback"].amount = BestBid[u]]
          PROVE  worker'["fallback"].job \in Job
      BY <3>3 DEF JobInv, Worker
    <3> QED
      BY <2>3, <3>1, <3>2, <3>3 DEF FallbackPick, PickFrom
  <2>4. CASE worker'["fallback"] = Idle
    BY <2>4 DEF Idle
  <2> QED
    BY <2>1, <2>2, <2>3, <2>4, StepFallback DEF JobInv
<1> QED
    BY <1>1, <1>2, <1>3 DEF JobInv

\* Only an added winner row changes who is eligible.
LEMMA NextPickInv == SettleTypeOK /\ PickInv /\ LadderInv /\ [SettleNext]_settleVars => PickInv'
<1> SUFFICES ASSUME SettleTypeOK, PickInv, LadderInv, [SettleNext]_settleVars PROVE PickInv'
    OBVIOUS
<1> USE DEF SettleTypeOK, At
<1> "end" \in Workers /\ "fallback" \in Workers
    BY DEF Workers
<1>0. Won \subseteq Won'
    BY WonGrows
<1>1. CASE FallbackSaveWinner
  <2>1. worker'["fallback"].pc = "check" /\ worker'["fallback"].user = worker["fallback"].user
    BY <1>1, GoToFields DEF FallbackSaveWinner
  <2>2. worker["fallback"].user \in Won'
    <3> DEFINE new == [user |-> worker["fallback"].user, amount |-> worker["fallback"].amount,
                       rank |-> Cardinality(winners) + 1]
    <3>1. new \in winners' /\ new.user = worker["fallback"].user
      BY <1>1 DEF FallbackSaveWinner
    <3> HIDE DEF new
    <3> QED
      BY <3>1 DEF Won
  <2> QED
    BY <2>1, <2>2 DEF PickInv
<1> SUFFICES ASSUME winners' = winners PROVE PickInv'
    BY <1>1, StepWinners
<1>2. Eligible' = Eligible /\ Cardinality(winners') = Cardinality(winners)
    BY DEF Eligible
<1>3. CASE FallbackTake
  <2>1. CASE UNCHANGED worker
    BY <2>1, <1>2, <1>0 DEF PickInv
  <2>2. CASE worker'["fallback"].pc = "cleanup"
    BY <2>2 DEF PickInv
  <2> QED
    BY <1>3, <2>1, <2>2, TakeFields
<1>4. CASE FallbackSaveRow
    BY <1>4, <1>2, GoToFields DEF FallbackSaveRow, PickInv
<1>5. CASE FallbackPick
  <2>1. CASE Done("fallback")
    BY <2>1, DoneFields DEF Idle, PickInv
  <2>2. CASE GoTo("fallback", "giveup")
    BY <2>2, GoToFields DEF PickInv
  <2>3. ASSUME NEW u \in Best(Eligible), NEW max \in MaxRanks,
               Cardinality(winners) \in 1..(max - 1),
               worker' = [worker EXCEPT !["fallback"].pc = "row", !["fallback"].user = u,
                                        !["fallback"].amount = BestBid[u]]
        PROVE  PickInv'
    <3>1. worker'["fallback"].pc = "row" /\ worker'["fallback"].user = u
          /\ worker'["fallback"].amount = BestBid[u]
      BY <2>3 DEF Worker
    <3>2. Cardinality(winners) < max
      BY <2>3
    <3> QED
      BY <3>1, <3>2, <1>2 DEF PickInv
  <2> QED
    BY <1>5, <2>1, <2>2, <2>3 DEF FallbackPick, PickFrom
<1>6. CASE worker'["fallback"] = Idle
    BY <1>6 DEF Idle, PickInv
<1>7. CASE /\ worker'["fallback"].user = worker["fallback"].user
           /\ worker'["fallback"].amount = worker["fallback"].amount
           /\ \/ worker'["fallback"].pc = worker["fallback"].pc
              \/ worker["fallback"].pc = "cleanup" /\ worker'["fallback"].pc = "pick"
              \/ /\ worker["fallback"].pc \in {"check", "deposit"}
                 /\ worker'["fallback"].pc \in {"deposit", "balance"}
    BY <1>7, <1>2, <1>0 DEF PickInv
<1> QED
    BY <1>1, <1>3, <1>4, <1>5, <1>6, <1>7, StepFallback

\* A call works on a payment of somebody who won, and payments are created
\* and saved for winners only.
LEMMA NextCallInv ==
    SettleTypeOK /\ JobInv /\ PickInv /\ CallInv /\ OnlyWinnersPay /\ [SettleNext]_settleVars
        => CallInv' /\ OnlyWinnersPay'
<1> SUFFICES ASSUME SettleTypeOK, JobInv, PickInv, CallInv, OnlyWinnersPay, [SettleNext]_settleVars
             PROVE  CallInv' /\ OnlyWinnersPay'
    OBVIOUS
<1> USE DEF SettleTypeOK
<1> "end" \in Workers /\ "fallback" \in Workers /\ Workers = {"end", "fallback"}
    BY DEF Workers
<1>0. Won \subseteq Won'
    BY WonGrows
<1>1. OnlyWinnersPay <=> \A u \in Users, p \in Phases : payments[u][p] # "NONE" => u \in Won
    BY DEF OnlyWinnersPay, Won
<1>2. ASSUME \A u \in Users, p \in Phases : payments'[u][p] # "NONE" => u \in Won'
      PROVE  OnlyWinnersPay'
  <2>1. ASSUME NEW u \in Users, NEW p \in Phases, payments'[u][p] # "NONE"
        PROVE  \E w \in winners' : w.user = u
    <3>1. u \in Won'
      BY <1>2, <2>1
    <3>2. PICK w \in winners' : u = w.user
      BY <3>1 DEF Won
    <3> QED
      BY <3>2
  <2> QED
    BY <2>1 DEF OnlyWinnersPay
<1>3. CASE UNCHANGED <<payments, call>>
    BY <1>0, <1>1, <1>2, <1>3 DEF CallInv
<1>4. ASSUME NEW k \in Workers, CreateDeposit(k) \/ CreateBalance(k)
      PROVE  CallInv' /\ OnlyWinnersPay'
  <2>1. worker[k].user \in Won
    BY <1>4 DEF CreateDeposit, CreateBalance, At, JobInv, PickInv
  <2>2. \A u \in Users, p \in Phases :
           payments'[u][p] # "NONE" => payments[u][p] # "NONE" \/ u = worker[k].user
    BY <1>4 DEF CreateDeposit, CreateBalance, CreatePayment
  <2>3. UNCHANGED call
    BY <1>4 DEF CreateDeposit, CreateBalance
  <2> QED
    BY <2>1, <2>2, <2>3, <1>0, <1>1, <1>2 DEF CallInv
<1>5. CASE FallbackCleanup
  <2>1. \A u \in Users, p \in Phases : payments'[u][p] # "NONE" => payments[u][p] # "NONE"
    BY <1>5 DEF FallbackCleanup
  <2>2. UNCHANGED call
    BY <1>5 DEF FallbackCleanup
  <2> QED
    BY <2>1, <2>2, <1>0, <1>1, <1>2 DEF CallInv
<1>6. ASSUME NEW c \in Calls, VerifyPayment(c) \/ DeclinePayment(c)
      PROVE  CallInv' /\ OnlyWinnersPay'
  <2>1. PICK u \in Users, p \in Phases, pc \in {"complete", "decline"} :
           /\ payments[u][p] = "PENDING"
           /\ call' = [call EXCEPT ![c] = [Fresh EXCEPT !.pc = pc, !.user = u, !.phase = p]]
    BY <1>6 DEF VerifyPayment, DeclinePayment, ReadPayment
  <2>2. u \in Won /\ UNCHANGED payments
    BY <1>6, <2>1, <1>1 DEF VerifyPayment, DeclinePayment, ReadPayment
  <2> QED
    BY <2>1, <2>2, <1>0, <1>1, <1>2 DEF CallInv, Fresh
<1>7. ASSUME NEW c \in Calls, SaveCompleted(c) \/ SaveDeclined(c)
      PROVE  CallInv' /\ OnlyWinnersPay'
  <2>1. call[c].user \in Won
    BY <1>7 DEF SaveCompleted, SaveDeclined, CallAt, CallInv
  <2>2. \A u \in Users, p \in Phases :
           payments'[u][p] # "NONE" => payments[u][p] # "NONE" \/ u = call[c].user
    BY <1>7 DEF SaveCompleted, SaveDeclined, SavePayment
  <2>3. CallInv'
    <3>1. CASE SaveCompleted(c)
      BY <3>1, <1>0 DEF SaveCompleted, CallEnds, Over, Fresh, CallInv
    <3>2. CASE SaveDeclined(c)
      <4>1. PICK C \in Call : C = call[c]
        OBVIOUS
      <4>2. call' = [call EXCEPT ![c] = [C EXCEPT !.pc = "enqueue"]] /\ C.user \in Won
        BY <3>2, <4>1, <2>1 DEF SaveDeclined
      <4> QED
        BY <4>1, <4>2, <1>0 DEF CallInv, Call
    <3> QED
      BY <1>7, <3>1, <3>2
  <2> QED
    BY <2>1, <2>2, <2>3, <1>0, <1>1, <1>2
<1>8. ASSUME NEW c \in Calls,
             FailAuction(c) \/ SaveFailed(c) \/ EnqueueFallback(c) \/ CallFails(c)
      PROVE  CallInv' /\ OnlyWinnersPay'
  <2>1. PICK q : UNCHANGED payments /\ call' = [call EXCEPT ![c] = q] /\ q.pc \in {"fail", "done"}
    <3>1. Over.pc = "done" /\ [Fresh EXCEPT !.pc = "fail", !.row = auction].pc = "fail"
      BY DEF Over, Fresh
    <3> QED
      BY <1>8, <3>1 DEF FailAuction, SaveFailed, EnqueueFallback, CallFails, CallEnds
  <2>2. CallInv'
    BY <2>1, <1>0 DEF CallInv
  <2> QED
    BY <2>1, <2>2, <1>0, <1>1, <1>2
<1>9. CASE SettleCrash
  <2>1. UNCHANGED payments /\ \A c \in Calls : call'[c].pc \notin {"complete", "decline", "enqueue"}
    BY <1>9 DEF SettleCrash, Over, Fresh, CallAt
  <2> QED
    BY <2>1, <1>0, <1>1, <1>2 DEF CallInv
<1> QED
    BY <1>3, <1>4, <1>5, <1>6, <1>7, <1>8, <1>9
    DEF SettleNext, SettleWork, EndStep, FallbackStep, CallStep, EndTake, EndNotify, ReleaseDeposit,
        ReleaseFails, CheckPending, FallbackTake, FallbackPick, PickFrom, FallbackGiveUp,
        FallbackSaveRow, FallbackSaveWinner, JobFails, EndThrows

\* A new winner row goes to the foot of the ladder.
LEMMA NextLadder == SettleTypeOK /\ PickInv /\ LadderInv /\ [SettleNext]_settleVars => LadderInv'
<1> SUFFICES ASSUME SettleTypeOK, PickInv, LadderInv, FallbackSaveWinner PROVE LadderInv'
  <2>1. ASSUME winners' = winners, LadderInv PROVE LadderInv'
    BY <2>1 DEF LadderInv, WinnerLadder, Eligible
  <2> QED
    BY <2>1, StepWinners
<1> DEFINE u == worker["fallback"].user
           n == Cardinality(winners)
           new == [user |-> u, amount |-> BestBid[u], rank |-> n + 1]
<1>1. u \in Best(Eligible) /\ worker["fallback"].amount = BestBid[u]
      /\ \E max \in MaxRanks : n < max
    BY DEF FallbackSaveWinner, At, PickInv
<1>2. winners' = winners \cup {new}
    BY <1>1 DEF FallbackSaveWinner
<1>3. n \in Nat /\ IsFiniteSet(winners)
    BY FS_CardinalityType DEF LadderInv
<1>4. u \in Users /\ BestBid[u] \in Nat /\ u \in Eligible
      /\ \A x \in Eligible : BestBid[x] <= BestBid[u]
    BY <1>1 DEF Best, Eligible
<1>5. \A w \in winners : w.user # u /\ w.rank \in 1..n /\ BestBid[u] <= w.amount /\ w.amount \in Nat
    BY <1>4 DEF Eligible, LadderInv, WinnerLadder, SettleTypeOK, WinnerRow
<1>6. new.user = u /\ new.amount = BestBid[u] /\ new.rank = n + 1
    OBVIOUS
<1>7. new \notin winners
    BY <1>5, <1>6
<1>8. IsFiniteSet(winners') /\ Cardinality(winners') = n + 1
    BY <1>2, <1>3, <1>7, FS_AddElement
<1> HIDE DEF new, n, u
<1>9. {w.rank : w \in winners'} = 1..(n + 1)
  <2>1. {w.rank : w \in winners} = 1..n
    BY DEF LadderInv, WinnerLadder, n
  <2>2. {w.rank : w \in winners'} = {w.rank : w \in winners} \cup {new.rank}
    BY <1>2
  <2>3. 1..(n + 1) = (1..n) \cup {n + 1}
    BY <1>3
  <2> QED
    BY <2>1, <2>2, <2>3, <1>6
<1>10. ASSUME NEW v \in winners', NEW w \in winners'
       PROVE  (v.user = w.user => v = w) /\ (v.rank < w.rank => v.amount >= w.amount)
  <2>1. CASE v \in winners /\ w \in winners
    BY <2>1 DEF LadderInv, WinnerLadder
  <2>2. CASE v \in winners /\ w = new
    BY <2>2, <1>4, <1>5, <1>6
  <2>3. CASE v = new /\ w \in winners
    BY <2>3, <1>3, <1>5, <1>6
  <2>4. CASE v = new /\ w = new
    BY <2>4, <1>3, <1>6
  <2> QED
    BY <1>2, <2>1, <2>2, <2>3, <2>4
<1>11. \E max \in MaxRanks : n + 1 <= max
    BY <1>1, <1>3
<1>12. ASSUME NEW w \in winners', NEW x \in Eligible' PROVE BestBid[x] <= w.amount
  <2>1. x \in Eligible
    BY <1>2 DEF Eligible
  <2>2. CASE w \in winners
    BY <2>1, <2>2 DEF LadderInv
  <2>3. CASE w = new
    BY <2>1, <2>3, <1>4, <1>6
  <2> QED
    BY <1>2, <2>2, <2>3
<1>13. WinnerLadder'
    BY <1>8, <1>9, <1>10, <1>11 DEF WinnerLadder
<1> QED
    BY <1>2, <1>8, <1>12, <1>13 DEF LadderInv

-----------------------------------------------------------------------------
SettleInv == SettleTypeOK /\ JobInv /\ PickInv /\ CallInv /\ OnlyWinnersPay /\ LadderInv

LEMMA InitSettleInv == SettleInit => SettleInv
<1> SUFFICES ASSUME SettleInit PROVE SettleInv
    OBVIOUS
<1> PICK b \in Best(Users) :
      /\ winners = {[user |-> b, amount |-> BestBid[b], rank |-> 1]}
      /\ \/ endJobs = <<[user |-> b, amount |-> BestBid[b]]>>
         \/ endJobs = <<>>
    BY DEF SettleInit
<1>1. SettleTypeOK
    BY InitSettleType
<1>2. Won = {b} /\ b \in Users /\ \A x \in Users : BestBid[x] <= BestBid[b]
    BY DEF Won, Best
<1>3. worker["end"].pc = "idle" /\ worker["fallback"].pc = "idle"
    BY DEF SettleInit, Workers, Idle
<1>4. \A i \in 1..Len(endJobs) : endJobs[i].user = b
    OBVIOUS
<1>5. JobInv /\ PickInv
    BY <1>2, <1>3, <1>4 DEF JobInv, PickInv, At
<1>6. CallInv
    BY DEF CallInv, SettleInit, Fresh
<1>7. OnlyWinnersPay
    BY DEF OnlyWinnersPay, SettleInit
<1> DEFINE row == [user |-> b, amount |-> BestBid[b], rank |-> 1]
<1>8. row.user = b /\ row.amount = BestBid[b] /\ row.rank = 1 /\ winners = {row}
    OBVIOUS
<1> HIDE DEF row
<1>9. IsFiniteSet(winners) /\ Cardinality(winners) = 1
  <2>1. IsFiniteSet({row}) /\ Cardinality({row}) = 1
    BY FS_Singleton, Zenon
  <2> QED
    BY <1>8, <2>1
<1>10. LadderInv
  <2>1. {w.rank : w \in winners} = 1..1
    BY <1>8
  <2>2. WinnerLadder
    BY <1>8, <1>9, <2>1 DEF WinnerLadder
  <2> QED
    BY <1>2, <1>8, <1>9, <2>2 DEF LadderInv, Eligible
<1> QED
    BY <1>1, <1>5, <1>6, <1>7, <1>10 DEF SettleInv

LEMMA SettleInvariant == SettleSpec => []SettleInv
<1>1. SettleInv => CallUsers
    BY DEF SettleInv, SettleTypeOK, CallInv, CallUsers, Won, WinnerRow
<1>2. SettleInv /\ [SettleNext]_settleVars => SettleInv'
    BY <1>1, NextSettleType, NextJob, NextPickInv, NextCallInv, NextLadder DEF SettleInv
<1> QED
    BY <1>2, InitSettleInv, PTL DEF SettleSpec

\* The part of it that does not depend on who was asked to pay.
CoreInv == SettleTypeOK /\ JobInv /\ PickInv /\ CallUsers /\ LadderInv

LEMMA CoreOfSettle == SettleInv => CoreInv
  BY DEF SettleInv, CoreInv, SettleTypeOK, CallInv, CallUsers, Won, WinnerRow

\* Every variable of Settlement keeps its type.
THEOREM SettleTypeCorrect == SettleSpec => []SettleTypeOK
<1>1. SettleInv => SettleTypeOK
    BY DEF SettleInv
<1> QED
    BY <1>1, SettleInvariant, PTL

\* For any number of bidders, calls and crashes and any cap, the winner rows
\* stay a ladder: processAuctionWinnerFallback repeats no user, leaves no gap
\* in the ranks and never asks a higher bidder after a lower one.
THEOREM WinnersRanked == SettleSpec => []WinnerLadder
<1>1. SettleInv => WinnerLadder
    BY DEF SettleInv, LadderInv
<1> QED
    BY <1>1, SettleInvariant, PTL

\* createPendingPaymentForAuction and the calls of users touch payments of
\* recorded winners only.
THEOREM PaymentsOfWinners == SettleSpec => []OnlyWinnersPay
<1>1. SettleInv => OnlyWinnersPay
    BY DEF SettleInv
<1> QED
    BY <1>1, SettleInvariant, PTL

-----------------------------------------------------------------------------
(***************************************************************************)
(* The deposits                                                            *)
(*                                                                         *)
(* As long as nothing failed, the end job runs once, from its beginning to *)
(* its end, and before it has asked the winner to pay nobody can pay,      *)
(* decline or be replaced: the winner whose deposit it keeps is the one    *)
(* that was recorded with rank 1.                                          *)
(***************************************************************************)
Clean == ~failed /\ crashes = 0

Ended == auction.status = "ENDED"

\* The winner of the ending.
First(f) == f \in Won /\ \A w \in winners : w.rank = 1 <=> w.user = f

\* Nobody was asked to pay yet.
Untouched ==
    /\ \A u \in Users, p \in Phases : payments[u][p] = "NONE"
    /\ \A c \in Calls : call[c].pc = "idle"
    /\ fallbackJobs = <<>> /\ worker["fallback"].pc = "idle"

\* The end job waits for its worker, or is before its first payment ...
Waiting(f) == worker["end"].pc = "idle" /\ endJobs = <<[user |-> f, amount |-> auction.amount]>>

Working(f) ==
    /\ worker["end"].pc \in {"release", "check", "deposit"} /\ endJobs = <<>>
    /\ worker["end"].user = f /\ worker["end"].amount = auction.amount

Opening(f) == Ended /\ auction.winner = f /\ Untouched /\ (Waiting(f) \/ Working(f))

\* ... or is done, except perhaps for the second payment.
Opened(f) ==
    /\ endJobs = <<>> /\ worker["end"].pc \in {"idle", "balance"}
    /\ worker["end"].pc = "balance" => worker["end"].user = f

\* Whose deposit is still held.
Due(f, u) ==
    u = f \/ endJobs # <<>> \/ (worker["end"].pc = "release" /\ u \in worker["end"].todo)

Returned(f) ==
    /\ worker["end"].todo \subseteq Users \ {f}
    /\ \A u \in Users : held[u] = IF Due(f, u) THEN 1 ELSE 0

DepositInv ==
    Clean => \E f \in Users : First(f) /\ (Opening(f) \/ Opened(f)) /\ Returned(f)

\* What a step that does not count as a failure is.
CleanStep ==
    \/ EndTake \/ EndNotify \/ \E u \in Users : ReleaseDeposit(u)
    \/ \E k \in Workers : CheckPending(k) \/ CreateDeposit(k) \/ CreateBalance(k)
    \/ FallbackTake \/ FallbackCleanup \/ FallbackPick \/ FallbackGiveUp
    \/ FallbackSaveRow \/ FallbackSaveWinner
    \/ \E c \in Calls : VerifyPayment(c) \/ DeclinePayment(c) \/ FailAuction(c) \/ CallStep(c)
                        \/ (CallFails(c) /\ call[c].pc = "complete")

LEMMA StaysClean ==
    ASSUME SettleTypeOK, SettleNext, Clean'
    PROVE  Clean /\ CleanStep
<1>1. ~failed' /\ crashes' = 0
  BY Zenon DEF Clean
<1>2. crashes \in Nat
  BY DEF SettleTypeOK
<1>3. ~(ReleaseFails \/ EndThrows \/ SettleCrash \/ \E k \in Workers : JobFails(k))
  <2>1. ~(ReleaseFails \/ \E k \in Workers : JobFails(k))
    BY <1>1, Zenon DEF ReleaseFails, JobFails
  <2>2. ~(EndThrows \/ SettleCrash)
    BY <1>1, <1>2 DEF EndThrows, SettleCrash
  <2> QED
    BY <2>1, <2>2
<1>4. \A c \in Calls : CallFails(c) => call[c].pc = "complete"
  BY <1>1, Zenon DEF CallFails
<1>5. CleanStep
  <2>1. "end" \in Workers /\ "fallback" \in Workers
    BY DEF Workers
  <2> QED
    BY <1>3, <1>4, <2>1, Zenon DEF SettleNext, SettleWork, EndStep, FallbackStep, CleanStep
<1>6. ~failed
  <2>1. CASE \E c \in Calls : CallFails(c)
    BY <1>1, <2>1, Zenon DEF CallFails
  <2>2. CASE failed' = failed
    BY <1>1, <2>2, Zenon
  <2> QED
    BY <1>5, <2>1, <2>2 DEF CleanStep, CallStep, EndTake, EndNotify, ReleaseDeposit, CheckPending,
       CreateDeposit, CreateBalance, FallbackTake, FallbackCleanup, FallbackPick, PickFrom,
       FallbackGiveUp, FallbackSaveRow, FallbackSaveWinner, VerifyPayment, DeclinePayment,
       ReadPayment, FailAuction, SaveCompleted, SaveDeclined, SaveFailed, SavePayment,
       EnqueueFallback
<1>7. crashes' = crashes
  BY <1>5 DEF CleanStep, CallStep, EndTake, EndNotify, ReleaseDeposit, CheckPending,
     CreateDeposit, CreateBalance, FallbackTake, FallbackCleanup, FallbackPick, PickFrom,
     FallbackGiveUp, FallbackSaveRow, FallbackSaveWinner, VerifyPayment, DeclinePayment,
     ReadPayment, FailAuction, SaveCompleted, SaveDeclined, SaveFailed, SavePayment, EnqueueFallback, CallFails
<1> QED
  BY <1>1, <1>5, <1>6, <1>7, Zenon DEF Clean

\* A further winner is ranked behind the first.
LEMMA FirstStays ==
    ASSUME SettleTypeOK, PickInv, LadderInv, [SettleNext]_settleVars, NEW f, First(f)
    PROVE  First(f)'
<1>1. Won \subseteq Won'
  BY WonGrows
<1>2. CASE winners' = winners
  BY <1>2 DEF First, Won
<1>3. CASE FallbackSaveWinner
  <2>1. PICK n \in Nat : n = Cardinality(winners) /\ n # 0
    BY FS_CardinalityType, FS_EmptySet DEF LadderInv
  <2>2. PICK u : u = worker["fallback"].user /\ u \in Eligible
    BY <1>3 DEF FallbackSaveWinner, At, PickInv, Best
  <2>3. u # f
    BY <2>2 DEF Eligible, First, Won
  <2>4. PICK a : winners' = winners \cup {[user |-> u, amount |-> a, rank |-> n + 1]}
    BY <1>3, <2>1, <2>2 DEF FallbackSaveWinner
  <2>5. n + 1 # 1
    BY <2>1
  <2> QED
    BY <1>1, <2>3, <2>4, <2>5 DEF First
<1> QED
  BY <1>2, <1>3, StepWinners

\* The end worker is none of the business of calls and of the fallback worker,
\* and those only move once somebody was asked to pay or the auction is over.
OutsideEnd ==
    \/ \E k \in Workers : k # "end" /\ (CheckPending(k) \/ CreateDeposit(k) \/ CreateBalance(k))
    \/ FallbackTake \/ FallbackCleanup \/ FallbackPick \/ FallbackGiveUp
    \/ FallbackSaveRow \/ FallbackSaveWinner
    \/ \E c \in Calls : VerifyPayment(c) \/ DeclinePayment(c) \/ FailAuction(c) \/ CallStep(c) \/ CallFails(c)

LEMMA OutsideEffect ==
    ASSUME SettleTypeOK, OutsideEnd
    PROVE  /\ worker'["end"] = worker["end"] /\ UNCHANGED <<endJobs, held>>
           /\ ~(Ended /\ Untouched)
<1> "end" \in Workers /\ "fallback" \in Workers /\ Workers = {"end", "fallback"}
    BY DEF Workers
<1>0. worker \in [Workers -> Worker]
  BY DEF SettleTypeOK
<1>1. UNCHANGED <<endJobs, held>>
  BY DEF OutsideEnd, CallStep, CheckPending, CreateDeposit, CreateBalance, FallbackTake,
     FallbackCleanup, FallbackPick, PickFrom, FallbackGiveUp, FallbackSaveRow, FallbackSaveWinner,
     VerifyPayment, DeclinePayment, ReadPayment, FailAuction, SaveCompleted, SaveDeclined, SaveFailed, SavePayment,
     EnqueueFallback, CallFails
<1>2. ~(Ended /\ Untouched)
  <2>1. CASE \E c \in Calls : VerifyPayment(c) \/ DeclinePayment(c) \/ FailAuction(c)
    BY <2>1 DEF VerifyPayment, DeclinePayment, ReadPayment, FailAuction, CanSetStatus, Ended, Untouched
  <2>2. CASE \E c \in Calls : CallStep(c) \/ CallFails(c)
    BY <2>2 DEF CallStep, SaveCompleted, SaveDeclined, SaveFailed, EnqueueFallback, CallFails,
       CallAt, Untouched
  <2>3. CASE FallbackTake
    BY <2>3 DEF FallbackTake, Untouched
  <2>4. CASE \/ CheckPending("fallback") \/ CreateDeposit("fallback") \/ CreateBalance("fallback")
             \/ FallbackCleanup \/ FallbackPick \/ FallbackGiveUp \/ FallbackSaveRow \/ FallbackSaveWinner
    BY <2>4 DEF CheckPending, CreateDeposit, CreateBalance, FallbackCleanup, FallbackPick, PickFrom,
       FallbackGiveUp, FallbackSaveRow, FallbackSaveWinner, At, Untouched
  <2> QED
    BY <2>1, <2>2, <2>3, <2>4 DEF OutsideEnd
<1>3. worker'["end"] = worker["end"]
  <2>1. CASE UNCHANGED worker
    BY <2>1
  <2>2. CASE Done("fallback") \/ \E pc : GoTo("fallback", pc)
    BY <1>0, <2>2, DoneFields, GoToFields
  <2>3. CASE FallbackTake
    BY <1>0, <2>3 DEF FallbackTake
  <2>4. CASE FallbackPick
    <3>1. ASSUME NEW u, worker' = [worker EXCEPT !["fallback"].pc = "row",
                                            !["fallback"].user = u,
                                            !["fallback"].amount = BestBid[u]]
          PROVE  worker'["end"] = worker["end"]
      BY <1>0, <3>1
    <3> QED
      BY <2>2, <2>4, <3>1 DEF FallbackPick, PickFrom
  <2> QED
    BY <2>1, <2>2, <2>3, <2>4 DEF OutsideEnd, CallStep, CheckPending, CreateDeposit, CreateBalance,
       CreatePayment, FallbackCleanup, FallbackGiveUp, FallbackSaveRow, FallbackSaveWinner,
       VerifyPayment, DeclinePayment, ReadPayment, FailAuction, SaveCompleted, SaveDeclined, SaveFailed, SavePayment,
       EnqueueFallback, CallFails
<1> QED
  BY <1>1, <1>2, <1>3

\* The end job's own steps, up to the payments.
LEMMA EndEffect ==
    ASSUME SettleTypeOK, JobInv, NEW f \in Users, Opening(f) \/ Opened(f), Returned(f),
           \/ EndTake \/ EndNotify \/ \E u \in Users : ReleaseDeposit(u)
           \/ CheckPending("end") \/ CreateDeposit("end") \/ CreateBalance("end")
    PROVE  /\ \/ Opening(f)'
              \/ Opened(f)' /\ (CreateDeposit("end") \/ CreateBalance("end"))
           /\ Returned(f)'
<1> "end" \in Workers /\ "fallback" \in Workers /\ Workers = {"end", "fallback"}
    BY DEF Workers
<1>0. worker \in [Workers -> Worker] /\ worker["end"] \in Worker
  BY DEF SettleTypeOK
<1>1. CASE EndTake
  <2>1. endJobs # <<>> /\ Opening(f) /\ Waiting(f)
    BY <1>1 DEF EndTake, Opening, Opened, Working
  <2>2. PICK j \in Job : j = Head(endJobs) /\ j.user = f /\ j.amount = auction.amount /\ Tail(endJobs) = <<>>
    <3>1. PICK j \in Job : j = [user |-> f, amount |-> auction.amount]
      BY DEF Job, SettleTypeOK, AuctionRow
    <3>2. j.user = f /\ j.amount = auction.amount
      BY <3>1
    <3>3. endJobs = <<j>>
      BY <2>1, <3>1 DEF Waiting
    <3>4. Head(endJobs) = j /\ Tail(endJobs) = <<>>
      BY <3>3
    <3> QED
      BY <3>2, <3>4
  <2>3. PICK W : W = [Idle EXCEPT !.pc = "release", !.job = j, !.user = j.user, !.amount = j.amount,
                                  !.todo = Users \ {auction.winner}]
    OBVIOUS
  <2>4. W.pc = "release" /\ W.user = f /\ W.amount = auction.amount /\ W.todo = Users \ {f}
    BY <2>1, <2>2, <2>3 DEF Idle, Opening
  <2>5. worker' = [worker EXCEPT !["end"] = W] /\ endJobs' = <<>> /\ UNCHANGED <<auction, payments, held, fallbackJobs, call>>
    BY <1>1, <2>2, <2>3 DEF EndTake
  <2>6. worker'["end"] = W /\ worker'["fallback"] = worker["fallback"]
    BY <1>0, <2>5
  <2>7. Opening(f)'
    BY <2>1, <2>4, <2>5, <2>6 DEF Opening, Ended, Untouched, Working
  <2>8. \A u \in Users : held[u] = 1
    BY <2>1 DEF Returned, Due
  <2>9. Returned(f)'
    BY <2>4, <2>5, <2>6, <2>8 DEF Returned, Due
  <2> QED
    BY <2>7, <2>9
<1>2. CASE EndNotify
  <2>1. worker["end"].pc = "release" /\ worker["end"].todo = {} /\ Opening(f) /\ Working(f)
    BY <1>2 DEF EndNotify, At, Opening, Opened, Waiting
  <2>2. /\ worker'["end"].pc = "check" /\ worker'["end"].user = f
        /\ worker'["end"].amount = auction.amount /\ worker'["end"].todo = {}
        /\ worker'["fallback"] = worker["fallback"]
        /\ UNCHANGED <<auction, payments, held, fallbackJobs, call, endJobs>>
    BY <1>0, <1>2, <2>1, GoToFields DEF EndNotify, Working
  <2>3. Opening(f)'
    BY <2>1, <2>2 DEF Opening, Ended, Untouched, Working
  <2>4. Returned(f)'
    BY <2>1, <2>2 DEF Returned, Due, Working
  <2> QED
    BY <2>3, <2>4
<1>3. ASSUME NEW u \in Users, ReleaseDeposit(u)
      PROVE  Opening(f)' /\ Returned(f)'
  <2>1. /\ worker["end"].pc = "release" /\ u \in worker["end"].todo
        /\ Opening(f) /\ Working(f)
    BY <1>3 DEF ReleaseDeposit, At, Opening, Opened, Waiting
  <2>2. PICK T : T = worker["end"].todo /\ u \in T /\ T \subseteq Users \ {f}
    BY <2>1 DEF Returned
  <2>3. worker' = [worker EXCEPT !["end"] = [worker["end"] EXCEPT !.todo = T \ {u}]]
    BY <1>0, <1>3, <2>2 DEF ReleaseDeposit
  <2>4. /\ worker'["end"].pc = "release" /\ worker'["end"].user = f
        /\ worker'["end"].amount = auction.amount /\ worker'["end"].todo = T \ {u}
        /\ worker'["fallback"] = worker["fallback"]
    BY <1>0, <2>1, <2>3 DEF Worker, Working
  <2>5. UNCHANGED <<auction, payments, fallbackJobs, call, endJobs>> /\ endJobs = <<>>
    BY <1>3, <2>1 DEF ReleaseDeposit, Working
  <2>6. Opening(f)'
    BY <2>1, <2>4, <2>5 DEF Opening, Ended, Untouched, Working
  <2>7. \A v \in Users : held[v] = IF v = f \/ v \in T THEN 1 ELSE 0
    BY <2>1, <2>2, <2>5 DEF Returned, Due
  <2>8. \A v \in Users : held'[v] = IF v = u THEN held[v] - 1 ELSE held[v]
    BY <1>3 DEF ReleaseDeposit, SettleTypeOK
  <2>9. \A v \in Users : held'[v] = IF v = f \/ v \in T \ {u} THEN 1 ELSE 0
    BY <2>2, <2>7, <2>8
  <2>10. Returned(f)'
    BY <2>2, <2>4, <2>5, <2>9 DEF Returned, Due
  <2> QED
    BY <2>6, <2>10
<1>4. CASE CheckPending("end")
  <2>1. worker["end"].pc = "check" /\ Opening(f) /\ Working(f)
    BY <1>4 DEF CheckPending, At, Opening, Opened, Waiting
  <2>2. GoTo("end", "deposit")
    BY <1>4, <2>1 DEF CheckPending, Opening, Untouched, Working
  <2>3. /\ worker'["end"].pc = "deposit" /\ worker'["end"].user = f
        /\ worker'["end"].amount = auction.amount /\ worker'["end"].todo = worker["end"].todo
        /\ worker'["fallback"] = worker["fallback"]
        /\ UNCHANGED <<auction, payments, held, fallbackJobs, call, endJobs>>
    BY <1>0, <1>4, <2>1, <2>2, GoToFields DEF CheckPending, Working
  <2>4. Opening(f)'
    BY <2>1, <2>3 DEF Opening, Ended, Untouched, Working
  <2>5. Returned(f)'
    BY <2>1, <2>3 DEF Returned, Due, Working
  <2> QED
    BY <2>4, <2>5
<1>5. CASE CreateDeposit("end") \/ CreateBalance("end")
  <2>1. /\ worker["end"].pc \in {"deposit", "balance"} /\ endJobs = <<>> /\ worker["end"].user = f
        /\ UNCHANGED <<endJobs, held>>
    BY <1>5 DEF CreateDeposit, CreateBalance, At, Opening, Opened, Waiting, Working
  <2>2. \/ worker'["end"] = Idle
        \/ /\ worker'["end"].pc = "balance" /\ worker'["end"].user = f
           /\ worker'["end"].todo = worker["end"].todo
    BY <1>0, <1>5, <2>1, GoToFields, DoneFields DEF CreateDeposit, CreateBalance, CreatePayment
  <2>3. Idle.pc = "idle" /\ Idle.todo = {}
    BY DEF Idle
  <2>4. Opened(f)'
    BY <2>1, <2>2, <2>3 DEF Opened
  <2>5. Returned(f)'
    BY <2>1, <2>2, <2>3 DEF Returned, Due
  <2> QED
    BY <1>5, <2>4, <2>5
<1> QED
  BY <1>1, <1>2, <1>3, <1>4, <1>5

LEMMA NextDeposit == CoreInv /\ DepositInv /\ [SettleNext]_settleVars => DepositInv'
<1> SUFFICES ASSUME CoreInv, DepositInv, [SettleNext]_settleVars, Clean'
             PROVE  \E f \in Users : First(f)' /\ (Opening(f)' \/ Opened(f)') /\ Returned(f)'
  BY DEF DepositInv
<1>1. CASE SettleNext
  <2>1. Clean /\ CleanStep
    BY <1>1, StaysClean DEF CoreInv
  <2>2. PICK f \in Users : First(f) /\ (Opening(f) \/ Opened(f)) /\ Returned(f)
    BY <2>1 DEF DepositInv
  <2>3. First(f)'
    BY <2>2, FirstStays DEF CoreInv
  <2>4. CASE OutsideEnd
    <3>1. Opened(f) /\ worker'["end"] = worker["end"] /\ UNCHANGED <<endJobs, held>>
      BY <2>2, <2>4, OutsideEffect DEF CoreInv, Opening
    <3>2. Opened(f)' /\ Returned(f)'
      BY <2>2, <3>1 DEF Opened, Returned, Due
    <3> QED
      BY <2>3, <3>2
  <2>5. CASE ~OutsideEnd
    <3>1. \/ EndTake \/ EndNotify \/ \E u \in Users : ReleaseDeposit(u)
          \/ CheckPending("end") \/ CreateDeposit("end") \/ CreateBalance("end")
      BY <2>1, <2>5, Zenon DEF CleanStep, OutsideEnd
    <3>2. (Opening(f)' \/ Opened(f)') /\ Returned(f)'
      BY <2>2, <3>1, EndEffect DEF CoreInv
    <3> QED
      BY <2>3, <3>2
  <2> QED
    BY <2>4, <2>5
<1>2. CASE UNCHANGED settleVars
  <2>1. Clean
    BY <1>2, Zenon DEF Clean
  <2>2. PICK f \in Users : First(f) /\ (Opening(f) \/ Opened(f)) /\ Returned(f)
    BY <2>1 DEF DepositInv
  <2>3. First(f)' /\ (Opening(f)' \/ Opened(f)') /\ Returned(f)'
    BY <1>2, <2>2 DEF First, Won, Opening, Ended, Untouched, Waiting, Working, Opened, Returned, Due
  <2> QED
    BY <2>3
<1> QED
  BY <1>1, <1>2

LEMMA InitDeposit == SettleInit => DepositInv
<1> SUFFICES ASSUME SettleInit, Clean
             PROVE  \E f \in Users : First(f) /\ (Opening(f) \/ Opened(f)) /\ Returned(f)
  BY DEF DepositInv
<1>1. ~failed
  BY Zenon DEF Clean
<1>2. PICK f \in Best(Users) :
        /\ auction = [status |-> "ENDED", winner |-> f, amount |-> BestBid[f]]
        /\ winners = {[user |-> f, amount |-> BestBid[f], rank |-> 1]}
        /\ endJobs = <<[user |-> f, amount |-> BestBid[f]]>> \/ failed = TRUE
        /\ payments = [u \in Users |-> [p \in Phases |-> "NONE"]]
        /\ held = [u \in Users |-> 1]
        /\ fallbackJobs = <<>> /\ worker = [k \in Workers |-> Idle]
        /\ call = [c \in Calls |-> Fresh]
  BY Zenon DEF SettleInit
<1>3. endJobs = <<[user |-> f, amount |-> BestBid[f]]>>
  BY <1>1, <1>2, Zenon
<1>4. "end" \in Workers /\ "fallback" \in Workers /\ f \in Users
  BY DEF Workers, Best
<1>5. /\ worker["end"].pc = "idle" /\ worker["fallback"].pc = "idle" /\ worker["end"].todo = {}
      /\ \A c \in Calls : call[c].pc = "idle"
  BY <1>2, <1>4 DEF Idle, Fresh
<1>6. First(f)
  BY <1>2 DEF First, Won
<1>7. Opening(f)
  BY <1>2, <1>3, <1>5 DEF Opening, Ended, Untouched, Waiting
<1>8. Returned(f)
  <2>1. endJobs # <<>>
    BY <1>3
  <2> QED
    BY <1>2, <1>5, <2>1 DEF Returned, Due
<1> QED
  BY <1>4, <1>6, <1>7, <1>8

\* The end job is done: the deposits are back.
LEMMA DepositSettles == DepositInv => DepositsReturned
<1> SUFFICES ASSUME DepositInv, Quiet, NEW u \in Users
             PROVE  held[u] = IF \E w \in winners : w.user = u /\ w.rank = 1 THEN 1 ELSE 0
  BY DEF DepositsReturned
<1>1. Clean
  BY Zenon DEF Clean, Quiet
<1>2. PICK f \in Users : First(f) /\ (Opening(f) \/ Opened(f)) /\ Returned(f)
  BY <1>1 DEF DepositInv
<1>3. worker["end"].pc = "idle" /\ endJobs = <<>>
  BY DEF Quiet, At, Workers
<1>4. held[u] = IF u = f THEN 1 ELSE 0
  BY <1>2, <1>3 DEF Returned, Due
<1>5. (\E w \in winners : w.user = u /\ w.rank = 1) <=> u = f
  <2>1. PICK w \in winners : w.user = f
    BY <1>2 DEF First, Won
  <2> QED
    BY <1>2, <2>1 DEF First
<1> QED
  BY <1>4, <1>5

\* As long as nothing fails and once nothing is in flight, everybody but the
\* winner of the ending has the deposit back, whoever declined, was replaced
\* or paid in the meantime.
THEOREM DepositsGoBack == SettleSpec => []DepositsReturned
  BY DepositSettles, SettleInvariant, CoreOfSettle, InitDeposit, NextDeposit, PTL DEF SettleSpec

-----------------------------------------------------------------------------
(***************************************************************************)
(* Who is asked to pay, and who follows on whoever declines                *)
(***************************************************************************)
\* The busy fallback worker is about an ended auction: about the winner who
\* declined until it has saved the row, about the new winner from then on.
\* Nobody is about to fail such an auction.
BusyInv ==
    /\ Ended => auction.winner \in Users
    /\ worker["fallback"].pc # "idle" => Ended
    /\ worker["fallback"].pc \in {"cleanup", "pick", "giveup", "row"} =>
          worker["fallback"].job.user = auction.winner
    /\ worker["fallback"].pc \in {"winner", "check", "deposit", "balance"} =>
          /\ worker["fallback"].user = auction.winner
          /\ worker["fallback"].amount = auction.amount
    /\ \A c \in Calls : call[c].pc = "fail" => ~Ended

\* A call is about a payment that exists, and the second payment is created
\* after the first.
PaidCalls ==
    \A c \in Calls : call[c].pc \in {"complete", "decline", "enqueue"} =>
        payments[call[c].user][call[c].phase] # "NONE"

HalfInv ==
    \A k \in Workers : worker[k].pc = "balance" => payments[worker[k].user]["DEPOSIT"] # "NONE"

Unasked(u) == \A p \in Phases : payments[u][p] = "NONE"

\* The winner of the row was asked for both payments or is about to be.
AskInv ==
    Clean /\ Ended /\ (\A p \in Phases : Split(auction.amount)[p] > 0) =>
        \/ Opening(auction.winner)
        \/ worker["fallback"].pc \in {"winner", "check", "deposit"} /\ Unasked(auction.winner)
        \/ \E k \in Workers : /\ worker[k].pc = "balance" /\ worker[k].user = auction.winner
                              /\ worker[k].amount = auction.amount
        \/ \A p \in Phases : payments[auction.winner][p] # "NONE"

\* The winner of the row declined: the next one is on the way.
DeclineInv ==
    Clean /\ Ended /\ (\E p \in Phases : payments[auction.winner][p] = "DECLINED") =>
        \/ Best(Eligible) = {}
        \/ \E c \in Calls : call[c].pc = "enqueue" /\ call[c].user = auction.winner
        \/ \E i \in 1..Len(fallbackJobs) : fallbackJobs[i].user = auction.winner
        \/ worker["fallback"].pc \in {"cleanup", "pick", "giveup", "row"}

\* The row is written by three steps only.
LEMMA StepAuction ==
    ASSUME [SettleNext]_settleVars
    PROVE  \/ auction' = auction \/ FallbackSaveRow \/ FallbackGiveUp
           \/ \E c \in Calls : SaveFailed(c)
  BY DEF SettleNext, SettleWork, EndStep, FallbackStep, CallStep, EndTake, EndNotify, ReleaseDeposit,
         ReleaseFails, CheckPending, CreateDeposit, CreateBalance, FallbackTake, FallbackCleanup,
         FallbackPick, PickFrom, FallbackSaveWinner, JobFails, VerifyPayment, DeclinePayment,
         ReadPayment, FailAuction, SaveCompleted, SaveDeclined, SavePayment, EnqueueFallback, CallFails,
         SettleCrash, EndThrows

\* An auction that is ENDED was so before.
LEMMA EndedBefore ==
    ASSUME SettleTypeOK, [SettleNext]_settleVars, Ended'
    PROVE  Ended /\ (auction' = auction \/ FallbackSaveRow)
<1>1. ~FallbackGiveUp
  BY DEF FallbackGiveUp, Ended
<1>2. FallbackSaveRow => auction'.status = auction.status
  BY DEF FallbackSaveRow, SettleTypeOK, AuctionRow
<1>3. ASSUME NEW c \in Calls PROVE ~SaveFailed(c)
  BY DEF SaveFailed, Ended, SettleTypeOK, Call, AuctionRow
<1> QED
  BY <1>1, <1>2, <1>3, StepAuction DEF Ended

\* What a step does to a call.
LEMMA StepCall ==
    ASSUME CoreInv, [SettleNext]_settleVars, NEW c \in Calls
    PROVE  \/ call'[c] = call[c]
           \/ /\ payments' = payments /\ call'[c].pc \in {"complete", "decline"}
              /\ \E u \in Users, p \in Phases : /\ payments[u][p] = "PENDING"
                                                /\ call'[c].user = u /\ call'[c].phase = p
           \/ /\ SaveDeclined(c) /\ call'[c].pc = "enqueue"
              /\ call'[c].user = call[c].user /\ call'[c].phase = call[c].phase
           \/ FailAuction(c) /\ call'[c].pc = "fail" /\ call'[c].row = auction
           \/ /\ \/ SaveCompleted(c) \/ SaveFailed(c) \/ EnqueueFallback(c)
                 \/ CallFails(c) \/ SettleCrash
              /\ call'[c].pc = "done"
<1>0. call \in [Calls -> Call] /\ call[c] \in Call
  BY DEF CoreInv, SettleTypeOK
<1>1. Over.pc = "done"
  BY DEF Over, Fresh
<1>2. CASE UNCHANGED call
  BY <1>2
<1>3. ASSUME NEW d \in Calls, VerifyPayment(d) \/ DeclinePayment(d)
      PROVE  \/ call'[c] = call[c]
             \/ /\ payments' = payments /\ call'[c].pc \in {"complete", "decline"}
                /\ \E u \in Users, p \in Phases : /\ payments[u][p] = "PENDING"
                                                  /\ call'[c].user = u /\ call'[c].phase = p
  <2>1. PICK u \in Users, p \in Phases, pc \in {"complete", "decline"} :
             /\ payments[u][p] = "PENDING"
             /\ call' = [call EXCEPT ![d] = [Fresh EXCEPT !.pc = pc, !.user = u, !.phase = p]]
    BY <1>3 DEF VerifyPayment, DeclinePayment, ReadPayment
  <2>2. payments' = payments
    BY <1>3 DEF VerifyPayment, DeclinePayment, ReadPayment
  <2> QED
    BY <1>0, <2>1, <2>2 DEF Fresh
<1>4. ASSUME NEW d \in Calls, SaveDeclined(d)
      PROVE  \/ call'[c] = call[c]
             \/ /\ d = c /\ call'[c].pc = "enqueue"
                /\ call'[c].user = call[c].user /\ call'[c].phase = call[c].phase
  BY <1>0, <1>4 DEF SaveDeclined, Call
<1>5. ASSUME NEW d \in Calls,
             SaveCompleted(d) \/ SaveFailed(d) \/ EnqueueFallback(d) \/ CallFails(d)
      PROVE  \/ call'[c] = call[c]
             \/ d = c /\ call'[c].pc = "done"
  <2>1. call' = [call EXCEPT ![d] = Over]
    BY <1>5 DEF SaveCompleted, SaveFailed, EnqueueFallback, CallFails, CallEnds
  <2> QED
    BY <1>0, <1>1, <2>1
<1>6. CASE SettleCrash
  <2>1. call'[c] = IF CallAt(c, "idle") THEN call[c] ELSE Over
    BY <1>6 DEF SettleCrash
  <2> QED
    BY <1>1, <1>6, <2>1
<1>8. ASSUME NEW d \in Calls, FailAuction(d)
      PROVE  \/ call'[c] = call[c]
             \/ d = c /\ call'[c].pc = "fail" /\ call'[c].row = auction
  BY <1>0, <1>8 DEF FailAuction, Fresh
<1>7. \/ UNCHANGED call \/ SettleCrash
      \/ \E d \in Calls : \/ VerifyPayment(d) \/ DeclinePayment(d) \/ FailAuction(d)
                          \/ SaveDeclined(d) \/ SaveCompleted(d) \/ SaveFailed(d)
                          \/ EnqueueFallback(d) \/ CallFails(d)
  BY DEF SettleNext, SettleWork, EndStep, FallbackStep, CallStep, EndTake, EndNotify, ReleaseDeposit,
     ReleaseFails, CheckPending, CreateDeposit, CreateBalance, FallbackTake, FallbackCleanup,
     FallbackPick, PickFrom, FallbackSaveRow, FallbackGiveUp, FallbackSaveWinner, JobFails, EndThrows
<1> QED
  BY <1>2, <1>3, <1>4, <1>5, <1>6, <1>7, <1>8

LEMMA NextBusy == CoreInv /\ BusyInv /\ [SettleNext]_settleVars => BusyInv'
<1> SUFFICES ASSUME CoreInv, BusyInv, [SettleNext]_settleVars PROVE BusyInv'
  OBVIOUS
<1>b. ASSUME NEW c \in Calls, call'[c].pc = "fail" PROVE ~Ended'
  <2>1. SettleTypeOK
    BY DEF CoreInv
  <2>2. SaveDeclined(c) => call'[c].pc # "fail"
    BY <2>1 DEF SaveDeclined, SettleTypeOK, Call
  <2>3. call'[c] = call[c] \/ FailAuction(c)
    BY <1>b, <2>2, StepCall
  <2>4. FailAuction(c) => ~Ended
    BY DEF FailAuction, CanSetStatus, Ended
  <2> QED
    BY <1>b, <2>1, <2>3, <2>4, EndedBefore DEF BusyInv
<1>a. Ended' => auction'.winner \in Users
  <2>1. CASE FallbackSaveRow
    BY <2>1 DEF FallbackSaveRow, CoreInv, SettleTypeOK, AuctionRow, At, PickInv, Best, Eligible
  <2>2. CASE auction' = auction
    BY <2>2 DEF BusyInv, Ended
  <2> QED
    BY <2>1, <2>2, EndedBefore DEF CoreInv
<1> "fallback" \in Workers
  BY DEF Workers
<1>0. /\ SettleTypeOK /\ worker \in [Workers -> Worker] /\ worker["fallback"] \in Worker
      /\ auction \in AuctionRow
  BY DEF CoreInv, SettleTypeOK
<1>1. CASE worker'["fallback"] = Idle
  <2>1. worker'["fallback"].pc = "idle"
    BY <1>1 DEF Idle
  <2> QED
    BY <1>a, <1>b, <2>1 DEF BusyInv
<1>2. CASE FallbackTake
  <2>1. auction' = auction
    BY <1>2 DEF FallbackTake
  <2>2. CASE UNCHANGED worker
    BY <1>a, <1>b, <2>1, <2>2 DEF BusyInv, Ended
  <2>3. CASE ~UNCHANGED worker
    <3>1. auction.status = "ENDED" /\ auction.winner = Head(fallbackJobs).user
      BY <1>2, <2>3 DEF FallbackTake
    <3>2. worker'["fallback"].pc = "cleanup" /\ worker'["fallback"].job = Head(fallbackJobs)
      BY <1>0, <1>2, <2>3, TakeFields
    <3> QED
      BY <1>a, <1>b, <2>1, <3>1, <3>2 DEF BusyInv, Ended
  <2> QED
    BY <2>2, <2>3
<1>3. CASE FallbackPick
  <2>1. auction' = auction /\ worker["fallback"].pc = "pick"
    BY <1>3 DEF FallbackPick, PickFrom, At
  <2>2. \/ worker'["fallback"] = Idle
        \/ /\ worker'["fallback"].pc \in {"giveup", "row"}
           /\ worker'["fallback"].job = worker["fallback"].job
    <3>1. CASE Done("fallback")
      BY <1>0, <3>1, DoneFields
    <3>2. CASE GoTo("fallback", "giveup")
      BY <1>0, <3>2, GoToFields
    <3>3. ASSUME NEW u, worker' = [worker EXCEPT !["fallback"].pc = "row",
                                            !["fallback"].user = u,
                                            !["fallback"].amount = BestBid[u]]
          PROVE  worker'["fallback"].pc = "row" /\ worker'["fallback"].job = worker["fallback"].job
      BY <1>0, <3>3 DEF Worker
    <3> QED
      BY <1>3, <3>1, <3>2, <3>3 DEF FallbackPick, PickFrom
  <2> QED
    BY <1>a, <1>b, <1>1, <2>1, <2>2 DEF BusyInv, Ended
<1>4. CASE FallbackSaveRow
  <2>1. /\ worker'["fallback"].pc = "winner" /\ worker'["fallback"].user = worker["fallback"].user
        /\ worker'["fallback"].amount = worker["fallback"].amount
    BY <1>0, <1>4, GoToFields DEF FallbackSaveRow
  <2>2. /\ auction'.winner = worker["fallback"].user /\ auction'.amount = worker["fallback"].amount
        /\ auction'.status = auction.status /\ worker["fallback"].pc = "row"
    BY <1>0, <1>4 DEF FallbackSaveRow, AuctionRow, At
  <2> QED
    BY <1>a, <1>b, <2>1, <2>2 DEF BusyInv, Ended
<1>5. CASE FallbackSaveWinner
  <2>1. /\ worker'["fallback"].pc = "check" /\ worker'["fallback"].user = worker["fallback"].user
        /\ worker'["fallback"].amount = worker["fallback"].amount
        /\ auction' = auction /\ worker["fallback"].pc = "winner"
    BY <1>0, <1>5, GoToFields DEF FallbackSaveWinner, At
  <2> QED
    BY <1>a, <1>b, <2>1 DEF BusyInv, Ended
<1>6. CASE /\ ~FallbackSaveRow /\ worker'["fallback"] # Idle
           /\ worker'["fallback"].job = worker["fallback"].job
           /\ worker'["fallback"].user = worker["fallback"].user
           /\ worker'["fallback"].amount = worker["fallback"].amount
           /\ \/ worker'["fallback"].pc = worker["fallback"].pc
              \/ worker["fallback"].pc = "cleanup" /\ worker'["fallback"].pc = "pick"
              \/ /\ worker["fallback"].pc \in {"check", "deposit"}
                 /\ worker'["fallback"].pc \in {"deposit", "balance"}
  <2>1. ~FallbackGiveUp
    BY <1>0, <1>6, DoneFields DEF FallbackGiveUp
  <2>2. CASE auction' = auction
    BY <1>a, <1>b, <1>6, <2>2 DEF BusyInv, Ended
  <2>3. ASSUME NEW c \in Calls, SaveFailed(c) PROVE BusyInv'
    <3>1. worker["fallback"].pc = "idle" /\ worker' = worker
      BY <2>3 DEF SaveFailed, CallAt, BusyInv
    <3> QED
      BY <1>a, <1>b, <3>1 DEF BusyInv
  <2> QED
    BY <1>6, <2>1, <2>2, <2>3, StepAuction
<1> QED
  BY <1>0, <1>1, <1>2, <1>3, <1>4, <1>5, <1>6, StepFallback

\* Which payments a step may touch.
LEMMA StepPayments ==
    ASSUME CoreInv, [SettleNext]_settleVars, NEW u \in Users, NEW p \in Phases
    PROVE  /\ payments[u][p] # "NONE" => payments'[u][p] # "NONE"
           /\ \/ payments'[u][p] = payments[u][p]
              \/ \E k \in Workers : /\ \/ CreateDeposit(k) /\ p = "DEPOSIT"
                                       \/ CreateBalance(k) /\ p = "BALANCE"
                                    /\ worker[k].user = u /\ payments'[u][p] = "PENDING"
              \/ /\ FallbackCleanup /\ worker["fallback"].job.user = u
                 /\ payments[u][p] = "PENDING" /\ payments'[u][p] = "DECLINED"
              \/ \E c \in Calls : /\ call[c].user = u /\ call[c].phase = p
                                  /\ \/ SaveCompleted(c) /\ payments'[u][p] = "COMPLETED"
                                     \/ SaveDeclined(c) /\ payments'[u][p] = "DECLINED"
<1>0. payments \in [Users -> [Phases -> PaymentStatus]]
  BY DEF CoreInv, SettleTypeOK
<1>1. CASE UNCHANGED payments
  BY <1>1
<1>2. ASSUME NEW k \in Workers, CreateDeposit(k) \/ CreateBalance(k)
      PROVE  \/ payments'[u][p] = payments[u][p]
             \/ /\ \/ CreateDeposit(k) /\ p = "DEPOSIT"
                   \/ CreateBalance(k) /\ p = "BALANCE"
                /\ worker[k].user = u /\ payments'[u][p] = "PENDING"
  BY <1>0, <1>2 DEF CreateDeposit, CreateBalance, CreatePayment, Phases
<1>3. CASE FallbackCleanup
  <2>1. PICK d : d = worker["fallback"].job.user
    OBVIOUS
  <2>2. payments' = [payments EXCEPT ![d] = [q \in Phases |-> IF payments[d][q] = "PENDING" THEN "DECLINED"
                                                               ELSE payments[d][q]]]
    BY <1>3, <2>1 DEF FallbackCleanup
  <2>3. CASE d = u
    BY <1>0, <1>3, <2>1, <2>2, <2>3
  <2>4. CASE d # u
    BY <1>0, <2>2, <2>4
  <2> QED
    BY <2>3, <2>4
<1>4. ASSUME NEW c \in Calls, SaveCompleted(c)
      PROVE  \/ payments'[u][p] = payments[u][p]
             \/ call[c].user = u /\ call[c].phase = p /\ payments'[u][p] = "COMPLETED"
  BY <1>0, <1>4 DEF SaveCompleted, SavePayment
<1>5. ASSUME NEW c \in Calls, SaveDeclined(c)
      PROVE  \/ payments'[u][p] = payments[u][p]
             \/ call[c].user = u /\ call[c].phase = p /\ payments'[u][p] = "DECLINED"
  BY <1>0, <1>5 DEF SaveDeclined, SavePayment
<1>6. \/ UNCHANGED payments \/ FallbackCleanup
      \/ \E k \in Workers : CreateDeposit(k) \/ CreateBalance(k)
      \/ \E c \in Calls : SaveCompleted(c) \/ SaveDeclined(c)
  <2>1. "end" \in Workers /\ "fallback" \in Workers
    BY DEF Workers
  <2> QED
    BY <2>1 DEF SettleNext, SettleWork, EndStep, FallbackStep, CallStep, EndTake, EndNotify, ReleaseDeposit,
       ReleaseFails, CheckPending, FallbackTake, FallbackPick, PickFrom, FallbackSaveRow,
       FallbackGiveUp, FallbackSaveWinner, JobFails, VerifyPayment, DeclinePayment,
       ReadPayment, FailAuction, SaveFailed, EnqueueFallback, CallFails, SettleCrash, EndThrows
<1> QED
  BY <1>1, <1>2, <1>3, <1>4, <1>5, <1>6

LEMMA NextCore == CoreInv /\ [SettleNext]_settleVars => CoreInv'
<1> SUFFICES ASSUME CoreInv, [SettleNext]_settleVars PROVE CoreInv'
  OBVIOUS
<1>1. CallUsers'
  <2> SUFFICES ASSUME NEW c \in Calls, call'[c].pc \in {"complete", "decline", "enqueue"}
               PROVE  call'[c].user \in Users
    BY DEF CallUsers
  <2>1. SaveDeclined(c) => call[c].pc = "decline"
    BY DEF SaveDeclined, CallAt
  <2> QED
    BY <2>1, StepCall DEF CoreInv, CallUsers
<1> QED
  BY <1>1, NextSettleType, NextJob, NextPickInv, NextLadder DEF CoreInv

\* The steps of a call and of the payment it is about go together.
LEMMA NextPaidCalls == CoreInv /\ PaidCalls /\ [SettleNext]_settleVars => PaidCalls'
<1> SUFFICES ASSUME CoreInv, PaidCalls, [SettleNext]_settleVars,
                    NEW c \in Calls, call'[c].pc \in {"complete", "decline", "enqueue"}
             PROVE  payments'[call'[c].user][call'[c].phase] # "NONE"
  BY DEF PaidCalls
<1>1. call[c] \in Call /\ (call[c].pc \in {"complete", "decline", "enqueue"} =>
                             call[c].user \in Users /\ call[c].phase \in Phases)
  BY DEF CoreInv, SettleTypeOK, CallUsers, Call
<1>2. SaveDeclined(c) => call[c].pc = "decline"
  BY DEF SaveDeclined, CallAt
<1>3. CASE /\ call[c].pc \in {"complete", "decline", "enqueue"}
           /\ call'[c].user = call[c].user /\ call'[c].phase = call[c].phase
  BY <1>1, <1>3, StepPayments DEF PaidCalls
<1>4. CASE /\ payments' = payments
           /\ \E u \in Users, p \in Phases : /\ payments[u][p] = "PENDING"
                                             /\ call'[c].user = u /\ call'[c].phase = p
  BY <1>4
<1> QED
  BY <1>2, <1>3, <1>4, StepCall

\* Who a worker that creates payments is about.
LEMMA PayingUser ==
    ASSUME CoreInv, NEW k \in Workers, worker[k].pc \in {"check", "deposit", "balance"}
    PROVE  worker[k].user \in Won /\ worker[k].user \in Users
  BY ZenonT(40) DEF CoreInv, JobInv, PickInv, SettleTypeOK, Won, WinnerRow, Workers, At

\* A worker is about to create the second payment after it created the first.
LEMMA StepBalance ==
    ASSUME CoreInv, [SettleNext]_settleVars, NEW k \in Workers, worker'[k].pc = "balance"
    PROVE  /\ worker'[k].user = worker[k].user /\ worker'[k].amount = worker[k].amount
           /\ \/ worker[k].pc = "balance"
              \/ CreateDeposit(k) /\ payments'[worker[k].user]["DEPOSIT"] = "PENDING"
<1> Workers = {"end", "fallback"}
  BY DEF Workers
<1>0. worker \in [Workers -> Worker] /\ payments \in [Users -> [Phases -> PaymentStatus]]
  BY DEF CoreInv, SettleTypeOK
<1> DEFINE Goal == /\ worker'[k].user = worker[k].user /\ worker'[k].amount = worker[k].amount
                   /\ \/ worker[k].pc = "balance"
                      \/ CreateDeposit(k) /\ payments'[worker[k].user]["DEPOSIT"] = "PENDING"
<1>1. CASE UNCHANGED worker
  BY <1>1
<1>2. ASSUME NEW j \in Workers, Done(j) PROVE Goal
  BY <1>0, <1>2, DoneFields DEF Idle
<1>3. ASSUME NEW j \in Workers, NEW pc, pc # "balance", GoTo(j, pc) PROVE Goal
  BY <1>0, <1>3, GoToFields
<1>4. ASSUME NEW j \in Workers, CreateDeposit(j) PROVE Goal
  <2>1. CASE Done(j)
    BY <1>2, <2>1
  <2>2. CASE ~Done(j)
    <3>1. GoTo(j, "balance") /\ payments' = [payments EXCEPT ![worker[j].user]["DEPOSIT"] = "PENDING"]
      BY <1>4, <2>2 DEF CreateDeposit, CreatePayment
    <3>2. worker[j].user \in Users /\ "DEPOSIT" \in Phases
      BY <1>4, PayingUser DEF CreateDeposit, At, Phases
    <3>3. payments'[worker[j].user]["DEPOSIT"] = "PENDING"
      BY <1>0, <3>1, <3>2
    <3> QED
      BY <1>0, <1>4, <3>1, <3>3, GoToFields
  <2> QED
    BY <2>1, <2>2
<1>5. ASSUME NEW j \in Workers, CheckPending(j) \/ CreateBalance(j) \/ JobFails(j) PROVE Goal
  BY <1>2, <1>3, <1>5 DEF CheckPending, CreateBalance, CreatePayment, JobFails
<1>6. CASE EndTake \/ ReleaseFails \/ \E u \in Users : ReleaseDeposit(u)
  <2>1. CASE EndTake
    <3>1. PICK W : W = [Idle EXCEPT !.pc = "release", !.job = Head(endJobs), !.user = Head(endJobs).user,
                                    !.amount = Head(endJobs).amount, !.todo = Users \ {auction.winner}]
      OBVIOUS
    <3>2. W.pc = "release"
      BY <3>1 DEF Idle
    <3>3. worker' = [worker EXCEPT !["end"] = W]
      BY <2>1, <3>1 DEF EndTake
    <3> QED
      BY <1>0, <3>2, <3>3
  <2>2. ASSUME NEW T, worker' = [worker EXCEPT !["end"] = [worker["end"] EXCEPT !.todo = T]] PROVE Goal
    BY <1>0, <2>2 DEF Worker
  <2>3. CASE ReleaseFails
    BY <1>0, <2>2, <2>3 DEF ReleaseFails
  <2>4. ASSUME NEW u \in Users, ReleaseDeposit(u) PROVE Goal
    BY <1>0, <2>2, <2>4 DEF ReleaseDeposit
  <2> QED
    BY <1>6, <2>1, <2>3, <2>4
<1>7. CASE FallbackTake
  <2>1. CASE UNCHANGED worker
    BY <2>1
  <2>2. CASE ~UNCHANGED worker
    BY <1>0, <1>7, <2>2, TakeFields DEF FallbackTake
  <2> QED
    BY <2>1, <2>2
<1>8. CASE FallbackPick
  <2>1. ASSUME NEW u, worker' = [worker EXCEPT !["fallback"].pc = "row",
                                               !["fallback"].user = u,
                                               !["fallback"].amount = BestBid[u]]
        PROVE  Goal
    BY <1>0, <2>1 DEF Worker
  <2> QED
    BY <1>2, <1>3, <1>8, <2>1 DEF FallbackPick, PickFrom
<1>9. CASE SettleCrash
  BY <1>0, <1>9 DEF SettleCrash, Idle
<1>10. CASE EndNotify \/ EndThrows \/ FallbackCleanup \/ FallbackGiveUp \/ FallbackSaveRow \/ FallbackSaveWinner
  BY <1>2, <1>3, <1>10 DEF EndNotify, EndThrows, FallbackCleanup, FallbackGiveUp, FallbackSaveRow,
     FallbackSaveWinner
<1>11. CASE \E c \in Calls : VerifyPayment(c) \/ DeclinePayment(c) \/ FailAuction(c) \/ CallStep(c) \/ CallFails(c)
  BY <1>1, <1>11 DEF VerifyPayment, DeclinePayment, ReadPayment, FailAuction, CallStep, SaveCompleted, SaveDeclined, SaveFailed,
     SavePayment, EnqueueFallback, CallFails
<1> QED
  BY <1>1, <1>4, <1>5, <1>6, <1>7, <1>8, <1>9, <1>10, <1>11
     DEF SettleNext, SettleWork, EndStep, FallbackStep

\* As long as nothing fails, the second payment follows.
LEMMA LeavesBalance ==
    ASSUME CoreInv, CleanStep, NEW k \in Workers, worker[k].pc = "balance", worker'[k].pc # "balance"
    PROVE  CreateBalance(k)
<1> "end" \in Workers /\ "fallback" \in Workers /\ Workers = {"end", "fallback"}
  BY DEF Workers
<1>0. worker \in [Workers -> Worker]
  BY DEF CoreInv, SettleTypeOK
<1>1. CASE \E c \in Calls : VerifyPayment(c) \/ DeclinePayment(c) \/ FailAuction(c) \/ CallStep(c) \/ CallFails(c)
  BY <1>1 DEF VerifyPayment, DeclinePayment, ReadPayment, FailAuction, CallStep, SaveCompleted, SaveDeclined, SaveFailed,
     SavePayment, EnqueueFallback, CallFails
<1>2. ASSUME NEW j \in Workers, worker[j].pc # "balance", Done(j) \/ \E pc : GoTo(j, pc) PROVE FALSE
  <2>1. worker'[k] = worker[k]
    BY <1>0, <1>2, DoneFields, GoToFields
  <2> QED
    BY <2>1
<1>3. CASE EndTake
  BY <1>0, <1>3 DEF EndTake, At
<1>4. ASSUME NEW u \in Users, ReleaseDeposit(u) PROVE FALSE
  BY <1>0, <1>4 DEF ReleaseDeposit, At
<1>5. CASE FallbackTake
  BY <1>0, <1>5 DEF FallbackTake, At
<1>6. CASE FallbackPick
  <2>1. ASSUME NEW u, worker["fallback"].pc = "pick",
               worker' = [worker EXCEPT !["fallback"].pc = "row", !["fallback"].user = u,
                                        !["fallback"].amount = BestBid[u]]
        PROVE  FALSE
    BY <1>0, <2>1
  <2> QED
    BY <1>2, <1>6, <2>1 DEF FallbackPick, PickFrom, At
<1>7. CASE EndNotify \/ FallbackCleanup \/ FallbackGiveUp \/ FallbackSaveRow \/ FallbackSaveWinner
  BY <1>2, <1>7 DEF EndNotify, FallbackCleanup, FallbackGiveUp, FallbackSaveRow, FallbackSaveWinner, At
<1>8. ASSUME NEW j \in Workers, CheckPending(j) \/ CreateDeposit(j) PROVE FALSE
  BY <1>2, <1>8 DEF CheckPending, CreateDeposit, CreatePayment, At
<1>9. ASSUME NEW j \in Workers, j # k, CreateBalance(j) PROVE FALSE
  BY <1>0, <1>9, DoneFields DEF CreateBalance, CreatePayment
<1> QED
  BY <1>1, <1>3, <1>4, <1>5, <1>6, <1>7, <1>8, <1>9 DEF CleanStep

LEMMA NextHalf == CoreInv /\ HalfInv /\ [SettleNext]_settleVars => HalfInv'
<1> SUFFICES ASSUME CoreInv, HalfInv, [SettleNext]_settleVars, NEW k \in Workers, worker'[k].pc = "balance"
             PROVE  payments'[worker'[k].user]["DEPOSIT"] # "NONE"
  BY DEF HalfInv
<1>1. CASE worker[k].pc = "balance"
  <2>1. worker[k].user \in Users /\ "DEPOSIT" \in Phases
    BY <1>1, PayingUser DEF Phases
  <2> QED
    BY <1>1, <2>1, StepBalance, StepPayments DEF HalfInv
<1>2. CASE worker[k].pc # "balance"
  BY <1>2, StepBalance
<1> QED
  BY <1>1, <1>2

\* While the auction is ENDED only winners have been asked to pay.
OweInv == Ended => CallInv /\ OnlyWinnersPay

LEMMA NextOwe == CoreInv /\ OweInv /\ [SettleNext]_settleVars => OweInv'
  BY NextCallInv, EndedBefore DEF CoreInv, OweInv

\* All that is known of the payments.
AskedInv ==
    CoreInv /\ DepositInv /\ BusyInv /\ PaidCalls /\ HalfInv /\ OweInv /\ AskInv /\ DeclineInv

\* A new winner comes to the row without a payment.
LEMMA NewWinner ==
    ASSUME CoreInv, OweInv, BusyInv, FallbackSaveRow
    PROVE  /\ auction'.winner \in Users /\ Unasked(auction'.winner)
           /\ payments' = payments /\ worker'["fallback"].pc = "winner"
<1>1. worker["fallback"].pc = "row" /\ "fallback" \in Workers
  BY DEF FallbackSaveRow, At, Workers
<1>2. auction'.winner = worker["fallback"].user /\ payments' = payments
  BY DEF FallbackSaveRow, CoreInv, SettleTypeOK, AuctionRow
<1>3. worker["fallback"].user \in Eligible
  BY <1>1 DEF CoreInv, PickInv, Best
<1>4. OnlyWinnersPay
  BY <1>1 DEF OweInv, BusyInv
<1>5. worker'["fallback"].pc = "winner"
  BY <1>1, GoToFields DEF FallbackSaveRow, CoreInv, SettleTypeOK
<1> QED
  BY <1>2, <1>3, <1>4, <1>5 DEF Unasked, OnlyWinnersPay, Eligible

LEMMA NextAsk == AskedInv /\ [SettleNext]_settleVars => AskInv'
<1> SUFFICES ASSUME AskedInv, SettleNext, Clean', Ended',
                    \A p \in Phases : Split(auction'.amount)[p] > 0
             PROVE  \/ Opening(auction.winner)'
                    \/ worker'["fallback"].pc \in {"winner", "check", "deposit"} /\ Unasked(auction.winner)'
                    \/ \E k \in Workers : /\ worker'[k].pc = "balance" /\ worker'[k].user = auction'.winner
                                          /\ worker'[k].amount = auction'.amount
                    \/ \A p \in Phases : payments'[auction'.winner][p] # "NONE"
  <2>1. CASE UNCHANGED settleVars
    BY <2>1, Zenon DEF AskedInv, AskInv, Clean, Ended, Opening, Untouched, Waiting, Working, Unasked
  <2> QED
    BY <2>1 DEF AskInv
<1> USE DEF AskedInv
<1> "end" \in Workers /\ "fallback" \in Workers /\ Workers = {"end", "fallback"}
  BY DEF Workers
<1> Phases = {"DEPOSIT", "BALANCE"}
  BY DEF Phases
<1>0. /\ SettleTypeOK /\ worker \in [Workers -> Worker] /\ auction \in AuctionRow
      /\ payments \in [Users -> [Phases -> PaymentStatus]]
  BY DEF CoreInv, SettleTypeOK
<1>1. Clean /\ CleanStep /\ Ended
  BY <1>0, StaysClean, EndedBefore
<1>2. CASE FallbackSaveRow
  <2>1. Unasked(auction.winner)'
    BY <1>2, NewWinner DEF Unasked
  <2> QED
    BY <1>2, <2>1, NewWinner
<1>3. CASE ~FallbackSaveRow
  <2>0. auction' = auction
    BY <1>0, <1>3, EndedBefore
  <2>1. PICK w : w = auction.winner
    OBVIOUS
  <2>2. PICK f \in Users : First(f) /\ (Opening(f) \/ Opened(f)) /\ Returned(f)
    BY <1>1 DEF DepositInv
  <2>3. CASE Opening(w)
    <3>1. Opening(f) /\ f = w
      <4>1. Waiting(w) => endJobs # <<>>
        BY DEF Waiting
      <4>2. ~Opened(f)
        BY <2>3, <4>1 DEF Opening, Opened, Waiting, Working
      <4> QED
        BY <2>1, <2>2, <4>2 DEF Opening
    <3>2. ~OutsideEnd
      BY <1>0, <2>3, OutsideEffect DEF Opening
    <3>3. \/ EndTake \/ EndNotify \/ \E u \in Users : ReleaseDeposit(u)
          \/ CheckPending("end") \/ CreateDeposit("end") \/ CreateBalance("end")
      BY <1>1, <3>2, Zenon DEF CleanStep, OutsideEnd
    <3>4. Opening(w)' \/ CreateDeposit("end") \/ CreateBalance("end")
      BY <2>2, <3>1, <3>3, EndEffect DEF CoreInv
    <3>5. ~CreateBalance("end")
      BY <2>3 DEF CreateBalance, At, Opening, Waiting, Working
    <3>6. CASE CreateDeposit("end")
      <4>1. worker["end"].user = w /\ worker["end"].amount = auction.amount
        BY <2>3, <3>6 DEF CreateDeposit, At, Opening, Waiting, Working
      <4>2. payments[w]["DEPOSIT"] = "NONE" /\ Split(auction.amount)["DEPOSIT"] > 0
        BY <2>0, <2>3, <3>1 DEF Opening, Untouched
      <4>3. GoTo("end", "balance")
        BY <3>6, <4>1, <4>2 DEF CreateDeposit, CreatePayment
      <4>4. /\ worker'["end"].pc = "balance" /\ worker'["end"].user = w
            /\ worker'["end"].amount = auction.amount
        BY <1>0, <4>1, <4>3, GoToFields
      <4> QED
        BY <2>0, <2>1, <4>4
    <3>7. CASE Opening(w)'
      BY <2>0, <2>1, <3>7 DEF Opening, Ended, Untouched, Waiting, Working
    <3> QED
      BY <3>4, <3>5, <3>6, <3>7
  <2>4. CASE /\ ~Opening(w)
             /\ worker["fallback"].pc \in {"winner", "check", "deposit"} /\ Unasked(w)
    <3>1. worker["fallback"].user = w /\ worker["fallback"].amount = auction.amount
      BY <2>1, <2>4 DEF BusyInv
    <3>2. w \in Users
      BY <1>1, <2>1 DEF BusyInv
    <3>3. CASE CreateDeposit("fallback")
      <4>1. payments[w]["DEPOSIT"] = "NONE" /\ Split(auction.amount)["DEPOSIT"] > 0
        BY <2>0, <2>4 DEF Unasked
      <4>2. GoTo("fallback", "balance")
        BY <3>1, <3>3, <4>1 DEF CreateDeposit, CreatePayment
      <4>3. /\ worker'["fallback"].pc = "balance" /\ worker'["fallback"].user = w
            /\ worker'["fallback"].amount = auction.amount
        BY <1>0, <3>1, <4>2, GoToFields
      <4> QED
        BY <2>0, <2>1, <4>3
    <3>4. CASE ~CreateDeposit("fallback")
      <4>1. worker["end"].pc \in {"deposit", "balance"} => worker["end"].user # w
        <5>1. CASE Opening(f)
          BY <2>4, <5>1 DEF Opening, Untouched
        <5>2. CASE Opened(f)
          BY <2>4, <5>2 DEF Opened, HalfInv, Unasked
        <5> QED
          BY <2>2, <5>1, <5>2
      <4>2. \A k \in Workers : CreateDeposit(k) \/ CreateBalance(k) => worker[k].user # w
        <5>1. CreateDeposit("end") \/ CreateBalance("end") => worker["end"].pc \in {"deposit", "balance"}
          BY DEF CreateDeposit, CreateBalance, At
        <5>2. ~CreateBalance("fallback")
          BY <2>4 DEF CreateBalance, At
        <5> QED
          BY <3>4, <4>1, <5>1, <5>2
      <4>3. Unasked(w)'
        <5> SUFFICES ASSUME NEW p \in Phases PROVE payments'[w][p] = "NONE"
          BY DEF Unasked
        <5>1. ASSUME NEW c \in Calls, SaveCompleted(c) \/ SaveDeclined(c)
              PROVE  ~(call[c].user = w /\ call[c].phase = p)
          BY <2>4, <5>1 DEF SaveCompleted, SaveDeclined, CallAt, PaidCalls, Unasked
        <5>2. payments[w][p] = "NONE"
          BY <2>4 DEF Unasked
        <5> QED
          BY <3>2, <4>2, <5>1, <5>2, StepPayments
      <4>4. worker'["fallback"].pc \in {"winner", "check", "deposit"}
        <5>1. CASE FallbackSaveWinner
          BY <1>0, <5>1, GoToFields DEF FallbackSaveWinner
        <5>2. CASE CheckPending("fallback")
          <6>1. GoTo("fallback", "deposit")
            BY <2>4, <3>1, <5>2 DEF CheckPending, Unasked
          <6> QED
            BY <1>0, <6>1, GoToFields
        <5>3. CASE worker'["fallback"] = worker["fallback"]
          BY <2>4, <5>3
        <5>4. ~(FallbackTake \/ FallbackCleanup \/ FallbackPick \/ FallbackGiveUp \/ CreateBalance("fallback"))
          BY <2>4 DEF FallbackTake, FallbackCleanup, FallbackPick, PickFrom, FallbackGiveUp,
             CreateBalance, At
        <5>5. \/ worker'["fallback"] = worker["fallback"]
              \/ FallbackSaveWinner \/ CheckPending("fallback")
          <6>1. CASE \/ EndTake \/ EndNotify \/ CheckPending("end") \/ CreateDeposit("end")
                     \/ CreateBalance("end") \/ \E u \in Users : ReleaseDeposit(u)
            <7>1. CASE Done("end") \/ \E pc : GoTo("end", pc)
              BY <1>0, <7>1, DoneFields, GoToFields
            <7>2. CASE EndTake \/ \E u \in Users : ReleaseDeposit(u)
              BY <1>0, <7>2 DEF EndTake, ReleaseDeposit
            <7> QED
              BY <6>1, <7>1, <7>2 DEF EndNotify, CheckPending, CreateDeposit, CreateBalance, CreatePayment
          <6>2. CASE \E c \in Calls : VerifyPayment(c) \/ DeclinePayment(c) \/ FailAuction(c) \/ CallStep(c) \/ CallFails(c)
            BY <6>2 DEF VerifyPayment, DeclinePayment, ReadPayment, FailAuction, CallStep, SaveCompleted, SaveDeclined, SaveFailed,
               SavePayment, EnqueueFallback, CallFails
          <6> QED
            BY <1>1, <1>3, <3>4, <5>4, <6>1, <6>2, Zenon DEF CleanStep
        <5> QED
          BY <5>1, <5>2, <5>3, <5>5
      <4> QED
        BY <2>0, <2>1, <4>3, <4>4 DEF Unasked
    <3> QED
      BY <3>3, <3>4
  <2>5. CASE \E k \in Workers : /\ worker[k].pc = "balance" /\ worker[k].user = w
                                /\ worker[k].amount = auction.amount
    <3>1. PICK k \in Workers : /\ worker[k].pc = "balance" /\ worker[k].user = w
                               /\ worker[k].amount = auction.amount
      BY <2>5
    <3>2. w \in Users
      BY <3>1, PayingUser
    <3>3. CASE worker'[k].pc = "balance"
      BY <2>0, <2>1, <3>1, <3>3, StepBalance
    <3>4. CASE worker'[k].pc # "balance"
      <4>1. CreateBalance(k)
        BY <1>1, <3>1, <3>4, LeavesBalance
      <4>2. payments'[w]["BALANCE"] # "NONE"
        BY <1>0, <2>0, <3>1, <3>2, <4>1 DEF CreateBalance, CreatePayment
      <4>3. payments'[w]["DEPOSIT"] # "NONE"
        BY <3>1, <3>2, StepPayments DEF HalfInv
      <4> QED
        BY <2>0, <2>1, <4>2, <4>3
    <3> QED
      BY <3>3, <3>4
  <2>6. CASE \A p \in Phases : payments[w][p] # "NONE"
    <3>1. w \in Users
      BY <1>1, <2>1 DEF BusyInv
    <3> QED
      BY <2>0, <2>1, <2>6, <3>1, StepPayments
  <2> QED
    BY <1>1, <2>0, <2>1, <2>3, <2>4, <2>5, <2>6 DEF AskInv
<1> QED
  BY <1>2, <1>3

\* A job stays in the queue until it is taken, and the job of the winner is
\* not dropped.
LEMMA JobStays ==
    ASSUME CoreInv, SettleNext, CleanStep, Ended, NEW i \in 1..Len(fallbackJobs),
           fallbackJobs[i].user = auction.winner
    PROVE  \/ \E j \in 1..Len(fallbackJobs') : fallbackJobs'[j].user = auction.winner
           \/ worker'["fallback"].pc = "cleanup"
<1>0. fallbackJobs \in Seq(Job) /\ worker \in [Workers -> Worker] /\ "fallback" \in Workers
  BY DEF CoreInv, SettleTypeOK, Workers
<1>1. CASE FallbackTake
  <2>1. fallbackJobs # <<>> /\ fallbackJobs' = Tail(fallbackJobs)
    BY <1>1 DEF FallbackTake
  <2>2. CASE i = 1
    <3>1. Head(fallbackJobs).user = auction.winner
      BY <1>0, <2>1, <2>2
    <3>2. worker' = [worker EXCEPT !["fallback"] =
                       [Idle EXCEPT !.pc = "cleanup", !.job = Head(fallbackJobs)]]
      BY <1>1, <3>1 DEF FallbackTake, Ended
    <3> QED
      BY <1>0, <3>2 DEF Idle
  <2>3. CASE i # 1
    <3>1. i - 1 \in 1..Len(fallbackJobs') /\ fallbackJobs'[i - 1] = fallbackJobs[i]
      BY <1>0, <2>1, <2>3
    <3> QED
      BY <3>1
  <2> QED
    BY <2>2, <2>3
<1>2. ASSUME NEW c \in Calls, EnqueueFallback(c)
      PROVE  \E j \in 1..Len(fallbackJobs') : fallbackJobs'[j].user = auction.winner
  <2>1. PICK j : \/ fallbackJobs' = fallbackJobs
                 \/ fallbackJobs' = Append(fallbackJobs, j)
    BY <1>2 DEF EnqueueFallback
  <2>2. i \in 1..Len(fallbackJobs') /\ fallbackJobs'[i] = fallbackJobs[i]
    BY <1>0, <2>1
  <2> QED
    BY <2>2
<1>3. CASE fallbackJobs' = fallbackJobs
  BY <1>3
<1> QED
  BY <1>1, <1>2, <1>3 DEF CleanStep, CallStep, EndTake, EndNotify, ReleaseDeposit, CheckPending,
     CreateDeposit, CreateBalance, FallbackCleanup, FallbackPick, PickFrom, FallbackGiveUp,
     FallbackSaveRow, FallbackSaveWinner, VerifyPayment, DeclinePayment, ReadPayment, FailAuction, SaveCompleted,
     SaveDeclined, SaveFailed, SavePayment, CallFails

\* The fallback worker does not drop a job before it has a new winner, has
\* given up or has found nobody.
LEMMA WorkStays ==
    ASSUME CoreInv, SettleNext, CleanStep, worker["fallback"].pc \in {"cleanup", "pick", "giveup", "row"},
           ~FallbackSaveRow, ~FallbackGiveUp
    PROVE  \/ worker'["fallback"].pc \in {"cleanup", "pick", "giveup", "row"}
           \/ Best(Eligible) = {} /\ winners' = winners
<1> "end" \in Workers /\ "fallback" \in Workers /\ Workers = {"end", "fallback"}
  BY DEF Workers
<1>0. worker \in [Workers -> Worker]
  BY DEF CoreInv, SettleTypeOK
<1>1. CASE \/ EndTake \/ EndNotify \/ CheckPending("end") \/ CreateDeposit("end")
           \/ CreateBalance("end") \/ \E u \in Users : ReleaseDeposit(u)
  <2>1. CASE Done("end") \/ \E pc : GoTo("end", pc)
    BY <1>0, <2>1, DoneFields, GoToFields
  <2>2. CASE EndTake \/ \E u \in Users : ReleaseDeposit(u)
    BY <1>0, <2>2 DEF EndTake, ReleaseDeposit
  <2> QED
    BY <1>1, <2>1, <2>2 DEF EndNotify, CheckPending, CreateDeposit, CreateBalance, CreatePayment
<1>2. CASE \E c \in Calls : VerifyPayment(c) \/ DeclinePayment(c) \/ FailAuction(c) \/ CallStep(c) \/ CallFails(c)
  BY <1>2 DEF VerifyPayment, DeclinePayment, ReadPayment, FailAuction, CallStep, SaveCompleted, SaveDeclined, SaveFailed,
     SavePayment, EnqueueFallback, CallFails
<1>3. CASE FallbackCleanup
  BY <1>0, <1>3, GoToFields DEF FallbackCleanup
<1>4. CASE FallbackPick
  <2>1. ASSUME NEW u, worker' = [worker EXCEPT !["fallback"].pc = "row",
                                               !["fallback"].user = u,
                                               !["fallback"].amount = BestBid[u]]
        PROVE  worker'["fallback"].pc = "row"
    BY <1>0, <2>1 DEF Worker
  <2>2. CASE GoTo("fallback", "giveup")
    BY <1>0, <2>2, GoToFields
  <2>3. winners # {}
    BY DEF CoreInv, LadderInv
  <2>4. winners' = winners
    BY <1>4 DEF FallbackPick, PickFrom
  <2> QED
    BY <1>4, <2>1, <2>2, <2>3, <2>4 DEF FallbackPick, PickFrom
<1>5. ~(FallbackTake \/ FallbackSaveWinner \/ CheckPending("fallback") \/ CreateDeposit("fallback")
        \/ CreateBalance("fallback"))
  BY DEF FallbackTake, FallbackSaveWinner, CheckPending, CreateDeposit, CreateBalance, At
<1> QED
  BY <1>1, <1>2, <1>3, <1>4, <1>5 DEF CleanStep

LEMMA NextDecline == AskedInv /\ [SettleNext]_settleVars => DeclineInv'
<1> DEFINE OnTheWay == /\ \/ Best(Eligible) = {}
                          \/ \E c \in Calls : call[c].pc = "enqueue" /\ call[c].user = auction.winner
                          \/ \E i \in 1..Len(fallbackJobs) : fallbackJobs[i].user = auction.winner
                          \/ worker["fallback"].pc \in {"cleanup", "pick", "giveup", "row"}
<1> SUFFICES ASSUME AskedInv, SettleNext, Clean', Ended',
                    NEW p \in Phases, payments'[auction'.winner][p] = "DECLINED"
             PROVE  OnTheWay'
  <2>1. CASE UNCHANGED settleVars
    BY <2>1, Zenon DEF AskedInv, DeclineInv, Clean, Ended, Best, Eligible
  <2> QED
    BY <2>1 DEF DeclineInv
<1> USE DEF AskedInv
<1>0. SettleTypeOK
  BY DEF CoreInv
<1>1. Clean /\ CleanStep /\ Ended
  BY <1>0, StaysClean, EndedBefore
<1>2. ~FallbackSaveRow
  BY NewWinner DEF Unasked
<1>3. auction' = auction /\ ~FallbackGiveUp
  BY <1>0, <1>2, EndedBefore DEF FallbackGiveUp, Ended
<1>4. PICK w \in Users : w = auction.winner
  BY <1>1 DEF BusyInv
<1>5. CASE payments[w][p] = "DECLINED"
  <2>1. OnTheWay
    BY <1>1, <1>4, <1>5 DEF DeclineInv
  <2>2. CASE Best(Eligible) = {}
    <3>1. ~FallbackSaveWinner
      BY <2>2 DEF FallbackSaveWinner, At, CoreInv, PickInv
    <3>2. winners' = winners
      BY <3>1, StepWinners
    <3> QED
      BY <2>2, <3>2 DEF Best, Eligible
  <2>3. ASSUME NEW c \in Calls, call[c].pc = "enqueue", call[c].user = auction.winner
        PROVE  OnTheWay'
    <3>1. CASE EnqueueFallback(c)
      <4>1. PICK j \in Job : j = [user |-> w, amount |-> 0]
        BY DEF Job
      <4>2. fallbackJobs' = Append(fallbackJobs, j)
        BY <1>1, <1>4, <2>3, <3>1, <4>1 DEF EnqueueFallback, Ended
      <4>3. fallbackJobs \in Seq(Job)
        BY DEF CoreInv, SettleTypeOK
      <4>4. Len(fallbackJobs') \in 1..Len(fallbackJobs') /\ fallbackJobs'[Len(fallbackJobs')] = j
        BY <4>2, <4>3
      <4>5. j.user = auction'.winner
        BY <1>3, <1>4, <4>1
      <4> QED
        BY <4>4, <4>5
    <3>2. CASE ~EnqueueFallback(c)
      <4>1. call \in [Calls -> Call]
        BY DEF CoreInv, SettleTypeOK
      <4>2. ASSUME NEW d \in Calls, VerifyPayment(d) \/ DeclinePayment(d) \/ FailAuction(d)
            PROVE  call'[c] = call[c]
        BY <2>3, <4>1, <4>2 DEF VerifyPayment, DeclinePayment, ReadPayment, FailAuction, CallAt
      <4>3. ASSUME NEW d \in Calls, CallStep(d) PROVE call'[c] = call[c]
        <5>1. d # c
          BY <2>3, <3>2, <4>3 DEF CallStep, SaveCompleted, SaveDeclined, SaveFailed, CallAt
        <5> QED
          BY <4>1, <4>3, <5>1 DEF CallStep, SaveCompleted, SaveDeclined, SaveFailed,
             EnqueueFallback, CallEnds
      <4>4. ASSUME NEW d \in Calls, CallFails(d), call[d].pc = "complete" PROVE call'[c] = call[c]
        BY <2>3, <4>1, <4>4 DEF CallFails, CallEnds
      <4>5. \/ UNCHANGED call
            \/ \E d \in Calls : \/ VerifyPayment(d) \/ DeclinePayment(d) \/ FailAuction(d) \/ CallStep(d)
                                \/ CallFails(d) /\ call[d].pc = "complete"
        BY <1>1 DEF CleanStep, EndTake, EndNotify, ReleaseDeposit, CheckPending,
           CreateDeposit, CreateBalance, FallbackTake, FallbackCleanup, FallbackPick, PickFrom,
           FallbackGiveUp, FallbackSaveRow, FallbackSaveWinner
      <4>6. call'[c] = call[c]
        BY <4>2, <4>3, <4>4, <4>5
      <4> QED
        BY <1>3, <2>3, <4>6
    <3> QED
      BY <3>1, <3>2
  <2>4. ASSUME NEW i \in 1..Len(fallbackJobs), fallbackJobs[i].user = auction.winner
        PROVE  OnTheWay'
    BY <1>1, <1>3, <2>4, JobStays
  <2>5. CASE worker["fallback"].pc \in {"cleanup", "pick", "giveup", "row"}
    BY <1>1, <1>2, <1>3, <2>5, WorkStays DEF Best, Eligible
  <2> QED
    BY <2>1, <2>2, <2>3, <2>4, <2>5
<1>6. CASE payments[w][p] # "DECLINED"
  <2>1. \/ FallbackCleanup
        \/ \E c \in Calls : call[c].user = w /\ SaveDeclined(c)
    BY <1>3, <1>4, <1>6, StepPayments
  <2>2. CASE FallbackCleanup
    <3>1. worker'["fallback"].pc = "pick"
      BY <2>2, GoToFields DEF FallbackCleanup, CoreInv, SettleTypeOK, Workers
    <3> QED
      BY <3>1
  <2>3. ASSUME NEW c \in Calls, call[c].user = w, SaveDeclined(c) PROVE OnTheWay'
    <3>1. call[c] \in Call /\ call \in [Calls -> Call]
      BY DEF CoreInv, SettleTypeOK
    <3>2. call'[c].pc = "enqueue" /\ call'[c].user = w
      BY <2>3, <3>1 DEF SaveDeclined, Call
    <3> QED
      BY <1>3, <1>4, <3>2
  <2> QED
    BY <2>1, <2>2, <2>3
<1> QED
  BY <1>5, <1>6

LEMMA InitAsked == SettleInit => AskedInv
<1> SUFFICES ASSUME SettleInit PROVE AskedInv
  OBVIOUS
<1>1. PICK f \in Best(Users) :
        /\ auction = [status |-> "ENDED", winner |-> f, amount |-> BestBid[f]]
        /\ endJobs = <<[user |-> f, amount |-> BestBid[f]]>> \/ failed = TRUE
        /\ payments = [u \in Users |-> [p \in Phases |-> "NONE"]]
        /\ fallbackJobs = <<>> /\ worker = [k \in Workers |-> Idle]
        /\ call = [c \in Calls |-> Fresh]
  BY Zenon DEF SettleInit
<1>2. f \in Users /\ "end" \in Workers /\ "fallback" \in Workers
  BY DEF Best, Workers
<1>3. /\ \A k \in Workers : worker[k].pc = "idle"
      /\ \A c \in Calls : call[c].pc = "idle"
      /\ \A u \in Users, p \in Phases : payments[u][p] = "NONE"
  BY <1>1 DEF Idle, Fresh
<1>4. CoreInv /\ OweInv
  BY InitSettleInv, CoreOfSettle DEF SettleInv, OweInv
<1>5. BusyInv /\ PaidCalls /\ HalfInv
  BY <1>1, <1>2, <1>3 DEF BusyInv, PaidCalls, HalfInv
<1>6. AskInv
  <2> SUFFICES ASSUME Clean PROVE Opening(auction.winner)
    BY DEF AskInv
  <2>1. ~failed
    BY Zenon DEF Clean
  <2>2. endJobs = <<[user |-> f, amount |-> BestBid[f]]>>
    BY <1>1, <2>1, Zenon
  <2> QED
    BY <1>1, <1>2, <1>3, <2>2 DEF Opening, Ended, Untouched, Waiting
<1>7. DeclineInv
  BY <1>1, <1>2, <1>3 DEF DeclineInv
<1> QED
  BY <1>4, <1>5, <1>6, <1>7, InitDeposit DEF AskedInv

LEMMA NextAsked == AskedInv /\ [SettleNext]_settleVars => AskedInv'
  BY NextCore, NextDeposit, NextBusy, NextPaidCalls, NextHalf, NextOwe, NextAsk, NextDecline DEF AskedInv

\* At rest nothing is left to be done.
LEMMA AskedSettles == AskedInv => Settled
<1> SUFFICES ASSUME AskedInv, Quiet, Ended
             PROVE  /\ (\A p \in Phases : Split(auction.amount)[p] > 0) =>
                          \A p \in Phases : payments[auction.winner][p] # "NONE"
                    /\ (\E p \in Phases : payments[auction.winner][p] = "DECLINED") => Best(Eligible) = {}
  BY DEF Settled, Ended
<1>1. Clean
  BY Zenon DEF Clean, Quiet
<1>2. /\ endJobs = <<>> /\ fallbackJobs = <<>>
      /\ \A k \in Workers : worker[k].pc = "idle"
      /\ \A c \in Calls : call[c].pc \in {"idle", "done"}
      /\ "end" \in Workers /\ "fallback" \in Workers
  BY DEF Quiet, At, Workers
<1>3. ~Opening(auction.winner)
  <2>1. Waiting(auction.winner) => endJobs # <<>>
    BY DEF Waiting
  <2>2. ~Working(auction.winner)
    BY <1>2 DEF Working
  <2> QED
    BY <1>2, <2>1, <2>2 DEF Opening
<1>4. (\A p \in Phases : Split(auction.amount)[p] > 0) =>
         \A p \in Phases : payments[auction.winner][p] # "NONE"
  BY <1>1, <1>2, <1>3 DEF AskedInv, AskInv
<1>5. (\E p \in Phases : payments[auction.winner][p] = "DECLINED") => Best(Eligible) = {}
  BY <1>1, <1>2 DEF AskedInv, DeclineInv
<1> QED
  BY <1>4, <1>5

\* When nothing failed and nothing is in flight, the winner of the row was
\* asked for both payments and did not decline while another bidder could
\* be asked, for any number of bidders, calls and replacements.
THEOREM WinnersSettled == SettleSpec => []Settled
  BY InitAsked, NextAsked, AskedSettles, PTL DEF SettleSpec

-----------------------------------------------------------------------------
(***************************************************************************)
(* Whom the row may name                                                   *)
(***************************************************************************)
\* Past ENDED the row names nobody outside S, and neither does a copy of it
\* that is about to be saved as failed.
Names(S) ==
    /\ ~Ended => auction.winner \in S
    /\ \A c \in Calls : call[c].pc = "fail" => call[c].row.winner \in S

LEMMA FailedRow ==
    ASSUME SettleTypeOK, NEW c \in Calls, SaveFailed(c)
    PROVE  /\ call[c].pc = "fail" /\ auction'.status = "FAILED"
           /\ auction'.winner = call[c].row.winner
<1>1. call[c].row \in AuctionRow
  BY DEF SettleTypeOK, Call
<1> QED
  BY <1>1 DEF SaveFailed, CallAt, AuctionRow

LEMMA NextNames ==
    ASSUME AskedInv, [SettleNext]_settleVars, NEW S, NoUser \in S, Names(S)
    PROVE  Names(S)'
<1>0. SettleTypeOK
  BY DEF AskedInv, CoreInv
<1>1. ASSUME NEW c \in Calls, call'[c].pc = "fail" PROVE call'[c].row.winner \in S
  <2>1. SaveDeclined(c) => call'[c].pc # "fail"
    BY <1>0 DEF SaveDeclined, SettleTypeOK, Call
  <2>2. call'[c] = call[c] \/ (FailAuction(c) /\ call'[c].row = auction)
    BY <1>1, <2>1, StepCall DEF AskedInv
  <2>3. FailAuction(c) => ~Ended
    BY DEF FailAuction, CanSetStatus, Ended
  <2> QED
    BY <1>1, <2>2, <2>3 DEF Names
<1>2. ASSUME ~Ended' PROVE auction'.winner \in S
  <2>1. CASE auction' = auction
    BY <1>2, <2>1 DEF Names, Ended
  <2>2. ~FallbackSaveRow
    <3>1. FallbackSaveRow => Ended /\ auction'.status = auction.status
      BY <1>0 DEF FallbackSaveRow, At, AskedInv, BusyInv, SettleTypeOK, AuctionRow
    <3> QED
      BY <1>2, <3>1 DEF Ended
  <2>3. CASE FallbackGiveUp
    BY <2>3 DEF FallbackGiveUp
  <2>4. ASSUME NEW c \in Calls, SaveFailed(c) PROVE auction'.winner \in S
    BY <1>0, <2>4, FailedRow DEF Names
  <2> QED
    BY <2>1, <2>2, <2>3, <2>4, StepAuction
<1> QED
  BY <1>1, <1>2 DEF Names

\* A user once replaced never becomes the winner again, however often the
\* fallback job is queued, lost or repeated and whoever fails the auction.
THEOREM WinnersDoNotReturn == SettleSpec => NoComeback
<1> DEFINE Inv == AskedInv /\ Names({NoUser})
<1>1. SettleInit => Inv
  <2>1. SettleInit => Names({NoUser})
    BY DEF SettleInit, Names, Ended, Fresh
  <2> QED
    BY <2>1, InitAsked
<1>2. Inv /\ [SettleNext]_settleVars => Inv'
  BY NextAsked, NextNames
<1>3. Inv /\ [SettleNext]_settleVars
        => [auction'.winner \notin {auction.winner, NoUser} => auction'.winner \in Eligible]_settleVars
  <2> SUFFICES ASSUME Inv, SettleNext, auction'.winner \notin {auction.winner, NoUser}
               PROVE  auction'.winner \in Eligible
    OBVIOUS
  <2>1. SettleTypeOK
    BY DEF AskedInv, CoreInv
  <2>2. ASSUME NEW c \in Calls PROVE ~SaveFailed(c)
    BY <2>1, FailedRow DEF Names
  <2>3. FallbackSaveRow
    BY <2>2, StepAuction DEF FallbackGiveUp
  <2>4. auction'.winner = worker["fallback"].user
    BY <2>1, <2>3 DEF FallbackSaveRow, SettleTypeOK, AuctionRow
  <2> QED
    BY <2>3, <2>4 DEF FallbackSaveRow, At, AskedInv, CoreInv, PickInv, Best
<1> QED
  BY <1>1, <1>2, <1>3, PTL DEF SettleSpec, NoComeback

-----------------------------------------------------------------------------
(***************************************************************************)
(* The public offer                                                        *)
(***************************************************************************)
USE PublicOfferAssumption DEF offerVars, publicVars

\* The offer is not made, nor asked for, before the last winner declined.
StillInv ==
    Ended => /\ offer = "NONE" /\ notices.queued = 0 /\ notice = "idle"
             /\ \A c \in PublicCalls : pub[c].pc = "idle"

\* Where a call is that has read an open offer.
Buying == {"order", "reject", "auction", "buyer", "offer", "payment", "row"}

Open == auction.status \in {"FALLBACK_PUBLIC_NOTIFICATION", "SOLD", "FAILED"}

\* Somebody has answered the offer or is about to.
Answers == Answered # {} \/ \E c \in PublicCalls : pub[c].pc \in Buying

Offered == Answers \/ auction.status = "FALLBACK_PUBLIC_NOTIFICATION"

\* Nobody answers before the notice worker has opened the row, which it does
\* once, after it has made the offer.
StageInv ==
    /\ Answers => Open
    /\ Offered => offer # "NONE" /\ notice # "row"
    /\ notice = "row" => offer # "NONE"

\* No more notices are on the way than were sent.
NoticeInv == notices.queued + (IF notice = "idle" THEN 0 ELSE 1) <= notices.sent

\* A call knows its user, and the buyer's row it has read.
Knows(q) ==
    /\ q.pc \notin {"idle", "done"} => q.user \in Users
    /\ q.pc \in {"auction", "buyer"} => q.buyer # NoRow
    /\ q.pc \in {"auction", "buyer", "offer", "payment", "row"} => buyers[q.user] # NoRow

BuyerInv == \A c \in PublicCalls : Knows(pub[c])

\* A call that comes to the row has saved what it passed on its way.
PaidInv ==
    ~failed => \A c \in PublicCalls :
        /\ pub[c].pc \in {"offer", "payment", "row"} => buyers[pub[c].user].payment = "PAID"
        /\ pub[c].pc \in {"payment", "row"} => offer = "PAID"
        /\ pub[c].pc = "row" => payments[pub[c].user]["BALANCE"] # "NONE"

-----------------------------------------------------------------------------
LEMMA PublicBlank ==
    /\ PublicOver \in PublicCall /\ PublicOver.pc = "done"
    /\ PublicFresh \in PublicCall /\ PublicFresh.pc = "idle"
  BY DEF PublicOver, PublicFresh, PublicCall, Buyer, NoRow, AuctionRow, Statuses

LEMMA InitPublicType == PublicInit => PublicTypeOK
<1> SUFFICES ASSUME PublicInit PROVE PublicTypeOK
  OBVIOUS
<1>1. SettleTypeOK
  BY InitSettleType DEF PublicInit
<1>2. buyers \in [Users -> Buyer]
  BY DEF PublicInit, Buyer
<1>3. pub \in [PublicCalls -> PublicCall]
  BY PublicBlank DEF PublicInit
<1> QED
  BY <1>1, <1>2, <1>3 DEF PublicInit, PublicTypeOK

\* A call that goes on, and one that ends.
LEMMA PubMoves ==
    ASSUME pub \in [PublicCalls -> PublicCall], NEW c \in PublicCalls
    PROVE  /\ PubEnds(c) => pub' = [pub EXCEPT ![c] = PublicOver]
           /\ \A pc \in {"offer", "payment", "row"} : PubGoTo(c, pc) =>
                \E q \in PublicCall : /\ pub' = [pub EXCEPT ![c] = q] /\ q.pc = pc
                                      /\ q.user = pub[c].user /\ q.buyer = pub[c].buyer
                                      /\ q.row = pub[c].row
<1>1. ASSUME NEW pc \in {"offer", "payment", "row"}, PubGoTo(c, pc)
      PROVE  \E q \in PublicCall : /\ pub' = [pub EXCEPT ![c] = q] /\ q.pc = pc
                                   /\ q.user = pub[c].user /\ q.buyer = pub[c].buyer
                                   /\ q.row = pub[c].row
  <2>1. PICK q : q = [pub[c] EXCEPT !.pc = pc]
    OBVIOUS
  <2>2. pub[c] \in PublicCall
    OBVIOUS
  <2>3. q \in PublicCall /\ q.pc = pc /\ q.user = pub[c].user /\ q.buyer = pub[c].buyer /\ q.row = pub[c].row
    BY <2>1, <2>2 DEF PublicCall
  <2>4. pub' = [pub EXCEPT ![c] = q]
    BY <1>1, <2>1 DEF PubGoTo
  <2> QED
    BY <2>3, <2>4
<1> QED
  BY <1>1 DEF PubEnds

-----------------------------------------------------------------------------
(***************************************************************************)
(* The settlement under the steps of the public offer                      *)
(***************************************************************************)
\* What a step of the offer may do to the settlement.
OfferMove ==
    /\ ~Ended /\ ~Ended'
    /\ auction' \in AuctionRow
    /\ payments' \in [Users -> [Phases -> PaymentStatus]]
    /\ \A u \in Users, p \in Phases : payments[u][p] # "NONE" => payments'[u][p] # "NONE"
    /\ failed' = failed \/ failed' = TRUE
    /\ UNCHANGED <<winners, held, endJobs, fallbackJobs, worker, call, crashes>>

LEMMA AskedStands ==
    ASSUME AskedInv, OfferMove
    PROVE  AskedInv'
<1>1. failed' \in BOOLEAN /\ (Clean' => Clean)
  <2>1. failed \in BOOLEAN
    BY DEF AskedInv, CoreInv, SettleTypeOK
  <2>2. failed' = failed \/ failed' = TRUE
    BY Zenon DEF OfferMove
  <2>3. failed' \in BOOLEAN
    BY <2>1, <2>2, Zenon
  <2>4. ~failed' => ~failed
    BY <2>2, Zenon
  <2>5. crashes' = crashes
    BY DEF OfferMove
  <2> QED
    BY <2>3, <2>4, <2>5, Zenon DEF Clean
<1>2. CoreInv'
  <2>1. SettleTypeOK'
    <3>1. crashes' \in 0..MaxCrashes
      BY DEF AskedInv, CoreInv, SettleTypeOK, OfferMove
    <3> QED
      BY <1>1, <3>1, Zenon DEF AskedInv, CoreInv, SettleTypeOK, OfferMove
  <2>2. JobInv' /\ CallUsers'
    BY Zenon DEF AskedInv, CoreInv, OfferMove, JobInv, CallUsers, At, Won
  <2>3. PickInv' /\ LadderInv'
    BY Zenon DEF AskedInv, CoreInv, OfferMove, PickInv, LadderInv, WinnerLadder, Eligible, Best, Won
  <2> QED
    BY <2>1, <2>2, <2>3 DEF CoreInv
<1>3. DepositInv'
  <2> SUFFICES ASSUME Clean'
               PROVE  \E f \in Users : First(f)' /\ (Opening(f)' \/ Opened(f)') /\ Returned(f)'
    BY DEF DepositInv
  <2>1. PICK f \in Users : First(f) /\ (Opening(f) \/ Opened(f)) /\ Returned(f)
    BY <1>1 DEF AskedInv, DepositInv
  <2>2. Opened(f)
    BY <2>1 DEF Opening, OfferMove
  <2> QED
    BY <2>1, <2>2 DEF OfferMove, First, Won, Opened, Returned, Due
<1>4. BusyInv' /\ OweInv' /\ AskInv' /\ DeclineInv'
  <2>1. worker'["fallback"].pc = "idle"
    BY DEF AskedInv, BusyInv, OfferMove
  <2> QED
    BY <2>1 DEF OfferMove, BusyInv, OweInv, AskInv, DeclineInv
<1>5. PaidCalls'
  <2> SUFFICES ASSUME NEW c \in Calls, call[c].pc \in {"complete", "decline", "enqueue"}
               PROVE  payments'[call[c].user][call[c].phase] # "NONE"
    BY DEF PaidCalls, OfferMove
  <2>1. call[c].user \in Users /\ call[c].phase \in Phases
    BY DEF AskedInv, CoreInv, CallUsers, SettleTypeOK, Call
  <2> QED
    BY <2>1 DEF AskedInv, PaidCalls, OfferMove
<1>6. HalfInv'
  <2> SUFFICES ASSUME NEW k \in Workers, worker[k].pc = "balance"
               PROVE  payments'[worker[k].user]["DEPOSIT"] # "NONE"
    BY DEF HalfInv, OfferMove
  <2>1. worker[k].user \in Users /\ "DEPOSIT" \in Phases
    BY PayingUser DEF Phases, AskedInv
  <2> QED
    BY <2>1 DEF AskedInv, HalfInv, OfferMove
<1> QED
  BY <1>2, <1>3, <1>4, <1>5, <1>6 DEF AskedInv

\* A step of the settlement leaves an auction alone that is past ENDED,
\* unless it fails it.
LEMMA RowRests ==
    ASSUME AskedInv, [SettleNext]_settleVars, ~Ended
    PROVE  auction' = auction \/ auction'.status = "FAILED"
<1>1. worker["fallback"].pc = "idle" /\ SettleTypeOK
  BY DEF AskedInv, BusyInv, CoreInv
<1> QED
  BY <1>1, StepAuction, FailedRow DEF FallbackSaveRow, FallbackGiveUp, At

-----------------------------------------------------------------------------
(***************************************************************************)
(* The calls of buyers                                                     *)
(***************************************************************************)
\* What the call has passed, as its record says.
Paid(q) ==
    /\ q.pc \in {"offer", "payment", "row"} => buyers[q.user].payment = "PAID"
    /\ q.pc \in {"payment", "row"} => offer = "PAID"
    /\ q.pc = "row" => payments[q.user]["BALANCE"] # "NONE"

\* Nothing that was paid, asked for or opened is taken back.
Forward ==
    /\ buyers' \in [Users -> Buyer]
    /\ \A u \in Users : buyers[u].payment = "PAID" => buyers'[u].payment = "PAID"
    /\ Answered \subseteq Answered'
    /\ offer' = offer \/ offer' = "PAID"
    /\ failed' = failed \/ failed' = TRUE
    /\ Open => Open'

\* The call goes on with the record q.
GoesOn(c, q) ==
    /\ pub' = [pub EXCEPT ![c] = q] /\ q.pc # "idle" /\ Knows(q)'
    /\ q.pc \in Buying => Offered
    /\ PaidInv /\ ~failed' => Paid(q)'

LEMMA NothingPaid ==
    ASSUME UNCHANGED <<auction, offer, failed>>, buyers' \in [Users -> Buyer],
           \A u \in Users : buyers[u].payment = "PAID" => buyers'[u].payment = "PAID",
           Answered \subseteq Answered'
    PROVE  Forward
<1>1. failed' = failed \/ failed' = TRUE
  BY Zenon
<1> QED
  BY <1>1 DEF Forward, Open

LEMMA SettlementRests ==
    ASSUME SettleTypeOK, UNCHANGED settleVars, ~Ended
    PROVE  OfferMove
<1>1. failed' = failed \/ failed' = TRUE
  BY Zenon
<1>2. /\ auction' \in AuctionRow /\ ~Ended'
      /\ payments' \in [Users -> [Phases -> PaymentStatus]]
      /\ \A u \in Users, p \in Phases : payments[u][p] # "NONE" => payments'[u][p] # "NONE"
  BY DEF SettleTypeOK, Ended
<1> QED
  BY <1>1, <1>2, Zenon DEF OfferMove

LEMMA CallMove ==
    ASSUME PublicTypeOK, StillInv, StageInv, BuyerInv, NEW c \in PublicCalls, PublicStep(c)
    PROVE  /\ OfferMove /\ Forward /\ UNCHANGED <<notices, notice>>
           /\ buyers' # buyers => Answers
           /\ \E q \in PublicCall : GoesOn(c, q)
<1> DEFINE Goal == /\ OfferMove /\ Forward /\ UNCHANGED <<notices, notice>>
                   /\ buyers' # buyers => Answers
                   /\ \E q \in PublicCall : GoesOn(c, q)
<1>1. /\ pub[c] \in PublicCall /\ pub \in [PublicCalls -> PublicCall]
      /\ auction \in AuctionRow /\ payments \in [Users -> [Phases -> PaymentStatus]]
      /\ buyers \in [Users -> Buyer]
  BY DEF PublicTypeOK, SettleTypeOK
<1>2. pub[c].pc \in Buying => Open /\ Answers /\ Offered /\ pub[c].user \in Users
  BY DEF StageInv, Answers, Offered, BuyerInv, Knows, Buying
<1>3. PublicOver \in PublicCall /\ PublicOver.pc = "done"
  BY PublicBlank
<1>4. ASSUME PubEnds(c) PROVE \E q \in PublicCall : GoesOn(c, q)
  <2>1. PICK q : q = PublicOver
    OBVIOUS
  <2>2. q \in PublicCall /\ q.pc = "done" /\ pub' = [pub EXCEPT ![c] = q]
    BY <1>3, <1>4, <2>1 DEF PubEnds
  <2>3. Knows(q)' /\ Paid(q)' /\ q.pc \notin Buying \cup {"idle"}
    BY <2>2 DEF Knows, Buying, Paid
  <2> QED
    BY <2>2, <2>3, Zenon DEF GoesOn
\* The steps that leave the settlement alone.
<1>5. ASSUME UNCHANGED settleVars, ~Ended PROVE OfferMove
  BY <1>5, SettlementRests DEF PublicTypeOK
<1>6. ASSUME NEW u \in Users, CreateOrder(c, u) \/ RejectOffer(c, u) \/ VerifyOffer(c, u) PROVE Goal
  <2>1. UNCHANGED <<settleVars, offer, buyers, notices, notice>>
    BY <1>6 DEF CreateOrder, RejectOffer, VerifyOffer
  <2>2. ~Ended
    BY <1>6 DEF CreateOrder, RejectOffer, VerifyOffer, Ended, StillInv
  <2>3. PICK pc \in {"order", "reject", "own"} :
           pub' = [pub EXCEPT ![c].pc = pc, ![c].user = u] /\ (pc # "own" => Offered)
    BY <1>6 DEF CreateOrder, RejectOffer, VerifyOffer, Offered
  <2>4. PICK q : q = [pub[c] EXCEPT !.pc = pc, !.user = u]
    OBVIOUS
  <2>5. q \in PublicCall /\ q.pc = pc /\ q.user = u
    BY <1>1, <2>4 DEF PublicCall
  <2>6. pub' = [pub EXCEPT ![c] = q]
    BY <1>1, <2>3, <2>4 DEF PublicCall
  <2>7. Knows(q)' /\ Paid(q)' /\ (q.pc \in Buying => Offered)
    BY <2>1, <2>3, <2>5 DEF Knows, Paid, Buying
  <2>8. Forward
    BY <1>1, <2>1, NothingPaid DEF Answered
  <2>9. q.pc # "idle"
    BY <2>5
  <2>10. GoesOn(c, q)
    BY <2>6, <2>7, <2>9, Zenon DEF GoesOn
  <2> QED
    BY <1>5, <2>1, <2>2, <2>5, <2>8, <2>10
<1>7. CASE SaveNewBuyer(c)
  <2>1. pub[c].pc \in {"order", "reject"} /\ UNCHANGED <<settleVars, offer, notices, notice>>
    BY <1>7 DEF SaveNewBuyer
  <2>2. ~Ended /\ Answers /\ pub[c].user \in Users
    BY <1>2, <2>1 DEF Open, Ended, Buying
  <2>3. PICK s \in {"PENDING", "REJECTED"} :
           buyers' = IF buyers[pub[c].user] = NoRow
                     THEN [buyers EXCEPT ![pub[c].user] = [status |-> s, payment |-> "PENDING"]]
                     ELSE buyers
    BY <1>7 DEF SaveNewBuyer
  <2>4. buyers' \in [Users -> Buyer]
    BY <1>1, <2>3 DEF Buyer
  <2>5. \A u \in Users : buyers[u].payment = "PAID" => buyers'[u].payment = "PAID"
    BY <1>1, <2>2, <2>3 DEF NoRow
  <2>8. Answered \subseteq Answered'
    BY <1>1, <2>3 DEF Answered, NoRow
  <2>6. Forward
    BY <2>1, <2>2, <2>4, <2>5, <2>8, NothingPaid
  <2>7. PubEnds(c)
    BY <1>7 DEF SaveNewBuyer
  <2> QED
    BY <1>3, <1>4, <1>5, <2>1, <2>2, <2>6, <2>7
<1>8. CASE VerifyReadBuyer(c) \/ VerifyReadRow(c)
  <2>1. UNCHANGED <<settleVars, offer, buyers, notices, notice>> /\ pub[c].pc \in {"own", "auction"}
    BY <1>8 DEF VerifyReadBuyer, VerifyReadRow, PubAt
  <2>2. ~Ended /\ pub[c].user \in Users
    BY <2>1 DEF StillInv, BuyerInv, Knows
  <2>3. Forward
    BY <1>1, <2>1, NothingPaid DEF Answered
  <2>4. CASE PubEnds(c)
    BY <1>4, <1>5, <2>1, <2>2, <2>3, <2>4
  <2>5. CASE /\ pub' = [pub EXCEPT ![c].pc = "auction", ![c].buyer = buyers[pub[c].user]]
             /\ buyers[pub[c].user].payment = "PENDING"
    <3>1. PICK q : q = [pub[c] EXCEPT !.pc = "auction", !.buyer = buyers[pub[c].user]]
      OBVIOUS
    <3>2. buyers[pub[c].user] \in Buyer /\ buyers[pub[c].user] # NoRow
      BY <1>1, <2>2, <2>5 DEF NoRow
    <3>3. q \in PublicCall /\ q.pc = "auction" /\ q.user = pub[c].user /\ q.buyer # NoRow
      BY <1>1, <3>1, <3>2 DEF PublicCall
    <3>4. pub' = [pub EXCEPT ![c] = q]
      BY <1>1, <2>5, <3>1 DEF PublicCall
    <3>5. Offered
      BY <2>2, <3>2 DEF Offered, Answers, Answered
    <3>6. Knows(q)' /\ Paid(q)'
      BY <2>1, <2>2, <3>2, <3>3 DEF Knows, Paid
    <3>7. q.pc # "idle" /\ GoesOn(c, q)
      BY <3>3, <3>4, <3>5, <3>6, Zenon DEF GoesOn
    <3> QED
      BY <1>5, <2>1, <2>2, <2>3, <3>3, <3>7
  <2>6. CASE pub' = [pub EXCEPT ![c].pc = "buyer", ![c].row = auction] /\ pub[c].pc = "auction"
    <3>1. PICK q : q = [pub[c] EXCEPT !.pc = "buyer", !.row = auction]
      OBVIOUS
    <3>2. q \in PublicCall /\ q.pc = "buyer" /\ q.user = pub[c].user /\ q.buyer = pub[c].buyer
      BY <1>1, <3>1 DEF PublicCall
    <3>3. pub' = [pub EXCEPT ![c] = q]
      BY <1>1, <2>6, <3>1 DEF PublicCall
    <3>4. Offered
      BY <1>2, <2>6 DEF Buying
    <3>5. pub[c].buyer # NoRow /\ buyers[pub[c].user] # NoRow
      BY <2>6 DEF BuyerInv, Knows
    <3>6. Knows(q)' /\ Paid(q)'
      BY <2>1, <2>2, <3>2, <3>5 DEF Knows, Paid
    <3>7. q.pc # "idle" /\ GoesOn(c, q)
      BY <3>2, <3>3, <3>4, <3>6, Zenon DEF GoesOn
    <3> QED
      BY <1>5, <2>1, <2>2, <2>3, <3>2, <3>7
  <2> QED
    BY <1>8, <2>4, <2>5, <2>6 DEF VerifyReadBuyer, VerifyReadRow, PubAt
<1>9. /\ pub[c].pc \in Buying => ~Ended /\ Open /\ Answers /\ Offered /\ pub[c].user \in Users
      /\ pub[c].pc \in {"buyer", "offer", "payment", "row"} => buyers[pub[c].user] # NoRow
  BY <1>2 DEF Open, Ended, BuyerInv, Knows
<1>10. CASE VerifySaveBuyer(c)
  <2>1. pub[c].pc = "buyer" /\ UNCHANGED <<settleVars, offer, notices, notice>>
    BY <1>10 DEF VerifySaveBuyer, PubAt
  <2>2. ~Ended /\ Answers /\ Offered /\ pub[c].user \in Users
    BY <1>9, <2>1 DEF Buying
  <2>3. PICK b : b = [pub[c].buyer EXCEPT !.payment = "PAID"]
    OBVIOUS
  <2>4. pub[c].buyer \in Buyer /\ pub[c].buyer # NoRow
    BY <1>1, <2>1 DEF BuyerInv, Knows, PublicCall
  <2>5. b \in Buyer /\ b.payment = "PAID"
    BY <2>3, <2>4 DEF Buyer
  <2>6. buyers' = [buyers EXCEPT ![pub[c].user] = b]
    BY <1>10, <2>3 DEF VerifySaveBuyer
  <2>7. /\ buyers' \in [Users -> Buyer] /\ buyers'[pub[c].user].payment = "PAID"
        /\ \A u \in Users : buyers[u].payment = "PAID" => buyers'[u].payment = "PAID"
    BY <1>1, <2>2, <2>5, <2>6
  <2>12. buyers'[pub[c].user] # NoRow /\ Answered \subseteq Answered'
    BY <1>1, <2>2, <2>5, <2>6 DEF Answered, NoRow
  <2>8. Forward
    BY <2>1, <2>7, <2>12, NothingPaid
  <2>9. PICK q \in PublicCall : /\ pub' = [pub EXCEPT ![c] = q] /\ q.pc = "offer"
                                /\ q.user = pub[c].user
    BY <1>1, <1>10, PubMoves DEF VerifySaveBuyer
  <2>10. Knows(q)' /\ Paid(q)' /\ q.pc # "idle"
    BY <2>2, <2>7, <2>9, <2>12 DEF Knows, Paid
  <2>11. GoesOn(c, q)
    BY <2>2, <2>9, <2>10, Zenon DEF GoesOn
  <2> QED
    BY <1>5, <2>1, <2>2, <2>8, <2>11
\* The call passes on to pc and what it should have saved on its way.
<1>11. ASSUME NEW pc \in {"offer", "payment", "row"}, PubGoTo(c, pc), pub[c].pc \in Buying,
              buyers'[pub[c].user] # NoRow,
              PaidInv /\ ~failed' =>
                /\ buyers'[pub[c].user].payment = "PAID"
                /\ pc \in {"payment", "row"} => offer' = "PAID"
                /\ pc = "row" => payments'[pub[c].user]["BALANCE"] # "NONE"
       PROVE  \E q \in PublicCall : GoesOn(c, q)
  <2>1. PICK q \in PublicCall : /\ pub' = [pub EXCEPT ![c] = q] /\ q.pc = pc
                                /\ q.user = pub[c].user
    BY <1>1, <1>11, PubMoves
  <2>2. Knows(q)' /\ q.pc # "idle" /\ Offered
    BY <1>9, <1>11, <2>1 DEF Knows
  <2>3. ASSUME PaidInv, ~failed' PROVE Paid(q)'
    <3>1. /\ buyers'[pub[c].user].payment = "PAID"
          /\ pc \in {"payment", "row"} => offer' = "PAID"
          /\ pc = "row" => payments'[pub[c].user]["BALANCE"] # "NONE"
      BY <1>11, <2>3, Zenon
    <3> QED
      BY <2>1, <3>1 DEF Paid
  <2>4. GoesOn(c, q)
    BY <1>11, <2>1, <2>2, <2>3, Zenon DEF GoesOn
  <2> QED
    BY <2>4
\* What PaidInv says about the call.
<1>12. PaidInv /\ ~failed =>
         /\ pub[c].pc \in {"offer", "payment", "row"} => buyers[pub[c].user].payment = "PAID"
         /\ pub[c].pc \in {"payment", "row"} => offer = "PAID"
  BY Zenon DEF PaidInv
<1>13. CASE VerifySaveOffer(c)
  <2>1. /\ pub[c].pc = "offer" /\ UNCHANGED <<settleVars, buyers, notices, notice>> /\ offer' = "PAID"
        /\ PubEnds(c) \/ PubGoTo(c, "payment")
    BY <1>13 DEF VerifySaveOffer, PubAt
  <2>2. ~Ended /\ Open /\ pub[c].pc \in Buying /\ Open' /\ buyers'[pub[c].user] # NoRow
    BY <1>9, <2>1 DEF Buying, Open
  <2>3. Forward
    <3>1. failed' = failed \/ failed' = TRUE
      BY <2>1, Zenon
    <3> QED
      BY <1>1, <2>1, <2>2, <3>1 DEF Forward, Answered
  <2>4. PaidInv /\ ~failed' => buyers'[pub[c].user].payment = "PAID"
    <3>1. failed' = failed
      BY <2>1, Zenon
    <3>2. ~failed' => ~failed
      BY <3>1, Zenon
    <3>3. pub[c].pc \in {"offer", "payment", "row"} /\ buyers' = buyers
      BY <2>1
    <3> QED
      BY <1>12, <3>2, <3>3, Zenon
  <2>5. \E q \in PublicCall : GoesOn(c, q)
    BY <1>4, <1>11, <2>1, <2>2, <2>4
  <2> QED
    BY <1>5, <2>1, <2>2, <2>3, <2>5
<1>14. CASE VerifyCreateBalance(c)
  <2>1. /\ pub[c].pc = "payment" /\ PubGoTo(c, "row")
        /\ UNCHANGED <<auction, winners, held, endJobs, fallbackJobs, worker, call, crashes,
                       failed, offer, buyers, notices, notice>>
    BY <1>14 DEF VerifyCreateBalance, PubAt
  <2>2. /\ ~Ended /\ pub[c].pc \in Buying /\ pub[c].user \in Users /\ Open'
        /\ buyers'[pub[c].user] # NoRow
    BY <1>9, <2>1 DEF Buying, Open
  <2>3. PICK s : s = IF payments[pub[c].user]["BALANCE"] = "NONE" THEN "PENDING"
                     ELSE payments[pub[c].user]["BALANCE"]
    OBVIOUS
  <2>4. payments' = [payments EXCEPT ![pub[c].user]["BALANCE"] = s] /\ "BALANCE" \in Phases
    BY <1>14, <2>3 DEF VerifyCreateBalance, Phases
  <2>5. s \in PaymentStatus /\ s # "NONE"
    BY <1>1, <2>2, <2>3, <2>4 DEF PaymentStatus
  <2>6. /\ payments' \in [Users -> [Phases -> PaymentStatus]]
        /\ payments'[pub[c].user]["BALANCE"] # "NONE"
        /\ \A u \in Users, p \in Phases : payments[u][p] # "NONE" => payments'[u][p] # "NONE"
    BY <1>1, <2>2, <2>4, <2>5
  <2>7. OfferMove
    <3>1. failed' = failed \/ failed' = TRUE
      BY <2>1, Zenon
    <3>2. ~Ended' /\ auction' \in AuctionRow
      BY <1>1, <2>1, <2>2 DEF Ended
    <3> QED
      BY <2>1, <2>2, <2>6, <3>1, <3>2 DEF OfferMove
  <2>8. Forward
    BY <1>1, <2>1, NothingPaid DEF Answered
  <2>9. PaidInv /\ ~failed' => buyers'[pub[c].user].payment = "PAID" /\ offer' = "PAID"
    <3>1. failed' = failed
      BY <2>1, Zenon
    <3>2. ~failed' => ~failed
      BY <3>1, Zenon
    <3>3. pub[c].pc \in {"payment", "row"} /\ buyers' = buyers /\ offer' = offer
      BY <2>1
    <3> QED
      BY <1>12, <3>2, <3>3, Zenon
  <2>10. \E q \in PublicCall : GoesOn(c, q)
    BY <1>11, <2>1, <2>2, <2>6, <2>9
  <2> QED
    BY <2>1, <2>7, <2>8, <2>10
<1>15. CASE VerifySaveRow(c)
  <2>1. /\ pub[c].pc = "row" /\ PubEnds(c)
        /\ UNCHANGED <<winners, payments, held, endJobs, fallbackJobs, worker, call, crashes,
                       failed, offer, buyers, notices, notice>>
        /\ auction' = [status |-> "SOLD", winner |-> pub[c].user, amount |-> StartPrice]
    BY <1>15 DEF VerifySaveRow, PubAt
  <2>2. ~Ended /\ pub[c].user \in Users /\ ~Ended' /\ Open'
    BY <1>9, <2>1 DEF Buying, Ended, Open
  <2>3. auction' \in AuctionRow
    BY <2>1, <2>2 DEF AuctionRow, Statuses
  <2>4. failed' = failed \/ failed' = TRUE
    BY <2>1, Zenon
  <2>5. OfferMove
    BY <1>1, <2>1, <2>2, <2>3, <2>4 DEF OfferMove
  <2>6. Forward
    BY <1>1, <2>1, <2>2, <2>4 DEF Forward, Answered
  <2> QED
    BY <1>4, <2>1, <2>5, <2>6
<1>16. CASE PublicFails(c) \/ SkipSave(c)
  <2>1. /\ pub[c].pc \in Buying \cup {"own"} /\ failed' = TRUE
        /\ UNCHANGED <<auction, winners, payments, held, endJobs, fallbackJobs, worker, call,
                       crashes, offer, buyers, notices, notice>>
        /\ \/ PubEnds(c)
           \/ /\ pub[c].pc \in {"buyer", "offer", "payment", "row"}
              /\ \E pc \in {"offer", "payment", "row"} : PubGoTo(c, pc)
    BY <1>16 DEF PublicFails, SkipSave, PubAt, Buying
  <2>2. ~Ended /\ ~Ended'
    BY <1>9, <2>1 DEF Ended, StillInv
  <2>3. OfferMove /\ Forward
    BY <1>1, <2>1, <2>2 DEF OfferMove, Forward, Open, Answered
  <2>4. \E q \in PublicCall : GoesOn(c, q)
    <3>1. pub[c].pc \in {"buyer", "offer", "payment", "row"} =>
             pub[c].pc \in Buying /\ buyers'[pub[c].user] # NoRow
      BY <1>9, <2>1 DEF Buying
    <3>2. failed'
      BY <2>1, Zenon
    <3>3. CASE PubEnds(c)
      BY <1>4, <3>3
    <3>4. ASSUME NEW pc \in {"offer", "payment", "row"}, PubGoTo(c, pc),
                 pub[c].pc \in {"buyer", "offer", "payment", "row"}
          PROVE  \E q \in PublicCall : GoesOn(c, q)
      <4>1. PaidInv /\ ~failed' =>
                /\ buyers'[pub[c].user].payment = "PAID"
                /\ pc \in {"payment", "row"} => offer' = "PAID"
                /\ pc = "row" => payments'[pub[c].user]["BALANCE"] # "NONE"
        BY <3>2, Zenon
      <4> QED
        BY <1>11, <3>1, <3>4, <4>1
    <3> QED
      BY <2>1, <3>3, <3>4
  <2> QED
    BY <2>1, <2>3, <2>4
<1> QED
  BY <1>6, <1>7, <1>8, <1>10, <1>13, <1>14, <1>15, <1>16 DEF PublicStep

-----------------------------------------------------------------------------
(***************************************************************************)
(* The invariant of the whole                                              *)
(***************************************************************************)
\* A sold auction has a winner, who paid.
SoldInv == auction.status = "SOLD" => auction.winner \in Users

\* The row names nobody but those who answered the offer.
NamesInv == Names(Answered \cup {NoUser})

PublicInv ==
    /\ AskedInv /\ PublicTypeOK /\ StillInv /\ StageInv /\ NoticeInv /\ BuyerInv /\ PaidInv
    /\ SoldInv /\ SoldToPayer /\ NamesInv

\* The steps of the notice worker.
NoticeStep == SendNotice \/ NoticeTake \/ NoticeSaveOffer \/ NoticeSaveRow \/ NoticeFails

\* Each step is one of the settlement, of the notice worker or of a call.
LEMMA PublicCases ==
    ASSUME [PublicNext]_publicVars
    PROVE  \/ [SettleNext]_settleVars /\ UNCHANGED offerVars
           \/ PublicCrash
           \/ NoticeStep
           \/ \E c \in PublicCalls : PublicStep(c)
  BY DEF PublicNext, NoticeStep, SettleNext

LEMMA NoticeMove ==
    ASSUME PublicTypeOK, StillInv, StageInv, NoticeInv, NoticeStep
    PROVE  /\ OfferMove /\ UNCHANGED <<buyers, pub>>
           /\ notices' \in [sent : 0..MaxNotices, queued : 0..MaxNotices]
           /\ notice' \in {"idle", "offer", "row"} /\ offer' \in {"NONE", "PENDING", "PAID"}
           /\ offer = "PAID" => offer' = "PAID"
           /\ offer # "NONE" => offer' # "NONE"
           /\ NoticeInv'
           /\ notice' = "row" => offer' # "NONE" /\ (offer = "NONE" \/ notice = "row")
           /\ \/ auction' = auction
              \/ /\ notice = "row" /\ notice' = "idle" /\ auction'.winner = NoUser
                 /\ auction'.status = "FALLBACK_PUBLIC_NOTIFICATION"
<1>1. /\ auction \in AuctionRow /\ payments \in [Users -> [Phases -> PaymentStatus]]
      /\ notices \in [sent : 0..MaxNotices, queued : 0..MaxNotices]
      /\ notices.sent \in 0..MaxNotices /\ notices.queued \in 0..MaxNotices
      /\ notice \in {"idle", "offer", "row"} /\ offer \in {"NONE", "PENDING", "PAID"}
  BY DEF PublicTypeOK, SettleTypeOK
<1>2. ~Ended
  BY DEF NoticeStep, SendNotice, NoticeTake, NoticeSaveOffer, NoticeSaveRow, NoticeFails, StillInv, Ended
<1>3. UNCHANGED settleVars => OfferMove
  BY <1>2, SettlementRests DEF PublicTypeOK
<1>4. CASE SendNotice
  <2>1. notices' = [sent |-> notices.sent + 1, queued |-> notices.queued + 1] /\ notices.sent < MaxNotices
    BY <1>4 DEF SendNotice
  <2>2. notices.queued <= notices.sent
    BY <1>1 DEF NoticeInv
  <2>3. notices' \in [sent : 0..MaxNotices, queued : 0..MaxNotices]
    BY <1>1, <2>1, <2>2
  <2>4. NoticeInv'
    BY <1>1, <1>4, <2>1 DEF NoticeInv, SendNotice
  <2> QED
    BY <1>1, <1>3, <1>4, <2>3, <2>4 DEF SendNotice, StageInv
<1>5. CASE NoticeTake
  <2>1. /\ notice = "idle" /\ notices.queued > 0 /\ notices' = [notices EXCEPT !.queued = @ - 1]
        /\ notice' = IF auction.status = "FALLBACK_ENDED" THEN "offer" ELSE "idle"
        /\ UNCHANGED <<settleVars, offer, buyers, pub>>
    BY <1>5 DEF NoticeTake
  <2>2. notices' \in [sent : 0..MaxNotices, queued : 0..MaxNotices]
    BY <1>1, <2>1
  <2>3. NoticeInv'
    BY <1>1, <2>1 DEF NoticeInv
  <2> QED
    BY <1>1, <1>3, <2>1, <2>2, <2>3
<1>6. CASE NoticeSaveOffer
  <2>1. /\ notice = "offer" /\ UNCHANGED <<settleVars, buyers, notices, pub>>
        /\ offer' \in {"NONE", "PENDING", "PAID"} /\ notice' \in {"row", "idle"}
        /\ offer = "PAID" => offer' = "PAID"
        /\ offer # "NONE" => offer' # "NONE"
        /\ notice' = "row" => offer' # "NONE" /\ offer = "NONE"
    BY <1>1, <1>6 DEF NoticeSaveOffer
  <2>2. NoticeInv'
    BY <1>1, <2>1 DEF NoticeInv
  <2> QED
    BY <1>1, <1>3, <2>1, <2>2 DEF StageInv
<1>7. CASE NoticeSaveRow
  <2>1. /\ notice = "row" /\ notice' = "idle"
        /\ auction' = [status |-> "FALLBACK_PUBLIC_NOTIFICATION", winner |-> NoUser, amount |-> 0]
        /\ UNCHANGED <<winners, payments, held, endJobs, fallbackJobs, worker, call,
                       crashes, failed, offer, buyers, notices, pub>>
    BY <1>7 DEF NoticeSaveRow
  <2>2. /\ auction' \in AuctionRow /\ auction'.status = "FALLBACK_PUBLIC_NOTIFICATION"
        /\ auction'.winner = NoUser
    BY <1>1, <2>1 DEF AuctionRow, Statuses
  <2>3. OfferMove
    <3>1. failed' = failed \/ failed' = TRUE
      BY <2>1, Zenon
    <3> QED
      BY <1>1, <1>2, <2>1, <2>2, <3>1 DEF OfferMove, Ended
  <2>4. NoticeInv'
    BY <1>1, <2>1 DEF NoticeInv
  <2> QED
    BY <1>1, <2>1, <2>2, <2>3, <2>4 DEF StageInv
<1>8. CASE NoticeFails
  <2>1. /\ notice # "idle" /\ notice' = "idle" /\ failed' = TRUE
        /\ UNCHANGED <<auction, winners, payments, held, endJobs, fallbackJobs, worker, call,
                       crashes, offer, buyers, notices, pub>>
    BY <1>8 DEF NoticeFails
  <2>2. OfferMove
    BY <1>1, <1>2, <2>1 DEF OfferMove, Ended
  <2>3. NoticeInv'
    BY <1>1, <2>1 DEF NoticeInv
  <2> QED
    BY <1>1, <2>1, <2>2, <2>3
<1> QED
  BY <1>4, <1>5, <1>6, <1>7, <1>8 DEF NoticeStep

\* A failure is not forgotten.
LEMMA FailedStays ==
    ASSUME [SettleNext]_settleVars, ~failed'
    PROVE  ~failed
<1>1. ~(ReleaseFails \/ \E k \in Workers : JobFails(k))
  BY Zenon DEF ReleaseFails, JobFails
<1>2. CASE failed' = failed
  BY <1>2, Zenon
<1>3. CASE \E c \in Calls : CallFails(c)
  BY <1>3, Zenon DEF CallFails
<1> QED
  BY <1>1, <1>2, <1>3 DEF SettleNext, SettleWork, EndStep, FallbackStep, CallStep, EndTake, EndNotify,
     ReleaseDeposit, CheckPending, CreateDeposit, CreateBalance, FallbackTake, FallbackCleanup,
     FallbackPick, PickFrom, FallbackGiveUp, FallbackSaveRow, FallbackSaveWinner, VerifyPayment,
     DeclinePayment, ReadPayment, FailAuction, SaveCompleted, SaveDeclined, SaveFailed, SavePayment, EnqueueFallback,
     SettleCrash, EndThrows

LEMMA CrashMove ==
    ASSUME PublicTypeOK, NoticeInv, PublicCrash
    PROVE  /\ SettleNext /\ UNCHANGED <<offer, buyers>> /\ notice' = "idle"
           /\ notices' \in [sent : 0..MaxNotices, queued : 0..MaxNotices] /\ NoticeInv'
           /\ notice = "idle" => notices' = notices
           /\ pub' \in [PublicCalls -> PublicCall]
           /\ \A c \in PublicCalls : \/ pub'[c] = pub[c]
                                     \/ pub'[c].pc = "done" /\ pub[c].pc # "idle"
<1>1. /\ notices \in [sent : 0..MaxNotices, queued : 0..MaxNotices]
      /\ notices.sent \in 0..MaxNotices /\ notices.queued \in 0..MaxNotices
      /\ notice \in {"idle", "offer", "row"} /\ pub \in [PublicCalls -> PublicCall]
  BY DEF PublicTypeOK
<1>2. /\ SettleNext /\ UNCHANGED <<offer, buyers>> /\ notice' = "idle"
      /\ notices' = [notices EXCEPT !.queued = IF notice = "idle" THEN @ ELSE @ + 1]
      /\ pub' = [c \in PublicCalls |-> IF pub[c].pc = "idle" THEN pub[c] ELSE PublicOver]
  BY DEF PublicCrash, SettleNext, PubAt
<1>3. notices'.sent = notices.sent /\ notices'.queued = notices.queued + (IF notice = "idle" THEN 0 ELSE 1)
  BY <1>1, <1>2
<1>4. NoticeInv'
  BY <1>1, <1>2, <1>3 DEF NoticeInv
<1>5. notices' \in [sent : 0..MaxNotices, queued : 0..MaxNotices]
  <2>1. notices'.queued \in 0..MaxNotices
    BY <1>1, <1>3 DEF NoticeInv
  <2> QED
    BY <1>1, <1>2, <1>3, <2>1
<1>6. notice = "idle" => notices' = notices
  BY <1>1, <1>2
<1>7. /\ pub' \in [PublicCalls -> PublicCall]
      /\ \A c \in PublicCalls : \/ pub'[c] = pub[c]
                                \/ pub'[c].pc = "done" /\ pub[c].pc # "idle"
  BY <1>1, <1>2, PublicBlank
<1> QED
  BY <1>2, <1>4, <1>5, <1>6, <1>7

\* Steps of the settlement, and what a crash does to the offer beside them.
LEMMA SettlementMove ==
    ASSUME PublicInv, [SettleNext]_settleVars, UNCHANGED <<offer, buyers>>,
           notice' = notice \/ notice' = "idle", notice = "idle" => notices' = notices,
           notices' \in [sent : 0..MaxNotices, queued : 0..MaxNotices], NoticeInv',
           pub' \in [PublicCalls -> PublicCall],
           \A c \in PublicCalls : \/ pub'[c] = pub[c]
                                  \/ pub'[c].pc = "done" /\ pub[c].pc # "idle"
    PROVE  PublicInv'
<1>1. AskedInv'
  BY NextAsked DEF PublicInv
<1>2. PublicTypeOK'
  BY <1>1 DEF PublicInv, PublicTypeOK, AskedInv, CoreInv
<1>3. Ended' => Ended
  BY EndedBefore DEF PublicInv, PublicTypeOK
<1>4. ~Ended => auction' = auction \/ auction'.status = "FAILED"
  BY RowRests DEF PublicInv
<1>10. Ended => auction'.status \notin {"SOLD", "FALLBACK_PUBLIC_NOTIFICATION"}
  <2>1. SettleTypeOK
    BY DEF PublicInv, PublicTypeOK
  <2>2. FallbackSaveRow => auction'.status = auction.status
    BY <2>1 DEF FallbackSaveRow, SettleTypeOK, AuctionRow
  <2>3. FallbackGiveUp => auction'.status = "FALLBACK_ENDED"
    BY DEF FallbackGiveUp
  <2> QED
    BY <2>1, <2>2, <2>3, StepAuction, FailedRow DEF Ended
<1>11. NamesInv'
  <2>1. PICK S : S = Answered \cup {NoUser}
    OBVIOUS
  <2>2. Names(S)'
    BY <2>1, NextNames DEF PublicInv, NamesInv
  <2>3. Answered' = Answered
    BY DEF Answered
  <2> QED
    BY <2>1, <2>2, <2>3 DEF Names, NamesInv
<1>5. StillInv'
  BY <1>3 DEF PublicInv, StillInv
<1>6. StageInv'
  <2>1. Answers' => Answers
    BY DEF Answers, Answered, Buying
  <2>2. CASE Ended
    <3>1. notice' = "idle" /\ ~Answers
      BY <2>2 DEF PublicInv, StillInv, StageInv, Open, Ended
    <3> QED
      BY <1>10, <2>1, <2>2, <3>1 DEF StageInv, Offered
  <2>3. CASE ~Ended
    BY <1>4, <2>1, <2>3 DEF PublicInv, StageInv, Open, Offered
  <2> QED
    BY <2>2, <2>3
<1>7. BuyerInv'
  BY DEF PublicInv, BuyerInv, Knows
<1>8. PaidInv'
  <2> SUFFICES ASSUME ~failed', NEW c \in PublicCalls PROVE Paid(pub[c])'
    BY Zenon DEF PaidInv, Paid
  <2>1. ~failed
    BY FailedStays
  <2>2. Paid(pub[c])
    BY <2>1, Zenon DEF PublicInv, PaidInv, Paid
  <2>3. CASE pub'[c].pc = "done"
    BY <2>3 DEF Paid
  <2>4. CASE pub'[c] = pub[c]
    <3>1. pub[c].pc = "row" => pub[c].user \in Users /\ "BALANCE" \in Phases
      BY DEF PublicInv, BuyerInv, Knows, Phases
    <3>2. pub[c].pc = "row" => payments'[pub[c].user]["BALANCE"] # "NONE"
      BY <2>2, <3>1, StepPayments DEF Paid, PublicInv, AskedInv
    <3> QED
      BY <2>2, <2>4, <3>2 DEF Paid
  <2> QED
    BY <2>3, <2>4
<1>9. SoldInv' /\ SoldToPayer'
  <2> SUFFICES ASSUME auction'.status = "SOLD"
               PROVE  /\ auction'.winner \in Users
                      /\ ~failed' => /\ buyers'[auction'.winner].payment = "PAID"
                                     /\ offer' = "PAID" /\ auction'.amount = StartPrice
                                     /\ payments'[auction'.winner]["BALANCE"] # "NONE"
    BY Zenon DEF SoldInv, SoldToPayer
  <2>2. ~Ended
    BY <1>10
  <2>3. auction' = auction /\ auction.winner \in Users /\ "BALANCE" \in Phases
    BY <1>4, <2>2 DEF PublicInv, SoldInv, Phases
  <2>4. ASSUME ~failed'
        PROVE  /\ buyers[auction.winner].payment = "PAID"
               /\ offer = "PAID" /\ auction.amount = StartPrice
               /\ payments[auction.winner]["BALANCE"] # "NONE"
    <3>1. ~failed
      BY <2>4, FailedStays
    <3>2. auction.status = "SOLD"
      BY <2>3
    <3> QED
      BY <3>1, <3>2, Zenon DEF PublicInv, SoldToPayer
  <2>5. payments[auction.winner]["BALANCE"] # "NONE" => payments'[auction.winner]["BALANCE"] # "NONE"
    BY <2>3, StepPayments DEF PublicInv, AskedInv
  <2>6. ASSUME ~failed'
        PROVE  /\ buyers'[auction'.winner].payment = "PAID"
               /\ offer' = "PAID" /\ auction'.amount = StartPrice
               /\ payments'[auction'.winner]["BALANCE"] # "NONE"
    BY <2>3, <2>4, <2>5, <2>6
  <2> QED
    BY <2>3, <2>6, Zenon
<1> QED
  BY <1>1, <1>2, <1>5, <1>6, <1>7, <1>8, <1>9, <1>11 DEF PublicInv

\* A step of the offer leaves what a sold auction promises.
LEMMA SoldKept ==
    ASSUME PublicInv, OfferMove, auction' = auction,
           \A u \in Users : buyers[u].payment = "PAID" => buyers'[u].payment = "PAID",
           offer = "PAID" => offer' = "PAID"
    PROVE  SoldInv' /\ SoldToPayer'
<1> SUFFICES ASSUME auction.status = "SOLD"
             PROVE  /\ auction.winner \in Users
                    /\ ~failed' => /\ buyers'[auction.winner].payment = "PAID"
                                   /\ offer' = "PAID" /\ auction.amount = StartPrice
                                   /\ payments'[auction.winner]["BALANCE"] # "NONE"
  BY Zenon DEF SoldInv, SoldToPayer
<1>1. auction.winner \in Users /\ "BALANCE" \in Phases
  BY DEF PublicInv, SoldInv, Phases
<1>2. ASSUME ~failed'
      PROVE  /\ buyers'[auction.winner].payment = "PAID"
             /\ offer' = "PAID" /\ auction.amount = StartPrice
             /\ payments'[auction.winner]["BALANCE"] # "NONE"
  <2>1. failed' = failed \/ failed' = TRUE
    BY Zenon DEF OfferMove
  <2>2. ~failed
    BY <1>2, <2>1, Zenon
  <2>3. /\ buyers[auction.winner].payment = "PAID"
        /\ offer = "PAID" /\ auction.amount = StartPrice
        /\ payments[auction.winner]["BALANCE"] # "NONE"
    BY <2>2, Zenon DEF PublicInv, SoldToPayer
  <2> QED
    BY <1>1, <2>3 DEF OfferMove
<1> QED
  BY <1>1, <1>2, Zenon

\* What is paid stays paid.
LEMMA PaidKept ==
    ASSUME BuyerInv, OfferMove, PaidInv, ~failed', NEW c \in PublicCalls,
           \A u \in Users : buyers[u].payment = "PAID" => buyers'[u].payment = "PAID",
           offer = "PAID" => offer' = "PAID", pub'[c] = pub[c]
    PROVE  Paid(pub[c])'
<1>1. failed' = failed \/ failed' = TRUE
  BY Zenon DEF OfferMove
<1>2. ~failed
  BY <1>1, Zenon
<1>3. Paid(pub[c])
  BY <1>2, Zenon DEF PaidInv, Paid
<1>4. "BALANCE" \in Phases
  BY DEF Phases
<1> QED
  BY <1>3, <1>4 DEF Paid, BuyerInv, Knows, OfferMove

LEMMA NextNotice ==
    ASSUME PublicInv, NoticeStep
    PROVE  PublicInv'
<1>1. /\ OfferMove /\ UNCHANGED <<buyers, pub>>
      /\ notices' \in [sent : 0..MaxNotices, queued : 0..MaxNotices]
      /\ notice' \in {"idle", "offer", "row"} /\ offer' \in {"NONE", "PENDING", "PAID"}
      /\ offer = "PAID" => offer' = "PAID"
      /\ offer # "NONE" => offer' # "NONE"
      /\ NoticeInv'
      /\ notice' = "row" => offer' # "NONE" /\ (offer = "NONE" \/ notice = "row")
      /\ \/ auction' = auction
         \/ /\ notice = "row" /\ notice' = "idle" /\ auction'.winner = NoUser
            /\ auction'.status = "FALLBACK_PUBLIC_NOTIFICATION"
  BY NoticeMove DEF PublicInv
<1>2. AskedInv'
  BY <1>1, AskedStands DEF PublicInv
<1>3. PublicTypeOK'
  BY <1>1, <1>2 DEF PublicInv, PublicTypeOK, AskedInv, CoreInv
<1>4. StillInv' /\ BuyerInv'
  BY <1>1 DEF PublicInv, OfferMove, StillInv, BuyerInv, Knows
<1>7. StageInv'
  <2>1. Answers' = Answers
    BY <1>1 DEF Answers, Answered
  <2> QED
    BY <1>1, <2>1 DEF PublicInv, StageInv, Offered, Open
<1>8. NamesInv'
  <2>1. Answered' = Answered
    BY <1>1 DEF Answered
  <2> QED
    BY <1>1, <2>1 DEF PublicInv, OfferMove, NamesInv, Names
<1>5. PaidInv'
  <2> SUFFICES ASSUME ~failed', NEW c \in PublicCalls PROVE Paid(pub[c])'
    BY Zenon DEF PaidInv, Paid
  <2> QED
    BY <1>1, PaidKept DEF PublicInv, BuyerInv, Knows
<1>6. SoldInv' /\ SoldToPayer'
  <2>1. CASE auction' = auction
    BY <1>1, <2>1, SoldKept
  <2>2. CASE auction'.status = "FALLBACK_PUBLIC_NOTIFICATION"
    BY <2>2 DEF SoldInv, SoldToPayer
  <2> QED
    BY <1>1, <2>1, <2>2
<1> QED
  BY <1>1, <1>2, <1>3, <1>4, <1>5, <1>6, <1>7, <1>8 DEF PublicInv

LEMMA NextCall ==
    ASSUME PublicInv, NEW c \in PublicCalls, PublicStep(c)
    PROVE  PublicInv'
<1>1. /\ OfferMove /\ Forward /\ UNCHANGED <<notices, notice>>
      /\ buyers' # buyers => Answers
  BY CallMove DEF PublicInv
<1>2. PICK q \in PublicCall : GoesOn(c, q)
  BY CallMove DEF PublicInv
<1>3. /\ pub' = [pub EXCEPT ![c] = q] /\ q.pc # "idle" /\ Knows(q)'
      /\ q.pc \in Buying => Offered
  BY <1>2, Zenon DEF GoesOn
<1>4. pub \in [PublicCalls -> PublicCall]
  BY DEF PublicInv, PublicTypeOK
<1>5. pub' \in [PublicCalls -> PublicCall] /\ pub'[c] = q /\ \A d \in PublicCalls \ {c} : pub'[d] = pub[d]
  BY <1>3, <1>4
<1>6. /\ buyers' \in [Users -> Buyer] /\ offer' \in {offer, "PAID"} /\ (Open => Open')
      /\ \A u \in Users : buyers[u].payment = "PAID" => buyers'[u].payment = "PAID"
      /\ Answered \subseteq Answered'
  BY <1>1 DEF Forward
<1>7. AskedInv'
  BY <1>1, AskedStands DEF PublicInv
<1>8. PublicTypeOK'
  BY <1>1, <1>5, <1>6, <1>7 DEF PublicInv, PublicTypeOK, AskedInv, CoreInv
<1>9. StillInv' /\ NoticeInv'
  BY <1>1 DEF PublicInv, OfferMove, StillInv, NoticeInv
<1>10. BuyerInv'
  <2>1. \A u \in Users : buyers[u] # NoRow => buyers'[u] # NoRow
    BY <1>6 DEF Answered
  <2> QED
    BY <1>3, <1>5, <2>1 DEF PublicInv, BuyerInv, Knows
<1>14. /\ Answers' => Offered
       /\ Offered => Open /\ offer' # "NONE" /\ notice' # "row"
  <2>1. Answers' => Offered
    BY <1>1, <1>3, <1>5 DEF Answers, Answered, Offered
  <2>2. Offered => Open
    BY DEF PublicInv, StageInv, Offered, Open
  <2> QED
    BY <1>1, <1>6, <2>1, <2>2 DEF PublicInv, StageInv
<1>11. PaidInv'
  <2> SUFFICES ASSUME ~failed', NEW d \in PublicCalls PROVE Paid(pub[d])'
    BY Zenon DEF PaidInv, Paid
  <2>1. CASE d = c
    <3>1. Paid(q)'
      BY <1>2, Zenon DEF GoesOn, PublicInv
    <3> QED
      BY <1>5, <2>1, <3>1 DEF Paid
  <2>2. CASE d # c
    BY <1>1, <1>5, <1>6, <2>2, PaidKept DEF PublicInv, BuyerInv, Knows
  <2> QED
    BY <2>1, <2>2
<1>12. CASE auction' = auction
  <2>1. StageInv'
    BY <1>1, <1>6, <1>12, <1>14 DEF PublicInv, StageInv, Offered, Open
  <2>3. NamesInv'
    BY <1>1, <1>6, <1>12 DEF PublicInv, OfferMove, NamesInv, Names, Ended
  <2>2. SoldInv' /\ SoldToPayer'
    BY <1>1, <1>6, <1>12, SoldKept
  <2> QED
    BY <1>7, <1>8, <1>9, <1>10, <1>11, <2>1, <2>2, <2>3 DEF PublicInv
<1>13. CASE VerifySaveRow(c)
  <2>1. /\ pub[c].pc = "row"
        /\ auction' = [status |-> "SOLD", winner |-> pub[c].user, amount |-> StartPrice]
        /\ UNCHANGED <<payments, failed, offer, buyers, notice>>
    BY <1>13 DEF VerifySaveRow, PubAt
  <2>2. pub[c].user \in Answered /\ pub[c].user \in Users
    BY <2>1 DEF PublicInv, BuyerInv, Knows, Answered
  <2>5. Offered
    BY <2>1 DEF Offered, Answers, Buying
  <2>3. StageInv' /\ SoldInv'
    BY <1>14, <2>1, <2>2, <2>5 DEF StageInv, Open, Offered, SoldInv
  <2>6. NamesInv'
    BY <1>1, <1>6, <2>1, <2>2 DEF PublicInv, OfferMove, NamesInv, Names
  <2>4. SoldToPayer'
    <3> SUFFICES ASSUME ~failed'
                 PROVE  /\ buyers'[auction'.winner].payment = "PAID"
                        /\ offer' = "PAID" /\ auction'.amount = StartPrice
                        /\ payments'[auction'.winner]["BALANCE"] # "NONE"
      BY Zenon DEF SoldToPayer
    <3>1. failed' = failed
      BY <2>1, Zenon
    <3>2. ~failed
      BY <3>1, Zenon
    <3>3. Paid(pub[c])
      BY <3>2, Zenon DEF PublicInv, PaidInv, Paid
    <3> QED
      BY <2>1, <3>3 DEF Paid
  <2> QED
    BY <1>7, <1>8, <1>9, <1>10, <1>11, <2>3, <2>4, <2>6 DEF PublicInv
<1> QED
  BY <1>12, <1>13 DEF PublicStep, CreateOrder, RejectOffer, VerifyOffer, SaveNewBuyer, VerifyReadBuyer,
     VerifyReadRow, VerifySaveBuyer, VerifySaveOffer, VerifyCreateBalance, SkipSave, PublicFails

LEMMA NextPublic == PublicInv /\ [PublicNext]_publicVars => PublicInv'
<1> SUFFICES ASSUME PublicInv, [PublicNext]_publicVars PROVE PublicInv'
  OBVIOUS
<1>1. CASE [SettleNext]_settleVars /\ UNCHANGED offerVars
  <2>1. /\ notices' \in [sent : 0..MaxNotices, queued : 0..MaxNotices]
        /\ NoticeInv' /\ pub' \in [PublicCalls -> PublicCall]
    BY <1>1 DEF PublicInv, PublicTypeOK, NoticeInv
  <2> QED
    BY <1>1, <2>1, SettlementMove
<1>2. CASE PublicCrash
  BY <1>2, CrashMove, SettlementMove DEF PublicInv
<1> QED
  BY <1>1, <1>2, NextNotice, NextCall, PublicCases

LEMMA InitPublic == PublicInit => PublicInv
<1> SUFFICES ASSUME PublicInit PROVE PublicInv
  OBVIOUS
<1>1. AskedInv /\ PublicTypeOK
  BY InitAsked, InitPublicType DEF PublicInit
<1>2. /\ auction.status = "ENDED"
      /\ \A c \in PublicCalls : pub[c].pc = "idle"
      /\ offer = "NONE" /\ notice = "idle" /\ notices.queued = 0 /\ notices.sent = 0
      /\ \A u \in Users : buyers[u] = NoRow
  BY PublicBlank DEF PublicInit, SettleInit
<1>3. StillInv /\ StageInv /\ BuyerInv
  BY <1>2 DEF StillInv, StageInv, Open, Offered, Answers, Answered, BuyerInv, Knows, Buying
<1>7. NamesInv
  BY <1>2 DEF NamesInv, Names, Ended, PublicInit, SettleInit, Fresh
<1>4. NoticeInv
  BY <1>2 DEF NoticeInv
<1>5. PaidInv
  <2> SUFFICES ASSUME NEW c \in PublicCalls PROVE Paid(pub[c])
    BY Zenon DEF PaidInv, Paid
  <2> QED
    BY <1>2 DEF Paid
<1>6. SoldInv /\ SoldToPayer
  BY <1>2 DEF SoldInv, SoldToPayer
<1> QED
  BY <1>1, <1>3, <1>4, <1>5, <1>6, <1>7 DEF PublicInv

LEMMA PublicInvariant == PublicSpec => []PublicInv
  BY InitPublic, NextPublic, PTL DEF PublicSpec

\* Rows, offer, notices and calls keep their types for any buyers, calls,
\* notices and crashes.
THEOREM PublicTypeCorrect == PublicSpec => []PublicTypeOK
<1>1. PublicInv => PublicTypeOK
  BY DEF PublicInv
<1> QED
  BY <1>1, PublicInvariant, PTL

\* As long as every save worked, an auction sold by the public offer went
\* for the price of the offer to a buyer who paid and owes the balance,
\* however many buyers' calls overlap and wherever the server dies.
THEOREM SoldToThePayer == PublicSpec => []SoldToPayer
<1>1. PublicInv => SoldToPayer
  BY DEF PublicInv
<1> QED
  BY <1>1, PublicInvariant, PTL

\* From the first answer on, the row is only ever sold or failed, and names
\* nobody but who answered: no fallback job, notice or failAuction that is
\* still on the way opens the auction again or hands it to a bidder who
\* declined, whatever fails and wherever the server dies.
THEOREM OfferedOnce == PublicSpec => NotOfferedAgain
<1> DEFINE Rests == \/ auction' = auction
                    \/ /\ auction'.status \in {"SOLD", "FAILED"}
                       /\ auction'.winner \in Answered \cup {NoUser}
<1>1. ASSUME PublicInv, [PublicNext]_publicVars
      PROVE  [Answered # {} => Rests]_publicVars
  <2> SUFFICES ASSUME Answered # {} PROVE Rests
    OBVIOUS
  <2>1. ~Ended /\ ~Ended' /\ notice # "row"
    <3>1. Open /\ notice # "row"
      BY <1>1 DEF PublicInv, StageInv, Answers, Offered
    <3>2. SettleTypeOK
      BY <1>1 DEF PublicInv, PublicTypeOK
    <3>3. [SettleNext]_settleVars => ~Ended'
      BY <3>1, <3>2, EndedBefore DEF Open, Ended
    <3>4. (NoticeStep \/ \E c \in PublicCalls : PublicStep(c)) => ~Ended'
      BY <1>1, NoticeMove, CallMove DEF PublicInv, OfferMove
    <3>5. PublicCrash => SettleNext
      BY DEF PublicCrash, SettleNext
    <3> QED
      BY <1>1, <3>1, <3>3, <3>4, <3>5, PublicCases DEF Open, Ended
  <2>2. CASE [SettleNext]_settleVars /\ UNCHANGED buyers
    <3>1. auction' = auction \/ auction'.status = "FAILED"
      BY <1>1, <2>1, <2>2, RowRests DEF PublicInv
    <3>2. PICK S : S = Answered \cup {NoUser}
      OBVIOUS
    <3>3. Names(S)'
      BY <1>1, <2>2, <3>2, NextNames DEF PublicInv, NamesInv
    <3> QED
      BY <2>1, <3>1, <3>2, <3>3 DEF Names
  <2>3. CASE NoticeStep
    BY <1>1, <2>1, <2>3, NoticeMove DEF PublicInv
  <2>4. ASSUME NEW c \in PublicCalls, PublicStep(c) PROVE Rests
    <3>1. CASE VerifySaveRow(c)
      <4>1. pub[c].pc = "row" /\ auction'.status = "SOLD" /\ auction'.winner = pub[c].user
        BY <3>1 DEF VerifySaveRow, PubAt
      <4>2. pub[c].user \in Answered
        BY <1>1, <4>1 DEF PublicInv, BuyerInv, Knows, Answered
      <4> QED
        BY <4>1, <4>2
    <3>2. CASE auction' = auction
      BY <3>2
    <3> QED
      BY <2>4, <3>1, <3>2 DEF PublicStep, CreateOrder, RejectOffer, VerifyOffer, SaveNewBuyer,
         VerifyReadBuyer, VerifyReadRow, VerifySaveBuyer, VerifySaveOffer, VerifyCreateBalance,
         SkipSave, PublicFails
  <2>5. PublicCrash => SettleNext /\ UNCHANGED buyers
    BY DEF PublicCrash, SettleNext
  <2> QED
    BY <1>1, <2>2, <2>3, <2>4, <2>5, PublicCases
<1> QED
  BY <1>1, PublicInvariant, PTL DEF PublicSpec, NotOfferedAgain

\* With the public offer beside it the settlement still does its work: at
\* rest the winner of an ENDED auction was asked for both payments, and
\* everybody but the winner of the ending has the deposit back.
THEOREM PublicStillSettled == PublicSpec => [](Settled /\ DepositsReturned)
<1>1. PublicInv => Settled
  BY AskedSettles DEF PublicInv
<1>2. PublicInv => DepositsReturned
  BY DepositSettles DEF PublicInv, AskedInv
<1> QED
  BY <1>1, <1>2, PublicInvariant, PTL
=============================================================================
