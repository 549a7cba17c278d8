------------------------------- MODULE Wallet -------------------------------
(***************************************************************************)
(* Wallet rows under concurrent use: opening, crediting, debiting, the     *)
(* hold taken by addAuctionParticipant and its release by the end worker.  *)
(* Each operation reads the whole row, stores a transaction and writes the *)
(* whole row back; nothing locks it.  The deposit is a system setting that *)
(* an administrator may edit and that is read through a Redis cache.       *)
(*                                                                         *)
(* Amounts are counted in fractions of a rupee, Unit of them to the rupee: *)
(* the balance columns are integers and refuse anything else.              *)
(*                                                                         *)
(* dirty and edited are history variables that no step reads: the users    *)
(* whose row was worked on by two calls at once or lost a statement, and   *)
(* whether the deposit was edited.                                         *)
(***************************************************************************)
EXTENDS Integers, FiniteSets

CONSTANTS
    Users,
    NoUser,         \* the null user id
    Winner,         \* winnerId of the ended auction, or NoUser
    Calls,          \* HTTP and socket calls that may be made
    Job,            \* the end job, which releases the deposits
    Amounts,        \* amounts a user or a refund may ask for
    Deposits,       \* startPrice * AUCTION_PARTICIPANT_INITIAL_DEPOSIT_RATIO
    Unit,
    MaxJobs         \* bound: how often the end job is delivered

ASSUME WalletAssumption ==
    /\ NoUser \notin Users
    /\ Winner \in Users \cup {NoUser}
    /\ Job \notin Calls
    /\ Amounts \subseteq Nat \ {0}
    /\ Deposits \subseteq Nat \ {0}
    /\ Unit \in Nat \ {0}
    /\ MaxJobs \in Nat

VARIABLES
    opened,         \* users that have a wallet row
    wallet,         \* the balances in the row
    ledger,         \* per user: stored DEPOSIT minus WITHDRAWAL transactions
    participants,   \* users with a participant row of the auction
    setting,        \* the configured deposit
    cache,          \* the cached deposit, 0 when there is none
    editing,        \* an edit is stored and the cache not yet invalidated
    call,           \* the calls and the job: where each stands, what it read
    todo,           \* participants the job still has to release
    jobs,           \* deliveries of the job so far
    dirty, edited

settingVars == <<setting, cache, editing, edited>>
walletVars == <<opened, wallet, ledger, participants, settingVars, call, todo, jobs, dirty>>

Actors == Calls \cup {Job}
Balance == [main : Int, held : Int]
Ops == {"none", "open", "credit", "debit", "join", "release"}
Call == [pc : {"idle", "open", "read", "setting", "fill", "hold", "record", "save",
               "enrol", "done"},
         op : Ops, user : Users \cup {NoUser}, amount : Nat, copy : Balance]

Empty == [main |-> 0, held |-> 0]
Rest(pc) == [pc |-> pc, op |-> "none", user |-> NoUser, amount |-> 0, copy |-> Empty]

WalletTypeOK ==
    /\ opened \subseteq Users
    /\ wallet \in [Users -> Balance]
    /\ ledger \in [Users -> Int]
    /\ participants \subseteq Users
    /\ setting \in Deposits /\ cache \in Deposits \cup {0} /\ editing \in BOOLEAN
    /\ call \in [Actors -> Call]
    /\ todo \subseteq Users /\ jobs \in 0..MaxJobs
    /\ dirty \subseteq Users /\ edited \in BOOLEAN

WalletInit ==
    /\ opened = {}
    /\ wallet = [u \in Users |-> Empty]
    /\ ledger = [u \in Users |-> 0]
    /\ participants = {}
    /\ setting \in Deposits /\ cache = 0 /\ editing = FALSE
    /\ call = [c \in Actors |-> Rest("idle")]
    /\ todo = {} /\ jobs = 0
    /\ dirty = {} /\ edited = FALSE

-----------------------------------------------------------------------------
\* Prisma's Int columns refuse a fraction.
Whole(amount) == amount % Unit = 0

\* Wallet.create, run on every row that is read or returned by a save,
\* refuses negative balances: such a row can no longer be loaded.
Valid(balance) == balance.main >= 0 /\ balance.held >= 0

\* findByUserId finds a row and can turn it into an entity.
Readable(u) == u \in opened /\ Valid(wallet[u])

\* Calls that have read the row of u and not yet written it.
Working(u) == { c \in Actors : call[c].user = u /\ call[c].pc \notin {"idle", "open", "enrol", "done"} }

\* Faulty variant: a debit that trusts the check made by the form.
Affordable_Unchecked(c, balance) ==
    call[c].op = "join" => balance.main >= call[c].amount

\* debitWallet and holdFromMainBalance need the money in the main balance.
Affordable(c, balance) ==
    call[c].op \in {"debit", "join"} => balance.main >= call[c].amount

\* Faulty variant: a hold that leaves the main balance as it was.
Changed_HoldOnly(c) ==
    LET b == call[c].copy  a == call[c].amount
    IN  CASE call[c].op = "credit"  -> [b EXCEPT !.main = @ + a]
          [] call[c].op = "debit"   -> [b EXCEPT !.main = @ - a]
          [] call[c].op = "join"    -> [b EXCEPT !.held = @ + a]
          [] call[c].op = "release" -> [main |-> b.main + a, held |-> b.held - a]
          [] OTHER                  -> b

\* The entity after addToMainBalance, debitFromMainBalance,
\* holdFromMainBalance or releaseHeldBalance.
Changed(c) ==
    LET b == call[c].copy  a == call[c].amount
    IN  CASE call[c].op = "credit"  -> [b EXCEPT !.main = @ + a]
          [] call[c].op = "debit"   -> [b EXCEPT !.main = @ - a]
          [] call[c].op = "join"    -> [main |-> b.main - a, held |-> b.held + a]
          [] call[c].op = "release" -> [main |-> b.main + a, held |-> b.held - a]
          [] OTHER                  -> b

Goto(c, pc) == call' = [call EXCEPT ![c].pc = pc]
Finish(c) == call' = [call EXCEPT ![c] = Rest("done")]
SameRows == UNCHANGED <<opened, wallet, ledger, participants>>
SameJob == UNCHANGED <<todo, jobs>>

-----------------------------------------------------------------------------
(***************************************************************************)
(* Calls                                                                   *)
(***************************************************************************)
\* GetOrCreateWalletUsecase: no row was found.
OpenWallet(c, u) ==
    /\ call[c].pc = "idle"
    /\ u \notin opened
    /\ call' = [call EXCEPT ![c] = [Rest("open") EXCEPT !.op = "open", !.user = u]]
    /\ SameRows /\ SameJob /\ UNCHANGED <<settingVars, dirty>>

\* The upsert has a fresh id, so a second row of the user is refused.
CreateWallet(c) ==
    /\ call[c].pc = "open"
    /\ opened' = opened \cup {call[c].user}
    /\ Finish(c)
    /\ SameJob /\ UNCHANGED <<wallet, ledger, participants, settingVars, dirty>>

\* A call reads the row of u; from here to its save it works on the copy.
ReadWallet(c, op, u, a, pc) ==
    /\ call[c].pc = "idle"
    /\ call' = [call EXCEPT ![c] =
                  IF Readable(u)
                  THEN [pc |-> pc, op |-> op, user |-> u, amount |-> a, copy |-> wallet[u]]
                  ELSE Rest("done")]
    /\ dirty' = IF Working(u) = {} THEN dirty ELSE dirty \cup {u}
    /\ SameRows /\ SameJob /\ UNCHANGED settingVars

\* CreditWalletUsecase, and WalletService.creditWallet for a refund.
CreditWallet(c, u, a) == ReadWallet(c, "credit", u, a, "record")

DebitWallet(c, u, a) == ReadWallet(c, "debit", u, a, "hold")

\* ConfirmWalletTopupUsecase: a paid order of the user; the amount is the one
\* in the notes of the order, and nothing marks the order as used.
ConfirmTopup(c, u, a) == CreditWallet(c, u, a)

\* AddAuctionParticipantUsecase; the amount is not known yet.
AddParticipant(c, u) == ReadWallet(c, "join", u, 0, "setting")

\* getCachedNumValue: the cached value, or the stored one, which is cached.
ReadSetting(c) ==
    /\ call[c].pc = "setting"
    /\ call' = [call EXCEPT ![c].amount = IF cache # 0 THEN cache ELSE setting,
                            ![c].pc = IF cache = 0 THEN "fill"
                                      ELSE IF c = Job THEN "read" ELSE "hold"]
    /\ SameRows /\ SameJob /\ UNCHANGED <<settingVars, dirty>>

FillCache(c) ==
    /\ call[c].pc = "fill"
    /\ cache' = call[c].amount
    /\ Goto(c, IF c = Job THEN "read" ELSE "hold")
    /\ SameRows /\ SameJob /\ UNCHANGED <<setting, editing, edited, dirty>>

\* The balance of the copy is compared with the amount.
CheckBalance(c) ==
    /\ call[c].pc = "hold"
    /\ IF Affordable(c, call[c].copy) THEN Goto(c, "record") ELSE Finish(c)
    /\ SameRows /\ SameJob /\ UNCHANGED <<settingVars, dirty>>

\* The transactions once that of c is among them: holds and releases are
\* neither DEPOSIT nor WITHDRAWAL.
Recorded(c) ==
    CASE call[c].op = "credit" -> [ledger EXCEPT ![call[c].user] = @ + call[c].amount]
      [] call[c].op = "debit"  -> [ledger EXCEPT ![call[c].user] = @ - call[c].amount]
      [] OTHER -> ledger

\* walletTransactionsRepository.create; whether it worked is not looked at.
RecordTransaction(c) ==
    /\ call[c].pc = "record"
    /\ ledger' = IF Whole(call[c].amount) THEN Recorded(c) ELSE ledger
    /\ Goto(c, "save")
    /\ SameJob /\ UNCHANGED <<opened, wallet, participants, settingVars, dirty>>

\* walletRepository.save writes both balances from the copy.
SaveWallet(c) ==
    /\ c # Job
    /\ call[c].pc = "save"
    /\ wallet' = IF Whole(call[c].amount)
                 THEN [wallet EXCEPT ![call[c].user] = Changed(c)] ELSE wallet
    /\ IF Whole(call[c].amount) /\ call[c].op = "join" /\ Valid(Changed(c))
       THEN Goto(c, "enrol") ELSE Finish(c)
    /\ SameJob /\ UNCHANGED <<opened, ledger, participants, settingVars, dirty>>

\* The participant row; a second one of the user is refused and the refusal
\* is not looked at.
SaveParticipant(c) ==
    /\ call[c].pc = "enrol"
    /\ participants' = participants \cup {call[c].user}
    /\ Finish(c)
    /\ SameJob /\ UNCHANGED <<opened, wallet, ledger, settingVars, dirty>>

-----------------------------------------------------------------------------
(***************************************************************************)
(* ReleaseParticipantsWalletUsecase, run by the end worker                 *)
(***************************************************************************)
TakeJob ==
    /\ call[Job].pc = "idle"
    /\ jobs < MaxJobs
    /\ jobs' = jobs + 1
    /\ todo' = participants \ {Winner}
    /\ call' = [call EXCEPT ![Job] = [Rest("setting") EXCEPT !.op = "release"]]
    /\ SameRows /\ UNCHANGED <<settingVars, dirty>>

\* A wallet that is missing or cannot be loaded is passed over.
ReadReleased(u) ==
    /\ call[Job].pc = "read"
    /\ u \in todo
    /\ todo' = todo \ {u}
    /\ call' = [call EXCEPT ![Job] =
                  IF Readable(u)
                  THEN [@ EXCEPT !.pc = "save", !.user = u, !.copy = wallet[u]] ELSE @]
    /\ dirty' = IF Working(u) = {} THEN dirty ELSE dirty \cup {u}
    /\ SameRows /\ UNCHANGED <<jobs, settingVars>>

NextParticipant == [call[Job] EXCEPT !.pc = "read", !.user = NoUser, !.copy = Empty]

\* Faulty variant: the participant stays on the list.
SaveReleased_Again ==
    /\ call[Job].pc = "save"
    /\ wallet' = IF Whole(call[Job].amount)
                 THEN [wallet EXCEPT ![call[Job].user] = Changed(Job)] ELSE wallet
    /\ call' = [call EXCEPT ![Job] = IF Whole(call[Job].amount) THEN NextParticipant ELSE Rest("done")]
    /\ todo' = todo \cup {call[Job].user}
    /\ UNCHANGED <<opened, ledger, participants, jobs, settingVars, dirty>>

\* The save of a fraction fails, one that leaves a negative balance is stored
\* and reported as a failure: either ends the release.
SaveReleased ==
    /\ call[Job].pc = "save"
    /\ wallet' = IF Whole(call[Job].amount)
                 THEN [wallet EXCEPT ![call[Job].user] = Changed(Job)] ELSE wallet
    /\ call' = [call EXCEPT ![Job] =
                  IF Whole(call[Job].amount) /\ Valid(Changed(Job)) THEN NextParticipant ELSE Rest("done")]
    /\ SameJob /\ UNCHANGED <<opened, ledger, participants, settingVars, dirty>>

ReleaseDone ==
    /\ call[Job].pc = "read"
    /\ todo = {}
    /\ call' = [call EXCEPT ![Job] = Rest("done")]
    /\ SameRows /\ SameJob /\ UNCHANGED <<settingVars, dirty>>

-----------------------------------------------------------------------------
(***************************************************************************)
(* The setting, failures                                                   *)
(***************************************************************************)
\* EditSystemConfigUsecase: the row is saved, then the cache key removed.
EditSetting(d) ==
    /\ ~editing /\ d # setting
    /\ setting' = d /\ editing' = TRUE /\ edited' = TRUE
    /\ SameRows /\ SameJob /\ UNCHANGED <<cache, call, dirty>>

RevalidateCache ==
    /\ editing
    /\ cache' = 0 /\ editing' = FALSE
    /\ SameRows /\ SameJob /\ UNCHANGED <<setting, edited, call, dirty>>

\* SYSTEM_CONFIG_NUMERIC_TTL_SECONDS have passed.
CacheExpires ==
    /\ cache # 0
    /\ cache' = 0
    /\ SameRows /\ SameJob /\ UNCHANGED <<setting, editing, edited, call, dirty>>

\* A statement of c fails.  The transaction row is written by create, whose
\* failure is not looked at; anything else ends the call.
StatementFails(c) ==
    /\ call[c].pc \notin {"idle", "done", "hold"}
    /\ IF call[c].pc = "record" THEN Goto(c, "save") ELSE Finish(c)
    /\ dirty' = dirty \cup ({call[c].user} \cap Users)
    /\ SameRows /\ SameJob /\ UNCHANGED settingVars

\* A query of the job throws, or the server stops: calls in flight are gone
\* and BullMQ delivers the job again.
ServerStops ==
    /\ \E c \in Actors : call[c].pc \notin {"idle", "done"}
    /\ call' = [c \in Actors |->
                  IF call[c].pc = "idle" THEN call[c]
                  ELSE Rest(IF c = Job /\ call[c].pc # "done" THEN "idle" ELSE "done")]
    /\ todo' = {}
    /\ dirty' = dirty \cup { u \in Users : Working(u) # {} }
    /\ editing' = FALSE
    /\ SameRows /\ UNCHANGED <<jobs, setting, cache, edited>>

WalletStep(c) ==
    \/ \E u \in Users :
          \/ OpenWallet(c, u) \/ AddParticipant(c, u)
          \/ \E a \in Amounts :
                CreditWallet(c, u, a) \/ DebitWallet(c, u, a) \/ ConfirmTopup(c, u, a)
    \/ CreateWallet(c) \/ SaveWallet(c) \/ SaveParticipant(c)

JobStep ==
    TakeJob \/ (\E u \in Users : ReadReleased(u)) \/ SaveReleased \/ ReleaseDone

WalletNext ==
    \/ \E c \in Calls : WalletStep(c)
    \/ \E c \in Actors :
          ReadSetting(c) \/ FillCache(c) \/ CheckBalance(c) \/ RecordTransaction(c)
          \/ StatementFails(c)
    \/ JobStep
    \/ \E d \in Deposits : EditSetting(d)
    \/ RevalidateCache \/ CacheExpires \/ ServerStops

WalletSpec == WalletInit /\ [][WalletNext]_walletVars

-----------------------------------------------------------------------------
(***************************************************************************)
(* Properties                                                              *)
(***************************************************************************)
\* Whichever stale copy of a row is saved last, by whichever operation, the
\* main balance never goes below zero: every operation checks its own copy.
MainCovered == \A u \in Users : wallet[u].main >= 0

\* As long as nobody else worked on the row at the same time and no statement
\* was lost, what the wallet holds is what the stored deposits and
\* withdrawals add up to, holds and releases included.
BooksBalance ==
    \A u \in Users \ dirty :
        (\A c \in Actors : call[c].user = u => call[c].pc # "save")
            => wallet[u].main + wallet[u].held = ledger[u]

\* With the deposit unchanged, the job delivered once and one call at a time
\* on the row, the release never takes more out of the held balance than was
\* put in, so the wallet can always be loaded again, however often the user
\* joined and whenever the job read the list of participants.
NeverLockedOut ==
    ~edited /\ jobs <= 1 => \A u \in opened \ dirty : Readable(u)
=============================================================================
