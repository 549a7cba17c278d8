---------------------------- MODULE Subscription ----------------------------
(***************************************************************************)
(* The subscriptions of one user: the default plan given at login,         *)
(* checkout at the payment gateway, and the gateway's webhook, which       *)
(* activates, refunds, replaces and expires them.  Each call reads rows,   *)
(* works on the copies and writes whole rows back; nothing locks them and  *)
(* no event id is remembered, so the gateway's repeats and reorderings are *)
(* all handled as new.  The default plan may be withdrawn meanwhile.       *)
(*                                                                         *)
(* mixed and faulty are history variables: two calls were in flight at     *)
(* once, and how many calls failed half-way.                               *)
(***************************************************************************)
EXTENDS Integers, FiniteSets

CONSTANTS
    MaxSubs,        \* bound: subscription rows
    PaidPlans,      \* plans on sale, all active and known to the gateway
    DefaultPlan,    \* the default plan, which is free
    NoPlan,         \* what a missing default plan reads as
    Price,          \* the price of a paid plan
    Duration,       \* durationDays of every plan
    RefundMax,      \* USER_SUBSCRIPTION_PLAN_UPGRADATION_REFUND_MAX_TIME
    Hooks,          \* webhook deliveries that may be handled at a time
    MaxRequests,    \* bound: checkouts and logins of the user
    Horizon,        \* bound of the clock
    MaxEvents,      \* bound: events, lost answers and failed calls together
    MaxFaults,      \* bound: calls that fail half-way
    MaxSwitches     \* bound: how often the default plan changes status

ASSUME SubscriptionAssumption ==
    /\ DefaultPlan \notin PaidPlans
    /\ NoPlan \notin PaidPlans \cup {DefaultPlan}
    /\ Price \in Nat \ {0}
    /\ Duration \in Nat \ {0}
    /\ MaxSubs \in Nat \ {0}
    /\ {MaxRequests, RefundMax, Horizon, MaxEvents, MaxFaults, MaxSwitches} \subseteq Nat
    /\ Hooks \cap Nat = {}

Plans == PaidPlans \cup {DefaultPlan}
Subs == 1..MaxSubs
NoSub == 0
Requests == 1..MaxRequests

VARIABLES
    wallet,                 \* whether the user has a wallet row
    row,                    \* the subscription rows
    defaultActive, switches,    \* whether there is a default plan
    sent,                   \* events the gateway has not had acknowledged
    events,                 \* how many it has sent or had to send again
    call,                   \* webhook and checkout calls: where each stands
    now,
    refunded,               \* history: what was credited for each row
    paid,                   \* history: rows the gateway reported a payment for
    mixed, faulty           \* history, see above

subscriptionVars ==
    <<wallet, row, defaultActive, switches, sent, events, call, now, refunded, paid, mixed, faulty>>

\* Two dates no clock reaches: the one given at registration and
\* USER_SUBSCRIPTION_INFINITE_END.
RegisteredEnd == Horizon + Duration + 1
InfiniteEnd == RegisteredEnd + 1

Statuses == {"none", "PENDING", "ACTIVE", "EXPIRED"}
Kinds == {"ACTIVE", "PENDING", "EXPIRED"}
Row == [status : Statuses, plan : Plans \cup {NoPlan}, start : 0..Horizon, end : 0..InfiniteEnd]
Call == [pc : {"idle", "active", "refund", "old", "default", "own", "pending", "assign", "done"},
         sub : Subs \cup {NoSub}, kind : Kinds, own : Row, oldSub : Subs \cup {NoSub}, old : Row,
         at : 0..Horizon, plan : Plans \cup {NoPlan}]

NoRow == [status |-> "none", plan |-> NoPlan, start |-> 0, end |-> 0]
Rest(pc) == [pc |-> pc, sub |-> NoSub, kind |-> "PENDING", own |-> NoRow, oldSub |-> NoSub,
             old |-> NoRow, at |-> 0, plan |-> NoPlan]

SubscriptionTypeOK ==
    /\ wallet \in BOOLEAN
    /\ row \in [Subs -> Row]
    /\ defaultActive \in BOOLEAN /\ switches \in 0..MaxSwitches
    /\ sent \subseteq Subs \X Kinds /\ events \in 0..MaxEvents
    /\ call \in [Hooks \cup Requests -> Call]
    /\ now \in 0..Horizon
    /\ refunded \in [Subs -> Nat] /\ paid \subseteq Subs
    /\ mixed \in BOOLEAN /\ faulty \in 0..MaxFaults

\* The user registered while there was a default plan.
SubscriptionInit ==
    /\ wallet \in BOOLEAN
    /\ row = [s \in Subs |->
                IF s = 1 THEN [status |-> "ACTIVE", plan |-> DefaultPlan, start |-> 0, end |-> RegisteredEnd]
                ELSE NoRow]
    /\ defaultActive = TRUE /\ switches = 0
    /\ sent = {} /\ events = 0
    /\ call = [c \in Hooks \cup Requests |-> Rest("idle")]
    /\ now = 0
    /\ refunded = [s \in Subs |-> 0] /\ paid = {}
    /\ mixed = FALSE /\ faulty = 0

-----------------------------------------------------------------------------
(***************************************************************************)
(* Queries                                                                 *)
(***************************************************************************)
\* findCurrentActiveByUserId: the ACTIVE row with the latest end to come.
Current ==
    LET live == { s \in Subs : row[s].status = "ACTIVE" /\ row[s].end > now }
    IN  IF live = {} THEN {NoSub}
        ELSE { s \in live : \A t \in live : row[t].end <= row[s].end }

\* findActiveDefault
ActiveDefault == IF defaultActive THEN DefaultPlan ELSE NoPlan

PriceOf(p) == IF p \in PaidPlans THEN Price ELSE 0

\* A new id.
Fresh(s) ==
    LET unused == { t \in Subs : row[t].status = "none" }
    IN  s \in unused /\ \A t \in unused : s <= t

\* Faulty variant: the quotient upside down.
RemainingRefund_Inverted(r, price, at) ==
    LET total == r.end - r.start
        remaining == r.end - at
    IN  IF price <= 0 \/ r.end <= at \/ remaining <= RefundMax \/ total <= 0 THEN 0
        ELSE (price * total) \div remaining

\* calculateRemainingPlanRefund: the price of the rest of the period.
RemainingRefund(r, price, at) ==
    LET total == r.end - r.start
        remaining == r.end - at
    IN  IF price <= 0 \/ r.end <= at \/ remaining <= RefundMax \/ total <= 0 THEN 0
        ELSE (price * remaining) \div total

\* Faulty variant: no look at the status.
Accepted_Any(kind, status) == TRUE

\* mapEventToDomainStatus and STATUSES_ALLOWED_TO_ACTIVE
Accepted(kind, status) == kind = "ACTIVE" => status \in {"PENDING", "ACTIVE"}

Room == events + faulty < MaxEvents
Busy(c) == call[c].pc \notin {"idle", "done"}
Overlaps(c) == \E d \in (Hooks \cup Requests) \ {c} : Busy(d)
Goto(c, pc) == call' = [call EXCEPT ![c].pc = pc]

SamePlans == UNCHANGED <<defaultActive, switches>>
SameUser == UNCHANGED <<wallet, now, paid>>

-----------------------------------------------------------------------------
(***************************************************************************)
(* The user: login and checkout                                            *)
(***************************************************************************)
\* A request of the user, the requests being numbered in the order they come.
Begins(c) ==
    /\ call[c].pc = "idle"
    /\ \A d \in 1..(c - 1) : call[d].pc # "idle"
    /\ mixed' = (mixed \/ Overlaps(c))

\* assignDefaultSubscriptionToUser, at every login: nothing is in force and
\* there is a default plan.
StartAssign(c) ==
    /\ Begins(c)
    /\ Current = {NoSub} /\ ActiveDefault # NoPlan
    /\ call' = [call EXCEPT ![c] = [Rest("assign") EXCEPT !.plan = ActiveDefault]]
    /\ SamePlans /\ SameUser /\ UNCHANGED <<row, sent, events, refunded, faulty>>

AssignDefault(c, s) ==
    /\ call[c].pc = "assign" /\ Fresh(s)
    /\ row' = [row EXCEPT ![s] = [status |-> "ACTIVE", plan |-> call[c].plan, start |-> now,
                                  end |-> RegisteredEnd]]
    /\ call' = [call EXCEPT ![c] = Rest("done")]
    /\ SamePlans /\ SameUser /\ UNCHANGED <<sent, events, refunded, mixed, faulty>>

\* CheckoutUserSubscriptionUsecase: the rows of the user decide whether the
\* plan is taken already, or was started and is still to be paid; only plans
\* known to the gateway are on sale.
StartCheckout(c, p) ==
    /\ Begins(c)
    /\ ~ \E s \in Subs : row[s].plan = p /\ \/ row[s].status = "PENDING"
                                            \/ row[s].status = "ACTIVE" /\ row[s].end > now
    /\ call' = [call EXCEPT ![c] = [Rest("pending") EXCEPT !.plan = p, !.at = now]]
    /\ SamePlans /\ SameUser /\ UNCHANGED <<row, sent, events, refunded, faulty>>

\* Customer and subscription are made at the gateway; once the row is stored
\* the answer lets the user pay.
SavePending(c, s) ==
    /\ call[c].pc = "pending" /\ Fresh(s)
    /\ row' = [row EXCEPT ![s] =
                 [status |-> "PENDING", plan |-> call[c].plan, start |-> call[c].at,
                  end |-> call[c].at + Duration]]
    /\ call' = [call EXCEPT ![c] = Rest("done")]
    /\ SamePlans /\ SameUser /\ UNCHANGED <<sent, events, refunded, mixed, faulty>>

\* External: the gateway reports a payment, a problem with one, or the end of
\* a subscription whose checkout was answered.
GatewaySends(s, kind) ==
    /\ Room
    /\ row[s].plan \in PaidPlans
    /\ <<s, kind>> \notin sent
    /\ sent' = sent \cup {<<s, kind>>} /\ events' = events + 1
    /\ paid' = IF kind = "ACTIVE" THEN paid \cup {s} ELSE paid
    /\ SamePlans /\ UNCHANGED <<wallet, now, row, call, refunded, mixed, faulty>>

-----------------------------------------------------------------------------
(***************************************************************************)
(* RazorpaySubscriptionWebhookHandlerUsecase                               *)
(***************************************************************************)
\* An answer of success reaches the gateway or is lost, in which case the
\* event comes again; an answer of failure brings it again in any case.
Answer(c) ==
    /\ call' = [call EXCEPT ![c] = Rest("idle")]
    /\ \/ sent' = sent \ {<<call[c].sub, call[c].kind>>} /\ events' = events
       \/ Room /\ sent' = sent /\ events' = events + 1

\* An event arrives: the row is read and whether the event applies decided.
\* An ACTIVE event for an expired row is acknowledged and does nothing.
Deliver(c, s, kind) ==
    /\ call[c].pc = "idle"
    /\ <<s, kind>> \in sent
    /\ mixed' = (mixed \/ Overlaps(c))
    /\ IF Accepted(kind, row[s].status)
       THEN /\ call' = [call EXCEPT ![c] =
                          [Rest(CASE kind = "ACTIVE" -> "active" [] kind = "EXPIRED" -> "default"
                                  [] OTHER -> "own")
                             EXCEPT !.sub = s, !.kind = kind, !.own = row[s], !.at = now]]
            /\ sent' = sent
       ELSE call' = call /\ sent' = sent \ {<<s, kind>>}
    /\ SamePlans /\ SameUser /\ UNCHANGED <<events, row, refunded, faulty>>

\* Faulty variant: a pending payment counts as paid.
OwnRow_Pending(c) ==
    IF call[c].kind = "EXPIRED"
    THEN [call[c].own EXCEPT !.status = "EXPIRED", !.end = call[c].at]
    ELSE [call[c].own EXCEPT !.status = "ACTIVE", !.start = call[c].at, !.end = call[c].at + Duration]

\* What the webhook will write to its own row.
OwnRow(c) ==
    CASE call[c].kind = "ACTIVE" ->
            [call[c].own EXCEPT !.status = "ACTIVE", !.start = call[c].at, !.end = call[c].at + Duration]
      [] call[c].kind = "EXPIRED" -> [call[c].own EXCEPT !.status = "EXPIRED", !.end = call[c].at]
      [] OTHER -> call[c].own

\* The subscription in force is read; it is replaced unless it is this one.
ReadCurrent(c, s) ==
    /\ call[c].pc = "active"
    /\ s \in Current
    /\ call' = [call EXCEPT ![c] = IF s \in {NoSub, call[c].sub} THEN [@ EXCEPT !.pc = "own"]
                                   ELSE [@ EXCEPT !.pc = "refund", !.oldSub = s, !.old = row[s]]]
    /\ SamePlans /\ SameUser /\ UNCHANGED <<events, row, sent, refunded, mixed, faulty>>

\* The plan of the replaced subscription is read and what is left of it
\* credited to the wallet; without a wallet the event is refused.
RefundOld(c) ==
    LET amount == RemainingRefund(call[c].old, PriceOf(call[c].old.plan), call[c].at)
    IN  /\ call[c].pc = "refund"
        /\ IF amount > 0 /\ ~wallet
           THEN call' = [call EXCEPT ![c] = Rest("idle")] /\ UNCHANGED refunded
           ELSE /\ refunded' = [refunded EXCEPT ![call[c].oldSub] = @ + amount]
                /\ Goto(c, "old")
        /\ SamePlans /\ SameUser /\ UNCHANGED <<events, row, sent, mixed, faulty>>

ExpireOld(c) ==
    /\ call[c].pc = "old"
    /\ row' = [row EXCEPT ![call[c].oldSub] = [call[c].old EXCEPT !.status = "EXPIRED", !.end = call[c].at]]
    /\ Goto(c, "own")
    /\ SamePlans /\ SameUser /\ UNCHANGED <<events, sent, refunded, mixed, faulty>>

\* Faulty variant: no default subscription is made.
SaveDefault_Skipped(c, s) ==
    /\ call[c].pc = "default"
    /\ Goto(c, "own")
    /\ SamePlans /\ SameUser /\ UNCHANGED <<row, sent, events, refunded, mixed, faulty>>

\* The end of a subscription puts the user on the default plan; when there is
\* none the call ends here and the row stays as it was.
SaveDefault(c, s) ==
    /\ call[c].pc = "default"
    /\ IF ActiveDefault = NoPlan THEN Answer(c) /\ UNCHANGED row
       ELSE /\ Fresh(s)
            /\ row' = [row EXCEPT ![s] = [status |-> "ACTIVE", plan |-> DefaultPlan, start |-> call[c].at,
                                          end |-> InfiniteEnd]]
            /\ Goto(c, "own") /\ UNCHANGED <<sent, events>>
    /\ SamePlans /\ SameUser /\ UNCHANGED <<refunded, mixed, faulty>>

SaveOwn(c) ==
    /\ call[c].pc = "own"
    /\ row' = [row EXCEPT ![call[c].sub] = OwnRow(c)]
    /\ Answer(c)
    /\ SamePlans /\ SameUser /\ UNCHANGED <<refunded, mixed, faulty>>

\* A statement throws or the server stops.
CallFails(c) ==
    /\ Busy(c) /\ Room /\ faulty < MaxFaults
    /\ faulty' = faulty + 1
    /\ call' = [call EXCEPT ![c] = Rest(IF c \in Hooks THEN "idle" ELSE "done")]
    /\ SamePlans /\ SameUser /\ UNCHANGED <<events, row, sent, refunded, mixed>>

-----------------------------------------------------------------------------
(***************************************************************************)
(* The plans, the clock                                                    *)
(***************************************************************************)
\* UpdateSubscriptionPlanStatusUsecase takes the default plan away or brings
\* it back.
SwitchDefault ==
    /\ switches < MaxSwitches
    /\ defaultActive' = ~defaultActive /\ switches' = switches + 1
    /\ SameUser /\ UNCHANGED <<events, row, sent, call, refunded, mixed, faulty>>

Tick ==
    /\ now < Horizon
    /\ now' = now + 1
    /\ SamePlans /\ UNCHANGED <<events, wallet, paid, row, sent, call, refunded, mixed, faulty>>

-----------------------------------------------------------------------------
HookStep(c) ==
    \/ \E s \in Subs, kind \in Kinds : Deliver(c, s, kind)
    \/ \E s \in Subs \cup {NoSub} : ReadCurrent(c, s)
    \/ RefundOld(c) \/ ExpireOld(c) \/ SaveOwn(c)
    \/ \E s \in Subs : SaveDefault(c, s)

RequestStep(c) ==
    \/ \E p \in PaidPlans : StartCheckout(c, p)
    \/ StartAssign(c)
    \/ \E s \in Subs : SavePending(c, s) \/ AssignDefault(c, s)

SubscriptionNext ==
    \/ Tick \/ SwitchDefault
    \/ \E c \in Hooks : HookStep(c)
    \/ \E c \in Requests : RequestStep(c)
    \/ \E s \in Subs, kind \in Kinds : GatewaySends(s, kind)
    \/ \E c \in Hooks \cup Requests : CallFails(c)

SubscriptionSpec == SubscriptionInit /\ [][SubscriptionNext]_subscriptionVars

-----------------------------------------------------------------------------
(***************************************************************************)
(* Properties                                                              *)
(***************************************************************************)
Quiet == \A c \in Hooks : ~Busy(c)

\* One call at a time and no failures: however often and in whatever order the
\* gateway repeats its events, a replaced subscription is refunded at most the
\* price of its period, once.
RefundCovered ==
    ~mixed /\ faulty = 0 =>
        \A s \in Subs : refunded[s] <= PriceOf(row[s].plan)

\* Whatever overlaps, fails or is repeated: a paid plan is in force, and money
\* is given back for it, only after the gateway reported a payment.
PaidFirst ==
    \A s \in Subs :
        (row[s].plan \in PaidPlans /\ row[s].status = "ACTIVE") \/ refunded[s] > 0
            => s \in paid

\* One call at a time: a subscription that expired or was replaced is not
\* brought back by an event that arrives late or twice.
NoRevival ==
    [][\A s \in Subs : row[s].status = "EXPIRED" /\ ~mixed' => row'[s].status = "EXPIRED"]_subscriptionVars

\* One call at a time and no failures, the plans unchanged: between webhooks the
\* user has an ACTIVE subscription, whatever was replaced or ended.
NeverWithout ==
    Quiet /\ ~mixed /\ faulty = 0 /\ switches = 0 /\ defaultActive =>
        \E s \in Subs : row[s].status = "ACTIVE"
=============================================================================
