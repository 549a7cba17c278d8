------------------------- MODULE SubscriptionProofs -------------------------
(***************************************************************************)
(* Theorems about module Subscription, for any number of webhook calls,    *)
(* requests, rows, plans and events.                                       *)
(***************************************************************************)
EXTENDS Subscription, TLAPS

USE DEF subscriptionVars, SamePlans, SameUser

Callers == Hooks \cup Requests

-----------------------------------------------------------------------------
(***************************************************************************)
(* The refund                                                              *)
(***************************************************************************)
LEMMA Products ==
    ASSUME NEW p \in Nat, NEW r \in Nat, NEW t \in Nat, r <= t
    PROVE  p * r \in Nat /\ p * r <= p * t
  OBVIOUS

LEMMA Quotients ==
    ASSUME NEW x \in Nat, NEW t \in Nat \ {0}
    PROVE  x \div t \in Nat /\ (x \div t) * t <= x
  OBVIOUS

LEMMA Cancelled ==
    ASSUME NEW p \in Nat, NEW q \in Nat, NEW t \in Nat \ {0}, q * t <= p * t
    PROVE  q <= p
  OBVIOUS

\* The share of a price that belongs to a part of the period.
LEMMA Share ==
    ASSUME NEW p \in Nat, NEW r \in Nat, NEW t \in Nat \ {0}
    PROVE  (p * r) \div t \in Nat /\ (r <= t => (p * r) \div t <= p)
<1>1. p * r \in Nat
  BY Products
<1>2. (p * r) \div t \in Nat /\ ((p * r) \div t) * t <= p * r
  BY <1>1, Quotients
<1>3. ASSUME r <= t PROVE (p * r) \div t <= p
  <2>1. p * r <= p * t /\ p * t \in Nat
    BY <1>3, Products
  <2>2. ((p * r) \div t) * t <= p * t
    BY <1>1, <1>2, <2>1
  <2> QED
    BY <1>2, <2>2, Cancelled
<1> QED
  BY <1>2, <1>3

\* A refund is never negative, is made only for a plan with a price, and does
\* not exceed it when the period has begun.
LEMMA RefundBounds ==
    ASSUME NEW r \in Row, NEW p \in Nat, NEW at \in 0..Horizon
    PROVE  /\ RemainingRefund(r, p, at) \in Nat
           /\ RemainingRefund(r, p, at) > 0 => p > 0
           /\ r.start <= at => RemainingRefund(r, p, at) <= p
<1> DEFINE total == r.end - r.start
           remaining == r.end - at
<1>1. /\ r.end \in Int /\ r.start \in Int /\ at \in Int /\ RefundMax \in Nat
  BY SubscriptionAssumption DEF Row, InfiniteEnd, RegisteredEnd
<1>2. CASE p <= 0 \/ r.end <= at \/ remaining <= RefundMax \/ total <= 0
  <2>1. RemainingRefund(r, p, at) = 0
    BY <1>2 DEF RemainingRefund
  <2> QED
    BY <2>1
<1>3. CASE ~(p <= 0 \/ r.end <= at \/ remaining <= RefundMax \/ total <= 0)
  <2>1. remaining \in Nat /\ total \in Nat \ {0} /\ p > 0
    BY <1>1, <1>3
  <2>2. r.start <= at => remaining <= total
    BY <1>1
  <2>3. RemainingRefund(r, p, at) = (p * remaining) \div total
    BY <1>3 DEF RemainingRefund
  <2> HIDE DEF total, remaining
  <2> QED
    BY <2>1, <2>2, <2>3, Share
<1> QED
  BY <1>2, <1>3

LEMMA PriceType == \A p : PriceOf(p) \in Nat /\ (PriceOf(p) > 0 => p \in PaidPlans)
  BY SubscriptionAssumption DEF PriceOf

-----------------------------------------------------------------------------
(***************************************************************************)
(* Type correctness                                                        *)
(***************************************************************************)
LEMMA RestType ==
    ASSUME NEW pc \in {"idle", "assign", "pending", "active", "default", "own", "done"}
    PROVE  /\ Rest(pc) \in Call
           /\ Rest(pc).pc = pc /\ NoRow \in Row
<1>1. NoRow \in Row
  BY SubscriptionAssumption DEF NoRow, Row, Statuses, InfiniteEnd, RegisteredEnd
<1>2. 0 \in 0..Horizon
  BY SubscriptionAssumption
<1> QED
  BY <1>1, <1>2 DEF Rest, Call, Kinds

\* The dates of the rows are within bounds.
LEMMA Dates ==
    ASSUME NEW at \in 0..Horizon
    PROVE  at \in 0..InfiniteEnd /\ at + Duration \in 0..InfiniteEnd
           /\ RegisteredEnd \in 0..InfiniteEnd /\ InfiniteEnd \in 0..InfiniteEnd
  BY SubscriptionAssumption DEF InfiniteEnd, RegisteredEnd

LEMMA CallFields ==
    ASSUME SubscriptionTypeOK, NEW c \in Callers
    PROVE  /\ call[c] \in Call /\ call[c].own \in Row /\ call[c].old \in Row
           /\ call[c].at \in 0..Horizon /\ call[c].plan \in Plans \cup {NoPlan}
  BY DEF SubscriptionTypeOK, Call, Callers

LEMMA InitSubscriptionType == SubscriptionInit => SubscriptionTypeOK
<1> SUFFICES ASSUME SubscriptionInit PROVE SubscriptionTypeOK
  OBVIOUS
<1> USE SubscriptionAssumption
<1>1. NoRow \in Row /\ Rest("idle") \in Call /\ 0 \in 0..Horizon
  BY RestType
<1>2. [status |-> "ACTIVE", plan |-> DefaultPlan, start |-> 0, end |-> RegisteredEnd] \in Row
  BY <1>1, Dates DEF Row, Statuses, Plans
<1>3. row \in [Subs -> Row] /\ call \in [Hooks \cup Requests -> Call]
  BY <1>1, <1>2 DEF SubscriptionInit
<1>4. wallet \in BOOLEAN /\ defaultActive \in BOOLEAN /\ mixed \in BOOLEAN
  BY Zenon DEF SubscriptionInit
<1>5. sent \subseteq Subs \X Kinds
  BY DEF SubscriptionInit
<1> QED
  BY <1>1, <1>3, <1>4, <1>5 DEF SubscriptionInit, SubscriptionTypeOK

LEMMA NextSubscriptionType == SubscriptionTypeOK /\ [SubscriptionNext]_subscriptionVars => SubscriptionTypeOK'
<1> SUFFICES ASSUME SubscriptionTypeOK, [SubscriptionNext]_subscriptionVars PROVE SubscriptionTypeOK'
  OBVIOUS
<1> USE SubscriptionAssumption DEF Callers
<1>0. /\ \A c \in Callers : call[c] \in Call
      /\ \A pc \in {"idle", "assign", "pending", "active", "default", "own", "done"} : Rest(pc) \in Call
      /\ now \in 0..Horizon
  BY RestType DEF SubscriptionTypeOK
\* Answering changes the calls, the events and nothing else.
<1>a. ASSUME NEW c \in Callers, Answer(c)
      PROVE  /\ call' \in [Hooks \cup Requests -> Call]
             /\ sent' \subseteq Subs \X Kinds /\ events' \in 0..MaxEvents
  <2>1. call' \in [Hooks \cup Requests -> Call]
    BY <1>0, <1>a DEF Answer, SubscriptionTypeOK
  <2>2. sent' \subseteq Subs \X Kinds
    BY <1>a DEF Answer, SubscriptionTypeOK
  <2>3. events' \in 0..MaxEvents
    BY <1>a DEF Answer, SubscriptionTypeOK, Room
  <2> QED
    BY <2>1, <2>2, <2>3
<1>g. ASSUME NEW c \in Callers, NEW pc \in {"old", "own"}, Goto(c, pc)
      PROVE  call' \in [Hooks \cup Requests -> Call]
  <2>1. [call[c] EXCEPT !.pc = pc] \in Call
    BY <1>0 DEF Call
  <2> QED
    BY <1>g, <2>1 DEF Goto, SubscriptionTypeOK
<1>m. ASSUME NEW c, mixed' = (mixed \/ Overlaps(c)) PROVE mixed' \in BOOLEAN
  BY <1>m, Zenon
<1>1. ASSUME NEW c \in Requests, StartAssign(c) PROVE SubscriptionTypeOK'
  <2>1. [Rest("assign") EXCEPT !.plan = ActiveDefault] \in Call
    BY <1>0 DEF Call, ActiveDefault, Plans
  <2>2. mixed' \in BOOLEAN
    BY <1>1, <1>m DEF StartAssign, Begins
  <2> QED
    BY <1>1, <2>1, <2>2 DEF StartAssign, SubscriptionTypeOK
<1>2. ASSUME NEW c \in Requests, NEW s \in Subs, AssignDefault(c, s) PROVE SubscriptionTypeOK'
  <2>1. [status |-> "ACTIVE", plan |-> call[c].plan, start |-> now, end |-> RegisteredEnd] \in Row
    BY <1>0, CallFields, Dates DEF Row, Statuses
  <2> QED
    BY <1>0, <1>2, <2>1 DEF AssignDefault, SubscriptionTypeOK
<1>3. ASSUME NEW c \in Requests, NEW p \in PaidPlans, StartCheckout(c, p) PROVE SubscriptionTypeOK'
  <2>1. [Rest("pending") EXCEPT !.plan = p, !.at = now] \in Call
    BY <1>0 DEF Call, Plans
  <2>2. mixed' \in BOOLEAN
    BY <1>3, <1>m DEF StartCheckout, Begins
  <2> QED
    BY <1>3, <2>1, <2>2 DEF StartCheckout, SubscriptionTypeOK
<1>4. ASSUME NEW c \in Requests, NEW s \in Subs, SavePending(c, s) PROVE SubscriptionTypeOK'
  <2>1. [status |-> "PENDING", plan |-> call[c].plan, start |-> call[c].at,
         end |-> call[c].at + Duration] \in Row
    BY CallFields, Dates DEF Row, Statuses
  <2> QED
    BY <1>0, <1>4, <2>1 DEF SavePending, SubscriptionTypeOK
<1>5. ASSUME NEW s \in Subs, NEW kind \in Kinds, GatewaySends(s, kind) PROVE SubscriptionTypeOK'
  BY <1>5 DEF GatewaySends, SubscriptionTypeOK, Room
<1>6. ASSUME NEW c \in Hooks, NEW s \in Subs, NEW kind \in Kinds, Deliver(c, s, kind)
      PROVE  SubscriptionTypeOK'
  <2>1. PICK pc \in {"active", "default", "own"} :
          pc = CASE kind = "ACTIVE" -> "active" [] kind = "EXPIRED" -> "default" [] OTHER -> "own"
    BY Zenon DEF Kinds
  <2>2. [Rest(pc) EXCEPT !.sub = s, !.kind = kind, !.own = row[s], !.at = now] \in Call
    BY <1>0, ZenonT(40) DEF Call, SubscriptionTypeOK
  <2>3. call' = call \/ call' = [call EXCEPT ![c] =
            [Rest(pc) EXCEPT !.sub = s, !.kind = kind, !.own = row[s], !.at = now]]
    BY <1>6, <2>1, Zenon DEF Deliver
  <2>4. call' \in [Hooks \cup Requests -> Call]
    BY <2>2, <2>3 DEF SubscriptionTypeOK
  <2>5. mixed' \in BOOLEAN
    BY <1>6, <1>m DEF Deliver
  <2>6. sent' \subseteq Subs \X Kinds
    BY <1>6 DEF Deliver, SubscriptionTypeOK
  <2> QED
    BY <1>6, <2>4, <2>5, <2>6 DEF Deliver, SubscriptionTypeOK
<1>7. ASSUME NEW c \in Hooks, NEW s \in Subs \cup {NoSub}, ReadCurrent(c, s) PROVE SubscriptionTypeOK'
  <2>1. s # NoSub => [call[c] EXCEPT !.pc = "refund", !.oldSub = s, !.old = row[s]] \in Call
    BY <1>0, ZenonT(40) DEF Call, SubscriptionTypeOK
  <2>2. [call[c] EXCEPT !.pc = "own"] \in Call
    BY <1>0 DEF Call
  <2> QED
    BY <1>7, <2>1, <2>2 DEF ReadCurrent, SubscriptionTypeOK
<1>8. ASSUME NEW c \in Hooks, RefundOld(c) PROVE SubscriptionTypeOK'
  <2> DEFINE amount == RemainingRefund(call[c].old, PriceOf(call[c].old.plan), call[c].at)
  <2>1. amount \in Nat
    BY CallFields, PriceType, RefundBounds
  <2>2. refunded' = refunded \/ refunded' = [refunded EXCEPT ![call[c].oldSub] = @ + amount]
    BY <1>8 DEF RefundOld
  <2>3. call' \in [Hooks \cup Requests -> Call]
    <3>1. CASE Goto(c, "old")
      BY <1>g, <3>1
    <3>2. CASE call' = [call EXCEPT ![c] = Rest("idle")]
      BY <1>0, <3>2 DEF SubscriptionTypeOK
    <3> QED
      BY <1>8, <3>1, <3>2 DEF RefundOld
  <2> HIDE DEF amount
  <2>4. refunded' \in [Subs -> Nat]
    BY <2>1, <2>2 DEF SubscriptionTypeOK
  <2> QED
    BY <1>8, <2>3, <2>4 DEF RefundOld, SubscriptionTypeOK
<1>9. ASSUME NEW c \in Hooks, ExpireOld(c) PROVE SubscriptionTypeOK'
  <2>1. [call[c].old EXCEPT !.status = "EXPIRED", !.end = call[c].at] \in Row
    BY CallFields, Dates DEF Row, Statuses
  <2>2. call' \in [Hooks \cup Requests -> Call]
    BY <1>9, <1>g DEF ExpireOld
  <2> QED
    BY <1>9, <2>1, <2>2 DEF ExpireOld, SubscriptionTypeOK
<1>10. ASSUME NEW c \in Hooks, NEW s \in Subs, SaveDefault(c, s) PROVE SubscriptionTypeOK'
  <2>1. [status |-> "ACTIVE", plan |-> DefaultPlan, start |-> call[c].at, end |-> InfiniteEnd] \in Row
    BY CallFields, Dates DEF Row, Statuses, Plans
  <2>2. row' \in [Subs -> Row]
    BY <1>10, <2>1 DEF SaveDefault, SubscriptionTypeOK
  <2>3. /\ call' \in [Hooks \cup Requests -> Call]
        /\ sent' \subseteq Subs \X Kinds /\ events' \in 0..MaxEvents
    BY <1>10, <1>a, <1>g DEF SaveDefault, SubscriptionTypeOK
  <2> QED
    BY <1>10, <2>2, <2>3 DEF SaveDefault, SubscriptionTypeOK
<1>11. ASSUME NEW c \in Hooks, SaveOwn(c) PROVE SubscriptionTypeOK'
  <2>1. /\ [call[c].own EXCEPT !.status = "ACTIVE", !.start = call[c].at, !.end = call[c].at + Duration] \in Row
        /\ [call[c].own EXCEPT !.status = "EXPIRED", !.end = call[c].at] \in Row
        /\ call[c].own \in Row
    BY CallFields, Dates DEF Row, Statuses
  <2>2. OwnRow(c) \in Row
    BY <2>1, Zenon DEF OwnRow
  <2> QED
    BY <1>11, <1>a, <2>2 DEF SaveOwn, SubscriptionTypeOK
<1>12. ASSUME NEW c \in Callers, CallFails(c) PROVE SubscriptionTypeOK'
  BY <1>0, <1>12 DEF CallFails, SubscriptionTypeOK
<1>13. ASSUME SwitchDefault PROVE SubscriptionTypeOK'
  <2>1. defaultActive' \in BOOLEAN
    BY <1>13, Zenon DEF SwitchDefault, SubscriptionTypeOK
  <2> QED
    BY <1>13, <2>1 DEF SwitchDefault, SubscriptionTypeOK
<1>14. ASSUME Tick PROVE SubscriptionTypeOK'
  BY <1>14 DEF Tick, SubscriptionTypeOK
<1>15. CASE UNCHANGED subscriptionVars
  BY <1>15 DEF SubscriptionTypeOK
<1> QED
  BY <1>1, <1>2, <1>3, <1>4, <1>5, <1>6, <1>7, <1>8, <1>9, <1>10, <1>11, <1>12, <1>13, <1>14, <1>15
  DEF SubscriptionNext, HookStep, RequestStep

LEMMA SubscriptionTypeInvariant == SubscriptionSpec => []SubscriptionTypeOK
  BY InitSubscriptionType, NextSubscriptionType, PTL DEF SubscriptionSpec
\* Every variable of the subscriptions keeps its type.
THEOREM SubscriptionTypeCorrect == SubscriptionSpec => []SubscriptionTypeOK
  BY SubscriptionTypeInvariant, PTL

-----------------------------------------------------------------------------
(***************************************************************************)
(* Paid first                                                              *)
(***************************************************************************)
HookPcs == {"active", "refund", "old", "default", "own"}

\* What a call knows of the rows it holds copies of: the plans are theirs, and
\* what it took for paid was paid.
Sound(c, r) ==
    /\ r.pc \in HookPcs =>
          /\ c \in Hooks /\ r.sub \in Subs
          /\ r.own.plan \in PaidPlans /\ row[r.sub].plan = r.own.plan
          /\ r.own.status # "none"
          /\ r.own.status = "ACTIVE" \/ r.kind = "ACTIVE" => r.sub \in paid
          /\ r.kind = "ACTIVE" => r.own.status \in {"PENDING", "ACTIVE"}
    /\ r.pc \in {"active", "refund", "old"} => r.kind = "ACTIVE"
    /\ r.pc = "default" => r.kind = "EXPIRED"
    /\ r.pc \in {"refund", "old"} =>
          /\ r.oldSub \in Subs /\ r.oldSub # r.sub
          /\ r.old.status = "ACTIVE" /\ r.old.plan # NoPlan /\ row[r.oldSub].plan = r.old.plan
          /\ r.old.plan \in PaidPlans => r.oldSub \in paid
    /\ r.pc = "pending" => r.plan \in PaidPlans
    /\ r.pc = "assign" => r.plan = DefaultPlan

CallInv == \A c \in Callers : Sound(c, call[c])

\* A row has a plan once it is stored.
Stored == \A s \in Subs : row[s].plan = NoPlan <=> row[s].status = "none"

\* The gateway reports on paid plans, and a payment when there was one.
SentInv ==
    \A s \in Subs, kind \in Kinds : <<s, kind>> \in sent =>
        row[s].plan \in PaidPlans /\ (kind = "ACTIVE" => s \in paid)

PaidInv == CallInv /\ Stored /\ SentInv /\ PaidFirst

\* The row a webhook call writes for its own subscription.
LEMMA OwnFields ==
    ASSUME SubscriptionTypeOK, NEW c \in Callers
    PROVE  /\ OwnRow(c) \in Row /\ OwnRow(c).plan = call[c].own.plan
           /\ call[c].kind = "ACTIVE" => OwnRow(c).status = "ACTIVE" /\ OwnRow(c).start = call[c].at
           /\ call[c].kind = "EXPIRED" => /\ OwnRow(c).status = "EXPIRED"
                                          /\ OwnRow(c).start = call[c].own.start
           /\ call[c].kind \notin {"ACTIVE", "EXPIRED"} => OwnRow(c) = call[c].own
<1>1. call[c].own \in Row /\ call[c].at \in 0..Horizon
  BY CallFields
<1>2. CASE call[c].kind = "ACTIVE"
  <2>1. OwnRow(c) = [call[c].own EXCEPT !.status = "ACTIVE", !.start = call[c].at, !.end = call[c].at + Duration]
    BY <1>2 DEF OwnRow
  <2> QED
    BY <1>1, <1>2, <2>1, Dates DEF Row, Statuses
<1>3. CASE call[c].kind = "EXPIRED"
  <2>1. OwnRow(c) = [call[c].own EXCEPT !.status = "EXPIRED", !.end = call[c].at]
    BY <1>3 DEF OwnRow
  <2> QED
    BY <1>1, <1>3, <2>1, Dates DEF Row, Statuses
<1>4. CASE call[c].kind \notin {"ACTIVE", "EXPIRED"}
  <2>1. OwnRow(c) = call[c].own
    BY <1>4 DEF OwnRow
  <2> QED
    BY <1>1, <1>4, <2>1
<1> QED
  BY <1>2, <1>3, <1>4

LEMMA ExpiredFields ==
    ASSUME SubscriptionTypeOK, NEW c \in Callers
    PROVE  LET r == [call[c].old EXCEPT !.status = "EXPIRED", !.end = call[c].at]
           IN  r.status = "EXPIRED" /\ r.plan = call[c].old.plan /\ r.start = call[c].old.start
  BY CallFields DEF Row

\* A row that is stored for the first time: only by a checkout is it for a
\* paid plan, and then it is not in force.
New(s, r) ==
    /\ s \in Subs /\ row[s].status = "none"
    /\ r.status \in {"ACTIVE", "PENDING"} /\ r.plan \in Plans
    /\ r.plan \in PaidPlans => r.status = "PENDING"
    /\ r.start \in 0..Horizon

\* The rows change only in three ways.
LEMMA StepRows ==
    ASSUME SubscriptionTypeOK, CallInv, [SubscriptionNext]_subscriptionVars
    PROVE  \/ UNCHANGED row
           \/ \E s \in Subs, r \in Row : New(s, r) /\ row' = [row EXCEPT ![s] = r]
           \/ \E c \in Hooks : ExpireOld(c)
           \/ \E c \in Hooks : SaveOwn(c)
<1> USE SubscriptionAssumption DEF Callers
<1>1. ASSUME NEW c \in Requests, NEW s \in Subs, AssignDefault(c, s)
      PROVE  \E t \in Subs, r \in Row : New(t, r) /\ row' = [row EXCEPT ![t] = r]
  <2> DEFINE r == [status |-> "ACTIVE", plan |-> call[c].plan, start |-> now, end |-> RegisteredEnd]
  <2>1. call[c].plan = DefaultPlan /\ now \in 0..Horizon
    BY <1>1 DEF AssignDefault, CallInv, Sound, SubscriptionTypeOK
  <2>2. r \in Row /\ New(s, r)
    BY <1>1, <2>1, Dates DEF AssignDefault, Row, Statuses, Plans, New, Fresh
  <2>3. row' = [row EXCEPT ![s] = r]
    BY <1>1 DEF AssignDefault
  <2> QED
    BY <2>2, <2>3
<1>2. ASSUME NEW c \in Requests, NEW s \in Subs, SavePending(c, s)
      PROVE  \E t \in Subs, r \in Row : New(t, r) /\ row' = [row EXCEPT ![t] = r]
  <2> DEFINE r == [status |-> "PENDING", plan |-> call[c].plan, start |-> call[c].at,
                   end |-> call[c].at + Duration]
  <2>1. call[c].plan \in PaidPlans /\ call[c].at \in 0..Horizon
    BY <1>2, CallFields DEF SavePending, CallInv, Sound
  <2>2. r \in Row /\ New(s, r)
    BY <1>2, <2>1, Dates DEF SavePending, Row, Statuses, Plans, New, Fresh
  <2>3. row' = [row EXCEPT ![s] = r]
    BY <1>2 DEF SavePending
  <2> QED
    BY <2>2, <2>3
<1>3. ASSUME NEW c \in Hooks, NEW s \in Subs, SaveDefault(c, s)
      PROVE  UNCHANGED row \/ \E t \in Subs, r \in Row : New(t, r) /\ row' = [row EXCEPT ![t] = r]
  <2> DEFINE r == [status |-> "ACTIVE", plan |-> DefaultPlan, start |-> call[c].at, end |-> InfiniteEnd]
  <2>1. call[c].at \in 0..Horizon
    BY CallFields
  <2>2. r \in Row
    BY <2>1, Dates DEF Row, Statuses, Plans
  <2>3. CASE ActiveDefault # NoPlan
    <3>1. New(s, r)
      BY <1>3, <2>1, <2>3 DEF SaveDefault, Plans, New, Fresh
    <3>2. row' = [row EXCEPT ![s] = r]
      BY <1>3, <2>3 DEF SaveDefault
    <3> QED
      BY <2>2, <3>1, <3>2
  <2> QED
    BY <1>3, <2>3 DEF SaveDefault
<1>4. ASSUME NEW c \in Hooks, HookStep(c)
      PROVE  \/ UNCHANGED row \/ ExpireOld(c) \/ SaveOwn(c)
             \/ \E t \in Subs, r \in Row : New(t, r) /\ row' = [row EXCEPT ![t] = r]
  BY <1>3, <1>4 DEF HookStep, Deliver, ReadCurrent, RefundOld
<1>5. ASSUME NEW c \in Requests, RequestStep(c)
      PROVE  \/ UNCHANGED row
             \/ \E t \in Subs, r \in Row : New(t, r) /\ row' = [row EXCEPT ![t] = r]
  BY <1>1, <1>2, <1>5 DEF RequestStep, StartCheckout, StartAssign
<1>6. ASSUME \/ Tick \/ SwitchDefault \/ UNCHANGED subscriptionVars
             \/ \E s \in Subs, kind \in Kinds : GatewaySends(s, kind)
             \/ \E c \in Hooks \cup Requests : CallFails(c)
      PROVE  UNCHANGED row
  BY <1>6 DEF Tick, SwitchDefault, GatewaySends, CallFails
<1> QED
  BY <1>4, <1>5, <1>6 DEF SubscriptionNext

\* A stored row keeps its plan, and what was paid stays paid.
LEMMA PlansStay ==
    ASSUME SubscriptionTypeOK, PaidInv, [SubscriptionNext]_subscriptionVars
    PROVE  /\ \A s \in Subs : row[s].status # "none" =>
                 row'[s].plan = row[s].plan /\ row'[s].status # "none"
           /\ paid \subseteq paid'
           /\ Stored'
<1>1. paid \subseteq paid'
  BY DEF SubscriptionNext, Tick, SwitchDefault, HookStep, RequestStep, GatewaySends, CallFails,
     Deliver, ReadCurrent, RefundOld, ExpireOld, SaveOwn, SaveDefault, StartCheckout, StartAssign,
     SavePending, AssignDefault
<1> SUFFICES ASSUME NEW s \in Subs
             PROVE  /\ row[s].status # "none" => row'[s].plan = row[s].plan /\ row'[s].status # "none"
                    /\ row'[s].plan = NoPlan <=> row'[s].status = "none"
  BY <1>1 DEF Stored
<1>0. (row[s].plan = NoPlan <=> row[s].status = "none") /\ row \in [Subs -> Row]
  BY DEF PaidInv, Stored, SubscriptionTypeOK
<1>2. CASE UNCHANGED row
  BY <1>0, <1>2
<1>3. ASSUME NEW t \in Subs, NEW r \in Row, New(t, r), row' = [row EXCEPT ![t] = r]
      PROVE  /\ row[s].status # "none" => row'[s].plan = row[s].plan /\ row'[s].status # "none"
             /\ row'[s].plan = NoPlan <=> row'[s].status = "none"
  <2>1. row'[s] = IF s = t THEN r ELSE row[s]
    BY <1>0, <1>3
  <2> QED
    BY <1>0, <1>3, <2>1, SubscriptionAssumption DEF New, Plans
<1>4. ASSUME NEW c \in Hooks, ExpireOld(c)
      PROVE  /\ row[s].status # "none" => row'[s].plan = row[s].plan /\ row'[s].status # "none"
             /\ row'[s].plan = NoPlan <=> row'[s].status = "none"
  <2> DEFINE r == [call[c].old EXCEPT !.status = "EXPIRED", !.end = call[c].at]
  <2>1. /\ call[c].pc = "old" /\ Sound(c, call[c]) /\ c \in Callers
    BY <1>4 DEF ExpireOld, PaidInv, CallInv, Callers
  <2>2. r.status = "EXPIRED" /\ r.plan = call[c].old.plan
    BY <2>1, ExpiredFields
  <2>3. row'[s] = IF s = call[c].oldSub THEN r ELSE row[s]
    BY <1>0, <1>4 DEF ExpireOld
  <2> HIDE DEF r
  <2> QED
    BY <1>0, <2>1, <2>2, <2>3 DEF Sound
<1>5. ASSUME NEW c \in Hooks, SaveOwn(c)
      PROVE  /\ row[s].status # "none" => row'[s].plan = row[s].plan /\ row'[s].status # "none"
             /\ row'[s].plan = NoPlan <=> row'[s].status = "none"
  <2>1. call[c].pc = "own" /\ Sound(c, call[c]) /\ c \in Callers
    BY <1>5 DEF SaveOwn, PaidInv, CallInv, Callers
  <2>2. row'[s] = IF s = call[c].sub THEN OwnRow(c) ELSE row[s]
    BY <1>0, <1>5 DEF SaveOwn
  <2>3. OwnRow(c).plan = call[c].own.plan /\ OwnRow(c).status # "none"
    BY <2>1, OwnFields DEF Sound, HookPcs
  <2> QED
    BY <1>0, <2>1, <2>2, <2>3, SubscriptionAssumption DEF Sound, HookPcs
<1> QED
  BY <1>2, <1>3, <1>4, <1>5, StepRows DEF PaidInv

\* Every call keeps knowing what it knows, and learns only what is so.
LEMMA NextSound ==
    SubscriptionTypeOK /\ PaidInv /\ [SubscriptionNext]_subscriptionVars => CallInv'
<1> SUFFICES ASSUME SubscriptionTypeOK, PaidInv, [SubscriptionNext]_subscriptionVars PROVE CallInv'
  OBVIOUS
<1> USE SubscriptionAssumption DEF HookPcs
<1>0. /\ \A c \in Hooks : c \in Callers
      /\ \A c \in Requests : c \in Callers
      /\ \A c \in Callers : Sound(c, call[c]) /\ call[c] \in Call
      /\ \A s \in Subs : row[s].status # "none" => row'[s].plan = row[s].plan
      /\ \A s \in Subs : row[s].plan = NoPlan <=> row[s].status = "none"
      /\ paid \subseteq paid' /\ NoPlan \notin PaidPlans
  BY PlansStay DEF Callers, PaidInv, CallInv, Stored, SubscriptionTypeOK
\* What is so of a call stays so.
<1>k. ASSUME NEW c, NEW r, Sound(c, r) PROVE Sound(c, r)'
  BY <1>0, <1>k DEF Sound
<1>a. ASSUME NEW c \in Callers, \A d \in Callers \ {c} : call'[d] = call[d], Sound(c, call[c])'
      PROVE  CallInv'
  BY <1>0, <1>a, <1>k DEF CallInv, Sound
<1>r. ASSUME NEW c \in Callers, NEW pc \in {"idle", "done"}, call' = [call EXCEPT ![c] = Rest(pc)]
      PROVE  CallInv'
  <2>1. call'[c] = Rest(pc) /\ \A d \in Callers \ {c} : call'[d] = call[d]
    BY <1>r DEF SubscriptionTypeOK, Callers
  <2>2. call'[c].pc = pc
    BY <2>1, RestType
  <2>3. Sound(c, call[c])'
    BY <2>2 DEF Sound
  <2> QED
    BY <1>a, <2>1, <2>3
<1>g. ASSUME NEW c \in Callers, NEW pc, Goto(c, pc)
      PROVE  /\ call'[c] = [call[c] EXCEPT !.pc = pc]
             /\ call'[c].pc = pc /\ call'[c].sub = call[c].sub /\ call'[c].kind = call[c].kind
             /\ call'[c].own = call[c].own /\ call'[c].oldSub = call[c].oldSub
             /\ call'[c].old = call[c].old /\ call'[c].at = call[c].at
             /\ \A d \in Callers \ {c} : call'[d] = call[d]
  <2>1. call'[c] = [call[c] EXCEPT !.pc = pc] /\ \A d \in Callers \ {c} : call'[d] = call[d]
    BY <1>g DEF Goto, SubscriptionTypeOK, Callers
  <2> QED
    BY <1>0, <2>1 DEF Call
<1>1. ASSUME NEW c \in Requests, StartAssign(c) PROVE CallInv'
  <2> DEFINE r == [Rest("assign") EXCEPT !.plan = ActiveDefault]
  <2>1. r.pc = "assign" /\ r.plan = ActiveDefault /\ ActiveDefault = DefaultPlan
    BY <1>1 DEF Rest, StartAssign, ActiveDefault
  <2>2. call'[c] = r /\ \A d \in Callers \ {c} : call'[d] = call[d]
    BY <1>0, <1>1 DEF StartAssign, SubscriptionTypeOK, Callers
  <2>3. Sound(c, call[c])'
    BY <2>1, <2>2 DEF Sound
  <2> QED
    BY <1>0, <1>a, <2>2, <2>3
<1>2. ASSUME NEW c \in Requests, NEW p \in PaidPlans, StartCheckout(c, p) PROVE CallInv'
  <2> DEFINE r == [Rest("pending") EXCEPT !.plan = p, !.at = now]
  <2>1. r.pc = "pending" /\ r.plan = p
    BY DEF Rest
  <2>2. call'[c] = r /\ \A d \in Callers \ {c} : call'[d] = call[d]
    BY <1>0, <1>2 DEF StartCheckout, SubscriptionTypeOK, Callers
  <2>3. Sound(c, call[c])'
    BY <2>1, <2>2 DEF Sound
  <2> QED
    BY <1>0, <1>a, <2>2, <2>3
<1>3. ASSUME NEW c \in Hooks, NEW s \in Subs, NEW kind \in Kinds, Deliver(c, s, kind) PROVE CallInv'
  <2>1. PICK pc \in {"active", "default", "own"} :
          /\ pc = CASE kind = "ACTIVE" -> "active" [] kind = "EXPIRED" -> "default" [] OTHER -> "own"
          /\ pc = "active" => kind = "ACTIVE"
          /\ pc = "default" => kind = "EXPIRED"
    BY DEF Kinds
  <2>r. PICK r : r = [Rest(pc) EXCEPT !.sub = s, !.kind = kind, !.own = row[s], !.at = now]
    OBVIOUS
  <2>2. r.pc = pc /\ r.sub = s /\ r.kind = kind /\ r.own = row[s]
    BY <2>r DEF Rest
  <2>3. call' = call \/ (call' = [call EXCEPT ![c] = r] /\ Accepted(kind, row[s].status))
    BY <1>3, <2>1, <2>r, Zenon DEF Deliver
  <2>4. CASE call' = call
    BY <1>0, <1>k, <2>4 DEF CallInv, Sound
  <2>5. CASE call' = [call EXCEPT ![c] = r] /\ Accepted(kind, row[s].status)
    <3>1. call'[c] = r /\ \A d \in Callers \ {c} : call'[d] = call[d]
      BY <1>0, <2>5 DEF SubscriptionTypeOK, Callers
    <3>2. row[s].plan \in PaidPlans /\ (kind = "ACTIVE" \/ row[s].status = "ACTIVE" => s \in paid)
      BY <1>3 DEF Deliver, PaidInv, SentInv, PaidFirst
    <3>3. Sound(c, r)
      BY <1>0, <2>1, <2>2, <2>5, <3>2 DEF Sound, Accepted
    <3>4. Sound(c, r)'
      BY <1>k, <3>3
    <3>5. Sound(c, call[c])'
      BY <3>1, <3>4 DEF Sound
    <3> QED
      BY <1>0, <1>a, <3>1, <3>5
  <2> QED
    BY <2>3, <2>4, <2>5
<1>4. ASSUME NEW c \in Hooks, NEW s \in Subs \cup {NoSub}, ReadCurrent(c, s) PROVE CallInv'
  <2>1. call[c].pc = "active" /\ Sound(c, call[c]) /\ call[c] \in Call
    BY <1>0, <1>4 DEF ReadCurrent
  <2>2. CASE s \in {NoSub, call[c].sub}
    <3>1. Goto(c, "own")
      BY <1>4, <2>2 DEF ReadCurrent, Goto
    <3>2. PICK r : r = call'[c]
      OBVIOUS
    <3>3. /\ r.pc = "own" /\ r.sub = call[c].sub /\ r.kind = call[c].kind /\ r.own = call[c].own
      BY <1>0, <1>g, <3>1, <3>2
    <3>4. Sound(c, r)
      BY <2>1, <3>3 DEF Sound
    <3>5. Sound(c, r)'
      BY <1>k, <3>4
    <3>6. Sound(c, call[c])'
      BY <3>2, <3>5 DEF Sound
    <3> QED
      BY <1>0, <1>a, <1>g, <3>1, <3>6
  <2>3. CASE s \notin {NoSub, call[c].sub}
    <3>r. PICK r : r = [call[c] EXCEPT !.pc = "refund", !.oldSub = s, !.old = row[s]]
      OBVIOUS
    <3>1. /\ r.pc = "refund" /\ r.sub = call[c].sub /\ r.kind = call[c].kind
          /\ r.own = call[c].own /\ r.oldSub = s /\ r.old = row[s]
      BY <2>1, <3>r DEF Call
    <3>2. call'[c] = r /\ \A d \in Callers \ {c} : call'[d] = call[d]
      BY <1>0, <1>4, <2>3, <3>r DEF ReadCurrent, SubscriptionTypeOK, Callers
    <3>3. s \in Subs /\ row[s].status = "ACTIVE"
      BY <1>4, <2>3 DEF ReadCurrent, Current
    <3>4. row[s].plan \in PaidPlans => s \in paid
      BY <3>3 DEF PaidInv, PaidFirst
    <3>5. Sound(c, r)
      BY <1>0, <2>1, <2>3, <3>1, <3>3, <3>4 DEF Sound
    <3>6. Sound(c, r)'
      BY <1>k, <3>5
    <3>7. Sound(c, call[c])'
      BY <3>2, <3>6 DEF Sound
    <3> QED
      BY <1>0, <1>a, <3>2, <3>7
  <2> QED
    BY <2>2, <2>3
<1>5. ASSUME NEW c \in Hooks, NEW pc \in {"old", "own"}, Goto(c, pc),
             \/ call[c].pc = "refund" /\ pc = "old"
             \/ call[c].pc \in {"old", "default"} /\ pc = "own"
      PROVE  CallInv'
  <2>1. PICK r : r = call'[c]
    OBVIOUS
  <2>2. /\ r.pc = pc /\ r.sub = call[c].sub /\ r.kind = call[c].kind /\ r.own = call[c].own
        /\ r.oldSub = call[c].oldSub /\ r.old = call[c].old
    BY <1>0, <1>5, <1>g, <2>1
  <2>3. Sound(c, call[c])
    BY <1>0
  <2>4. Sound(c, r)
    BY <1>5, <2>2, <2>3 DEF Sound
  <2>5. Sound(c, r)'
    BY <1>k, <2>4
  <2>6. Sound(c, call[c])'
    BY <2>1, <2>5 DEF Sound
  <2> QED
    BY <1>0, <1>5, <1>a, <1>g, <2>6
<1>6. ASSUME NEW c \in Hooks, RefundOld(c) PROVE CallInv'
  BY <1>0, <1>5, <1>6, <1>r DEF RefundOld
<1>7. ASSUME NEW c \in Hooks, ExpireOld(c) PROVE CallInv'
  BY <1>5, <1>7 DEF ExpireOld
<1>8. ASSUME NEW c \in Hooks, NEW s \in Subs, SaveDefault(c, s) PROVE CallInv'
  BY <1>0, <1>5, <1>8, <1>r DEF SaveDefault, Answer
<1>9. ASSUME NEW c \in Hooks, SaveOwn(c) PROVE CallInv'
  BY <1>0, <1>9, <1>r DEF SaveOwn, Answer
<1>10. ASSUME NEW c \in Requests, NEW s \in Subs, SavePending(c, s) \/ AssignDefault(c, s) PROVE CallInv'
  BY <1>0, <1>10, <1>r DEF SavePending, AssignDefault
<1>11. ASSUME NEW c \in Callers, CallFails(c) PROVE CallInv'
  BY <1>11, <1>r DEF CallFails
<1>12. ASSUME UNCHANGED call PROVE CallInv'
  BY <1>0, <1>12, <1>k DEF CallInv, Sound
<1> QED
  <2>1. ASSUME NEW c \in Hooks, HookStep(c) PROVE CallInv'
    BY <1>3, <1>4, <1>6, <1>7, <1>8, <1>9, <2>1 DEF HookStep
  <2>2. ASSUME NEW c \in Requests, RequestStep(c) PROVE CallInv'
    BY <1>1, <1>2, <1>10, <2>2 DEF RequestStep
  <2>3. ASSUME \/ Tick \/ SwitchDefault \/ UNCHANGED subscriptionVars
               \/ \E s \in Subs, kind \in Kinds : GatewaySends(s, kind)
        PROVE  CallInv'
    BY <1>12, <2>3 DEF Tick, SwitchDefault, GatewaySends
  <2> QED
    BY <1>11, <2>1, <2>2, <2>3 DEF SubscriptionNext, Callers

LEMMA NextSent ==
    SubscriptionTypeOK /\ PaidInv /\ [SubscriptionNext]_subscriptionVars => SentInv'
<1> SUFFICES ASSUME SubscriptionTypeOK, PaidInv, [SubscriptionNext]_subscriptionVars,
                    NEW s \in Subs, NEW kind \in Kinds, <<s, kind>> \in sent'
             PROVE  row'[s].plan \in PaidPlans /\ (kind = "ACTIVE" => s \in paid')
  BY DEF SentInv
<1>a. ASSUME NEW t \in Subs, NEW k \in Kinds, GatewaySends(t, k)
      PROVE  \/ <<s, kind>> \in sent
             \/ row[s].plan \in PaidPlans /\ (kind = "ACTIVE" => s \in paid')
  BY <1>a DEF GatewaySends
<1>b. (\E t \in Subs, k \in Kinds : GatewaySends(t, k)) \/ sent' \subseteq sent
  BY DEF SubscriptionNext, Tick, SwitchDefault, HookStep, RequestStep, CallFails,
     Deliver, ReadCurrent, RefundOld, ExpireOld, SaveOwn, SaveDefault, StartCheckout, StartAssign,
     SavePending, AssignDefault, Answer
<1>0. \/ <<s, kind>> \in sent
      \/ row[s].plan \in PaidPlans /\ (kind = "ACTIVE" => s \in paid')
  BY <1>a, <1>b
<1>1. row[s].plan \in PaidPlans /\ (kind = "ACTIVE" => s \in paid')
  BY <1>0, PlansStay DEF PaidInv, SentInv
<1>2. row[s].status # "none"
  BY <1>1, SubscriptionAssumption DEF PaidInv, Stored
<1> QED
  BY <1>1, <1>2, PlansStay

LEMMA NextPaid ==
    SubscriptionTypeOK /\ PaidInv /\ [SubscriptionNext]_subscriptionVars => PaidFirst'
<1> SUFFICES ASSUME SubscriptionTypeOK, PaidInv, [SubscriptionNext]_subscriptionVars, NEW s \in Subs,
                    (row'[s].plan \in PaidPlans /\ row'[s].status = "ACTIVE") \/ refunded'[s] > 0
             PROVE  s \in paid'
  BY DEF PaidFirst
<1>0. paid \subseteq paid' /\ row \in [Subs -> Row] /\ refunded \in [Subs -> Nat]
  BY PlansStay DEF SubscriptionTypeOK
<1>1. CASE refunded'[s] > 0
  <2>1. ASSUME NEW c \in Hooks, RefundOld(c) PROVE s \in paid
    <3> DEFINE amount == RemainingRefund(call[c].old, PriceOf(call[c].old.plan), call[c].at)
    <3>1. c \in Callers /\ call[c].pc = "refund" /\ Sound(c, call[c])
      BY <2>1 DEF Callers, RefundOld, PaidInv, CallInv
    <3>2. amount \in Nat /\ (amount > 0 => call[c].old.plan \in PaidPlans)
      BY <3>1, CallFields, RefundBounds, PriceType
    <3>3. refunded' = refunded \/ refunded' = [refunded EXCEPT ![call[c].oldSub] = @ + amount]
      BY <2>1 DEF RefundOld
    <3> HIDE DEF amount
    <3>4. refunded[s] > 0 \/ (amount > 0 /\ s = call[c].oldSub)
      BY <1>0, <1>1, <3>2, <3>3
    <3> QED
      BY <3>1, <3>2, <3>4 DEF PaidInv, PaidFirst, Sound
  <2>2. UNCHANGED refunded \/ \E c \in Hooks : RefundOld(c)
    BY DEF SubscriptionNext, Tick, SwitchDefault, HookStep, RequestStep, GatewaySends, CallFails,
       Deliver, ReadCurrent, ExpireOld, SaveOwn, SaveDefault, StartCheckout, StartAssign,
       SavePending, AssignDefault
  <2> QED
    BY <1>0, <1>1, <2>1, <2>2 DEF PaidInv, PaidFirst
<1>2. CASE row'[s].plan \in PaidPlans /\ row'[s].status = "ACTIVE"
  <2>1. CASE UNCHANGED row
    BY <1>0, <1>2, <2>1 DEF PaidInv, PaidFirst
  <2>2. ASSUME NEW t \in Subs, NEW r \in Row, New(t, r), row' = [row EXCEPT ![t] = r] PROVE s \in paid
    <3>1. row'[s] = IF s = t THEN r ELSE row[s]
      BY <1>0, <2>2
    <3> QED
      BY <1>2, <2>2, <3>1 DEF New, PaidInv, PaidFirst
  <2>3. ASSUME NEW c \in Hooks, ExpireOld(c) PROVE s \in paid
    <3> DEFINE r == [call[c].old EXCEPT !.status = "EXPIRED", !.end = call[c].at]
    <3>1. r.status = "EXPIRED"
      BY ExpiredFields DEF Callers
    <3>2. row'[s] = IF s = call[c].oldSub THEN r ELSE row[s]
      BY <1>0, <2>3 DEF ExpireOld
    <3> HIDE DEF r
    <3> QED
      BY <1>2, <3>1, <3>2 DEF PaidInv, PaidFirst
  <2>4. ASSUME NEW c \in Hooks, SaveOwn(c) PROVE s \in paid
    <3>1. c \in Callers /\ call[c].pc = "own" /\ Sound(c, call[c])
      BY <2>4 DEF Callers, SaveOwn, PaidInv, CallInv
    <3>2. row'[s] = IF s = call[c].sub THEN OwnRow(c) ELSE row[s]
      BY <1>0, <2>4 DEF SaveOwn
    <3>3. OwnRow(c).status = "ACTIVE" => call[c].kind = "ACTIVE" \/ call[c].own.status = "ACTIVE"
      BY <3>1, OwnFields
    <3> QED
      BY <1>2, <3>1, <3>2, <3>3 DEF Sound, HookPcs, PaidInv, PaidFirst
  <2> QED
    BY <1>0, <2>1, <2>2, <2>3, <2>4, StepRows DEF PaidInv
<1> QED
  BY <1>1, <1>2

LEMMA PaidInvariant == SubscriptionSpec => [](SubscriptionTypeOK /\ PaidInv)
<1>1. SubscriptionInit => PaidInv
  <2> SUFFICES ASSUME SubscriptionInit PROVE PaidInv
    OBVIOUS
  <2>1. CallInv
    BY RestType DEF SubscriptionInit, CallInv, Sound, HookPcs, Callers
  <2>2. ASSUME NEW s \in Subs
        PROVE  row[s].plan \in {NoPlan, DefaultPlan} /\ (row[s].plan = NoPlan <=> row[s].status = "none")
    BY SubscriptionAssumption DEF SubscriptionInit, NoRow
  <2>3. Stored /\ SentInv /\ PaidFirst
    BY <2>2, SubscriptionAssumption DEF SubscriptionInit, Stored, SentInv, PaidFirst
  <2> QED
    BY <2>1, <2>3 DEF PaidInv
<1>2. SubscriptionTypeOK /\ PaidInv /\ [SubscriptionNext]_subscriptionVars => PaidInv'
  BY NextSound, NextSent, NextPaid, PlansStay DEF PaidInv
<1> QED
  BY <1>1, <1>2, InitSubscriptionType, NextSubscriptionType, PTL DEF SubscriptionSpec

\* However webhook calls, checkouts and failures interleave and events repeat,
\* a paid plan is in force and refunded only after a reported payment.
THEOREM PaidBeforeUse == SubscriptionSpec => []PaidFirst
<1>1. PaidInv => PaidFirst
  BY DEF PaidInv
<1> QED
  BY <1>1, PaidInvariant, PTL

-----------------------------------------------------------------------------
(***************************************************************************)
(* One call at a time                                                      *)
(***************************************************************************)
\* No row and no copy is from the future.
Dated(r) == r.at <= now /\ r.own.start <= now /\ r.old.start <= now
DateInv == (\A s \in Subs : row[s].start <= now) /\ \A c \in Callers : Dated(call[c])

\* The copies a call holds are the rows as they are.
Accurate(r) ==
    r.pc \in HookPcs =>
        /\ r.own = row[r.sub]
        /\ \A s \in Subs : row[s].start <= r.at
        /\ r.pc \in {"refund", "old"} => r.old = row[r.oldSub]

AloneInv ==
    ~mixed => /\ \A c, d \in Callers : Busy(c) /\ Busy(d) => c = d
              /\ \A c \in Callers : Accurate(call[c])

LEMMA MixedStays == ASSUME [SubscriptionNext]_subscriptionVars, ~mixed' PROVE ~mixed
<1>1. ASSUME NEW c, mixed' = (mixed \/ Overlaps(c)) PROVE ~mixed
  BY <1>1, Zenon
<1>2. ASSUME UNCHANGED mixed PROVE ~mixed
  BY <1>2, Zenon
<1>3. ASSUME NEW c \in Hooks, HookStep(c) PROVE ~mixed
  BY <1>1, <1>2, <1>3 DEF HookStep, Deliver, ReadCurrent, RefundOld, ExpireOld, SaveOwn, SaveDefault
<1>4. ASSUME NEW c \in Requests, RequestStep(c) PROVE ~mixed
  BY <1>1, <1>2, <1>4 DEF RequestStep, StartCheckout, StartAssign, Begins, SavePending, AssignDefault
<1>5. ASSUME \/ Tick \/ SwitchDefault \/ UNCHANGED subscriptionVars
             \/ \E s \in Subs, kind \in Kinds : GatewaySends(s, kind)
             \/ \E c \in Hooks \cup Requests : CallFails(c)
      PROVE  ~mixed
  BY <1>2, <1>5 DEF Tick, SwitchDefault, GatewaySends, CallFails
<1> QED
  BY <1>3, <1>4, <1>5 DEF SubscriptionNext

\* The fields of a call that moves on, is over, or begins.
LEMMA GotoFields ==
    ASSUME SubscriptionTypeOK, NEW c \in Callers, NEW pc, Goto(c, pc)
    PROVE  /\ call'[c].pc = pc /\ call'[c].sub = call[c].sub /\ call'[c].kind = call[c].kind
           /\ call'[c].own = call[c].own /\ call'[c].oldSub = call[c].oldSub
           /\ call'[c].old = call[c].old /\ call'[c].at = call[c].at
           /\ \A d \in Callers \ {c} : call'[d] = call[d]
<1>1. call'[c] = [call[c] EXCEPT !.pc = pc] /\ \A d \in Callers \ {c} : call'[d] = call[d]
  BY DEF Goto, SubscriptionTypeOK, Callers
<1> QED
  BY <1>1, CallFields DEF Call

LEMMA RestFields ==
    ASSUME SubscriptionTypeOK, NEW c \in Callers, NEW pc, call' = [call EXCEPT ![c] = Rest(pc)]
    PROVE  /\ call'[c].pc = pc /\ call'[c].at = 0 /\ call'[c].own.start = 0 /\ call'[c].old.start = 0
           /\ \A d \in Callers \ {c} : call'[d] = call[d]
<1>1. call'[c] = Rest(pc) /\ \A d \in Callers \ {c} : call'[d] = call[d]
  BY DEF SubscriptionTypeOK, Callers
<1> QED
  BY <1>1 DEF Rest, NoRow

LEMMA DeliverFields ==
    ASSUME SubscriptionTypeOK, NEW c \in Hooks, NEW s \in Subs, NEW kind \in Kinds, Deliver(c, s, kind)
    PROVE  \/ call' = call
           \/ /\ call'[c].pc = CASE kind = "ACTIVE" -> "active" [] kind = "EXPIRED" -> "default"
                                 [] OTHER -> "own"
              /\ call'[c].sub = s /\ call'[c].kind = kind /\ call'[c].own = row[s]
              /\ call'[c].at = now /\ call'[c].old.start = 0
              /\ \A d \in Callers \ {c} : call'[d] = call[d]
<1>1. PICK pc : pc = CASE kind = "ACTIVE" -> "active" [] kind = "EXPIRED" -> "default" [] OTHER -> "own"
  OBVIOUS
<1>2. call' = call \/ call' = [call EXCEPT ![c] =
          [Rest(pc) EXCEPT !.sub = s, !.kind = kind, !.own = row[s], !.at = now]]
  BY <1>1, Zenon DEF Deliver
<1>3. ASSUME call' = [call EXCEPT ![c] =
                [Rest(pc) EXCEPT !.sub = s, !.kind = kind, !.own = row[s], !.at = now]]
      PROVE  /\ call'[c].pc = pc
             /\ call'[c].sub = s /\ call'[c].kind = kind /\ call'[c].own = row[s]
             /\ call'[c].at = now /\ call'[c].old.start = 0
             /\ \A d \in Callers \ {c} : call'[d] = call[d]
  <2>1. /\ call'[c] = [Rest(pc) EXCEPT !.sub = s, !.kind = kind, !.own = row[s], !.at = now]
        /\ \A d \in Callers \ {c} : call'[d] = call[d]
    BY <1>3 DEF SubscriptionTypeOK, Callers
  <2> QED
    BY <2>1 DEF Rest, NoRow
<1> QED
  BY <1>1, <1>2, <1>3

LEMMA ReadFields ==
    ASSUME SubscriptionTypeOK, NEW c \in Hooks, NEW s \in Subs \cup {NoSub}, ReadCurrent(c, s)
    PROVE  \/ Goto(c, "own")
           \/ /\ s \in Subs \ {call[c].sub} /\ row[s].status = "ACTIVE"
              /\ call'[c].pc = "refund" /\ call'[c].sub = call[c].sub /\ call'[c].kind = call[c].kind
              /\ call'[c].own = call[c].own /\ call'[c].at = call[c].at
              /\ call'[c].oldSub = s /\ call'[c].old = row[s]
              /\ \A d \in Callers \ {c} : call'[d] = call[d]
<1>1. CASE s \in {NoSub, call[c].sub}
  BY <1>1 DEF ReadCurrent, Goto
<1>2. CASE s \notin {NoSub, call[c].sub}
  <2>1. s \in Subs \ {call[c].sub} /\ row[s].status = "ACTIVE"
    BY <1>2 DEF ReadCurrent, Current
  <2>2. /\ call'[c] = [call[c] EXCEPT !.pc = "refund", !.oldSub = s, !.old = row[s]]
        /\ \A d \in Callers \ {c} : call'[d] = call[d]
    BY <1>2 DEF ReadCurrent, SubscriptionTypeOK, Callers
  <2>3. call[c] \in Call
    BY CallFields DEF Callers
  <2> QED
    BY <2>1, <2>2, <2>3 DEF Call
<1> QED
  BY <1>1, <1>2

LEMMA CheckoutFields ==
    ASSUME SubscriptionTypeOK, NEW c \in Requests, NEW p \in PaidPlans, StartCheckout(c, p)
    PROVE  /\ call'[c].pc = "pending" /\ call'[c].at = now
           /\ call'[c].own.start = 0 /\ call'[c].old.start = 0
           /\ \A d \in Callers \ {c} : call'[d] = call[d]
<1>1. /\ call'[c] = [Rest("pending") EXCEPT !.plan = p, !.at = now]
      /\ \A d \in Callers \ {c} : call'[d] = call[d]
  BY DEF StartCheckout, SubscriptionTypeOK, Callers
<1> QED
  BY <1>1 DEF Rest, NoRow

LEMMA AssignFields ==
    ASSUME SubscriptionTypeOK, NEW c \in Requests, StartAssign(c)
    PROVE  /\ call'[c].pc = "assign" /\ call'[c].at = 0
           /\ call'[c].own.start = 0 /\ call'[c].old.start = 0
           /\ \A d \in Callers \ {c} : call'[d] = call[d]
<1>1. /\ call'[c] = [Rest("assign") EXCEPT !.plan = ActiveDefault]
      /\ \A d \in Callers \ {c} : call'[d] = call[d]
  BY DEF StartAssign, SubscriptionTypeOK, Callers
<1> QED
  BY <1>1 DEF Rest, NoRow

LEMMA NextDates ==
    SubscriptionTypeOK /\ CallInv /\ DateInv /\ [SubscriptionNext]_subscriptionVars => DateInv'
<1> SUFFICES ASSUME SubscriptionTypeOK, CallInv, DateInv, [SubscriptionNext]_subscriptionVars
             PROVE  DateInv'
  OBVIOUS
<1> USE DEF Callers
<1>0. /\ now \in Nat /\ now' \in Nat /\ now <= now'
      /\ \A s \in Subs : row[s].start \in Int /\ row[s].start <= now
      /\ \A c \in Callers : /\ call[c].at \in Int /\ call[c].own.start \in Int
                            /\ call[c].old.start \in Int /\ Dated(call[c])
  <2>1. now' = now \/ now' = now + 1
    BY DEF SubscriptionNext, Tick, SwitchDefault, HookStep, RequestStep, GatewaySends, CallFails,
       Deliver, ReadCurrent, RefundOld, ExpireOld, SaveOwn, SaveDefault, StartCheckout, StartAssign,
       SavePending, AssignDefault
  <2>2. ASSUME NEW c \in Callers
        PROVE  call[c].at \in Int /\ call[c].own.start \in Int /\ call[c].old.start \in Int
    BY CallFields DEF Row
  <2>3. ASSUME NEW s \in Subs PROVE row[s].start \in Int
    BY DEF SubscriptionTypeOK, Row
  <2>4. now \in Nat
    BY DEF SubscriptionTypeOK
  <2> QED
    BY <2>1, <2>2, <2>3, <2>4 DEF DateInv
<1>1. ASSUME NEW s \in Subs PROVE row'[s].start <= now'
  <2>0. row \in [Subs -> Row]
    BY DEF SubscriptionTypeOK
  <2>1. ASSUME NEW c \in Requests, NEW t \in Subs, AssignDefault(c, t) PROVE row'[s].start <= now'
    BY <1>0, <2>0, <2>1 DEF AssignDefault
  <2>2. ASSUME NEW c \in Requests, NEW t \in Subs, SavePending(c, t) PROVE row'[s].start <= now'
    BY <1>0, <2>0, <2>2 DEF SavePending, Dated
  <2>3. ASSUME NEW c \in Hooks, NEW t \in Subs, SaveDefault(c, t) PROVE row'[s].start <= now'
    BY <1>0, <2>0, <2>3 DEF SaveDefault, Dated
  <2>4. ASSUME NEW c \in Hooks, ExpireOld(c) PROVE row'[s].start <= now'
    <3> DEFINE r == [call[c].old EXCEPT !.status = "EXPIRED", !.end = call[c].at]
    <3>1. r.start = call[c].old.start
      BY ExpiredFields
    <3>2. row'[s] = r \/ row'[s] = row[s]
      BY <2>0, <2>4 DEF ExpireOld
    <3> HIDE DEF r
    <3> QED
      BY <1>0, <3>1, <3>2 DEF Dated
  <2>5. ASSUME NEW c \in Hooks, SaveOwn(c) PROVE row'[s].start <= now'
    <3>1. row'[s] = OwnRow(c) \/ row'[s] = row[s]
      BY <2>0, <2>5 DEF SaveOwn
    <3>2. OwnRow(c).start = call[c].at \/ OwnRow(c).start = call[c].own.start
      BY OwnFields
    <3> QED
      BY <1>0, <3>1, <3>2 DEF Dated
  <2>6. ASSUME UNCHANGED row PROVE row'[s].start <= now'
    BY <1>0, <2>6
  <2> QED
    BY <2>1, <2>2, <2>3, <2>4, <2>5, <2>6 DEF SubscriptionNext, HookStep, RequestStep, Tick,
       SwitchDefault, GatewaySends, CallFails, Deliver, ReadCurrent, RefundOld, StartCheckout, StartAssign
\* Only one call changes.
<1>a. ASSUME NEW c \in Callers, \A d \in Callers \ {c} : call'[d] = call[d],
             call'[c].at \in {0, call[c].at, now}, call'[c].own.start <= now, call'[c].old.start <= now
      PROVE  \A d \in Callers : Dated(call[d])'
  <2>1. ASSUME NEW d \in Callers PROVE Dated(call[d])'
    <3>1. CASE d = c
      <4>1. call'[c].own.start \in Int /\ call'[c].old.start \in Int
        BY NextSubscriptionType, CallFields DEF SubscriptionTypeOK, Row, Call
      <4> QED
        BY <1>0, <1>a, <3>1, <4>1 DEF Dated
    <3>2. CASE d # c
      BY <1>0, <1>a, <3>2 DEF Dated
    <3> QED
      BY <3>1, <3>2
  <2> QED
    BY <2>1
<1>r. ASSUME NEW c \in Callers, NEW pc, call' = [call EXCEPT ![c] = Rest(pc)]
      PROVE  \A d \in Callers : Dated(call[d])'
  <2>1. /\ call'[c].at = 0 /\ call'[c].own.start = 0 /\ call'[c].old.start = 0
        /\ \A d \in Callers \ {c} : call'[d] = call[d]
    BY <1>r, RestFields
  <2>2. 0 <= now
    BY <1>0
  <2> QED
    BY <1>a, <2>1, <2>2
<1>g. ASSUME NEW c \in Callers, NEW pc, Goto(c, pc) PROVE \A d \in Callers : Dated(call[d])'
  <2>1. call[c].own.start <= now /\ call[c].old.start <= now
    BY <1>0 DEF Dated
  <2> QED
    BY <1>g, <1>a, <2>1, GotoFields
<1>u. ASSUME UNCHANGED call PROVE \A d \in Callers : Dated(call[d])'
  BY <1>0, <1>u DEF Dated
<1>2. ASSUME NEW c \in Hooks, NEW s \in Subs, NEW kind \in Kinds, Deliver(c, s, kind)
      PROVE  \A d \in Callers : Dated(call[d])'
  <2>1. CASE call' = call
    BY <1>u, <2>1
  <2>2. CASE call' # call
    <3>1. /\ call'[c].own = row[s] /\ call'[c].at = now /\ call'[c].old.start = 0
          /\ \A d \in Callers \ {c} : call'[d] = call[d]
      BY <1>2, <2>2, DeliverFields
    <3> QED
      BY <1>0, <1>a, <3>1
  <2> QED
    BY <2>1, <2>2
<1>3. ASSUME NEW c \in Hooks, NEW s \in Subs \cup {NoSub}, ReadCurrent(c, s)
      PROVE  \A d \in Callers : Dated(call[d])'
  <2>1. call[c].own.start <= now
    BY <1>0 DEF Dated
  <2> QED
    BY <1>0, <1>3, <1>a, <1>g, <2>1, ReadFields
<1>4. ASSUME NEW c \in Requests, NEW p \in PaidPlans, StartCheckout(c, p)
      PROVE  \A d \in Callers : Dated(call[d])'
  BY <1>0, <1>4, <1>a, CheckoutFields
<1>5. ASSUME NEW c \in Requests, StartAssign(c) PROVE \A d \in Callers : Dated(call[d])'
  BY <1>0, <1>5, <1>a, AssignFields
<1>6. ASSUME NEW c \in Hooks, HookStep(c) PROVE \A d \in Callers : Dated(call[d])'
  BY <1>2, <1>3, <1>6, <1>r, <1>g DEF HookStep, RefundOld, ExpireOld, SaveOwn, SaveDefault, Answer
<1>7. ASSUME NEW c \in Requests, RequestStep(c) PROVE \A d \in Callers : Dated(call[d])'
  BY <1>4, <1>5, <1>7, <1>r DEF RequestStep, SavePending, AssignDefault
<1>8. ASSUME \/ Tick \/ SwitchDefault \/ UNCHANGED subscriptionVars
             \/ \E s \in Subs, kind \in Kinds : GatewaySends(s, kind)
             \/ \E c \in Hooks \cup Requests : CallFails(c)
      PROVE  \A d \in Callers : Dated(call[d])'
  BY <1>8, <1>u, <1>r DEF Tick, SwitchDefault, GatewaySends, CallFails
<1> QED
  BY <1>1, <1>6, <1>7, <1>8 DEF SubscriptionNext, DateInv

\* While calls do not overlap, each works on true copies.
LEMMA NextAlone ==
    /\ SubscriptionTypeOK /\ PaidInv /\ DateInv /\ AloneInv /\ [SubscriptionNext]_subscriptionVars
    => AloneInv'
<1> SUFFICES ASSUME SubscriptionTypeOK, PaidInv, DateInv, AloneInv,
                    [SubscriptionNext]_subscriptionVars, ~mixed'
             PROVE  /\ \A c, d \in Callers : Busy(c)' /\ Busy(d)' => c = d
                    /\ \A c \in Callers : Accurate(call[c])'
  BY DEF AloneInv
<1> DEFINE Goal == /\ \A c, d \in Callers : Busy(c)' /\ Busy(d)' => c = d
                   /\ \A c \in Callers : Accurate(call[c])'
<1> USE DEF HookPcs
<1>0. /\ \A c \in Hooks : c \in Callers
      /\ \A c \in Requests : c \in Callers
      /\ \A c \in Callers : Sound(c, call[c])
      /\ row \in [Subs -> Row]
      /\ \A s \in Subs : row[s].start <= now
  BY DEF Callers, PaidInv, CallInv, SubscriptionTypeOK, DateInv
<1>1. /\ \A c, d \in Callers : Busy(c) /\ Busy(d) => c = d
      /\ \A c \in Callers : Accurate(call[c])
  BY MixedStays DEF AloneInv
\* The only call there is steps.
<1>a. ASSUME NEW c \in Callers, \A d \in Callers \ {c} : call'[d] = call[d],
             Busy(c) \/ ~Overlaps(c), Accurate(call[c])'
      PROVE  Goal
  <2>1. ASSUME NEW d \in Callers \ {c} PROVE ~Busy(d) /\ ~Busy(d)' /\ Accurate(call[d])'
    <3>1. ~Busy(d)
      BY <1>1, <1>a DEF Overlaps, Callers
    <3> QED
      BY <1>a, <3>1 DEF Busy, Accurate
  <2> QED
    BY <1>a, <2>1
<1>r. ASSUME NEW c \in Callers, NEW pc \in {"idle", "done"}, Busy(c),
             call' = [call EXCEPT ![c] = Rest(pc)]
      PROVE  Goal
  <2>1. call'[c].pc = pc /\ \A d \in Callers \ {c} : call'[d] = call[d]
    BY <1>r, RestFields
  <2>2. Accurate(call[c])'
    BY <2>1 DEF Accurate
  <2> QED
    BY <1>r, <1>a, <2>1, <2>2
<1>u. ASSUME UNCHANGED <<call, row>> PROVE Goal
  BY <1>1, <1>u DEF Busy, Accurate
<1>m. ASSUME NEW c \in Callers, mixed' = (mixed \/ Overlaps(c)) PROVE ~Overlaps(c)
  BY <1>m, Zenon
<1>2. ASSUME NEW c \in Hooks, NEW s \in Subs, NEW kind \in Kinds, Deliver(c, s, kind) PROVE Goal
  <2>1. UNCHANGED row /\ ~Overlaps(c)
    BY <1>0, <1>2, <1>m DEF Deliver
  <2>2. CASE call' = call
    BY <1>u, <2>1, <2>2
  <2>3. CASE call' # call
    <3>1. /\ call'[c].pc = CASE kind = "ACTIVE" -> "active" [] kind = "EXPIRED" -> "default"
                             [] OTHER -> "own"
          /\ call'[c].sub = s /\ call'[c].own = row[s] /\ call'[c].at = now
          /\ \A d \in Callers \ {c} : call'[d] = call[d]
      BY <1>2, <2>3, DeliverFields
    <3>2. call'[c].pc \in {"active", "default", "own"}
      BY <3>1
    <3>3. Accurate(call[c])'
      BY <1>0, <2>1, <3>1, <3>2 DEF Accurate
    <3> QED
      BY <1>0, <1>a, <2>1, <3>1, <3>3
  <2> QED
    BY <2>2, <2>3
<1>3. ASSUME NEW c \in Hooks, NEW s \in Subs \cup {NoSub}, ReadCurrent(c, s) PROVE Goal
  <2>1. UNCHANGED row /\ Busy(c) /\ call[c].pc = "active" /\ Accurate(call[c])
    BY <1>0, <1>1, <1>3 DEF ReadCurrent, Busy
  <2>2. CASE Goto(c, "own")
    <3>1. Accurate(call[c])'
      BY <1>0, <2>1, <2>2, GotoFields DEF Accurate
    <3> QED
      BY <1>0, <1>a, <2>1, <2>2, <3>1, GotoFields
  <2>3. CASE ~Goto(c, "own")
    <3>1. /\ call'[c].pc = "refund" /\ call'[c].sub = call[c].sub
          /\ call'[c].own = call[c].own /\ call'[c].at = call[c].at
          /\ call'[c].oldSub = s /\ call'[c].old = row[s]
          /\ \A d \in Callers \ {c} : call'[d] = call[d]
      BY <1>3, <2>3, ReadFields
    <3>2. Accurate(call[c])'
      BY <2>1, <3>1 DEF Accurate
    <3> QED
      BY <1>0, <1>a, <2>1, <3>1, <3>2
  <2> QED
    BY <2>2, <2>3
<1>4. ASSUME NEW c \in Hooks, RefundOld(c) PROVE Goal
  <2>1. UNCHANGED row /\ Busy(c) /\ call[c].pc = "refund" /\ Accurate(call[c])
    BY <1>0, <1>1, <1>4 DEF RefundOld, Busy
  <2>2. CASE Goto(c, "old")
    <3>1. Accurate(call[c])'
      BY <1>0, <2>1, <2>2, GotoFields DEF Accurate
    <3> QED
      BY <1>0, <1>a, <2>1, <2>2, <3>1, GotoFields
  <2>3. CASE call' = [call EXCEPT ![c] = Rest("idle")]
    BY <1>0, <1>r, <2>1, <2>3
  <2> QED
    BY <1>4, <2>2, <2>3 DEF RefundOld
\* The replaced row is another than the own one.
<1>5. ASSUME NEW c \in Hooks, ExpireOld(c) PROVE Goal
  <2> DEFINE r == [call[c].old EXCEPT !.status = "EXPIRED", !.end = call[c].at]
  <2>1. /\ Busy(c) /\ call[c].pc = "old" /\ Accurate(call[c]) /\ Sound(c, call[c])
        /\ Goto(c, "own")
    BY <1>0, <1>1, <1>5 DEF ExpireOld, Busy
  <2>2. r.start = call[c].old.start
    BY <1>0, ExpiredFields
  <2>3. \A s \in Subs : row'[s] = IF s = call[c].oldSub THEN r ELSE row[s]
    BY <1>0, <1>5 DEF ExpireOld
  <2> HIDE DEF r
  <2>4. row'[call[c].sub] = row[call[c].sub] /\ \A s \in Subs : row'[s].start = row[s].start
    BY <2>1, <2>2, <2>3 DEF Sound, Accurate
  <2>5. Accurate(call[c])'
    BY <1>0, <2>1, <2>4, GotoFields DEF Accurate
  <2> QED
    BY <1>0, <1>a, <2>1, <2>5, GotoFields
\* A new row is another than the own one.
<1>6. ASSUME NEW c \in Hooks, NEW s \in Subs, SaveDefault(c, s) PROVE Goal
  <2>1. Busy(c) /\ call[c].pc = "default" /\ Accurate(call[c]) /\ Sound(c, call[c])
    BY <1>0, <1>1, <1>6 DEF SaveDefault, Busy
  <2>2. CASE ActiveDefault = NoPlan
    BY <1>0, <1>6, <1>r, <2>1, <2>2 DEF SaveDefault, Answer
  <2>3. CASE ActiveDefault # NoPlan
    <3>1. Goto(c, "own") /\ row[s].status = "none"
      BY <1>6, <2>3 DEF SaveDefault, Fresh
    <3>2. \A t \in Subs : row'[t] = IF t = s THEN [status |-> "ACTIVE", plan |-> DefaultPlan,
                                                   start |-> call[c].at, end |-> InfiniteEnd]
                                    ELSE row[t]
      BY <1>0, <1>6, <2>3 DEF SaveDefault
    <3>3. row'[call[c].sub] = row[call[c].sub]
      BY <2>1, <3>1, <3>2 DEF Sound, Accurate
    <3>4. call[c].at \in Int
      BY <1>0, CallFields
    <3>5. \A t \in Subs : row'[t].start <= call[c].at
      BY <2>1, <3>2, <3>4 DEF Accurate
    <3>6. Accurate(call[c])'
      BY <1>0, <2>1, <3>1, <3>3, <3>5, GotoFields DEF Accurate
    <3> QED
      BY <1>0, <1>a, <2>1, <3>1, <3>6, GotoFields
  <2> QED
    BY <2>2, <2>3
<1>7. ASSUME NEW c \in Hooks, SaveOwn(c) PROVE Goal
  BY <1>0, <1>7, <1>r DEF SaveOwn, Answer, Busy
<1>8. ASSUME NEW c \in Requests, NEW s \in Subs, SavePending(c, s) \/ AssignDefault(c, s) PROVE Goal
  BY <1>0, <1>8, <1>r DEF SavePending, AssignDefault, Busy
<1>9. ASSUME NEW c \in Callers, CallFails(c) PROVE Goal
  BY <1>9, <1>r DEF CallFails
<1>10. ASSUME NEW c \in Requests, NEW p \in PaidPlans, StartCheckout(c, p) PROVE Goal
  <2>1. ~Overlaps(c)
    BY <1>0, <1>10, <1>m DEF StartCheckout, Begins
  <2>2. Accurate(call[c])'
    BY <1>10, CheckoutFields DEF Accurate
  <2> QED
    BY <1>0, <1>10, <1>a, <2>1, <2>2, CheckoutFields
<1>11. ASSUME NEW c \in Requests, StartAssign(c) PROVE Goal
  <2>1. ~Overlaps(c)
    BY <1>0, <1>11, <1>m DEF StartAssign, Begins
  <2>2. Accurate(call[c])'
    BY <1>11, AssignFields DEF Accurate
  <2> QED
    BY <1>0, <1>11, <1>a, <2>1, <2>2, AssignFields
<1> HIDE DEF Goal
<1>12. ASSUME NEW c \in Hooks, HookStep(c) PROVE Goal
  BY <1>2, <1>3, <1>4, <1>5, <1>6, <1>7, <1>12 DEF HookStep
<1>13. ASSUME NEW c \in Requests, RequestStep(c) PROVE Goal
  BY <1>8, <1>10, <1>11, <1>13 DEF RequestStep
<1>14. ASSUME \/ Tick \/ SwitchDefault \/ UNCHANGED subscriptionVars
              \/ \E s \in Subs, kind \in Kinds : GatewaySends(s, kind)
       PROVE  Goal
  BY <1>14, <1>u DEF Tick, SwitchDefault, GatewaySends
<1>15. Goal
  BY <1>9, <1>12, <1>13, <1>14 DEF SubscriptionNext, Callers
<1> QED
  BY <1>15 DEF Goal

AloneStateInv == SubscriptionTypeOK /\ PaidInv /\ DateInv /\ AloneInv

LEMMA AloneInvariant == SubscriptionSpec => []AloneStateInv
<1>1. SubscriptionInit => DateInv /\ AloneInv
  <2> SUFFICES ASSUME SubscriptionInit PROVE DateInv /\ AloneInv
    OBVIOUS
  <2>1. \A c \in Callers : /\ call[c].pc = "idle" /\ call[c].at = 0
                           /\ call[c].own.start = 0 /\ call[c].old.start = 0
    BY DEF SubscriptionInit, Callers, Rest, NoRow
  <2>2. \A s \in Subs : row[s].start = 0
    BY DEF SubscriptionInit, NoRow
  <2>3. DateInv
    BY <2>1, <2>2 DEF SubscriptionInit, DateInv, Dated
  <2>4. AloneInv
    BY <2>1 DEF AloneInv, Busy, Accurate, HookPcs
  <2> QED
    BY <2>3, <2>4
<1>2. AloneStateInv /\ [SubscriptionNext]_subscriptionVars => DateInv' /\ AloneInv'
  BY NextDates, NextAlone DEF AloneStateInv, PaidInv
<1> QED
  BY <1>1, <1>2, PaidInvariant, PTL DEF SubscriptionSpec, AloneStateInv

\* An expired row stays expired, as long as calls do not overlap.
LEMMA ExpiredStays ==
    ASSUME AloneStateInv, [SubscriptionNext]_subscriptionVars, ~mixed', NEW s \in Subs,
           row[s].status = "EXPIRED"
    PROVE  row'[s].status = "EXPIRED"
<1>0. row \in [Subs -> Row] /\ CallInv /\ SubscriptionTypeOK
  BY DEF AloneStateInv, SubscriptionTypeOK, PaidInv
<1>1. ASSUME NEW t \in Subs, NEW r \in Row, New(t, r), row' = [row EXCEPT ![t] = r]
      PROVE  row'[s].status = "EXPIRED"
  <2>1. row'[s] = IF s = t THEN r ELSE row[s]
    BY <1>0, <1>1
  <2> QED
    BY <1>1, <2>1 DEF New
<1>2. ASSUME NEW c \in Hooks, ExpireOld(c) PROVE row'[s].status = "EXPIRED"
  <2> DEFINE r == [call[c].old EXCEPT !.status = "EXPIRED", !.end = call[c].at]
  <2>1. r.status = "EXPIRED"
    BY <1>0, ExpiredFields DEF Callers
  <2>2. row'[s] = IF s = call[c].oldSub THEN r ELSE row[s]
    BY <1>0, <1>2 DEF ExpireOld
  <2> HIDE DEF r
  <2> QED
    BY <2>1, <2>2
<1>3. ASSUME NEW c \in Hooks, SaveOwn(c) PROVE row'[s].status = "EXPIRED"
  <2>1. /\ c \in Callers /\ call[c].pc = "own" /\ Sound(c, call[c]) /\ Accurate(call[c])
    BY <1>3, MixedStays DEF SaveOwn, AloneStateInv, PaidInv, CallInv, AloneInv, Callers
  <2>2. row'[s] = IF s = call[c].sub THEN OwnRow(c) ELSE row[s]
    BY <1>0, <1>3 DEF SaveOwn
  <2>3. CASE s = call[c].sub
    <3>1. call[c].own.status = "EXPIRED" /\ call[c].kind # "ACTIVE"
      BY <2>1, <2>3 DEF Accurate, Sound, HookPcs
    <3>2. OwnRow(c).status = "EXPIRED"
      BY <1>0, <2>1, <3>1, OwnFields
    <3> QED
      BY <2>2, <2>3, <3>2
  <2> QED
    BY <2>2, <2>3
<1> QED
  BY <1>0, <1>1, <1>2, <1>3, StepRows

\* No event, however late or often it arrives, brings an expired subscription
\* back as long as calls do not overlap.
THEOREM ExpiredForGood == SubscriptionSpec => NoRevival
<1>1. AloneStateInv /\ [SubscriptionNext]_subscriptionVars =>
        [\A s \in Subs : row[s].status = "EXPIRED" /\ ~mixed' => row'[s].status = "EXPIRED"]_subscriptionVars
  BY ExpiredStays
<1> QED
  BY <1>1, AloneInvariant, PTL DEF SubscriptionSpec, NoRevival

-----------------------------------------------------------------------------
(***************************************************************************)
(* Refunds are covered                                                     *)
(***************************************************************************)
\* What was refunded is at most the price of the row, and a refunded row is
\* expired or about to be.
Refunds(s) ==
    /\ refunded[s] <= PriceOf(row[s].plan)
    /\ refunded[s] > 0 =>
          row[s].status = "EXPIRED" \/ \E c \in Hooks : call[c].pc = "old" /\ call[c].oldSub = s

RefundInv == ~mixed /\ faulty = 0 => \A s \in Subs : Refunds(s)

LEMMA NextRefunds ==
    AloneStateInv /\ RefundInv /\ [SubscriptionNext]_subscriptionVars => RefundInv'
<1> SUFFICES ASSUME AloneStateInv, RefundInv, [SubscriptionNext]_subscriptionVars, ~mixed', faulty' = 0,
                    NEW s \in Subs
             PROVE  Refunds(s)'
  BY DEF RefundInv
<1> DEFINE Expiring == \E c \in Hooks : call[c].pc = "old" /\ call[c].oldSub = s
<1>0. /\ SubscriptionTypeOK /\ SubscriptionTypeOK' /\ CallInv /\ ~mixed
      /\ row \in [Subs -> Row] /\ refunded \in [Subs -> Nat]
      /\ \A c \in Hooks : c \in Callers
      /\ \A c \in Requests : c \in Callers
      /\ \A c \in Callers : Sound(c, call[c]) /\ Accurate(call[c])
      /\ \A c, d \in Callers : Busy(c) /\ Busy(d) => c = d
      /\ faulty \in Nat
  BY MixedStays, NextSubscriptionType
  DEF AloneStateInv, SubscriptionTypeOK, PaidInv, CallInv, AloneInv, Callers
<1>1. faulty = 0 /\ ~ \E c \in Callers : CallFails(c)
  <2>1. ASSUME NEW c \in Callers, CallFails(c) PROVE FALSE
    BY <1>0, <2>1 DEF CallFails
  <2>2. UNCHANGED faulty
    BY <2>1 DEF SubscriptionNext, Tick, SwitchDefault, HookStep, RequestStep, GatewaySends, Callers,
       Deliver, ReadCurrent, RefundOld, ExpireOld, SaveOwn, SaveDefault, StartCheckout, StartAssign,
       SavePending, AssignDefault
  <2> QED
    BY <2>1, <2>2
<1>2. /\ refunded[s] \in Nat /\ refunded[s] <= PriceOf(row[s].plan)
      /\ refunded[s] > 0 => row[s].status = "EXPIRED" \/ Expiring
  BY <1>0, <1>1 DEF RefundInv, Refunds
\* Refunds were made only for stored rows, and these keep their plans.
<1>3. refunded[s] <= PriceOf(row'[s].plan)
  <2>1. CASE row[s].status = "none"
    <3>1. Expiring => row[s].status = "ACTIVE"
      BY <1>0 DEF Sound, Accurate, HookPcs
    <3>2. refunded[s] = 0
      BY <1>2, <2>1, <3>1
    <3> QED
      BY <3>2, PriceType
  <2>2. CASE row[s].status # "none"
    <3>1. row'[s].plan = row[s].plan
      BY <2>2, PlansStay DEF AloneStateInv
    <3> QED
      BY <1>2, <3>1
  <2> QED
    BY <2>1, <2>2
<1>4. row[s].status = "EXPIRED" => row'[s].status = "EXPIRED"
  BY ExpiredStays
\* Steps that refund nothing and expire nothing.
<1>a. ASSUME UNCHANGED refunded, Expiring => Expiring' \/ row'[s].status = "EXPIRED"
      PROVE  Refunds(s)'
  BY <1>2, <1>3, <1>4, <1>a DEF Refunds
<1>b. ASSUME UNCHANGED refunded, NEW c \in Callers, \A d \in Callers \ {c} : call'[d] = call[d],
             call[c].pc # "old"
      PROVE  Refunds(s)'
  <2>1. Expiring => Expiring'
    BY <1>0, <1>b
  <2> QED
    BY <1>a, <1>b, <2>1
<1>r. ASSUME UNCHANGED refunded, NEW c \in Callers, NEW pc, call[c].pc # "old",
             call' = [call EXCEPT ![c] = Rest(pc)]
      PROVE  Refunds(s)'
  BY <1>0, <1>b, <1>r, RestFields
<1>5. ASSUME NEW c \in Hooks, NEW t \in Subs, NEW kind \in Kinds, Deliver(c, t, kind) PROVE Refunds(s)'
  <2>1. UNCHANGED refunded /\ call[c].pc = "idle"
    BY <1>5 DEF Deliver
  <2>2. \A d \in Callers \ {c} : call'[d] = call[d]
    BY <1>0, <1>5, DeliverFields
  <2> QED
    BY <1>0, <1>b, <2>1, <2>2
<1>6. ASSUME NEW c \in Hooks, NEW t \in Subs \cup {NoSub}, ReadCurrent(c, t) PROVE Refunds(s)'
  <2>1. UNCHANGED refunded /\ call[c].pc = "active"
    BY <1>6 DEF ReadCurrent
  <2>2. \A d \in Callers \ {c} : call'[d] = call[d]
    BY <1>0, <1>6, ReadFields, GotoFields
  <2> QED
    BY <1>0, <1>b, <2>1, <2>2
\* The refund: the row was in force, so nothing was refunded for it before.
<1>7. ASSUME NEW c \in Hooks, RefundOld(c) PROVE Refunds(s)'
  <2> DEFINE amount == RemainingRefund(call[c].old, PriceOf(call[c].old.plan), call[c].at)
  <2>1. /\ call[c].pc = "refund" /\ Sound(c, call[c]) /\ Accurate(call[c]) /\ c \in Callers
        /\ UNCHANGED row
    BY <1>0, <1>7 DEF RefundOld
  <2>2. CASE UNCHANGED refunded /\ call' = [call EXCEPT ![c] = Rest("idle")]
    BY <1>r, <2>1, <2>2
  <2>3. CASE refunded' = [refunded EXCEPT ![call[c].oldSub] = @ + amount] /\ Goto(c, "old")
    <3>1. amount \in Nat /\ amount <= PriceOf(row[call[c].oldSub].plan)
      <4>1. /\ call[c].old \in Row /\ call[c].at \in 0..Horizon
            /\ PriceOf(call[c].old.plan) \in Nat
        BY <1>0, <2>1, CallFields, PriceType
      <4>2. call[c].old.start <= call[c].at /\ call[c].old = row[call[c].oldSub]
        BY <2>1 DEF Sound, Accurate, HookPcs
      <4> QED
        BY <4>1, <4>2, RefundBounds
    <3> HIDE DEF amount
    <3>2. CASE s = call[c].oldSub
      <4>1. row[s].status = "ACTIVE"
        BY <2>1, <3>2 DEF Sound, Accurate, HookPcs
      <4>2. ~Expiring
        BY <1>0, <2>1 DEF Busy
      <4>3. refunded[s] = 0
        BY <1>2, <4>1, <4>2
      <4>4. refunded'[s] = amount
        BY <1>0, <2>3, <3>1, <3>2, <4>3
      <4>5. Expiring'
        BY <2>1, <2>3, <3>2, <1>0, GotoFields
      <4> QED
        BY <2>1, <3>1, <3>2, <4>4, <4>5 DEF Refunds
    <3>3. CASE s # call[c].oldSub
      <4>1. refunded'[s] = refunded[s]
        BY <1>0, <2>3, <3>3
      <4>2. Expiring => Expiring'
        <5>1. \A d \in Callers \ {c} : call'[d] = call[d]
          BY <1>0, <2>1, <2>3, GotoFields
        <5> QED
          BY <1>0, <2>1, <5>1
      <4> QED
        BY <1>2, <1>3, <1>4, <4>1, <4>2 DEF Refunds
    <3> QED
      BY <3>2, <3>3
  <2> QED
    BY <1>7, <2>2, <2>3 DEF RefundOld
<1>8. ASSUME NEW c \in Hooks, ExpireOld(c) PROVE Refunds(s)'
  <2> DEFINE r == [call[c].old EXCEPT !.status = "EXPIRED", !.end = call[c].at]
  <2>1. r.status = "EXPIRED" /\ call[c].pc = "old" /\ UNCHANGED refunded /\ Busy(c)
    BY <1>0, <1>8, ExpiredFields DEF ExpireOld, Busy
  <2>2. row'[s] = IF s = call[c].oldSub THEN r ELSE row[s]
    BY <1>0, <1>8 DEF ExpireOld
  <2> HIDE DEF r
  <2>3. Expiring => s = call[c].oldSub
    BY <1>0, <2>1 DEF Busy
  <2> QED
    BY <1>a, <2>1, <2>2, <2>3
<1>9. ASSUME NEW c \in Hooks, NEW t \in Subs, SaveDefault(c, t) PROVE Refunds(s)'
  <2>1. UNCHANGED refunded /\ call[c].pc = "default"
    BY <1>9 DEF SaveDefault
  <2>2. \A d \in Callers \ {c} : call'[d] = call[d]
    BY <1>0, <1>9, GotoFields, RestFields DEF SaveDefault, Answer
  <2> QED
    BY <1>0, <1>b, <2>1, <2>2
<1>10. ASSUME NEW c \in Hooks, SaveOwn(c) PROVE Refunds(s)'
  BY <1>0, <1>10, <1>r DEF SaveOwn, Answer
<1>11. ASSUME NEW c \in Requests, NEW t \in Subs, SavePending(c, t) \/ AssignDefault(c, t) PROVE Refunds(s)'
  BY <1>0, <1>11, <1>r DEF SavePending, AssignDefault
<1>12. ASSUME NEW c \in Requests, NEW p \in PaidPlans, StartCheckout(c, p) PROVE Refunds(s)'
  <2>1. UNCHANGED refunded /\ call[c].pc = "idle"
    BY <1>12 DEF StartCheckout, Begins
  <2> QED
    BY <1>0, <1>12, <1>b, <2>1, CheckoutFields
<1>13. ASSUME NEW c \in Requests, StartAssign(c) PROVE Refunds(s)'
  <2>1. UNCHANGED refunded /\ call[c].pc = "idle"
    BY <1>13 DEF StartAssign, Begins
  <2> QED
    BY <1>0, <1>13, <1>b, <2>1, AssignFields
<1>14. ASSUME UNCHANGED <<refunded, call>> PROVE Refunds(s)'
  BY <1>a, <1>14
<1> HIDE DEF Expiring
<1>15. ASSUME NEW c \in Hooks, HookStep(c) PROVE Refunds(s)'
  BY <1>5, <1>6, <1>7, <1>8, <1>9, <1>10, <1>15 DEF HookStep
<1>16. ASSUME NEW c \in Requests, RequestStep(c) PROVE Refunds(s)'
  BY <1>11, <1>12, <1>13, <1>16 DEF RequestStep
<1> QED
  BY <1>1, <1>14, <1>15, <1>16 DEF SubscriptionNext, Callers, Tick, SwitchDefault, GatewaySends

LEMMA RefundInvariant == SubscriptionSpec => []RefundInv
<1>1. SubscriptionInit => RefundInv
  BY PriceType DEF SubscriptionInit, RefundInv, Refunds
<1> QED
  BY <1>1, AloneInvariant, NextRefunds, PTL DEF SubscriptionSpec

\* With one call at a time and no failures, however often the gateway repeats
\* its events, no subscription is refunded more than its price.
THEOREM RefundsCovered == SubscriptionSpec => []RefundCovered
<1>1. RefundInv => RefundCovered
  BY DEF RefundInv, Refunds, RefundCovered
<1> QED
  BY <1>1, RefundInvariant, PTL

-----------------------------------------------------------------------------
(***************************************************************************)
(* Never without a subscription                                            *)
(***************************************************************************)
\* A webhook call about to put its own subscription in force, or to end it.
Activating == \E c \in Hooks : call[c].pc = "own" /\ call[c].kind = "ACTIVE"
InForce(s) == row[s].status = "ACTIVE"

ForceInv ==
    ~mixed /\ faulty = 0 /\ switches = 0 /\ defaultActive =>
        /\ Activating \/ \E s \in Subs : InForce(s)
        /\ \A c \in Hooks : call[c].pc = "own" /\ call[c].kind = "EXPIRED" =>
              \E s \in Subs \ {call[c].sub} : InForce(s)

LEMMA NextForce ==
    AloneStateInv /\ ForceInv /\ [SubscriptionNext]_subscriptionVars => ForceInv'
<1> DEFINE Goal == /\ Activating' \/ \E s \in Subs : InForce(s)'
                   /\ \A c \in Hooks : call'[c].pc = "own" /\ call'[c].kind = "EXPIRED" =>
                         \E s \in Subs \ {call'[c].sub} : InForce(s)'
<1> SUFFICES ASSUME AloneStateInv, ForceInv, [SubscriptionNext]_subscriptionVars,
                    ~mixed', faulty' = 0, switches' = 0, defaultActive'
             PROVE  Goal
  BY DEF ForceInv
<1>0. /\ SubscriptionTypeOK /\ CallInv /\ ~mixed
      /\ row \in [Subs -> Row]
      /\ \A c \in Hooks : c \in Callers
      /\ \A c \in Requests : c \in Callers
      /\ \A c \in Callers : Sound(c, call[c]) /\ Accurate(call[c])
      /\ \A c, d \in Callers : Busy(c) /\ Busy(d) => c = d
  BY MixedStays
  DEF AloneStateInv, SubscriptionTypeOK, PaidInv, CallInv, AloneInv, Callers
<1>n. faulty \in Nat /\ switches \in Nat
  BY <1>0 DEF SubscriptionTypeOK
<1>1. faulty = 0 /\ switches = 0 /\ UNCHANGED defaultActive
      /\ ~SwitchDefault /\ ~ \E c \in Callers : CallFails(c)
  <2>1. ASSUME NEW c \in Callers, CallFails(c) PROVE FALSE
    BY <1>n, <2>1 DEF CallFails
  <2>2. ASSUME SwitchDefault PROVE FALSE
    BY <1>n, <2>2 DEF SwitchDefault
  <2>3. UNCHANGED <<faulty, switches, defaultActive>>
    BY <2>1, <2>2 DEF SubscriptionNext, Tick, HookStep, RequestStep, GatewaySends, Callers,
       Deliver, ReadCurrent, RefundOld, ExpireOld, SaveOwn, SaveDefault, StartCheckout, StartAssign,
       SavePending, AssignDefault
  <2> QED
    BY <2>1, <2>2, <2>3
<1>2. defaultActive
  BY <1>1, Zenon
<1>3. /\ Activating \/ \E s \in Subs : InForce(s)
      /\ \A c \in Hooks : call[c].pc = "own" /\ call[c].kind = "EXPIRED" =>
            \E s \in Subs \ {call[c].sub} : InForce(s)
  BY <1>0, <1>1, <1>2 DEF ForceInv
\* The only call there is steps.
<1>a. ASSUME NEW c \in Callers, \A d \in Callers \ {c} : call'[d] = call[d], Busy(c) \/ ~Overlaps(c)
      PROVE  \A d \in Hooks \ {c} : ~Busy(d) /\ call[d].pc # "own" /\ call'[d].pc # "own"
  BY <1>0, <1>a DEF Busy, Overlaps, Callers
<1>b. ASSUME NEW c \in Callers, Busy(c) \/ ~Overlaps(c), ~(call[c].pc = "own" /\ call[c].kind = "ACTIVE")
      PROVE  \E s \in Subs : InForce(s)
  <2>1. \A d \in Hooks \ {c} : ~Busy(d)
    BY <1>0, <1>b DEF Overlaps, Callers
  <2> QED
    BY <1>3, <1>b, <2>1 DEF Activating, Busy
<1>r. ASSUME NEW c \in Callers, Busy(c) \/ ~Overlaps(c), \E s \in Subs : InForce(s)',
             \A d \in Callers \ {c} : call'[d] = call[d], call'[c].pc # "own"
      PROVE  Goal
  <2>1. \A d \in Hooks : call'[d].pc # "own"
    BY <1>a, <1>r
  <2> QED
    BY <1>r, <2>1
<1>m. ASSUME NEW c \in Callers, mixed' = (mixed \/ Overlaps(c)) PROVE ~Overlaps(c)
  BY <1>m, Zenon
<1>u. ASSUME UNCHANGED <<call, row>> PROVE Goal
  BY <1>3, <1>u DEF Activating, InForce
<1>4. ASSUME NEW c \in Hooks, NEW s \in Subs, NEW kind \in Kinds, Deliver(c, s, kind) PROVE Goal
  <2>1. UNCHANGED row /\ ~Overlaps(c) /\ call[c].pc = "idle"
    BY <1>0, <1>4, <1>m DEF Deliver
  <2>2. CASE call' = call
    BY <1>u, <2>1, <2>2
  <2>3. CASE call' # call
    <3>1. /\ call'[c].pc = CASE kind = "ACTIVE" -> "active" [] kind = "EXPIRED" -> "default"
                             [] OTHER -> "own"
          /\ call'[c].kind = kind
          /\ \A d \in Callers \ {c} : call'[d] = call[d]
      BY <1>4, <1>0, <2>3, DeliverFields
    <3>2. ~(call'[c].pc = "own" /\ call'[c].kind = "EXPIRED")
      BY <3>1
    <3>3. \E t \in Subs : InForce(t)
      BY <1>0, <1>b, <2>1
    <3>4. \E t \in Subs : InForce(t)'
      BY <2>1, <3>3 DEF InForce
    <3> QED
      BY <1>0, <1>a, <2>1, <3>1, <3>2, <3>4
  <2> QED
    BY <2>2, <2>3
<1>5. ASSUME NEW c \in Hooks, Goto(c, "own"), Busy(c), call[c].kind = "ACTIVE" PROVE Goal
  <2>1. call'[c].pc = "own" /\ call'[c].kind = "ACTIVE" /\ \A d \in Callers \ {c} : call'[d] = call[d]
    BY <1>0, <1>5, GotoFields
  <2>2. Activating'
    BY <2>1 DEF Activating
  <2>3. \A d \in Hooks \ {c} : call'[d].pc # "own"
    BY <1>0, <1>5, <1>a, <2>1
  <2> QED
    BY <2>1, <2>2, <2>3
<1>6. ASSUME NEW c \in Hooks, NEW s \in Subs \cup {NoSub}, ReadCurrent(c, s) PROVE Goal
  <2>1. Busy(c) /\ call[c].pc = "active" /\ call[c].kind = "ACTIVE" /\ UNCHANGED row
    BY <1>0, <1>6 DEF ReadCurrent, Busy, Sound
  <2>2. CASE Goto(c, "own")
    BY <1>5, <2>1, <2>2
  <2>3. CASE ~Goto(c, "own")
    <3>1. call'[c].pc = "refund" /\ \A d \in Callers \ {c} : call'[d] = call[d]
      BY <1>0, <1>6, <2>3, ReadFields
    <3>2. \E t \in Subs : InForce(t)
      BY <1>0, <1>b, <2>1
    <3>3. \E t \in Subs : InForce(t)'
      BY <2>1, <3>2 DEF InForce
    <3> QED
      BY <1>0, <1>r, <2>1, <3>1, <3>3
  <2> QED
    BY <2>2, <2>3
<1>7. ASSUME NEW c \in Hooks, RefundOld(c) PROVE Goal
  <2>1. Busy(c) /\ call[c].pc = "refund" /\ UNCHANGED row
    BY <1>7 DEF RefundOld, Busy
  <2>2. call'[c].pc # "own" /\ \A d \in Callers \ {c} : call'[d] = call[d]
    <3>1. CASE Goto(c, "old")
      BY <1>0, <3>1, GotoFields
    <3>2. CASE call' = [call EXCEPT ![c] = Rest("idle")]
      <4>1. call'[c].pc = "idle" /\ \A d \in Callers \ {c} : call'[d] = call[d]
        BY <1>0, <3>2, RestFields
      <4> QED
        BY <4>1
    <3> QED
      BY <1>7, <3>1, <3>2 DEF RefundOld
  <2>3. \E t \in Subs : InForce(t)
    BY <1>0, <1>b, <2>1
  <2>4. \E t \in Subs : InForce(t)'
    BY <2>1, <2>3 DEF InForce
  <2> QED
    BY <1>0, <1>r, <2>1, <2>2, <2>4
<1>8. ASSUME NEW c \in Hooks, ExpireOld(c) PROVE Goal
  BY <1>0, <1>5, <1>8 DEF ExpireOld, Busy, Sound
<1>9. ASSUME NEW c \in Hooks, NEW s \in Subs, SaveDefault(c, s) PROVE Goal
  <2>1. /\ Busy(c) /\ call[c].pc = "default" /\ Sound(c, call[c]) /\ Accurate(call[c])
        /\ ActiveDefault # NoPlan
    BY <1>0, <1>2, <1>9, SubscriptionAssumption DEF SaveDefault, Busy, ActiveDefault
  <2>2. Goto(c, "own") /\ row[s].status = "none"
    BY <1>9, <2>1 DEF SaveDefault, Fresh
  <2>3. row'[s] = [status |-> "ACTIVE", plan |-> DefaultPlan, start |-> call[c].at, end |-> InfiniteEnd]
    BY <1>0, <1>9, <2>1 DEF SaveDefault
  <2>4. InForce(s)'
    BY <2>3 DEF InForce
  <2>5. s # call[c].sub
    BY <2>1, <2>2 DEF Sound, Accurate, HookPcs
  <2>6. call'[c].sub = call[c].sub /\ \A d \in Callers \ {c} : call'[d] = call[d]
    BY <1>0, <2>2, GotoFields
  <2>7. \A d \in Hooks \ {c} : call'[d].pc # "own"
    BY <1>0, <1>a, <2>1, <2>6
  <2> QED
    BY <2>4, <2>5, <2>6, <2>7
<1>10. ASSUME NEW c \in Hooks, SaveOwn(c) PROVE Goal
  <2>1. /\ Busy(c) /\ call[c].pc = "own" /\ Sound(c, call[c]) /\ Accurate(call[c]) /\ c \in Callers
        /\ call' = [call EXCEPT ![c] = Rest("idle")]
    BY <1>0, <1>10 DEF SaveOwn, Busy, Answer
  <2>2. call'[c].pc = "idle" /\ \A d \in Callers \ {c} : call'[d] = call[d]
    BY <1>0, <2>1, RestFields
  <2>3. \A t \in Subs : row'[t] = IF t = call[c].sub THEN OwnRow(c) ELSE row[t]
    BY <1>0, <1>10 DEF SaveOwn
  <2>4. \E t \in Subs : InForce(t)'
    <3>1. CASE call[c].kind = "ACTIVE"
      <4>1. OwnRow(c).status = "ACTIVE" /\ call[c].sub \in Subs
        BY <1>0, <2>1, <3>1, OwnFields DEF Sound, HookPcs
      <4> QED
        BY <2>3, <4>1 DEF InForce
    <3>2. CASE call[c].kind = "EXPIRED"
      <4>1. PICK t \in Subs \ {call[c].sub} : InForce(t)
        BY <1>3, <2>1, <3>2
      <4> QED
        BY <2>3, <4>1 DEF InForce
    <3>3. CASE call[c].kind \notin {"ACTIVE", "EXPIRED"}
      <4>1. PICK t \in Subs : InForce(t)
        BY <1>b, <2>1, <3>3
      <4>2. OwnRow(c) = row[call[c].sub]
        BY <1>0, <2>1, <3>3, OwnFields DEF Accurate, HookPcs
      <4> QED
        BY <2>3, <4>1, <4>2 DEF InForce
    <3> QED
      BY <3>1, <3>2, <3>3
  <2> QED
    BY <1>r, <2>1, <2>2, <2>4
<1>11. ASSUME NEW c \in Requests, NEW s \in Subs, SavePending(c, s) \/ AssignDefault(c, s) PROVE Goal
  <2>1. /\ Busy(c) /\ call' = [call EXCEPT ![c] = Rest("done")] /\ row[s].status = "none"
        /\ call[c].pc # "own" /\ \A t \in Subs \ {s} : row'[t] = row[t]
    BY <1>0, <1>11 DEF SavePending, AssignDefault, Busy, Fresh
  <2>2. PICK t \in Subs : InForce(t)
    BY <1>0, <1>b, <2>1
  <2>3. InForce(t)'
    BY <2>1, <2>2 DEF InForce
  <2>4. call'[c].pc = "done" /\ \A d \in Callers \ {c} : call'[d] = call[d]
    BY <1>0, <2>1, RestFields
  <2> QED
    BY <1>0, <1>r, <2>1, <2>3, <2>4
<1>12. ASSUME NEW c \in Requests,
              (\E p \in PaidPlans : StartCheckout(c, p)) \/ StartAssign(c)
       PROVE  Goal
  <2>1. ~Overlaps(c) /\ UNCHANGED row /\ call[c].pc = "idle"
    BY <1>0, <1>12, <1>m DEF StartCheckout, StartAssign, Begins
  <2>2. call'[c].pc # "own" /\ \A d \in Callers \ {c} : call'[d] = call[d]
    BY <1>0, <1>12, CheckoutFields, AssignFields
  <2>3. PICK t \in Subs : InForce(t)
    BY <1>0, <1>b, <2>1
  <2>4. InForce(t)'
    BY <2>1, <2>3 DEF InForce
  <2> QED
    BY <1>0, <1>r, <2>1, <2>2, <2>4
<1> HIDE DEF Goal
<1>13. ASSUME NEW c \in Hooks, HookStep(c) PROVE Goal
  BY <1>4, <1>6, <1>7, <1>8, <1>9, <1>10, <1>13 DEF HookStep
<1>14. ASSUME NEW c \in Requests, RequestStep(c) PROVE Goal
  BY <1>11, <1>12, <1>14 DEF RequestStep
<1> QED
  BY <1>1, <1>u, <1>13, <1>14 DEF SubscriptionNext, Callers, Tick, GatewaySends

\* With one call at a time, no failures and the plans unchanged, the user has
\* an ACTIVE subscription whenever no webhook call is under way.
THEOREM AlwaysSubscribed == SubscriptionSpec => []NeverWithout
<1>1. SubscriptionInit => ForceInv
  <2> SUFFICES ASSUME SubscriptionInit PROVE ForceInv
    OBVIOUS
  <2>1. 1 \in Subs /\ InForce(1)
    BY SubscriptionAssumption DEF SubscriptionInit, Subs, InForce
  <2>2. \A c \in Hooks : call[c].pc = "idle"
    BY DEF SubscriptionInit, Rest
  <2> QED
    BY <2>1, <2>2 DEF ForceInv
<1>2. ForceInv => NeverWithout
  BY DEF ForceInv, NeverWithout, Activating, InForce, Quiet, Busy
<1> QED
  BY <1>1, <1>2, AloneInvariant, NextForce, PTL DEF SubscriptionSpec
=============================================================================
