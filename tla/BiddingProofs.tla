--------------------------- MODULE BiddingProofs ---------------------------
(***************************************************************************)
(* Theorems about bidding, for any number of users, calls, amounts,        *)
(* extensions and any lock lifetime, in three parts.  Bidding: the types   *)
(* and the invariants of the calls of placeBid.  The ledger: Bidding       *)
(* implements BidLedger, that is, the bids that interleaved, locked calls  *)
(* store are the bids an auction without any concurrency could have        *)
(* accepted one after the other, for as long as no lock expires under its  *)
(* holder.  The room: what the seller and the admins do to the row outside *)
(* the lock leaves the promise to the bidders and the deadline alone, and  *)
(* a row names a winner exactly while it has ended, one that was recorded  *)
(* and that bid; any copy of the row may be saved over the stored one, so  *)
(* what is shown of the row is shown of each copy.                         *)
(***************************************************************************)
EXTENDS AuctionRoom, WellFoundedInduction, TLAPS

USE DEF vars

-----------------------------------------------------------------------------
(***************************************************************************)
(* Type correctness                                                        *)
(***************************************************************************)

\* A call that has just been reset is a well-typed call.
LEMMA BlankType == ASSUME NEW pc \in PC PROVE Blank(pc) \in Request
<1>1. Published \in Row
  BY PolicyAssumption DEF Published, Row, AuctionStatus
<1>2. QED
  BY <1>1, PolicyAssumption DEF Blank, Request, NoBid, Bid

\* What a call keeps from one bid to the next is well typed.
LEMMA BetweenType ==
    ASSUME TypeOK, NEW r \in Requests, NEW pc \in PC
    PROVE  Between(r, pc) \in Request
<1>1. req[r] \in Request
  BY DEF TypeOK
<1>2. Blank(pc) \in Request
  BY BlankType
<1>3. QED
  BY <1>1, <1>2 DEF Between, Request

LEMMA ExtendedType ==
    ASSUME NEW row \in Row
    PROVE  /\ Extended(row) \in Row
           /\ Extended(row).endAt = row.endAt + AntiSnip
           /\ Extended(row).ext = row.ext + 1
<1>1. row.endAt \in Nat /\ row.ext \in Nat
  BY DEF Row
<1>2. row.endAt + AntiSnip \in Nat /\ row.ext + 1 \in Nat
  BY <1>1, PolicyAssumption
<1>3. PICK e \in Nat : e = row.endAt + AntiSnip
  BY <1>2
<1>4. PICK x \in Nat : x = row.ext + 1
  BY <1>2
<1>5. Extended(row) = [row EXCEPT !.endAt = e, !.ext = x]
  BY <1>3, <1>4, Zenon DEF Extended
<1>6. QED
  BY <1>3, <1>4, <1>5 DEF Row

\* The kinds of update a request makes to its own record.
LEMMA ReqUpdate ==
    ASSUME TypeOK, NEW r \in Requests, NEW q \in Request,
           req' = [req EXCEPT ![r] = q]
    PROVE  req' \in [Requests -> Request]
  BY DEF TypeOK

\* Type correctness is not inductive by itself: a call about to store a bid
\* must hold one, and the user an auto-bid is made for must be an account.
DraftInv ==
    \A r \in Requests :
        /\ req[r].pc \in {"extend", "create", "autoExtend", "autoCreate"} =>
              req[r].draft \in Bid
        /\ req[r].pc = "autoOwn" => req[r].user \in Users

LEMMA InitType == Init => TypeOK /\ DraftInv
<1> SUFFICES ASSUME Init PROVE TypeOK /\ DraftInv
  OBVIOUS
<1>1. Published \in Row
  BY PolicyAssumption DEF Published, Row, AuctionStatus
<1>2. Blank("idle") \in Request
  BY BlankType DEF PC
<1>3. Horizon \in Nat
  BY PolicyAssumption DEF Horizon
<1>4. now \in 0..Horizon
  BY <1>3 DEF Init
<1>5. lock \in Lock
  BY BiddingAssumption DEF Init, Free, Lock
<1>6. req \in [Requests -> Request]
  BY <1>2 DEF Init
<1>7. cfgOp \in [Users -> SUBSET Config]
  BY DEF Init
<1>8. DraftInv
  BY DEF Init, DraftInv, Blank
<1> QED
  BY <1>1, <1>4, <1>5, <1>6, <1>7, <1>8 DEF Init, TypeOK

\* What a call knows after storing its bid is well typed.
LEMMA PlacedType ==
    ASSUME TypeOK, NEW r \in Requests, NEW pc \in PC
    PROVE  Placed(r, pc) \in Request
<1>1. req[r] \in Request /\ Between(r, pc) \in Request
  BY BetweenType DEF TypeOK
<1>2. QED
  BY <1>1 DEF Placed, Request

\* A stored bid is a bid.
LEMMA BidsType ==
    ASSUME TypeOK, NEW i \in DOMAIN bids
    PROVE  /\ bids[i] \in Bid
           /\ bids[i].user \in Users /\ bids[i].amount \in Nat /\ bids[i].at \in Nat
<1>1. bids[i] \in Bid
  BY DEF TypeOK
<1>2. QED
  BY <1>1 DEF Bid

\* The creation times the bid repository returns are times.
LEMMA LastBidTimesType ==
    ASSUME TypeOK, NEW u PROVE LastBidTimes(u) \in SUBSET Nat
  BY BidsType DEF LastBidTimes, BidsOf

LEMMA StoredAmountsType == ASSUME TypeOK PROVE StoredAmounts \subseteq Nat
  BY BidsType DEF StoredAmounts

\* Every action leaves every variable in its type.
LEMMA NextType == TypeOK /\ DraftInv /\ [Next]_vars => TypeOK'
<1> SUFFICES ASSUME TypeOK, DraftInv, [Next]_vars PROVE TypeOK'
  OBVIOUS
<1> USE PolicyAssumption, BiddingAssumption
<1>1. ASSUME NEW r \in Requests, CheckQuota(r) PROVE TypeOK'
  <2>1. PICK u \in Users, a \in Amounts :
          req' = [req EXCEPT ![r] = IF Cardinality(BidsOf(u)) >= Quota THEN Blank("done")
                                    ELSE [Blank("lock") EXCEPT !.user = u, !.amount = a]]
    BY <1>1 DEF CheckQuota
  <2>2. Blank("done") \in Request /\ Blank("lock") \in Request
    BY BlankType DEF PC
  <2>3. [Blank("lock") EXCEPT !.user = u, !.amount = a] \in Request
    BY <2>2 DEF Request
  <2> QED
    BY <1>1, <2>1, <2>2, <2>3 DEF CheckQuota, TypeOK
<1>2. ASSUME NEW r \in Requests, AcquireLock(r) PROVE TypeOK'
  <2>1. Blank("done") \in Request /\ req[r] \in Request
    BY BlankType DEF PC, TypeOK
  <2>2. [req[r] EXCEPT !.pc = "config"] \in Request
    BY <2>1 DEF Request, PC, Section
  <2>3. lock' \in Lock
    BY <1>2 DEF AcquireLock, Lock, TypeOK
  <2> QED
    BY <1>2, <2>1, <2>2, <2>3 DEF AcquireLock, TypeOK
<1>3. ASSUME NEW r \in Requests, ReadConfig(r) PROVE TypeOK'
  <2>1. Blank("release") \in Request /\ req[r] \in Request
    BY BlankType DEF PC, Section, TypeOK
  <2>2. [req[r] EXCEPT !.pc = "auction"] \in Request
    BY <2>1 DEF Request, PC, Section
  <2> QED
    BY <1>3, <2>1, <2>2 DEF ReadConfig, TypeOK
<1>4. ASSUME NEW r \in Requests, ReadAuction(r) PROVE TypeOK'
  <2>1. req[r] \in Request /\ auction \in Row
    BY DEF TypeOK
  <2>2. [req[r] EXCEPT !.pc = "latest", !.row = auction] \in Request
    BY <2>1 DEF Request, PC, Section
  <2> QED
    BY <1>4, <2>1, <2>2 DEF ReadAuction, TypeOK
<1>5. ASSUME NEW r \in Requests, ReadLatest(r) PROVE TypeOK'
  <2>1. req[r] \in Request
    BY DEF TypeOK
  <2>2. StoredAmounts \subseteq Nat
    BY StoredAmountsType
  <2>3. PICK m \in StoredAmounts : req' = [req EXCEPT ![r].pc = "own", ![r].latest = m]
    BY <1>5 DEF ReadLatest
  <2>4. [req[r] EXCEPT !.pc = "own", !.latest = m] \in Request
    BY <2>1, <2>2 DEF Request, PC, Section
  <2> QED
    BY <1>5, <2>3, <2>4 DEF ReadLatest, TypeOK
<1>6. ASSUME NEW r \in Requests, ReadOwnLast(r) PROVE TypeOK'
  <2>1. req[r] \in Request
    BY DEF TypeOK
  <2>2. LastBidTimes(req[r].user) \in SUBSET Nat
    BY LastBidTimesType
  <2>3. [req[r] EXCEPT !.pc = "validate", !.own = LastBidTimes(req[r].user)] \in Request
    BY <2>1, <2>2 DEF Request, PC, Section
  <2> QED
    BY <1>6, <2>3 DEF ReadOwnLast, TypeOK
<1>7. ASSUME NEW r \in Requests, Validate(r) PROVE TypeOK'
  <2>1. req[r] \in Request /\ Blank("release") \in Request
    BY BlankType DEF PC, Section, TypeOK
  <2>2. now \in Nat
    BY DEF TypeOK, Horizon
  <2>3. ASSUME req[r].user \in participants PROVE Draft(r, FALSE) \in Bid
    BY <2>1, <2>2, <2>3 DEF Draft, Bid, Request, TypeOK
  <2>4. ASSUME req[r].user \in participants, NEW pc \in {"extend", "create"}
        PROVE  [req[r] EXCEPT !.draft = Draft(r, FALSE), !.out = req[r].row,
                              !.latest = 0, !.own = {}, !.pc = pc] \in Request
    BY <2>1, <2>3, <2>4 DEF Request, PC, Section
  <2> QED
    BY <1>7, <2>1, <2>4 DEF Validate, TypeOK
<1>8. ASSUME NEW r \in Requests, ExtendAuction(r) PROVE TypeOK'
  <2>1. req[r] \in Request /\ req[r].row \in Row
    BY DEF TypeOK, Request
  <2>2. Extended(req[r].row) \in Row
    BY <2>1, ExtendedType
  <2>3. [req[r] EXCEPT !.pc = "create", !.out = Extended(req[r].row)] \in Request
    BY <2>1, <2>2 DEF Request, PC, Section
  <2> QED
    BY <1>8, <2>2, <2>3 DEF ExtendAuction, TypeOK
<1>9. ASSUME NEW r \in Requests, CreateBid(r) PROVE TypeOK'
  <2>1. Blank("release") \in Request /\ Placed(r, "people") \in Request
    BY BlankType, PlacedType DEF PC, Section
  <2>2. bids' \in Seq(Bid)
    BY <1>9 DEF CreateBid, TypeOK, DraftInv
  <2> QED
    BY <1>9, <2>1, <2>2 DEF CreateBid, TypeOK
<1>10. ASSUME NEW r \in Requests, ReleaseLock(r) PROVE TypeOK'
  <2>1. Blank("done") \in Request
    BY BlankType DEF PC
  <2>2. lock' \in Lock
    BY <1>10 DEF ReleaseLock, Free, Lock, TypeOK
  <2> QED
    BY <1>10, <2>1, <2>2 DEF ReleaseLock, TypeOK
<1>11. ASSUME NEW r \in Requests, ReleaseFails(r) PROVE TypeOK'
  <2>1. Blank("done") \in Request
    BY BlankType DEF PC
  <2> QED
    BY <1>11, <2>1 DEF ReleaseFails, TypeOK
<1>12. ASSUME NEW r \in Requests, AutoReadPeople(r) PROVE TypeOK'
  <2>1. req[r] \in Request /\ participants \in SUBSET Users
    BY DEF TypeOK
  <2>2. [req[r] EXCEPT !.pc = "configs", !.paid = participants] \in Request
    BY <2>1 DEF Request, PC, Section
  <2> QED
    BY <1>12, <2>2 DEF AutoReadPeople, TypeOK
<1>13. ASSUME NEW r \in Requests, AutoReadConfigs(r) PROVE TypeOK'
  <2>1. req[r] \in Request
    BY DEF TypeOK
  <2>2. { c \in configs : c.active } \in SUBSET Config
    BY DEF TypeOK
  <2>3. InAntiSnippingTime(req[r].row, now) \in BOOLEAN
    BY DEF InAntiSnippingTime
  <2>4. [req[r] EXCEPT !.pc = "pick", !.todo = { c \in configs : c.active },
                       !.snip = InAntiSnippingTime(req[r].row, now)] \in Request
    BY <2>1, <2>2, <2>3 DEF Request, PC, Section
  <2> QED
    BY <1>13, <2>4 DEF AutoReadConfigs, TypeOK
<1>14. ASSUME NEW r \in Requests, AutoSkip(r) PROVE TypeOK'
  <2>1. req[r] \in Request
    BY DEF TypeOK
  <2>2. PICK c \in req[r].todo : req' = [req EXCEPT ![r].todo = @ \ {c}]
    BY <1>14 DEF AutoSkip
  <2>3. [req[r] EXCEPT !.todo = @ \ {c}] \in Request
    BY <2>1 DEF Request
  <2> QED
    BY <1>14, <2>2, <2>3 DEF AutoSkip, TypeOK
<1>15. ASSUME NEW r \in Requests, AutoPick(r) PROVE TypeOK'
  <2>1. req[r] \in Request
    BY DEF TypeOK
  <2>2. PICK c \in req[r].todo, m \in StoredAmounts :
          req' = [req EXCEPT ![r] =
                    [@ EXCEPT !.pc = "autoOwn", !.user = c.user, !.max = c.max,
                              !.amount = NextMin(r), !.latest = m,
                              !.todo = Rest(r, c)]]
    BY <1>15 DEF AutoPick
  <2>3. c \in Config /\ c.user \in Users /\ c.max \in Nat
    BY <2>1, <2>2 DEF Request, Config
  <2>4. m \in Nat
    BY <2>2, StoredAmountsType
  <2>5. req[r].last.amount \in Nat
    BY <2>1 DEF Request, Bid, NoBid
  <2>6. NextMin(r) \in Nat
    BY <2>5 DEF NextMin
  <2>7. Rest(r, c) \in SUBSET Config
    BY <2>1 DEF Request, Rest
  <2>8. [req[r] EXCEPT !.pc = "autoOwn", !.user = c.user, !.max = c.max,
                       !.amount = NextMin(r), !.latest = m, !.todo = Rest(r, c)] \in Request
    BY <2>1, <2>3, <2>4, <2>6, <2>7 DEF Request, PC, Section
  <2> QED
    BY <1>15, <2>2, <2>8 DEF AutoPick, TypeOK
<1>16. ASSUME NEW r \in Requests, AutoFinish(r) PROVE TypeOK'
  <2>1. Blank("disable") \in Request /\ Blank("release") \in Request
    BY BlankType DEF PC, Section
  <2> QED
    BY <1>16, <2>1 DEF AutoFinish, TypeOK
<1>17. ASSUME NEW r \in Requests, AutoValidate(r) PROVE TypeOK'
  <2>1. req[r] \in Request /\ Between(r, "pick") \in Request
    BY BetweenType DEF PC, Section, TypeOK
  <2>2. now \in Nat
    BY DEF TypeOK, Horizon
  <2>3. Draft(r, TRUE) \in Bid
    BY <1>17, <2>1, <2>2 DEF AutoValidate, Draft, Bid, Request, DraftInv
  <2>4. ASSUME NEW pc \in {"autoExtend", "autoCreate"}
        PROVE  [req[r] EXCEPT !.draft = Draft(r, TRUE), !.out = req[r].row,
                              !.pc = pc] \in Request
    BY <2>1, <2>3, <2>4 DEF Request, PC, Section
  <2> QED
    BY <1>17, <2>1, <2>4 DEF AutoValidate, TypeOK
<1>18. ASSUME NEW r \in Requests, AutoExtend(r) PROVE TypeOK'
  <2>1. req[r] \in Request /\ req[r].row \in Row
    BY DEF TypeOK, Request
  <2>2. Extended(req[r].row) \in Row
    BY <2>1, ExtendedType
  <2>3. [req[r] EXCEPT !.pc = "autoCreate", !.out = Extended(req[r].row)] \in Request
    BY <2>1, <2>2 DEF Request, PC, Section
  <2> QED
    BY <1>18, <2>2, <2>3 DEF AutoExtend, TypeOK
<1>19. ASSUME NEW r \in Requests, AutoCreate(r) PROVE TypeOK'
  <2>1. Placed(r, "pick") \in Request
    BY PlacedType DEF PC, Section
  <2>2. bids' \in Seq(Bid)
    BY <1>19 DEF AutoCreate, TypeOK, DraftInv
  <2> QED
    BY <1>19, <2>1, <2>2 DEF AutoCreate, TypeOK
<1>20. ASSUME NEW r \in Requests, DisableAllActive(r) PROVE TypeOK'
  <2>1. Blank("release") \in Request
    BY BlankType DEF PC, Section
  <2>2. configs' \subseteq Config
    BY <1>20, ZenonT(40) DEF DisableAllActive, TypeOK, Config
  <2> QED
    BY <1>20, <2>1, <2>2 DEF DisableAllActive, TypeOK
<1>21. ASSUME NEW r \in Requests, DatabaseError(r) PROVE TypeOK'
  <2>1. Blank("release") \in Request /\ Between(r, "pick") \in Request
    BY BlankType, BetweenType DEF PC, Section
  <2> QED
    BY <1>21, <2>1 DEF DatabaseError, TypeOK
<1>22. ASSUME NEW u \in Users, Join(u) PROVE TypeOK'
  BY <1>22 DEF Join, TypeOK
<1>23. ASSUME NEW u \in AutoUsers, NEW m \in MaxBids, SetAutoBid(u, m) PROVE TypeOK'
  <2>1. now \in Nat /\ u \in Users /\ m \in Nat
    BY DEF TypeOK, Horizon
  <2>2. [user |-> u, max |-> m, active |-> TRUE, since |-> now] \in Config
    BY <2>1 DEF Config
  <2>3. {[c EXCEPT !.max = m, !.active = TRUE] : c \in ConfigOf(u)} \in SUBSET Config
    BY <2>1, ZenonT(40) DEF ConfigOf, TypeOK, Config
  <2> QED
    BY <1>23, <2>1, <2>2, <2>3 DEF SetAutoBid, TypeOK
<1>24. ASSUME NEW u \in AutoUsers, DisableAutoBid(u) PROVE TypeOK'
  <2>1. {[c EXCEPT !.active = FALSE] : c \in ConfigOf(u)} \in SUBSET Config
    BY ZenonT(40) DEF ConfigOf, TypeOK, Config
  <2> QED
    BY <1>24, <2>1 DEF DisableAutoBid, TypeOK
<1>25. ASSUME NEW u \in AutoUsers, SaveAutoBid(u) PROVE TypeOK'
  BY <1>25 DEF SaveAutoBid, TypeOK, ConfigOf
<1>26. ASSUME Tick PROVE TypeOK'
  <2>1. now' \in 0..Horizon
    BY <1>26 DEF Tick, TypeOK, Horizon
  <2>2. lock' \in Lock
    <3>1. lock \in Lock /\ TTL \in Nat /\ Free \in Lock
      BY BiddingAssumption DEF TypeOK, Lock, Free
    <3>2. lock.ttl > 1 => [lock EXCEPT !.ttl = lock.ttl - 1] \in Lock
      BY <3>1 DEF Lock
    <3> QED
      BY <1>26, <3>1, <3>2 DEF Tick
  <2> QED
    BY <1>26, <2>1, <2>2 DEF Tick, TypeOK
<1>27. ASSUME Crash PROVE TypeOK'
  <2>1. Blank("done") \in Request
    BY BlankType DEF PC
  <2>2. req' \in [Requests -> Request]
    BY <1>27, <2>1 DEF Crash, TypeOK
  <2>3. cfgOp' \in [Users -> SUBSET Config]
    BY <1>27 DEF Crash
  <2> QED
    BY <1>27, <2>2, <2>3 DEF Crash, TypeOK
<1>28. CASE UNCHANGED vars
  BY <1>28 DEF TypeOK
<1> QED
  BY <1>1, <1>2, <1>3, <1>4, <1>5, <1>6, <1>7, <1>8, <1>9, <1>10, <1>11, <1>12, <1>13,
     <1>14, <1>15, <1>16, <1>17, <1>18, <1>19, <1>20, <1>21, <1>22, <1>23, <1>24,
     <1>25, <1>26, <1>27, <1>28 DEF Next, Work, Step

\* The fields that matter of the records a call is reset to.
LEMMA BlankFields ==
    ASSUME NEW pc
    PROVE  /\ Blank(pc).pc = pc
           /\ Blank(pc).row = Published /\ Blank(pc).out = Published
  BY DEF Blank

LEMMA BetweenFields ==
    ASSUME TypeOK, NEW r \in Requests, NEW pc
    PROVE  /\ Between(r, pc).pc = pc
           /\ Between(r, pc).row = req[r].row /\ Between(r, pc).out = Published
  BY DEF Between, Blank

LEMMA PlacedFields ==
    ASSUME TypeOK, NEW r \in Requests, NEW pc
    PROVE  /\ Placed(r, pc).pc = pc
           /\ Placed(r, pc).row = req[r].out /\ Placed(r, pc).out = Published
  BY DEF Placed, Between, Blank

\* A step of one call leaves the records of the others alone.
LEMMA StepLocal ==
    ASSUME TypeOK, NEW r \in Requests, Step(r) \/ DatabaseError(r) \/ ReleaseFails(r)
    PROVE  \A s \in Requests : s # r => req'[s] = req[s]
<1> USE DEF TypeOK
<1>1. CASE DatabaseError(r)
  BY <1>1 DEF DatabaseError
<1>2. CASE ReleaseFails(r)
  BY <1>2 DEF ReleaseFails
<1>3. CASE Step(r)
  BY <1>3 DEF Step, CheckQuota, AcquireLock, ReadConfig, ReadAuction, ReadLatest,
     ReadOwnLast, Validate, ExtendAuction, CreateBid, AutoReadPeople, AutoReadConfigs,
     AutoSkip, AutoPick, AutoFinish, AutoValidate, AutoExtend, AutoCreate,
     DisableAllActive, ReleaseLock
<1> QED
  BY <1>1, <1>2, <1>3

\* A call reaches the point of storing a bid only with a bid in hand.
LEMMA NextDraft == TypeOK /\ DraftInv /\ [Next]_vars => DraftInv'
<1> SUFFICES ASSUME TypeOK, DraftInv, [Next]_vars PROVE DraftInv'
  OBVIOUS
<1> DEFINE Ready(q) == /\ q.pc \in {"extend", "create", "autoExtend", "autoCreate"} =>
                             q.draft \in Bid
                       /\ q.pc = "autoOwn" => q.user \in Users
<1>1. ASSUME NEW r \in Requests, Step(r) \/ DatabaseError(r) \/ ReleaseFails(r)
      PROVE  DraftInv'
  <2>1. SUFFICES Ready(req'[r])
    BY <1>1, StepLocal DEF DraftInv
  <2>2. req[r] \in Request /\ Ready(req[r]) /\ now \in Nat
    BY PolicyAssumption DEF TypeOK, DraftInv, Horizon
  <2>3. \A pc : Blank(pc).pc = pc /\ Between(r, pc).pc = pc /\ Placed(r, pc).pc = pc
    BY BlankFields, BetweenFields, PlacedFields
  <2>4. CASE CheckQuota(r)
    BY <2>4, <2>3 DEF CheckQuota, TypeOK
  <2>5. CASE AcquireLock(r) \/ ReadConfig(r) \/ ReadAuction(r) \/ ReadLatest(r) \/ ReadOwnLast(r)
    <3>1. req'[r].pc \in {"config", "auction", "latest", "own", "validate", "done", "release"}
      BY <2>2, <2>3, <2>5
         DEF AcquireLock, ReadConfig, ReadAuction, ReadLatest, ReadOwnLast, TypeOK, Request
    <3> QED
      BY <3>1
  <2>6. CASE Validate(r)
    <3>1. CASE req[r].user \in participants /\ Accepted(r)
      <4>1. Draft(r, FALSE) \in Bid
        BY <2>2, <3>1 DEF Draft, Bid, Request, TypeOK
      <4>2. req'[r].draft = Draft(r, FALSE) /\ req'[r].pc \in {"extend", "create"}
        BY <2>2, <2>6, <3>1 DEF Validate, TypeOK, Request
      <4> QED
        BY <4>1, <4>2
    <3>2. CASE ~(req[r].user \in participants /\ Accepted(r))
      BY <2>3, <2>6, <3>2 DEF Validate, TypeOK
    <3> QED
      BY <3>1, <3>2
  <2>7. CASE ExtendAuction(r) \/ AutoExtend(r)
    <3>1. req'[r].draft = req[r].draft /\ req'[r].pc \in {"create", "autoCreate"}
      BY <2>2, <2>7 DEF ExtendAuction, AutoExtend, TypeOK, Request
    <3> QED
      BY <2>2, <2>7, <3>1 DEF ExtendAuction, AutoExtend
  <2>8. CASE CreateBid(r) \/ AutoCreate(r)
    BY <2>3, <2>8 DEF CreateBid, AutoCreate, TypeOK
  <2>9. CASE AutoReadPeople(r) \/ AutoReadConfigs(r) \/ AutoSkip(r)
    <3>1. req'[r].pc \in {"configs", "pick"}
      <4>1. CASE AutoReadPeople(r)
        BY <2>2, <4>1 DEF AutoReadPeople, TypeOK, Request
      <4>2. CASE AutoReadConfigs(r)
        BY <2>2, <4>2 DEF AutoReadConfigs, TypeOK, Request
      <4>3. CASE AutoSkip(r)
        BY <2>2, <4>3 DEF AutoSkip, TypeOK, Request
      <4> QED
        BY <2>9, <4>1, <4>2, <4>3
    <3> QED
      BY <3>1
  <2>10. CASE AutoPick(r)
    <3>1. PICK c \in req[r].todo, m \in StoredAmounts :
            req'[r] = [req[r] EXCEPT !.pc = "autoOwn", !.user = c.user, !.max = c.max,
                                     !.amount = NextMin(r), !.latest = m,
                                     !.todo = Rest(r, c)]
      BY <2>10 DEF AutoPick, TypeOK
    <3>2. c.user \in Users
      BY <2>2 DEF Request, Config
    <3>3. req'[r].pc = "autoOwn" /\ req'[r].user = c.user
      BY <2>2, <3>1 DEF Request
    <3> QED
      BY <3>2, <3>3
  <2>11. CASE AutoFinish(r) \/ DisableAllActive(r) \/ ReleaseLock(r) \/ ReleaseFails(r)
    BY <2>3, <2>11 DEF AutoFinish, DisableAllActive, ReleaseLock, ReleaseFails, TypeOK
  <2>12. CASE AutoValidate(r)
    <3>1. Draft(r, TRUE) \in Bid
      BY <2>2, <2>12 DEF AutoValidate, Draft, Bid, Request
    <3>2. \/ req'[r].pc = "pick"
          \/ req'[r].draft = Draft(r, TRUE) /\ req'[r].pc \in {"autoExtend", "autoCreate"}
      BY <2>2, <2>3, <2>12 DEF AutoValidate, TypeOK, Request
    <3> QED
      BY <3>1, <3>2
  <2>13. CASE DatabaseError(r)
    BY <2>3, <2>13 DEF DatabaseError, TypeOK
  <2> QED
    BY <1>1, <2>4, <2>5, <2>6, <2>7, <2>8, <2>9, <2>10, <2>11, <2>12, <2>13 DEF Step
<1>2. CASE Crash
  BY <1>2, BlankFields DEF Crash, DraftInv, TypeOK
<1>3. CASE req' = req
  BY <1>3 DEF DraftInv
<1> QED
  BY <1>1, <1>2, <1>3 DEF Next, Work, Join, SetAutoBid, DisableAutoBid, SaveAutoBid, Tick

\* Every value the program keeps about an auction, its bids, its lock and its
\* calls stays within its type, whatever the calls do to each other.
THEOREM TypeCorrect == Spec => []TypeOK
<1>1. Init => TypeOK /\ DraftInv
  BY InitType
<1>2. TypeOK /\ DraftInv /\ [Next]_vars => (TypeOK /\ DraftInv)'
  BY NextType, NextDraft
<1> QED
  BY <1>1, <1>2, PTL DEF Spec

-----------------------------------------------------------------------------
(***************************************************************************)
(* The bid lock                                                            *)
(***************************************************************************)

\* A call inside the locked section holds the key, or its key expired.
LockInv == \A r \in Requests : InSection(r) => lock.holder = r \/ r \in lapsed

LEMMA NextLock == TypeOK /\ LockInv /\ [Next]_vars => LockInv'
<1> SUFFICES ASSUME TypeOK, LockInv, [Next]_vars PROVE LockInv'
  OBVIOUS
<1> USE BiddingAssumption
<1>1. ASSUME NEW r \in Requests, Step(r) \/ DatabaseError(r) \/ ReleaseFails(r)
      PROVE  LockInv'
  <2>1. \A s \in Requests : s # r => req'[s] = req[s]
    BY <1>1, StepLocal
  <2>2. \A pc : Blank(pc).pc = pc
    BY BlankFields
  <2>3. CASE CheckQuota(r)
    <3>1. ~InSection(r)'
      <4>1. Blank("lock") \in Request
        BY BlankType DEF PC
      <4>2. req'[r].pc \in {"done", "lock"}
        BY <2>2, <2>3, <4>1 DEF CheckQuota, TypeOK, Request
      <4> QED
        BY <4>2 DEF InSection, Section
    <3> QED
      BY <2>1, <2>3, <3>1 DEF LockInv, InSection, CheckQuota
  <2>4. CASE AcquireLock(r)
    <3>1. CASE lock.holder = NoRequest
      <4>1. lock'.holder = r /\ lapsed' = lapsed
        BY <2>4, <3>1 DEF AcquireLock
      <4>2. \A s \in Requests : InSection(s) => s \in lapsed
        BY <3>1 DEF LockInv
      <4> QED
        BY <2>1, <4>1, <4>2 DEF LockInv, InSection
    <3>2. CASE lock.holder # NoRequest
      <4>1. ~InSection(r)'
        BY <2>2, <2>4, <3>2 DEF AcquireLock, TypeOK, InSection, Section
      <4> QED
        BY <2>1, <2>4, <3>2, <4>1 DEF LockInv, InSection, AcquireLock
    <3> QED
      BY <3>1, <3>2
  <2>5. CASE ReleaseLock(r)
    <3>1. ~InSection(r)'
      BY <2>2, <2>5 DEF ReleaseLock, TypeOK, InSection, Section
    <3>2. lapsed' = lapsed /\ (lock.holder # r => lock' = lock)
      BY <2>5 DEF ReleaseLock
    <3> QED
      BY <2>1, <3>1, <3>2 DEF LockInv, InSection
  <2>6. CASE InSection(r) /\ ~ReleaseLock(r) /\ ~AcquireLock(r)
    <3>1. lock' = lock /\ lapsed' = lapsed
      BY <1>1, <2>6 DEF Step, CheckQuota, ReadConfig, ReadAuction, ReadLatest,
         ReadOwnLast, Validate, ExtendAuction, CreateBid, AutoReadPeople, AutoReadConfigs,
         AutoSkip, AutoPick, AutoFinish, AutoValidate, AutoExtend, AutoCreate,
         DisableAllActive, DatabaseError, ReleaseFails
    <3> QED
      BY <2>1, <2>6, <3>1 DEF LockInv, InSection
  <2>7. InSection(r) \/ CheckQuota(r) \/ AcquireLock(r)
    BY <1>1 DEF Step, ReadConfig, ReadAuction, ReadLatest, ReadOwnLast, Validate,
       ExtendAuction, CreateBid, AutoReadPeople, AutoReadConfigs, AutoSkip, AutoPick,
       AutoFinish, AutoValidate, AutoExtend, AutoCreate, DisableAllActive, ReleaseLock,
       DatabaseError, ReleaseFails, InSection, Section
  <2> QED
    BY <2>3, <2>4, <2>5, <2>6, <2>7
<1>2. CASE Tick
  <2>1. \A s \in Requests : InSection(s)' = InSection(s)
    BY <1>2 DEF Tick, InSection
  <2>2. CASE lock.ttl > 1
    <3>1. lock'.holder = lock.holder /\ lapsed' = lapsed
      BY <1>2, <2>2 DEF Tick, TypeOK, Lock
    <3> QED
      BY <2>1, <3>1 DEF LockInv
  <2>3. CASE ~(lock.ttl > 1)
    <3>1. lapsed' = lapsed \cup { s \in Requests : s = lock.holder /\ InSection(s) }
      BY <1>2, <2>3 DEF Tick
    <3> QED
      BY <2>1, <3>1 DEF LockInv
  <2> QED
    BY <2>2, <2>3
<1>3. CASE Crash
  BY <1>3, BlankFields DEF Crash, LockInv, InSection, Section, TypeOK
<1>4. CASE UNCHANGED <<req, lock, lapsed>>
  BY <1>4 DEF LockInv, InSection
<1> QED
  BY <1>1, <1>2, <1>3, <1>4 DEF Next, Work, Join, SetAutoBid, DisableAutoBid, SaveAutoBid

\* The bid lock does exclude, for every time to live and however many calls
\* compete: two calls meet in the section only after a key expired.
THEOREM LockExcludes == Spec => []LockExclusive
<1>1. Init => TypeOK /\ DraftInv /\ LockInv
  <2>1. Init => LockInv
    BY BlankFields DEF Init, LockInv, InSection, Section
  <2> QED
    BY <2>1, InitType
<1>2. TypeOK /\ DraftInv /\ LockInv /\ [Next]_vars => (TypeOK /\ DraftInv /\ LockInv)'
  BY NextType, NextDraft, NextLock
<1>3. LockInv => LockExclusive
  BY DEF LockInv, LockExclusive
<1> QED
  BY <1>1, <1>2, <1>3, PTL DEF Spec

-----------------------------------------------------------------------------
(***************************************************************************)
(* The deadline                                                            *)
(***************************************************************************)

\* A copy of the row whose deadline and counter agree.
Accounted(row) == row.ext <= MaxExtension /\ row.endAt = EndAt + row.ext * AntiSnip

\* The stored row may be replaced by any copy a call holds, now or after
\* prolonging it, so every copy has to agree, and a call about to prolong
\* the auction has seen room for one more extension.
RowInv ==
    /\ Accounted(auction)
    /\ \A r \in Requests :
          /\ Accounted(req[r].row) /\ Accounted(req[r].out)
          /\ req[r].pc \in {"extend", "autoExtend"} => req[r].row.ext < MaxExtension

LEMMA PublishedAccounted == Accounted(Published)
  BY PolicyAssumption DEF Accounted, Published

LEMMA ExtendedAccounted ==
    ASSUME NEW row \in Row, Accounted(row), row.ext < MaxExtension
    PROVE  Accounted(Extended(row))
<1>1. row.ext \in Nat /\ row.endAt \in Nat
  BY DEF Row
<1>2. /\ Extended(row).endAt = row.endAt + AntiSnip
      /\ Extended(row).ext = row.ext + 1
  BY ExtendedType
<1>3. (row.ext + 1) * AntiSnip = row.ext * AntiSnip + AntiSnip
  BY <1>1, PolicyAssumption
<1> QED
  BY <1>1, <1>2, <1>3, PolicyAssumption DEF Accounted

LEMMA NextRow == TypeOK /\ RowInv /\ [Next]_vars => RowInv'
<1> SUFFICES ASSUME TypeOK, RowInv, [Next]_vars PROVE RowInv'
  OBVIOUS
<1> DEFINE Sound(q) == /\ Accounted(q.row) /\ Accounted(q.out)
                       /\ q.pc \in {"extend", "autoExtend"} => q.row.ext < MaxExtension
<1>1. ASSUME NEW r \in Requests, Step(r) \/ DatabaseError(r) \/ ReleaseFails(r)
      PROVE  RowInv'
  <2>1. SUFFICES Accounted(auction') /\ Sound(req'[r])
    BY <1>1, StepLocal DEF RowInv, Accounted
  <2>2. /\ req[r] \in Request /\ req[r].row \in Row /\ Sound(req[r])
        /\ Accounted(auction)
    BY DEF TypeOK, RowInv, Request
  <2>3. ASSUME NEW pc, pc \notin {"extend", "autoExtend"}
        PROVE  Sound(Blank(pc)) /\ Sound(Between(r, pc)) /\ Sound(Placed(r, pc))
    BY <2>2, <2>3, BlankFields, BetweenFields, PlacedFields, PublishedAccounted
  <2>4. CASE CheckQuota(r)
    <3>1. Blank("lock") \in Request
      BY BlankType DEF PC
    <3>2. /\ req'[r].pc \in {"lock", "done"}
          /\ req'[r].row = Published /\ req'[r].out = Published /\ auction' = auction
      BY <2>4, <3>1, BlankFields DEF CheckQuota, TypeOK, Request
    <3> QED
      BY <2>2, <3>2, PublishedAccounted
  <2>5. CASE AcquireLock(r) \/ ReadConfig(r) \/ ReadLatest(r) \/ ReadOwnLast(r)
    <3>1. /\ auction' = auction
          /\ \/ req'[r] = Blank("done") \/ req'[r] = Blank("release")
             \/ /\ req'[r].pc \in {"config", "auction", "own", "validate"}
                /\ req'[r].row = req[r].row /\ req'[r].out = req[r].out
      BY <2>2, <2>5 DEF AcquireLock, ReadConfig, ReadLatest, ReadOwnLast, TypeOK, Request
    <3> QED
      BY <2>2, <2>3, <3>1
  <2>6. CASE ReadAuction(r)
    <3>1. /\ auction' = auction /\ req'[r].pc = "latest"
          /\ req'[r].row = auction /\ req'[r].out = req[r].out
      BY <2>2, <2>6 DEF ReadAuction, TypeOK, Request
    <3> QED
      BY <2>2, <3>1
  <2>7. CASE Validate(r) \/ AutoValidate(r)
    <3>1. /\ auction' = auction
          /\ \/ req'[r] = Blank("release") \/ req'[r] = Between(r, "pick")
             \/ /\ req'[r].pc \in {"extend", "autoExtend"} => ShouldExtend(req[r].row, now)
                /\ req'[r].row = req[r].row /\ req'[r].out = req[r].row
      <4>1. CASE Validate(r)
        BY <2>2, <4>1 DEF Validate, TypeOK, Request
      <4>2. CASE AutoValidate(r)
        BY <2>2, <4>2 DEF AutoValidate, TypeOK, Request
      <4> QED
        BY <2>7, <4>1, <4>2
    <3> QED
      BY <2>2, <2>3, <3>1 DEF ShouldExtend
  <2>8. CASE ExtendAuction(r) \/ AutoExtend(r)
    <3>1. /\ auction' = Extended(req[r].row)
          /\ req'[r].pc \in {"create", "autoCreate"}
          /\ req'[r].row = req[r].row /\ req'[r].out = Extended(req[r].row)
      BY <2>2, <2>8 DEF ExtendAuction, AutoExtend, TypeOK, Request
    <3>2. Accounted(Extended(req[r].row))
      BY <2>2, <2>8, ExtendedAccounted DEF ExtendAuction, AutoExtend
    <3> QED
      BY <2>2, <3>1, <3>2
  <2>9. CASE CreateBid(r) \/ AutoCreate(r) \/ AutoFinish(r) \/ DisableAllActive(r)
             \/ ReleaseLock(r) \/ ReleaseFails(r) \/ DatabaseError(r)
    <3>1. /\ auction' = auction
          /\ \E pc \in {"people", "release", "pick", "disable", "done"} :
                req'[r] = Blank(pc) \/ req'[r] = Between(r, pc) \/ req'[r] = Placed(r, pc)
      BY <2>9 DEF CreateBid, AutoCreate, AutoFinish, DisableAllActive, ReleaseLock,
         ReleaseFails, DatabaseError, TypeOK
    <3> QED
      BY <2>2, <2>3, <3>1
  <2>10. CASE AutoReadPeople(r) \/ AutoReadConfigs(r) \/ AutoSkip(r)
    <3>1. /\ auction' = auction /\ req'[r].pc \in {"configs", "pick"}
          /\ req'[r].row = req[r].row /\ req'[r].out = req[r].out
      <4>1. CASE AutoReadPeople(r)
        BY <2>2, <4>1 DEF AutoReadPeople, TypeOK, Request
      <4>2. CASE AutoReadConfigs(r)
        BY <2>2, <4>2 DEF AutoReadConfigs, TypeOK, Request
      <4>3. CASE AutoSkip(r)
        BY <2>2, <4>3 DEF AutoSkip, TypeOK, Request
      <4> QED
        BY <2>10, <4>1, <4>2, <4>3
    <3> QED
      BY <2>2, <3>1
  <2>11. CASE AutoPick(r)
    <3>1. PICK c \in req[r].todo, m \in StoredAmounts :
            req'[r] = [req[r] EXCEPT !.pc = "autoOwn", !.user = c.user, !.max = c.max,
                                     !.amount = NextMin(r), !.latest = m,
                                     !.todo = Rest(r, c)]
      BY <2>11 DEF AutoPick, TypeOK
    <3>2. /\ auction' = auction /\ req'[r].pc = "autoOwn"
          /\ req'[r].row = req[r].row /\ req'[r].out = req[r].out
      BY <2>2, <2>11, <3>1 DEF Request, AutoPick
    <3> QED
      BY <2>2, <3>2
  <2> QED
    BY <1>1, <2>4, <2>5, <2>6, <2>7, <2>8, <2>9, <2>10, <2>11 DEF Step
<1>2. CASE Crash
  BY <1>2, BlankFields, PublishedAccounted DEF Crash, RowInv, Accounted, TypeOK
<1>3. CASE UNCHANGED <<req, auction>>
  BY <1>3 DEF RowInv, Accounted
<1> QED
  BY <1>1, <1>2, <1>3 DEF Next, Work, Join, SetAutoBid, DisableAutoBid, SaveAutoBid, Tick

\* However many calls prolong the auction from whichever copies of its row,
\* also after a lock expired, the stored deadline is the published one plus
\* one anti-snip window per counted extension, and the limit is kept.
THEOREM DeadlineKept == Spec => []DeadlineAccounted
<1>1. Init => TypeOK /\ DraftInv /\ RowInv
  <2>1. Init => RowInv
    BY BlankFields, PublishedAccounted DEF Init, RowInv
  <2> QED
    BY <2>1, InitType
<1>2. TypeOK /\ DraftInv /\ RowInv /\ [Next]_vars => (TypeOK /\ DraftInv /\ RowInv)'
  BY NextType, NextDraft, NextRow
<1>3. RowInv => DeadlineAccounted
  BY DEF RowInv, Accounted, DeadlineAccounted
<1> QED
  BY <1>1, <1>2, <1>3, PTL DEF Spec

-----------------------------------------------------------------------------
(***************************************************************************)
(* The ledger                                                              *)
(***************************************************************************)
\* A non-empty set of times up to n has a latest one.
LEMMA LatestExists ==
    ASSUME NEW n \in Nat, NEW T \in SUBSET (0..n), T # {}
    PROVE  \E x \in T : \A y \in T : y <= x
<1> DEFINE U == { m \in Nat : n - m \in T }
<1> DEFINE Less == { ss \in Nat \X Nat : ss[1] < ss[2] }
<1>1. OpToRel(<, Nat) = Less
  BY Zenon DEF OpToRel
<1>2. IsWellFoundedOn(Less, Nat)
  BY <1>1, NatLessThanWellFounded, Zenon
<1>3. U \subseteq Nat /\ U # {}
  <2>1. PICK t \in T : TRUE
    OBVIOUS
  <2>2. n - t \in Nat /\ n - (n - t) = t
    OBVIOUS
  <2> QED
    BY <2>1, <2>2
<1> HIDE DEF U, Less
<1>4. PICK m \in U : \A k \in U : ~(<<k, m>> \in Less)
  BY <1>2, <1>3, WFMin
<1>5. m \in Nat /\ n - m \in T
  BY DEF U
<1>6. ASSUME NEW y \in T PROVE y <= n - m
  <2>1. y \in Nat /\ n - y \in Nat /\ n - (n - y) = y
    OBVIOUS
  <2>2. n - y \in U
    BY <2>1 DEF U
  <2>3. ~(n - y < m)
    BY <1>4, <1>5, <2>1, <2>2 DEF Less
  <2> QED
    BY <1>5, <2>1, <2>3
<1> QED
  BY <1>5, <1>6

-----------------------------------------------------------------------------
(***************************************************************************)
(* The inductive invariant: what a call that may still store a bid knows   *)
(* about the bids stored so far.                                           *)
(***************************************************************************)
Drafted == {"extend", "create", "autoExtend", "autoCreate"}

\* No bid, stored or drafted, lies in the future.
TimeInv ==
    /\ \A i \in DOMAIN bids : bids[i].at <= now
    /\ \A r \in Requests : req[r].pc \in Drafted => req[r].draft.at <= now

\* What the call has read covers every stored bid, and the bid it is about
\* to store is admissible after them.
Informed(q) ==
    /\ q.pc \in {"own", "validate", "autoOwn"} /\ AuctionType # "SEALED" =>
          \A i \in DOMAIN bids : bids[i].amount <= q.latest
    /\ q.pc = "validate" =>
          \A i \in DOMAIN bids :
              bids[i].user = q.user => \E t \in q.own : bids[i].at <= t
    /\ q.pc \in Drafted => Ledger!Admissible(q.draft)

AdmitInv == lapsed = {} => \A r \in Requests : Informed(req[r])

-----------------------------------------------------------------------------
\* Every bid of a user is at most as new as the newest one found.
LEMMA OwnCovers ==
    ASSUME TypeOK, TimeInv, NEW u, NEW i \in DOMAIN bids, bids[i].user = u
    PROVE  \E t \in LastBidTimes(u) : bids[i].at <= t
<1> DEFINE T == { bids[j].at : j \in BidsOf(u) }
<1>1. now \in Nat
  BY PolicyAssumption DEF TypeOK, Horizon
<1>2. T \in SUBSET (0..now)
  BY <1>1, BidsType DEF TimeInv, BidsOf
<1>3. bids[i].at \in T
  BY DEF BidsOf
<1> HIDE DEF T
<1>4. PICK t \in T : \A y \in T : y <= t
  BY <1>1, <1>2, <1>3, LatestExists
<1>5. t \in LastBidTimes(u)
  BY <1>4 DEF T, LastBidTimes
<1> QED
  BY <1>3, <1>4, <1>5

\* The policy, applied to what a call knows, admits only admissible bids.
LEMMA PolicySound ==
    ASSUME TypeOK,
           NEW u \in Users, NEW a \in Nat, NEW latest \in Nat, NEW own \in SUBSET Nat,
           NEW row, NEW auto,
           CanPlaceBid(row, u, a, latest, own, now),
           AuctionType # "SEALED" => \A i \in DOMAIN bids : bids[i].amount <= latest,
           \A i \in DOMAIN bids : bids[i].user = u => \E t \in own : bids[i].at <= t
    PROVE  Ledger!Admissible([user |-> u, amount |-> a, at |-> now, auto |-> auto])
<1> DEFINE b == [user |-> u, amount |-> a, at |-> now, auto |-> auto]
<1>1. b.user = u /\ b.amount = a /\ b.at = now
  OBVIOUS
<1>2. now \in Nat
  BY PolicyAssumption DEF TypeOK, Horizon
<1>3. ASSUME AuctionType # "SEALED", NEW i \in DOMAIN bids
      PROVE  a >= bids[i].amount + MinIncrement
  BY <1>3, BidsType, PolicyAssumption DEF CanPlaceBid
<1>4. ASSUME AuctionType = "SEALED", NEW i \in DOMAIN bids
      PROVE  u # bids[i].user
  BY <1>4 DEF CanPlaceBid
<1>5. ASSUME NEW i \in DOMAIN bids, u = bids[i].user
      PROVE  now - bids[i].at >= Cooldown
  <2>1. PICK t \in own : bids[i].at <= t
    BY <1>5
  <2>2. now - t >= Cooldown
    BY <2>1 DEF CanPlaceBid
  <2> QED
    BY <1>2, <2>1, <2>2, BidsType, PolicyAssumption
<1> HIDE DEF b
<1> SUFFICES Ledger!Admissible(b)
  BY DEF b
<1> QED
  BY <1>1, <1>3, <1>4, <1>5 DEF Ledger!Admissible

-----------------------------------------------------------------------------
(***************************************************************************)
(* What a step of a call does to the bids and to its own knowledge         *)
(***************************************************************************)

\* Only storing a bid changes the bids, and it adds the bid in hand.
LEMMA StepBids ==
    ASSUME TypeOK, NEW r \in Requests, Step(r) \/ DatabaseError(r) \/ ReleaseFails(r)
    PROVE  /\ now' = now /\ lapsed' = lapsed
           /\ \/ bids' = bids
              \/ /\ CreateBid(r) \/ AutoCreate(r)
                 /\ bids' = Append(bids, req[r].draft)
                 /\ req'[r].pc \in {"people", "pick", "release"}
<1>1. CASE CreateBid(r) \/ AutoCreate(r)
  BY <1>1, BlankFields, PlacedFields DEF CreateBid, AutoCreate, TypeOK
<1>2. CASE ~(CreateBid(r) \/ AutoCreate(r))
  BY <1>2 DEF Step, CheckQuota, AcquireLock, ReadConfig, ReadAuction, ReadLatest,
     ReadOwnLast, Validate, ExtendAuction, AutoReadPeople, AutoReadConfigs, AutoSkip,
     AutoPick, AutoFinish, AutoValidate, AutoExtend, DisableAllActive, ReleaseLock,
     DatabaseError, ReleaseFails
<1> QED
  BY <1>1, <1>2

\* The last element of a sequence one longer than before.
LEMMA Appended ==
    ASSUME TypeOK, NEW b \in Bid, bids' = Append(bids, b)
    PROVE  /\ Len(bids') = Len(bids) + 1 /\ bids'[Len(bids')] = b
           /\ DOMAIN bids' = 1..(Len(bids) + 1) /\ DOMAIN bids = 1..Len(bids)
           /\ Len(bids) \in Nat
           /\ \A i \in DOMAIN bids : bids'[i] = bids[i]
  BY DEF TypeOK

\* The kinds of record a call has after its step, as far as bids go.
LEMMA StepKnowledge ==
    ASSUME TypeOK, DraftInv, NEW r \in Requests,
           Step(r) \/ DatabaseError(r) \/ ReleaseFails(r)
    PROVE  \/ req'[r].pc \notin Drafted \cup {"own", "validate", "autoOwn"}
           \/ req'[r].pc \in {"own", "autoOwn"} /\ IsLatestAmount(req'[r].latest)
           \/ /\ req[r].pc = "own" /\ req'[r].pc = "validate"
              /\ req'[r].latest = req[r].latest /\ req'[r].user = req[r].user
              /\ req'[r].own = LastBidTimes(req[r].user)
           \/ /\ Validate(r) /\ req[r].user \in participants /\ Accepted(r)
              /\ req'[r].draft = Draft(r, FALSE)
              /\ req'[r].pc \in Drafted
           \/ /\ AutoValidate(r)
              /\ CanPlaceBid(req[r].row, req[r].user, req[r].amount, req[r].latest,
                             LastBidTimes(req[r].user), now)
              /\ req'[r].draft = Draft(r, TRUE)
              /\ req'[r].pc \in Drafted
           \/ /\ req[r].pc \in Drafted /\ req'[r].pc \in Drafted
              /\ req'[r].draft = req[r].draft /\ bids' = bids
<1>1. req[r] \in Request
  BY DEF TypeOK
<1>2. \A pc : Blank(pc).pc = pc /\ Between(r, pc).pc = pc /\ Placed(r, pc).pc = pc
  BY BlankFields, BetweenFields, PlacedFields
<1>3. CASE CheckQuota(r)
  <2>1. Blank("lock") \in Request
    BY BlankType DEF PC
  <2>2. req'[r].pc \in {"lock", "done"}
    BY <1>2, <1>3, <2>1 DEF CheckQuota, TypeOK, Request
  <2> QED
    BY <2>2 DEF Drafted
<1>4. CASE AcquireLock(r) \/ ReadConfig(r) \/ ReadAuction(r)
  <2>1. req'[r].pc \in {"config", "auction", "latest", "done", "release"}
    BY <1>1, <1>2, <1>4 DEF AcquireLock, ReadConfig, ReadAuction, TypeOK, Request
  <2> QED
    BY <2>1 DEF Drafted
<1>5. CASE ReadLatest(r)
  BY <1>1, <1>5 DEF ReadLatest, TypeOK, Request
<1>6. CASE ReadOwnLast(r)
  BY <1>1, <1>6 DEF ReadOwnLast, TypeOK, Request
<1>7. CASE Validate(r)
  <2>1. CASE req[r].user \in participants /\ Accepted(r)
    <3>1. req'[r].draft = Draft(r, FALSE) /\ req'[r].pc \in {"extend", "create"}
      BY <1>1, <1>7, <2>1 DEF Validate, TypeOK, Request
    <3> QED
      BY <1>7, <2>1, <3>1 DEF Drafted
  <2>2. CASE ~(req[r].user \in participants /\ Accepted(r))
    <3>1. req'[r].pc = "release"
      BY <1>2, <1>7, <2>2 DEF Validate, TypeOK
    <3> QED
      BY <3>1 DEF Drafted
  <2> QED
    BY <2>1, <2>2
<1>8. CASE ExtendAuction(r) \/ AutoExtend(r)
  <2>1. /\ req'[r].draft = req[r].draft /\ req'[r].pc \in {"create", "autoCreate"}
        /\ req[r].pc \in {"extend", "autoExtend"} /\ bids' = bids
    BY <1>1, <1>8 DEF ExtendAuction, AutoExtend, TypeOK, Request
  <2> QED
    BY <2>1 DEF Drafted
<1>9. CASE CreateBid(r) \/ AutoCreate(r) \/ AutoFinish(r) \/ DisableAllActive(r)
           \/ ReleaseLock(r) \/ ReleaseFails(r) \/ DatabaseError(r)
  <2>1. req'[r].pc \in {"people", "release", "pick", "disable", "done"}
    BY <1>2, <1>9 DEF CreateBid, AutoCreate, AutoFinish, DisableAllActive, ReleaseLock,
       ReleaseFails, DatabaseError, TypeOK
  <2> QED
    BY <2>1 DEF Drafted
<1>10. CASE AutoReadPeople(r) \/ AutoReadConfigs(r) \/ AutoSkip(r)
  <2>1. req'[r].pc \in {"configs", "pick"}
    <3>1. CASE AutoReadPeople(r)
      BY <1>1, <3>1 DEF AutoReadPeople, TypeOK, Request
    <3>2. CASE AutoReadConfigs(r)
      BY <1>1, <3>2 DEF AutoReadConfigs, TypeOK, Request
    <3>3. CASE AutoSkip(r)
      BY <1>1, <3>3 DEF AutoSkip, TypeOK, Request
    <3> QED
      BY <1>10, <3>1, <3>2, <3>3
  <2> QED
    BY <2>1 DEF Drafted
<1>11. CASE AutoPick(r)
  <2>1. PICK c \in req[r].todo, m \in StoredAmounts :
          /\ IsLatestAmount(m)
          /\ req'[r] = [req[r] EXCEPT !.pc = "autoOwn", !.user = c.user, !.max = c.max,
                                      !.amount = NextMin(r), !.latest = m,
                                      !.todo = Rest(r, c)]
    BY <1>11 DEF AutoPick, TypeOK
  <2>2. req'[r].pc = "autoOwn" /\ req'[r].latest = m
    BY <1>1, <2>1 DEF Request
  <2> QED
    BY <2>1, <2>2
<1>12. CASE AutoValidate(r)
  <2> DEFINE ok == /\ req[r].amount <= req[r].max
                   /\ CanPlaceBid(req[r].row, req[r].user, req[r].amount, req[r].latest,
                                  LastBidTimes(req[r].user), now)
  <2>1. CASE ok
    <3>1. req'[r].draft = Draft(r, TRUE) /\ req'[r].pc \in {"autoExtend", "autoCreate"}
      BY <1>1, <1>12, <2>1 DEF AutoValidate, TypeOK, Request
    <3> QED
      BY <1>12, <2>1, <3>1 DEF Drafted
  <2>2. CASE ~ok
    <3>1. req'[r].pc = "pick"
      BY <1>2, <1>12, <2>2 DEF AutoValidate, TypeOK
    <3> QED
      BY <3>1 DEF Drafted
  <2> QED
    BY <2>1, <2>2
<1> QED
  BY <1>3, <1>4, <1>5, <1>6, <1>7, <1>8, <1>9, <1>10, <1>11, <1>12 DEF Step

-----------------------------------------------------------------------------
(***************************************************************************)
(* The invariant is preserved                                              *)
(***************************************************************************)
LEMMA NextTime == TypeOK /\ DraftInv /\ TimeInv /\ [Next]_vars => TimeInv'
<1> SUFFICES ASSUME TypeOK, DraftInv, TimeInv, [Next]_vars PROVE TimeInv'
  OBVIOUS
<1>1. now \in Nat
  BY PolicyAssumption DEF TypeOK, Horizon
<1>2. ASSUME NEW r \in Requests, Step(r) \/ DatabaseError(r) \/ ReleaseFails(r)
      PROVE  TimeInv'
  <2>1. \A i \in DOMAIN bids' : bids'[i].at <= now
    <3>1. CASE bids' = bids
      BY <3>1 DEF TimeInv
    <3>2. CASE /\ CreateBid(r) \/ AutoCreate(r)
               /\ bids' = Append(bids, req[r].draft)
      <4>1. req[r].draft \in Bid /\ req[r].draft.at <= now
        BY <3>2 DEF CreateBid, AutoCreate, DraftInv, TimeInv, Drafted
      <4> QED
        BY <3>2, <4>1, Appended DEF TimeInv
    <3> QED
      BY <1>2, <3>1, <3>2, StepBids
  <2>2. req'[r].pc \in Drafted => req'[r].draft.at <= now
    <3>1. Draft(r, FALSE).at = now /\ Draft(r, TRUE).at = now
      BY DEF Draft
    <3>2. req'[r].pc \in Drafted =>
            \/ req'[r].draft = Draft(r, FALSE) \/ req'[r].draft = Draft(r, TRUE)
            \/ req'[r].draft = req[r].draft /\ req[r].pc \in Drafted
      BY <1>2, StepKnowledge DEF Drafted
    <3> QED
      <4>1. CASE req'[r].draft = Draft(r, FALSE) \/ req'[r].draft = Draft(r, TRUE)
        <5>1. req'[r].draft.at = now
          BY <3>1, <4>1, Zenon
        <5> QED
          BY <1>1, <5>1
      <4>2. CASE req'[r].draft = req[r].draft /\ req[r].pc \in Drafted
        BY <4>2 DEF TimeInv
      <4> QED
        BY <3>2, <4>1, <4>2
  <2> QED
    BY <1>2, <2>1, <2>2, StepBids, StepLocal DEF TimeInv
<1>3. CASE Tick
  <2>1. now' \in Nat /\ now <= now' /\ bids' = bids /\ req' = req
    BY <1>1, <1>3, PolicyAssumption DEF Tick, Horizon
  <2>2. \A i \in DOMAIN bids : bids[i].at \in Nat
    BY BidsType
  <2>3. \A r \in Requests : req[r].pc \in Drafted => req[r].draft.at \in Nat
    BY DEF DraftInv, Drafted, Bid
  <2> QED
    BY <1>1, <2>1, <2>2, <2>3 DEF TimeInv
<1>4. CASE Crash
  <2>1. \A r \in Requests : req'[r].pc \in {"idle", "done"}
    BY <1>4, BlankFields DEF Crash, TypeOK
  <2> QED
    BY <1>4, <2>1 DEF Crash, TimeInv, Drafted
<1>5. CASE UNCHANGED <<req, bids, now>>
  BY <1>5 DEF TimeInv
<1> QED
  BY <1>2, <1>3, <1>4, <1>5 DEF Next, Work, Join, SetAutoBid, DisableAutoBid, SaveAutoBid

LEMMA NextAdmit ==
    TypeOK /\ DraftInv /\ LockInv /\ TimeInv /\ AdmitInv /\ [Next]_vars => AdmitInv'
<1> SUFFICES ASSUME TypeOK, DraftInv, LockInv, TimeInv, AdmitInv, [Next]_vars,
                    lapsed' = {},
                    NEW s \in Requests
             PROVE  Informed(req[s])'
  BY DEF AdmitInv
<1>1. ASSUME NEW r \in Requests, Step(r) \/ DatabaseError(r) \/ ReleaseFails(r)
      PROVE  Informed(req[s])'
  <2>1. lapsed = {} /\ now' = now
    BY <1>1, StepBids
  <2>2. Informed(req[r]) /\ Informed(req[s])
    BY <2>1 DEF AdmitInv
  <2>3. CASE s # r /\ bids' = bids
    <3>1. req'[s] = req[s]
      BY <1>1, <2>3, StepLocal
    <3> QED
      BY <2>2, <2>3, <3>1 DEF Informed, Ledger!Admissible
  <2>4. CASE s # r /\ (CreateBid(r) \/ AutoCreate(r))
    <3>1. InSection(r)
      BY <2>4 DEF CreateBid, AutoCreate, InSection, Section
    <3>2. ~InSection(s)
      BY <2>1, <2>4, <3>1 DEF LockInv
    <3>3. req'[s].pc \notin Drafted \cup {"own", "validate", "autoOwn"}
      BY <1>1, <2>4, <3>2, StepLocal DEF InSection, Section, Drafted
    <3> QED
      BY <3>3 DEF Informed
  <2>5. CASE s = r
    <3>1. CASE req'[r].pc \notin Drafted \cup {"own", "validate", "autoOwn"}
      BY <2>5, <3>1 DEF Informed
    <3>2. CASE bids' # bids
      <4>1. req'[r].pc \in {"people", "pick", "release"}
        BY <1>1, <3>2, StepBids
      <4> QED
        BY <2>5, <4>1 DEF Informed, Drafted
    <3>3. CASE bids' = bids /\ req'[r].pc \in {"own", "autoOwn"} /\ IsLatestAmount(req'[r].latest)
      BY <2>5, <3>3 DEF Informed, IsLatestAmount, Drafted
    <3>4. CASE /\ bids' = bids
               /\ req[r].pc = "own" /\ req'[r].pc = "validate"
               /\ req'[r].latest = req[r].latest /\ req'[r].user = req[r].user
               /\ req'[r].own = LastBidTimes(req[r].user)
      BY <2>2, <2>5, <3>4, OwnCovers DEF Informed, Drafted
    <3>5. CASE /\ bids' = bids
               /\ Validate(r) /\ req[r].user \in participants /\ Accepted(r)
               /\ req'[r].draft = Draft(r, FALSE)
               /\ req'[r].pc \in Drafted
      <4>1. /\ req[r].user \in Users /\ req[r].amount \in Nat /\ req[r].latest \in Nat
            /\ req[r].own \in SUBSET Nat
        BY <3>5 DEF TypeOK, Request
      <4>2. /\ AuctionType # "SEALED" => \A i \in DOMAIN bids : bids[i].amount <= req[r].latest
            /\ \A i \in DOMAIN bids :
                  bids[i].user = req[r].user => \E t \in req[r].own : bids[i].at <= t
        BY <2>2, <3>5 DEF Validate, Informed
      <4>3. Ledger!Admissible(Draft(r, FALSE))
        BY <3>5, <4>1, <4>2, PolicySound DEF Accepted, Draft
      <4>4. Ledger!Admissible(req[r].draft)'
        BY <3>5, <4>3 DEF Ledger!Admissible
      <4> QED
        BY <2>5, <3>5, <4>4 DEF Informed, Drafted
    <3>6. CASE /\ bids' = bids
               /\ AutoValidate(r)
               /\ CanPlaceBid(req[r].row, req[r].user, req[r].amount, req[r].latest,
                              LastBidTimes(req[r].user), now)
               /\ req'[r].draft = Draft(r, TRUE)
               /\ req'[r].pc \in Drafted
      <4>1. /\ req[r].user \in Users /\ req[r].amount \in Nat /\ req[r].latest \in Nat
            /\ LastBidTimes(req[r].user) \in SUBSET Nat
        BY <3>6, LastBidTimesType DEF TypeOK, Request, DraftInv, AutoValidate
      <4>2. AuctionType # "SEALED" => \A i \in DOMAIN bids : bids[i].amount <= req[r].latest
        BY <2>2, <3>6 DEF AutoValidate, Informed
      <4>3. \A i \in DOMAIN bids : bids[i].user = req[r].user =>
               \E t \in LastBidTimes(req[r].user) : bids[i].at <= t
        BY OwnCovers
      <4>4. Ledger!Admissible(Draft(r, TRUE))
        BY <3>6, <4>1, <4>2, <4>3, PolicySound DEF Draft
      <4>5. Ledger!Admissible(req[r].draft)'
        BY <3>6, <4>4 DEF Ledger!Admissible
      <4> QED
        BY <2>5, <3>6, <4>5 DEF Informed, Drafted
    <3>7. CASE /\ req[r].pc \in Drafted /\ req'[r].pc \in Drafted
               /\ req'[r].draft = req[r].draft /\ bids' = bids
      <4>1. Ledger!Admissible(req[r].draft)'
        BY <2>2, <3>7 DEF Informed, Ledger!Admissible
      <4> QED
        BY <2>5, <3>7, <4>1 DEF Informed, Drafted
    <3> QED
      BY <1>1, <3>1, <3>2, <3>3, <3>4, <3>5, <3>6, <3>7, StepKnowledge
  <2> QED
    BY <1>1, <2>3, <2>4, <2>5, StepBids
<1>2. CASE Tick
  <2>1. lapsed = {} /\ req' = req /\ bids' = bids
    BY <1>2 DEF Tick
  <2> QED
    BY <2>1 DEF AdmitInv, Informed, Ledger!Admissible
<1>3. CASE Crash
  <2>1. req'[s].pc \in {"idle", "done"}
    BY <1>3, BlankFields DEF Crash, TypeOK
  <2> QED
    BY <2>1 DEF Informed, Drafted
<1>4. CASE UNCHANGED <<req, bids, lapsed>>
  <2>1. Informed(req[s]) /\ req'[s] = req[s] /\ bids' = bids
    BY <1>4 DEF AdmitInv
  <2> QED
    BY <2>1 DEF Informed, Ledger!Admissible
<1> QED
  BY <1>1, <1>2, <1>3, <1>4 DEF Next, Work, Join, SetAutoBid, DisableAutoBid, SaveAutoBid

-----------------------------------------------------------------------------
(***************************************************************************)
(* Refinement                                                              *)
(***************************************************************************)
LedgerInv == TypeOK /\ DraftInv /\ LockInv /\ TimeInv /\ AdmitInv

LEMMA InitLedgerInv == Init => LedgerInv
<1> SUFFICES ASSUME Init PROVE LedgerInv
  OBVIOUS
<1>1. \A r \in Requests : req[r].pc = "idle"
  BY BlankFields DEF Init
<1>2. DOMAIN bids = {}
  BY DEF Init
<1>3. LockInv /\ TimeInv /\ AdmitInv
  BY <1>1, <1>2 DEF LockInv, TimeInv, AdmitInv, Informed, Drafted, InSection, Section
<1> QED
  BY <1>3, InitType DEF LedgerInv

LEMMA NextLedgerInv == LedgerInv /\ [Next]_vars => LedgerInv'
  BY NextType, NextDraft, NextLock, NextTime, NextAdmit DEF LedgerInv

\* A bid that a call stores is entered in the ledger.
LEMMA StoreEnters ==
    ASSUME LedgerInv, NEW r \in Requests, CreateBid(r) \/ AutoCreate(r)
    PROVE  Ledger!Enter
<1> USE DEF LedgerInv
<1>1. req[r].draft \in Bid /\ bids' = Append(bids, req[r].draft) /\ lapsed' = lapsed
  BY DEF CreateBid, AutoCreate, DraftInv
<1>2. /\ Len(bids') = Len(bids) + 1 /\ bids'[Len(bids')] = req[r].draft
  BY <1>1, Appended
<1>3. lapsed = {} => Ledger!Admissible(req[r].draft)
  BY DEF AdmitInv, Informed, CreateBid, AutoCreate, Drafted
<1> QED
  BY <1>1, <1>2, <1>3 DEF Ledger!Enter

LEMMA StepRefines ==
    LedgerInv /\ [Next]_vars => [Ledger!LedgerNext]_<<bids, lapsed = {}>>
<1> SUFFICES ASSUME LedgerInv, [Next]_vars
             PROVE  Ledger!LedgerNext \/ (bids' = bids /\ (lapsed = {})' = (lapsed = {}))
  OBVIOUS
<1>1. ASSUME NEW r \in Requests, Step(r) \/ DatabaseError(r) \/ ReleaseFails(r)
      PROVE  Ledger!LedgerNext \/ (bids' = bids /\ lapsed' = lapsed)
  BY <1>1, StepBids, StoreEnters DEF Ledger!LedgerNext, LedgerInv
<1>2. CASE Tick
  <2>1. bids' = bids /\ lapsed \subseteq lapsed'
    BY <1>2 DEF Tick
  <2>2. CASE lapsed = {} /\ lapsed' # {}
    BY <2>1, <2>2 DEF Ledger!LedgerNext, Ledger!Void
  <2>3. CASE ~(lapsed = {} /\ lapsed' # {})
    BY <2>1, <2>3
  <2> QED
    BY <2>2, <2>3
<1>3. CASE UNCHANGED <<bids, lapsed>>
  BY <1>3
<1> QED
  BY <1>1, <1>2, <1>3 DEF Next, Work, Join, SetAutoBid, DisableAutoBid, SaveAutoBid, Crash

\* The interleaved calls of placeBid implement the sequential ledger: until a
\* lock expires under its holder, each bid they store, manual or automatic,
\* is admissible after all the bids stored before it.
THEOREM BiddingKeepsLedger == Spec => KeepsLedger
<1>1. Init => Ledger!LedgerInit
  BY DEF Init, Ledger!LedgerInit
<1>2. Spec => []LedgerInv
  BY InitLedgerInv, NextLedgerInv, PTL DEF Spec
<1>3. LedgerInv /\ [Next]_vars => [Ledger!LedgerNext]_<<bids, lapsed = {}>>
  BY StepRefines
<1> QED
  BY <1>1, <1>2, <1>3, PTL DEF Spec, KeepsLedger, Ledger!LedgerSpec

-----------------------------------------------------------------------------
(***************************************************************************)
(* What the ledger's promise means for the stored bids                     *)
(***************************************************************************)
Orderly == BidLadder /\ CooldownKept /\ OneSealedBid

LEMMA NextFair == LedgerInv /\ Orderly /\ [Next]_vars => Orderly'
<1> SUFFICES ASSUME LedgerInv, Orderly, [Ledger!LedgerNext]_<<bids, lapsed = {}>> PROVE Orderly'
  BY StepRefines
<1>1. CASE Ledger!Enter /\ lapsed = {}
  <2> DEFINE b == bids'[Len(bids')]
  <2>1. /\ bids' = Append(bids, b) /\ Ledger!Admissible(b) /\ bids \in Seq(Bid)
    BY <1>1 DEF Ledger!Enter, LedgerInv, TypeOK
  <2>2. /\ DOMAIN bids' = 1..(Len(bids) + 1) /\ DOMAIN bids = 1..Len(bids)
        /\ Len(bids) \in Nat /\ bids'[Len(bids) + 1] = b
        /\ \A i \in DOMAIN bids : bids'[i] = bids[i]
    BY <2>1
  <2> HIDE DEF b
  <2>3. ASSUME NEW i \in DOMAIN bids', NEW j \in DOMAIN bids', i < j
        PROVE  /\ i \in DOMAIN bids /\ bids'[i] = bids[i]
               /\ \/ j \in DOMAIN bids /\ bids'[j] = bids[j]
                  \/ bids'[j] = b
    BY <2>2, <2>3
  <2>4. BidLadder'
    BY <1>1, <2>1, <2>3 DEF Orderly, BidLadder, Ledger!Admissible
  <2>5. CooldownKept'
    BY <1>1, <2>1, <2>3 DEF Orderly, CooldownKept, Ledger!Admissible
  <2>6. OneSealedBid'
    <3>1. ASSUME AuctionType = "SEALED",
                 NEW i \in DOMAIN bids', NEW j \in DOMAIN bids', i < j
          PROVE  bids'[i].user # bids'[j].user
      <4>1. i # j
        BY <2>2, <3>1
      <4> QED
        BY <1>1, <2>1, <2>3, <3>1, <4>1 DEF Orderly, OneSealedBid, Ledger!Admissible
    <3>2. \A i, j \in DOMAIN bids' : i = j \/ i < j \/ j < i
      BY <2>2
    <3> QED
      BY <3>1, <3>2 DEF OneSealedBid
  <2> QED
    BY <2>4, <2>5, <2>6 DEF Orderly
<1>2. CASE (lapsed # {})'
  BY <1>2 DEF Orderly, BidLadder, CooldownKept, OneSealedBid
<1>3. CASE bids' = bids /\ (lapsed = {})' = (lapsed = {})
  BY <1>3 DEF Orderly, BidLadder, CooldownKept, OneSealedBid
<1> QED
  BY <1>1, <1>2, <1>3 DEF Ledger!LedgerNext, Ledger!Void, Ledger!Enter

\* Until a lock expires under its holder, the stored bids rise by the
\* increment, no user bids twice within the cooldown, and nobody has two
\* sealed bids.
THEOREM StoredBidsFair == Spec => [](BidLadder /\ CooldownKept /\ OneSealedBid)
<1>1. Init => LedgerInv /\ Orderly
  <2>1. Init => Orderly
    BY DEF Init, Orderly, BidLadder, CooldownKept, OneSealedBid
  <2> QED
    BY <2>1, InitLedgerInv
<1>2. LedgerInv /\ Orderly /\ [Next]_vars => (LedgerInv /\ Orderly)'
  BY NextLedgerInv, NextFair
<1>3. Orderly => BidLadder /\ CooldownKept /\ OneSealedBid
  BY DEF Orderly
<1> QED
  BY <1>1, <1>2, <1>3, PTL DEF Spec

\* Until a lock expires under its holder, two bids of one user are at least
\* the cooldown apart, whether typed in or made by auto-bidding.
THEOREM CooldownHolds == Spec => []CooldownKept
  BY StoredBidsFair, PTL

\* Until a lock expires under its holder, nobody has two sealed bids, however
\* many calls the user has in flight.
THEOREM SealedOnce == Spec => []OneSealedBid
  BY StoredBidsFair, PTL

-----------------------------------------------------------------------------
(***************************************************************************)
(* The copies of the auction row                                           *)
(***************************************************************************)

\* Where a call holds a copy of the row that it may write back.
Following == {"latest", "own", "validate", "extend", "create", "people", "configs", "pick",
              "autoOwn", "autoExtend", "autoCreate"}

\* What a step of a call does to the row and to its copies of it.
LEMMA StepRows ==
    ASSUME TypeOK, NEW r \in Requests, Step(r) \/ DatabaseError(r) \/ ReleaseFails(r)
    PROVE  \/ /\ auction' = auction /\ req'[r].pc \notin Following
              /\ req'[r].row \in {req[r].row, Published} /\ req'[r].out \in {req[r].out, Published}
           \/ /\ auction' = auction /\ req'[r].pc = "latest"
              /\ req'[r].row = auction /\ req'[r].out = req[r].out
           \/ /\ auction' = auction /\ req[r].pc \in Following
              /\ req'[r].pc \in Following \ {"create", "autoCreate"}
              /\ req'[r].row = req[r].row /\ req'[r].out \in {req[r].out, req[r].row, Published}
           \/ /\ auction' = auction /\ req[r].pc \in {"validate", "autoOwn"}
              /\ req'[r].pc \in {"create", "autoCreate"}
              /\ req'[r].row = req[r].row /\ req'[r].out = req[r].row
           \/ /\ auction' = Extended(req[r].row) /\ req[r].pc \in {"extend", "autoExtend"}
              /\ req'[r].pc \in {"create", "autoCreate"}
              /\ req'[r].row = req[r].row /\ req'[r].out = Extended(req[r].row)
           \/ /\ auction' = auction /\ req[r].pc \in {"create", "autoCreate"}
              /\ req'[r].pc \in {"people", "pick"}
              /\ req'[r].row = req[r].out /\ req'[r].out = Published
<1>1. req[r] \in Request
  BY DEF TypeOK
<1>2. \A pc : /\ Blank(pc).pc = pc /\ Blank(pc).row = Published /\ Blank(pc).out = Published
              /\ Between(r, pc).pc = pc /\ Between(r, pc).row = req[r].row
              /\ Between(r, pc).out = Published
              /\ Placed(r, pc).pc = pc /\ Placed(r, pc).row = req[r].out
              /\ Placed(r, pc).out = Published
  BY BlankFields, BetweenFields, PlacedFields
<1>3. CASE CheckQuota(r)
  <2>1. Blank("lock") \in Request
    BY BlankType DEF PC
  <2>2. /\ req'[r].pc \in {"lock", "done"} /\ auction' = auction
        /\ req'[r].row = Published /\ req'[r].out = Published
    BY <1>3, <2>1, BlankFields DEF CheckQuota, TypeOK, Request
  <2> QED
    BY <2>2 DEF Following
<1>4. CASE AcquireLock(r) \/ ReadConfig(r)
  <2>1. /\ auction' = auction
        /\ \/ req'[r] = Blank("done") \/ req'[r] = Blank("release")
           \/ /\ req'[r].pc \in {"config", "auction"}
              /\ req'[r].row = req[r].row /\ req'[r].out = req[r].out
    BY <1>1, <1>4 DEF AcquireLock, ReadConfig, TypeOK, Request
  <2> QED
    BY <1>2, <2>1 DEF Following
<1>5. CASE ReadLatest(r) \/ ReadOwnLast(r)
  <2>1. /\ auction' = auction /\ req'[r].pc \in {"own", "validate"} /\ req[r].pc \in {"latest", "own"}
        /\ req'[r].row = req[r].row /\ req'[r].out = req[r].out
    BY <1>1, <1>5 DEF ReadLatest, ReadOwnLast, TypeOK, Request
  <2> QED
    BY <2>1 DEF Following
<1>6. CASE ReadAuction(r)
  BY <1>1, <1>6 DEF ReadAuction, TypeOK, Request
<1>7. CASE Validate(r) \/ AutoValidate(r)
  <2>1. /\ auction' = auction /\ req[r].pc \in {"validate", "autoOwn"}
        /\ \/ req'[r] = Blank("release")
           \/ req[r].pc = "autoOwn" /\ req'[r] = Between(r, "pick")
           \/ /\ req'[r].pc \in {"extend", "create", "autoExtend", "autoCreate"}
              /\ req'[r].row = req[r].row /\ req'[r].out = req[r].row
    <3>1. CASE Validate(r)
      BY <1>1, <3>1 DEF Validate, TypeOK, Request
    <3>2. CASE AutoValidate(r)
      BY <1>1, <3>2 DEF AutoValidate, TypeOK, Request
    <3> QED
      BY <1>7, <3>1, <3>2
  <2> QED
    BY <1>2, <2>1 DEF Following
<1>8. CASE ExtendAuction(r) \/ AutoExtend(r)
  BY <1>1, <1>8 DEF ExtendAuction, AutoExtend, TypeOK, Request
<1>9. CASE AutoFinish(r) \/ DisableAllActive(r) \/ ReleaseLock(r) \/ ReleaseFails(r)
  <2>1. auction' = auction /\ \E pc \in {"release", "disable", "done"} : req'[r] = Blank(pc)
    BY <1>9 DEF AutoFinish, DisableAllActive, ReleaseLock, ReleaseFails, TypeOK
  <2> QED
    BY <1>2, <2>1 DEF Following
<1>10. CASE CreateBid(r) \/ AutoCreate(r)
  <2>1. /\ auction' = auction /\ req[r].pc \in {"create", "autoCreate"}
        /\ \/ req'[r] = Blank("release")
           \/ \E pc \in {"people", "pick"} : req'[r] = Placed(r, pc)
    BY <1>10 DEF CreateBid, AutoCreate, TypeOK
  <2> QED
    BY <1>2, <2>1 DEF Following
<1>11. CASE DatabaseError(r)
  <2>1. /\ auction' = auction
        /\ \/ req'[r] = Blank("release")
           \/ req[r].pc \in {"autoOwn", "autoExtend", "autoCreate"} /\ req'[r] = Between(r, "pick")
    BY <1>11 DEF DatabaseError, TypeOK
  <2> QED
    BY <1>2, <2>1 DEF Following
<1>12. CASE AutoReadPeople(r) \/ AutoReadConfigs(r) \/ AutoSkip(r)
  <2>1. /\ auction' = auction /\ req[r].pc \in {"people", "configs", "pick"}
        /\ req'[r].pc \in {"configs", "pick"}
        /\ req'[r].row = req[r].row /\ req'[r].out = req[r].out
    <3>1. CASE AutoReadPeople(r)
      BY <1>1, <3>1 DEF AutoReadPeople, TypeOK, Request
    <3>2. CASE AutoReadConfigs(r)
      BY <1>1, <3>2 DEF AutoReadConfigs, TypeOK, Request
    <3>3. CASE AutoSkip(r)
      BY <1>1, <3>3 DEF AutoSkip, TypeOK, Request
    <3> QED
      BY <1>12, <3>1, <3>2, <3>3
  <2> QED
    BY <2>1 DEF Following
<1>13. CASE AutoPick(r)
  <2>1. PICK c \in req[r].todo, m \in StoredAmounts :
          req'[r] = [req[r] EXCEPT !.pc = "autoOwn", !.user = c.user, !.max = c.max,
                                   !.amount = NextMin(r), !.latest = m,
                                   !.todo = Rest(r, c)]
    BY <1>13 DEF AutoPick, TypeOK
  <2>2. /\ auction' = auction /\ req[r].pc = "pick" /\ req'[r].pc = "autoOwn"
        /\ req'[r].row = req[r].row /\ req'[r].out = req[r].out
    BY <1>1, <1>13, <2>1 DEF Request, AutoPick
  <2> QED
    BY <2>2 DEF Following
<1> QED
  BY <1>3, <1>4, <1>5, <1>6, <1>7, <1>8, <1>9, <1>10, <1>11, <1>12, <1>13, Zenon DEF Step

-----------------------------------------------------------------------------
(***************************************************************************)
(* Extensions are not lost                                                 *)
(***************************************************************************)

\* A copy of the row is at most one extension behind: a bid that could not be
\* stored after its extension was leaves the loop with the copy from before.
Near(row) == row.endAt <= auction.endAt /\ auction.endAt <= row.endAt + AntiSnip

NearInv ==
    lapsed = {} =>
        \A r \in Requests :
            /\ req[r].pc \in Following => Near(req[r].row)
            /\ req[r].pc \in {"create", "autoCreate"} => Near(req[r].out)

\* A call that follows the row is the only one that may write it.
LEMMA OnlyFollower ==
    ASSUME LockInv, lapsed = {}, NEW r \in Requests, NEW s \in Requests, s # r,
           req[r].pc \in Following, req[s].pc \in Following
    PROVE  FALSE
<1>1. InSection(r) /\ InSection(s)
  BY DEF Following, InSection, Section
<1> QED
  BY <1>1 DEF LockInv

LEMMA NextNear == TypeOK /\ LockInv /\ NearInv /\ [Next]_vars => NearInv'
<1> SUFFICES ASSUME TypeOK, LockInv, NearInv, [Next]_vars, lapsed' = {} PROVE
        \A r \in Requests : /\ (req[r].pc \in Following => Near(req[r].row))'
                            /\ (req[r].pc \in {"create", "autoCreate"} => Near(req[r].out))'
  BY DEF NearInv
<1> USE PolicyAssumption
<1>0. auction \in Row /\ auction.endAt \in Nat
  BY DEF TypeOK, Row
<1>1. ASSUME NEW r \in Requests, Step(r) \/ DatabaseError(r) \/ ReleaseFails(r),
             NEW s \in Requests
      PROVE  /\ (req[s].pc \in Following => Near(req[s].row))'
             /\ (req[s].pc \in {"create", "autoCreate"} => Near(req[s].out))'
  <2>1. lapsed = {}
    BY <1>1, StepBids
  <2>2. /\ req[r].pc \in Following => Near(req[r].row)
        /\ req[r].pc \in {"create", "autoCreate"} => Near(req[r].out)
    BY <2>1 DEF NearInv
  <2>3. req[r].row \in Row /\ req[r].row.endAt \in Nat /\ req[r].out.endAt \in Nat
    BY DEF TypeOK, Request, Row
  <2>4. Extended(req[r].row).endAt = req[r].row.endAt + AntiSnip
    BY <2>3, ExtendedType
  <2>5. CASE s = r
    BY <1>0, <1>1, <2>2, <2>3, <2>4, <2>5, StepRows DEF Near, Following
  <2>6. CASE s # r
    <3>1. req'[s] = req[s]
      BY <1>1, <2>6, StepLocal
    <3>2. CASE auction' = auction
      BY <2>1, <3>1, <3>2 DEF NearInv, Near
    <3>3. CASE req[r].pc \in {"extend", "autoExtend"}
      <4>1. req[s].pc \notin Following
        BY <2>1, <2>6, <3>3, OnlyFollower DEF Following
      <4> QED
        BY <3>1, <4>1 DEF Following
    <3> QED
      BY <1>1, <3>2, <3>3, StepRows
  <2> QED
    BY <2>5, <2>6
<1>2. CASE Tick
  <2>1. lapsed = {} /\ req' = req /\ auction' = auction
    BY <1>2 DEF Tick
  <2> QED
    BY <2>1 DEF NearInv, Near
<1>3. CASE Crash
  <2>1. \A s \in Requests : req'[s].pc \in {"idle", "done"}
    BY <1>3, BlankFields DEF Crash, TypeOK
  <2> QED
    BY <2>1 DEF Following
<1>4. CASE UNCHANGED <<req, auction, lapsed>>
  BY <1>4 DEF NearInv, Near
<1> QED
  BY <1>1, <1>2, <1>3, <1>4 DEF Next, Work, Join, SetAutoBid, DisableAutoBid, SaveAutoBid

\* As long as no lock expires under its holder, no bid takes back an
\* extension that an earlier bid was granted, not even one made by the loop
\* of auto-bids after a failed save.
THEOREM ExtensionsStay == Spec => NoLostExtension
<1>1. Init => TypeOK /\ DraftInv /\ LockInv /\ NearInv
  <2>1. Init => LockInv /\ NearInv
    BY BlankFields DEF Init, LockInv, NearInv, InSection, Section, Following
  <2> QED
    BY <2>1, InitType
<1>2. TypeOK /\ DraftInv /\ LockInv /\ NearInv /\ [Next]_vars => (TypeOK /\ DraftInv /\ LockInv /\ NearInv)'
  BY NextType, NextDraft, NextLock, NextNear
<1>3. TypeOK /\ DraftInv /\ LockInv /\ NearInv /\ [Next]_vars =>
         [lapsed' = {} => auction'.endAt >= auction.endAt]_vars
  <2> SUFFICES ASSUME TypeOK, NearInv, [Next]_vars, lapsed' = {} PROVE auction'.endAt >= auction.endAt
    OBVIOUS
  <2>0. auction.endAt \in Nat
    BY DEF TypeOK, Row
  <2>1. CASE auction' = auction
    BY <2>0, <2>1
  <2>2. ASSUME NEW r \in Requests, Step(r) \/ DatabaseError(r) \/ ReleaseFails(r) PROVE auction'.endAt >= auction.endAt
    <3>1. CASE auction' = Extended(req[r].row) /\ req[r].pc \in {"extend", "autoExtend"}
      <4>1. lapsed = {}
        BY <2>2, StepBids
      <4>2. Near(req[r].row)
        BY <3>1, <4>1 DEF NearInv, Following
      <4>3. req[r].row \in Row /\ req[r].row.endAt \in Nat
        BY DEF TypeOK, Request, Row
      <4>4. Extended(req[r].row).endAt = req[r].row.endAt + AntiSnip
        BY <4>3, ExtendedType
      <4> QED
        BY <2>0, <3>1, <4>2, <4>3, <4>4, PolicyAssumption DEF Near
    <3> QED
      BY <2>1, <2>2, <3>1, StepRows
  <2> QED
    BY <2>1, <2>2 DEF Next, Work, Join, SetAutoBid, DisableAutoBid, SaveAutoBid, Tick, Crash
<1> QED
  BY <1>1, <1>2, <1>3, PTL DEF Spec, NoLostExtension

-----------------------------------------------------------------------------
(***************************************************************************)
(* Auto-bidding does not raise its own user's bid                          *)
(***************************************************************************)
AutoPart == {"people", "configs", "pick", "autoOwn", "autoExtend", "autoCreate"}

\* Made since the lock was taken.
Fresh(at) == now - at <= TTL - lock.ttl

Held == lock.holder # NoRequest => lock.ttl >= 1

\* While a call bids on, its own last bid is the newest one and younger than
\* the lock; a bid typed in is not marked as automatic.
FreshInv ==
    lapsed = {} =>
        \A r \in Requests :
            /\ req[r].pc \in Drafted => Fresh(req[r].draft.at)
            /\ req[r].pc \in AutoPart => Len(bids) > 0 /\ Fresh(bids[Len(bids)].at)

ManualInv == \A r \in Requests : req[r].pc \in {"extend", "create"} => req[r].draft.auto = FALSE

LEMMA NextHeld == TypeOK /\ Held /\ [Next]_vars => Held'
<1> SUFFICES ASSUME TypeOK, Held, [Next]_vars PROVE Held'
  OBVIOUS
<1> USE BiddingAssumption
<1>0. lock.ttl \in Nat /\ lock.holder \in Requests \cup {NoRequest}
  BY DEF TypeOK, Lock
<1>1. CASE Tick
  <2>1. CASE lock.ttl > 1
    <3>1. lock'.ttl = lock.ttl - 1
      BY <1>1, <2>1 DEF Tick, TypeOK, Lock
    <3> QED
      BY <1>0, <2>1, <3>1 DEF Held
  <2>2. CASE ~(lock.ttl > 1)
    BY <1>1, <2>2 DEF Tick, Free, Held
  <2> QED
    BY <2>1, <2>2
<1>2. ASSUME NEW r \in Requests, AcquireLock(r) PROVE Held'
  BY <1>2 DEF AcquireLock, Held
<1>3. ASSUME NEW r \in Requests, ReleaseLock(r) PROVE Held'
  BY <1>3 DEF ReleaseLock, Free, Held
<1>4. CASE UNCHANGED lock
  BY <1>4 DEF Held
<1>5. ASSUME NEW r \in Requests, Step(r) \/ DatabaseError(r) \/ ReleaseFails(r) PROVE Held'
  <2>1. CASE AcquireLock(r) \/ ReleaseLock(r)
    BY <1>2, <1>3, <2>1
  <2>2. CASE ~(AcquireLock(r) \/ ReleaseLock(r))
    <3>1. UNCHANGED lock
      BY <1>5, <2>2 DEF Step, CheckQuota, ReadConfig, ReadAuction, ReadLatest, ReadOwnLast,
         Validate, ExtendAuction, CreateBid, AutoReadPeople, AutoReadConfigs, AutoSkip, AutoPick,
         AutoFinish, AutoValidate, AutoExtend, AutoCreate, DisableAllActive, DatabaseError, ReleaseFails
    <3> QED
      BY <1>4, <3>1
  <2> QED
    BY <2>1, <2>2
<1>6. CASE \/ \E u \in Users : Join(u)
           \/ \E u \in AutoUsers :
                 (\E m \in MaxBids : SetAutoBid(u, m)) \/ DisableAutoBid(u) \/ SaveAutoBid(u)
           \/ Crash \/ UNCHANGED vars
  <2>1. UNCHANGED lock
    BY <1>6 DEF Join, SetAutoBid, DisableAutoBid, SaveAutoBid, Crash, vars
  <2> QED
    BY <1>4, <2>1
<1> QED
  BY <1>1, <1>5, <1>6, Zenon DEF Next, Work

LEMMA NextManual == TypeOK /\ ManualInv /\ [Next]_vars => ManualInv'
<1> SUFFICES ASSUME TypeOK, ManualInv, [Next]_vars PROVE ManualInv'
  OBVIOUS
<1>1. ASSUME NEW r \in Requests, Step(r) \/ DatabaseError(r) \/ ReleaseFails(r),
             req'[r].pc \in {"extend", "create"}
      PROVE  req'[r].draft.auto = FALSE
  <2>1. req[r] \in Request
    BY DEF TypeOK
  <2>2. CASE Validate(r)
    <3>1. CASE req[r].user \in participants /\ Accepted(r)
      <4>1. req'[r].draft = Draft(r, FALSE)
        BY <2>1, <2>2, <3>1 DEF Validate, TypeOK, Request
      <4>2. Draft(r, FALSE).auto = FALSE
        BY Zenon DEF Draft
      <4> QED
        BY <4>1, <4>2, Zenon
    <3>2. CASE ~(req[r].user \in participants /\ Accepted(r))
      <4>1. req'[r].pc = "release"
        BY <2>2, <3>2, BlankFields DEF Validate, TypeOK
      <4> QED
        BY <1>1, <4>1
    <3> QED
      BY <3>1, <3>2
  <2>3. CASE ExtendAuction(r)
    <3>1. req'[r].draft = req[r].draft /\ req[r].pc = "extend"
      BY <2>1, <2>3 DEF ExtendAuction, TypeOK, Request
    <3> QED
      BY <3>1, Zenon DEF ManualInv
  <2>4. CASE ~Validate(r) /\ ~ExtendAuction(r)
    <3>1. req'[r].pc \notin {"extend", "create"}
      <4>1. \A pc : Blank(pc).pc = pc /\ Between(r, pc).pc = pc /\ Placed(r, pc).pc = pc
        BY BlankFields, BetweenFields, PlacedFields
      <4>2. CASE CheckQuota(r)
        <5>1. Blank("lock") \in Request
          BY BlankType DEF PC
        <5>2. req'[r].pc \in {"lock", "done"}
          BY <4>1, <4>2, <5>1 DEF CheckQuota, TypeOK, Request
        <5> QED
          BY <5>2
      <4>3. CASE AcquireLock(r) \/ ReadConfig(r) \/ ReadAuction(r) \/ ReadLatest(r) \/ ReadOwnLast(r)
        <5>1. req'[r].pc \in {"config", "auction", "latest", "own", "validate", "done", "release"}
          BY <2>1, <4>1, <4>3
             DEF AcquireLock, ReadConfig, ReadAuction, ReadLatest, ReadOwnLast, TypeOK, Request
        <5> QED
          BY <5>1
      <4>4. CASE AutoReadPeople(r)
        BY <2>1, <4>4 DEF AutoReadPeople, TypeOK, Request
      <4>5. CASE AutoReadConfigs(r)
        BY <2>1, <4>5 DEF AutoReadConfigs, TypeOK, Request
      <4>6. CASE AutoSkip(r)
        BY <2>1, <4>6 DEF AutoSkip, TypeOK, Request
      <4>7. CASE AutoPick(r)
        <5>1. PICK c \in req[r].todo, m \in StoredAmounts :
                req'[r] = [req[r] EXCEPT !.pc = "autoOwn", !.user = c.user, !.max = c.max,
                                         !.amount = NextMin(r), !.latest = m,
                                         !.todo = Rest(r, c)]
          BY <4>7 DEF AutoPick, TypeOK
        <5>2. req'[r].pc = "autoOwn"
          BY <2>1, <5>1 DEF Request
        <5> QED
          BY <5>2
      <4>8. CASE AutoValidate(r)
        <5>1. req'[r].pc \in {"pick", "autoExtend", "autoCreate"}
          BY <2>1, <4>1, <4>8 DEF AutoValidate, TypeOK, Request
        <5> QED
          BY <5>1
      <4>9. CASE AutoExtend(r)
        BY <2>1, <4>9 DEF AutoExtend, TypeOK, Request
      <4>10. CASE CreateBid(r) \/ AutoCreate(r) \/ AutoFinish(r) \/ DisableAllActive(r)
                  \/ ReleaseLock(r) \/ ReleaseFails(r) \/ DatabaseError(r)
        <5>1. req'[r].pc \in {"people", "release", "pick", "disable", "done"}
          BY <4>1, <4>10 DEF CreateBid, AutoCreate, AutoFinish, DisableAllActive, ReleaseLock,
             ReleaseFails, DatabaseError, TypeOK
        <5> QED
          BY <5>1
      <4> QED
        BY <1>1, <2>4, <4>2, <4>3, <4>4, <4>5, <4>6, <4>7, <4>8, <4>9, <4>10 DEF Step
    <3> QED
      BY <1>1, <3>1
  <2> QED
    BY <2>2, <2>3, <2>4
<1>2. ASSUME NEW r \in Requests, Step(r) \/ DatabaseError(r) \/ ReleaseFails(r) PROVE ManualInv'
  <2>1. \A s \in Requests : s # r => req'[s] = req[s]
    BY <1>2, StepLocal
  <2> QED
    BY <1>1, <1>2, <2>1, Zenon DEF ManualInv
<1>3. CASE Crash
  <2>1. \A s \in Requests : req'[s].pc \in {"idle", "done"}
    BY <1>3, BlankFields DEF Crash, TypeOK
  <2>2. \A s \in Requests : req'[s].pc \notin {"extend", "create"}
    BY <2>1
  <2> QED
    BY <2>2, Zenon DEF ManualInv
<1>4. CASE UNCHANGED req
  BY <1>4, Zenon DEF ManualInv
<1> QED
  BY <1>2, <1>3, <1>4 DEF Next, Work, Join, SetAutoBid, DisableAutoBid, SaveAutoBid, Tick

\* A call comes to auto-bidding by storing its own bid first.
LEMMA StepAuto ==
    ASSUME TypeOK, NEW r \in Requests, Step(r) \/ DatabaseError(r) \/ ReleaseFails(r),
           req'[r].pc \in AutoPart
    PROVE  req[r].pc \in AutoPart \/ CreateBid(r)
<1>1. req[r] \in Request
  BY DEF TypeOK
<1>2. \A pc : Blank(pc).pc = pc /\ Between(r, pc).pc = pc /\ Placed(r, pc).pc = pc
  BY BlankFields, BetweenFields, PlacedFields
<1>3. CASE CheckQuota(r)
  <2>1. Blank("lock") \in Request
    BY BlankType DEF PC
  <2>2. req'[r].pc \in {"lock", "done"}
    BY <1>2, <1>3, <2>1 DEF CheckQuota, TypeOK, Request
  <2> QED
    BY <2>2 DEF AutoPart
<1>4. CASE AcquireLock(r) \/ ReadConfig(r) \/ ReadAuction(r) \/ ReadLatest(r) \/ ReadOwnLast(r)
  <2>1. req'[r].pc \in {"config", "auction", "latest", "own", "validate", "done", "release"}
    BY <1>1, <1>2, <1>4 DEF AcquireLock, ReadConfig, ReadAuction, ReadLatest, ReadOwnLast, TypeOK, Request
  <2> QED
    BY <2>1 DEF AutoPart
<1>5. CASE Validate(r) \/ ExtendAuction(r)
  <2>1. req'[r].pc \in {"extend", "create", "release"}
    <3>1. CASE Validate(r) /\ req[r].user \in participants /\ Accepted(r)
      BY <1>1, <3>1 DEF Validate, TypeOK, Request
    <3>2. CASE Validate(r) /\ ~(req[r].user \in participants /\ Accepted(r))
      BY <1>2, <3>2 DEF Validate, TypeOK
    <3>3. CASE ExtendAuction(r)
      BY <1>1, <3>3 DEF ExtendAuction, TypeOK, Request
    <3> QED
      BY <1>5, <3>1, <3>2, <3>3
  <2> QED
    BY <2>1 DEF AutoPart
<1>6. CASE AutoReadPeople(r) \/ AutoReadConfigs(r) \/ AutoSkip(r) \/ AutoPick(r) \/ AutoValidate(r)
           \/ AutoExtend(r) \/ AutoCreate(r)
  BY <1>6 DEF AutoReadPeople, AutoReadConfigs, AutoSkip, AutoPick, AutoValidate, AutoExtend, AutoCreate,
     AutoPart
<1>7. CASE AutoFinish(r) \/ DisableAllActive(r) \/ ReleaseLock(r) \/ ReleaseFails(r)
  <2>1. req'[r].pc \in {"release", "disable", "done"}
    BY <1>2, <1>7 DEF AutoFinish, DisableAllActive, ReleaseLock, ReleaseFails, TypeOK
  <2> QED
    BY <2>1 DEF AutoPart
<1>8. CASE DatabaseError(r)
  <2>1. \/ req'[r].pc = "release"
        \/ req[r].pc \in {"autoOwn", "autoExtend", "autoCreate"}
    BY <1>2, <1>8 DEF DatabaseError, TypeOK
  <2> QED
    BY <2>1 DEF AutoPart
<1> QED
  BY <1>3, <1>4, <1>5, <1>6, <1>7, <1>8 DEF Step

\* A call that goes on with a bid leaves the lock alone.
LEMMA StepKeepsLock ==
    ASSUME TypeOK, NEW r \in Requests, Step(r) \/ DatabaseError(r) \/ ReleaseFails(r),
           NEW s \in Requests, lock.holder = s \/ req'[r].pc \in Drafted \cup AutoPart,
           s # r \/ req'[r].pc \in Drafted \cup AutoPart
    PROVE  lock' = lock
<1> USE BiddingAssumption
<1>1. CASE AcquireLock(r)
  <2>1. CASE lock.holder = NoRequest
    <3>1. req'[r].pc = "config"
      BY <1>1, <2>1 DEF AcquireLock, TypeOK, Request
    <3> QED
      BY <2>1, <3>1 DEF Drafted, AutoPart
  <2>2. CASE lock.holder # NoRequest
    BY <1>1, <2>2 DEF AcquireLock
  <2> QED
    BY <2>1, <2>2
<1>2. CASE ReleaseLock(r)
  <2>1. req'[r].pc = "done"
    BY <1>2, BlankFields DEF ReleaseLock, TypeOK
  <2>2. req'[r].pc \notin Drafted \cup AutoPart
    BY <2>1 DEF Drafted, AutoPart
  <2> QED
    BY <1>2, <2>2 DEF ReleaseLock
<1> QED
  BY <1>1, <1>2 DEF Step, CheckQuota, ReadConfig, ReadAuction, ReadLatest, ReadOwnLast, Validate,
     ExtendAuction, CreateBid, AutoReadPeople, AutoReadConfigs, AutoSkip, AutoPick, AutoFinish,
     AutoValidate, AutoExtend, AutoCreate, DisableAllActive, DatabaseError, ReleaseFails

\* A bid made since the lock was taken is younger than the lock can be.
LEMMA Younger ==
    ASSUME NEW t \in Nat, NEW old \in Nat, NEW new \in Nat, NEW live \in Nat, NEW ttl \in Nat,
           NEW gap \in Nat, t - old <= live - ttl, new <= t, ttl >= 1, live <= gap
    PROVE  new - old < gap
  OBVIOUS

LEMMA NextFresh ==
    LedgerInv /\ Held /\ FreshInv /\ [Next]_vars => FreshInv'
<1> SUFFICES ASSUME LedgerInv, Held, FreshInv, [Next]_vars, lapsed' = {}, NEW s \in Requests
             PROVE  /\ (req[s].pc \in Drafted => Fresh(req[s].draft.at))'
                    /\ (req[s].pc \in AutoPart => Len(bids) > 0 /\ Fresh(bids[Len(bids)].at))'
  BY DEF FreshInv
<1> USE BiddingAssumption
<1>0. /\ TypeOK /\ now \in Nat /\ lock.ttl \in 0..TTL /\ TTL \in Nat /\ bids \in Seq(Bid) /\ Len(bids) \in Nat
      /\ \A i \in DOMAIN bids : bids[i].at \in Nat
  BY PolicyAssumption, BidsType DEF LedgerInv, TypeOK, Lock, Horizon
<1>1. ASSUME NEW r \in Requests, Step(r) \/ DatabaseError(r) \/ ReleaseFails(r)
      PROVE  /\ (req[s].pc \in Drafted => Fresh(req[s].draft.at))'
             /\ (req[s].pc \in AutoPart => Len(bids) > 0 /\ Fresh(bids[Len(bids)].at))'
  <2>1. lapsed = {} /\ now' = now
    BY <1>0, <1>1, StepBids
  <2>2. /\ req[s].pc \in Drafted => Fresh(req[s].draft.at)
        /\ req[s].pc \in AutoPart => Len(bids) > 0 /\ Fresh(bids[Len(bids)].at)
    BY <2>1 DEF FreshInv
  <2>3. CASE s = r
    <3>1. ASSUME req'[s].pc \in Drafted PROVE Fresh(req[s].draft.at)'
      <4>1. lock' = lock
        BY <1>0, <1>1, <2>3, <3>1, StepKeepsLock
      <4>2. \/ req'[s].draft = Draft(r, FALSE) \/ req'[s].draft = Draft(r, TRUE)
            \/ req[s].pc \in Drafted /\ req'[s].draft = req[s].draft
        BY <1>0, <1>1, <2>3, <3>1, StepKnowledge DEF Drafted, LedgerInv
      <4>3. Draft(r, FALSE).at = now /\ Draft(r, TRUE).at = now
        BY DEF Draft
      <4>4. req'[s].draft.at = now \/ (req[s].pc \in Drafted /\ req'[s].draft.at = req[s].draft.at)
        BY <4>2, <4>3, Zenon
      <4> QED
        BY <1>0, <2>1, <2>2, <4>1, <4>4 DEF Fresh
    <3>2. ASSUME req'[s].pc \in AutoPart PROVE (Len(bids) > 0 /\ Fresh(bids[Len(bids)].at))'
      <4>1. lock' = lock
        BY <1>0, <1>1, <2>3, <3>2, StepKeepsLock
      <4>2. CASE bids' = bids
        <5>1. req[s].pc \in AutoPart
          <6>1. ~CreateBid(r)
            <7>1. CreateBid(r) => bids' = Append(bids, req[r].draft) /\ req[r].draft \in Bid
              BY DEF CreateBid, LedgerInv, DraftInv
            <7> QED
              BY <1>0, <4>2, <7>1, Appended
          <6> QED
            BY <1>0, <1>1, <2>3, <3>2, <6>1, StepAuto
        <5> QED
          BY <2>1, <2>2, <4>1, <4>2, <5>1 DEF Fresh
      <4>3. CASE (CreateBid(r) \/ AutoCreate(r)) /\ bids' = Append(bids, req[r].draft)
        <5>1. req[r].pc \in Drafted /\ req[r].draft \in Bid
          BY <4>3 DEF CreateBid, AutoCreate, Drafted, LedgerInv, DraftInv
        <5>2. Len(bids') > 0 /\ bids'[Len(bids')] = req[r].draft
          BY <1>0, <4>3, <5>1, Appended
        <5> QED
          BY <2>1, <2>2, <2>3, <4>1, <5>1, <5>2 DEF Fresh
      <4> QED
        BY <1>0, <1>1, <4>2, <4>3, StepBids
    <3> QED
      BY <3>1, <3>2
  <2>4. CASE s # r
    <3>1. req'[s] = req[s]
      BY <1>0, <1>1, <2>4, StepLocal
    <3>2. CASE req[s].pc \notin Drafted \cup AutoPart
      BY <3>1, <3>2
    <3>3. CASE req[s].pc \in Drafted \cup AutoPart
      <4>1. InSection(s)
        BY <3>3 DEF Drafted, AutoPart, InSection, Section
      <4>2. lock.holder = s
        BY <2>1, <4>1 DEF LedgerInv, LockInv
      <4>3. lock' = lock
        BY <1>0, <1>1, <2>4, <4>2, StepKeepsLock
      <4>4. bids' = bids
        <5>1. ~(CreateBid(r) \/ AutoCreate(r))
          <6>1. CreateBid(r) \/ AutoCreate(r) => InSection(r)
            BY DEF CreateBid, AutoCreate, InSection, Section
          <6> QED
            BY <2>1, <2>4, <4>2, <6>1 DEF LedgerInv, LockInv
        <5> QED
          BY <1>0, <1>1, <5>1, StepBids
      <4> QED
        BY <2>1, <2>2, <3>1, <4>3, <4>4 DEF Fresh
    <3> QED
      BY <3>2, <3>3
  <2> QED
    BY <2>3, <2>4
<1>2. CASE Tick
  <2>0. /\ req' = req /\ bids' = bids /\ lapsed = {} /\ (now' = now \/ now' = now + 1)
    BY <1>2 DEF Tick
  <2>1. /\ req[s].pc \in Drafted => Fresh(req[s].draft.at)
        /\ req[s].pc \in AutoPart => Len(bids) > 0 /\ Fresh(bids[Len(bids)].at)
    BY <2>0 DEF FreshInv
  <2>2. CASE lock.ttl > 1
    <3>1. lock'.ttl = lock.ttl - 1
      BY <1>2, <2>2 DEF Tick, LedgerInv, TypeOK, Lock
    <3>2. req[s].pc \in Drafted => req[s].draft.at \in Nat
      BY DEF LedgerInv, DraftInv, Drafted, Bid
    <3>3. ASSUME NEW at \in Nat, Fresh(at) PROVE Fresh(at)'
      BY <1>0, <2>0, <3>1, <3>3 DEF Fresh
    <3>4. Len(bids) > 0 => bids[Len(bids)].at \in Nat
      BY <1>0, BidsType DEF Bid
    <3> QED
      BY <2>0, <2>1, <3>2, <3>3, <3>4 DEF Fresh
  <2>3. CASE ~(lock.ttl > 1)
    <3>1. lapsed' = lapsed \cup { r \in Requests : r = lock.holder /\ InSection(r) }
      BY <1>2, <2>3 DEF Tick
    <3>2. ~InSection(s)
      BY <2>0, <3>1 DEF LedgerInv, LockInv
    <3> QED
      BY <2>0, <3>2 DEF InSection, Section, Drafted, AutoPart
  <2> QED
    BY <2>2, <2>3
<1>3. CASE Crash
  <2>1. req'[s].pc \in {"idle", "done"}
    BY <1>0, <1>3, BlankFields DEF Crash, TypeOK
  <2> QED
    BY <2>1 DEF Drafted, AutoPart
<1>4. CASE UNCHANGED <<req, bids, lapsed, now, lock>>
  BY <1>4 DEF FreshInv, Fresh
<1> QED
  BY <1>1, <1>2, <1>3, <1>4 DEF Next, Work, Join, SetAutoBid, DisableAutoBid, SaveAutoBid

LEMMA NextNoSelf ==
    LedgerInv /\ Held /\ FreshInv /\ ManualInv /\ NoSelfOutbid /\ [Next]_vars => NoSelfOutbid'
<1> SUFFICES ASSUME LedgerInv, Held, FreshInv, ManualInv, NoSelfOutbid, [Next]_vars,
                    lapsed' = {}, TTL <= Cooldown,
                    NEW i \in DOMAIN bids', i > 1, bids'[i].auto
             PROVE  bids'[i - 1].user # bids'[i].user
  BY DEF NoSelfOutbid
<1> USE BiddingAssumption, PolicyAssumption
<1>0. /\ TypeOK /\ now \in Nat /\ lock.ttl \in 0..TTL /\ TTL \in Nat /\ bids \in Seq(Bid) /\ Len(bids) \in Nat
      /\ Cooldown \in Nat /\ DOMAIN bids = 1..Len(bids)
  BY DEF LedgerInv, TypeOK, Lock, Horizon
<1>1. CASE bids' = bids /\ lapsed = {}
  BY <1>1 DEF NoSelfOutbid
<1>2. ASSUME NEW r \in Requests, CreateBid(r) \/ AutoCreate(r), bids' = Append(bids, req[r].draft), lapsed = {}
      PROVE  bids'[i - 1].user # bids'[i].user
  <2>1. req[r].draft \in Bid /\ req[r].pc \in {"create", "autoCreate"}
    BY <1>2 DEF CreateBid, AutoCreate, LedgerInv, DraftInv
  <2>2. /\ DOMAIN bids' = 1..(Len(bids) + 1) /\ bids'[Len(bids) + 1] = req[r].draft
        /\ \A j \in DOMAIN bids : bids'[j] = bids[j]
    BY <1>0, <1>2, <2>1, Appended
  <2>3. CASE i \in DOMAIN bids
    <3>1. i - 1 \in DOMAIN bids
      BY <1>0, <2>3
    <3> QED
      BY <1>0, <1>2, <2>2, <2>3, <3>1 DEF NoSelfOutbid
  <2>4. CASE i \notin DOMAIN bids
    <3>1. i = Len(bids) + 1 /\ i - 1 = Len(bids) /\ Len(bids) \in DOMAIN bids
      BY <1>0, <2>2, <2>4
    <3>2. bids'[i] = req[r].draft /\ bids'[i - 1] = bids[Len(bids)]
      BY <2>2, <3>1
    <3>3. req[r].pc = "autoCreate"
      <4>1. req[r].pc = "create" => req[r].draft.auto = FALSE
        BY Zenon DEF ManualInv
      <4>2. req[r].draft.auto
        BY <3>2, Zenon
      <4>3. req[r].pc # "create"
        BY <4>1, <4>2, Zenon
      <4> QED
        BY <2>1, <4>3
    <3>4. Fresh(bids[Len(bids)].at) /\ Ledger!Admissible(req[r].draft) /\ req[r].draft.at <= now
      BY <1>2, <3>3 DEF FreshInv, AutoPart, LedgerInv, AdmitInv, Informed, Drafted, TimeInv
    <3>5. lock.ttl >= 1
      <4>1. InSection(r)
        BY <3>3 DEF InSection, Section
      <4> QED
        BY <1>2, <4>1 DEF LedgerInv, LockInv, Held
    <3>6. bids[Len(bids)].user = req[r].draft.user => req[r].draft.at - bids[Len(bids)].at >= Cooldown
      BY <3>1, <3>4 DEF Ledger!Admissible
    <3>7. bids[Len(bids)].at \in Nat /\ req[r].draft.at \in Nat
      BY <1>0, <2>1, <3>1, BidsType DEF Bid
    <3>8. req[r].draft.at - bids[Len(bids)].at < Cooldown
      <4>1. now - bids[Len(bids)].at <= TTL - lock.ttl
        BY <3>4 DEF Fresh
      <4> QED
        BY <1>0, <3>4, <3>5, <3>7, <4>1, lock.ttl \in Nat, TTL <= Cooldown, Younger
    <3> QED
      BY <1>0, <3>2, <3>6, <3>7, <3>8
  <2> QED
    BY <2>3, <2>4
<1>3. ASSUME NEW r \in Requests, Step(r) \/ DatabaseError(r) \/ ReleaseFails(r)
      PROVE  bids'[i - 1].user # bids'[i].user
  BY <1>0, <1>1, <1>2, <1>3, StepBids
<1>4. CASE Tick
  <2>1. bids' = bids /\ lapsed = {}
    BY <1>4 DEF Tick
  <2> QED
    BY <1>1, <2>1
<1> QED
  BY <1>1, <1>3, <1>4 DEF Next, Work, Join, SetAutoBid, DisableAutoBid, SaveAutoBid, Crash

\* As long as no lock expires under its holder and the lock lives no longer
\* than the cooldown, auto-bidding never raises a bid of the very user it bids
\* for, also when the user switches it on while a bid of theirs is stored.
THEOREM AutoBidsOthers == Spec => []NoSelfOutbid
<1> DEFINE Inv == LedgerInv /\ Held /\ FreshInv /\ ManualInv /\ NoSelfOutbid
<1>1. Init => Inv
  <2> SUFFICES ASSUME Init PROVE Inv
    OBVIOUS
  <2>1. \A r \in Requests : req[r].pc = "idle"
    BY BlankFields DEF Init
  <2>2. Held /\ NoSelfOutbid
    BY DEF Init, Held, Free, NoSelfOutbid
  <2>3. FreshInv /\ ManualInv
    BY <2>1 DEF FreshInv, ManualInv, Drafted, AutoPart
  <2> QED
    BY <2>2, <2>3, InitLedgerInv
<1>2. Inv /\ [Next]_vars => Inv'
  <2> SUFFICES ASSUME Inv, [Next]_vars PROVE Inv'
    OBVIOUS
  <2>1. LedgerInv' /\ FreshInv' /\ NoSelfOutbid'
    BY NextLedgerInv, NextFresh, NextNoSelf
  <2>2. Held' /\ ManualInv'
    BY NextHeld, NextManual DEF LedgerInv
  <2> QED
    BY <2>1, <2>2
<1> QED
  BY <1>1, <1>2, PTL DEF Spec

-----------------------------------------------------------------------------
(***************************************************************************)
(* Types, and what bidding rests on                                        *)
(***************************************************************************)

\* A call about to record a winner has one of the stored bids in hand.
PickedInv ==
    \A c \in Controls : ctl[c].pc = "record" =>
        \E i \in DOMAIN bids : ctl[c].win = bids[i]

RoomInv == LedgerInv /\ RoomTypeOK /\ PickedInv

LEMMA ControlBlankFields ==
    ASSUME NEW pc \in {"idle", "done"}
    PROVE  /\ ControlBlank(pc) \in Control
           /\ ControlBlank(pc).pc = pc /\ ControlBlank(pc).row = Published
<1>1. Published \in Row
  BY PolicyAssumption DEF Published, Row, AuctionStatus
<1> QED
  BY <1>1 DEF ControlBlank, Control

\* What a control call leaves to the bidders: everything but the row.
LEMMA ControlOnlyRow ==
    ASSUME NEW c \in Controls, ControlStep(c) \/ ControlError(c)
    PROVE  UNCHANGED <<now, bids, participants, configs, cfgOp, lock, req, lapsed>>
  BY DEF ControlStep, ControlError, PauseAuction, ResumeAuction, FailAuction, EndAuction,
     EndPickWinner, EndRecordWinner, SaveAuction, WillSave, vars

\* Recording a winner changes the call and the winners only.
LEMMA ControlLocal ==
    ASSUME RoomTypeOK, NEW c \in Controls, ControlStep(c) \/ ControlError(c)
    PROVE  /\ \A d \in Controls : d # c => ctl'[d] = ctl[d]
           /\ winnerRows \subseteq winnerRows'
  BY DEF RoomTypeOK, ControlStep, ControlError, PauseAuction, ResumeAuction, FailAuction,
     EndAuction, EndPickWinner, EndRecordWinner, SaveAuction, WillSave, ControlBlank

\* A row with some of its columns set is a row.
LEMMA RowSet ==
    ASSUME NEW row \in Row, NEW st \in AuctionStatus, NEW u \in Users \cup {NoUser},
           NEW a \in Nat
    PROVE  /\ [row EXCEPT !.status = st, !.winAmount = a] \in Row
           /\ [row EXCEPT !.status = st, !.winAmount = a].winner = row.winner
           /\ [row EXCEPT !.status = st, !.winAmount = a].status = st
           /\ [row EXCEPT !.status = st, !.winAmount = a].endAt = row.endAt
           /\ [row EXCEPT !.status = st, !.winAmount = a].ext = row.ext
           /\ [row EXCEPT !.status = st] \in Row
           /\ [row EXCEPT !.status = st].winner = row.winner
           /\ [row EXCEPT !.status = st].status = st
           /\ [row EXCEPT !.status = st].endAt = row.endAt
           /\ [row EXCEPT !.status = st].ext = row.ext
           /\ [row EXCEPT !.status = st, !.winner = u, !.winAmount = a] \in Row
           /\ [row EXCEPT !.status = st, !.winner = u, !.winAmount = a].status = st
           /\ [row EXCEPT !.status = st, !.winner = u, !.winAmount = a].winner = u
           /\ [row EXCEPT !.status = st, !.winner = u, !.winAmount = a].winAmount = a
           /\ [row EXCEPT !.status = st, !.winner = u, !.winAmount = a].endAt = row.endAt
           /\ [row EXCEPT !.status = st, !.winner = u, !.winAmount = a].ext = row.ext
  BY DEF Row

-----------------------------------------------------------------------------
(***************************************************************************)
(* What a step of a control call comes to                                  *)
(***************************************************************************)
\* The call decided on a row to save, keeping the winner: pause, resume, fail.
Decides(c) ==
    /\ auction.status # "ENDED" /\ auction' = auction /\ winnerRows' = winnerRows
    /\ ctl'[c] \in Control /\ ctl'[c].pc = "save"
    /\ ctl'[c].row.status # "ENDED" /\ ctl'[c].row.winner = auction.winner
    /\ ctl'[c].row.endAt = auction.endAt /\ ctl'[c].row.ext = auction.ext

\* The call goes on with the stored row or with the one it has.
GoesOn(c) ==
    /\ auction' = auction /\ winnerRows' = winnerRows
    /\ ctl'[c] \in Control
    /\ \/ ctl'[c].pc = "winner" /\ ctl'[c].row = auction
       \/ /\ ctl'[c].pc = "record" /\ ctl'[c].row = ctl[c].row
          /\ \E i \in DOMAIN bids : ctl'[c].win = bids[i]

\* The call recorded the winner it picked.
Records(c) ==
    /\ auction' = auction /\ ctl[c].pc = "record"
    /\ ctl'[c] \in Control /\ ctl'[c].pc = "save"
    /\ winnerRows' = winnerRows \cup {[user |-> ctl[c].win.user, amount |-> ctl[c].win.amount]}
    /\ ctl'[c].row.status = "ENDED" /\ ctl'[c].row.winner = ctl[c].win.user
    /\ ctl'[c].row.winAmount = ctl[c].win.amount
    /\ ctl'[c].row.endAt = ctl[c].row.endAt /\ ctl'[c].row.ext = ctl[c].row.ext

\* The call is over, with or without saving its row.
Ends(c) ==
    /\ auction' \in {auction, ctl[c].row} /\ winnerRows' = winnerRows
    /\ ctl'[c] \in Control /\ ctl'[c].pc = "done" /\ ctl'[c].row = Published

LEMMA ControlEffect ==
    ASSUME RoomInv, NEW c \in Controls, ControlStep(c) \/ ControlError(c)
    PROVE  Decides(c) \/ GoesOn(c) \/ Records(c) \/ Ends(c)
<1> USE DEF RoomInv
<1>1. auction \in Row /\ ctl[c] \in Control /\ ctl[c].row \in Row /\ DOMAIN ctl = Controls
  BY DEF RoomTypeOK, TypeOK, Control
<1>2. {"PAUSED", "ACTIVE", "FAILED", "ENDED"} \subseteq AuctionStatus /\ 0 \in Nat
  BY DEF AuctionStatus
<1>3. ASSUME NEW st \in {"PAUSED", "ACTIVE", "FAILED"}, NEW row \in Row, row.winner = auction.winner,
             row.status = st, row.endAt = auction.endAt, row.ext = auction.ext,
             auction.status # "ENDED", WillSave(c, row)
      PROVE  Decides(c)
  <2>1. ctl'[c] = [ctl[c] EXCEPT !.pc = "save", !.row = row]
    BY <1>1, <1>3 DEF WillSave
  <2>2. ctl'[c] \in Control /\ ctl'[c].pc = "save" /\ ctl'[c].row = row
    BY <1>1, <2>1 DEF Control
  <2>3. auction' = auction /\ winnerRows' = winnerRows
    BY <1>3 DEF WillSave, vars
  <2> QED
    BY <1>3, <2>2, <2>3 DEF Decides
<1>4. CASE PauseAuction(c)
  <2>1. PICK row \in Row : row = [auction EXCEPT !.status = "PAUSED", !.winAmount = 0]
    BY <1>1, <1>2, RowSet
  <2>2. /\ row.winner = auction.winner /\ row.status = "PAUSED"
        /\ row.endAt = auction.endAt /\ row.ext = auction.ext
    BY <1>1, <2>1 DEF Row
  <2>3. auction.status # "ENDED" /\ WillSave(c, row)
    BY <1>4, <2>1 DEF PauseAuction
  <2> QED
    BY <1>3, <2>2, <2>3
<1>5. CASE ResumeAuction(c)
  <2>1. PICK row \in Row : row = [auction EXCEPT !.status = "ACTIVE", !.winAmount = 0]
    BY <1>1, <1>2, RowSet
  <2>2. /\ row.winner = auction.winner /\ row.status = "ACTIVE"
        /\ row.endAt = auction.endAt /\ row.ext = auction.ext
    BY <1>1, <2>1 DEF Row
  <2>3. auction.status # "ENDED" /\ WillSave(c, row)
    BY <1>5, <2>1 DEF ResumeAuction
  <2> QED
    BY <1>3, <2>2, <2>3
<1>6. CASE FailAuction(c)
  <2>1. PICK row \in Row : row = [auction EXCEPT !.status = "FAILED"]
    BY <1>1, <1>2, RowSet
  <2>2. /\ row.winner = auction.winner /\ row.status = "FAILED"
        /\ row.endAt = auction.endAt /\ row.ext = auction.ext
    BY <1>1, <2>1 DEF Row
  <2>3. auction.status # "ENDED" /\ WillSave(c, row)
    BY <1>6, <2>1 DEF FailAuction, CanSetStatus
  <2> QED
    BY <1>3, <2>2, <2>3
<1>7. CASE EndAuction(c)
  <2>1. ctl'[c] = [ctl[c] EXCEPT !.pc = "winner", !.row = auction]
    BY <1>1, <1>7 DEF EndAuction
  <2>2. auction' = auction /\ winnerRows' = winnerRows
    BY <1>7 DEF EndAuction, vars
  <2> QED
    BY <1>1, <2>1, <2>2 DEF GoesOn, Control
<1>8. CASE EndPickWinner(c)
  <2>1. auction' = auction /\ winnerRows' = winnerRows
    BY <1>8 DEF EndPickWinner, vars
  <2>2. CASE ctl' = [ctl EXCEPT ![c] = ControlBlank("done")]
    BY <1>1, <2>1, <2>2, ControlBlankFields DEF Ends
  <2>3. ASSUME NEW b \in Winners(bids),
               ctl' = [ctl EXCEPT ![c] = [@ EXCEPT !.pc = "record", !.win = b]]
        PROVE  GoesOn(c)
    <3>1. PICK i \in DOMAIN bids : b = bids[i]
      BY DEF Winners
    <3>2. b \in Bid
      BY <3>1, BidsType DEF LedgerInv
    <3>3. ctl'[c] = [ctl[c] EXCEPT !.pc = "record", !.win = b]
      BY <1>1, <2>3
    <3>4. /\ ctl'[c] \in Control /\ ctl'[c].pc = "record" /\ ctl'[c].row = ctl[c].row
          /\ ctl'[c].win = b
      BY <1>1, <3>2, <3>3 DEF Control
    <3> QED
      BY <2>1, <3>1, <3>4 DEF GoesOn
  <2> QED
    BY <1>8, <2>2, <2>3 DEF EndPickWinner
<1>9. CASE EndRecordWinner(c)
  <2>1. auction' = auction /\ ctl[c].pc = "record"
    BY <1>9 DEF EndRecordWinner, vars
  <2>2. CASE \E w \in winnerRows : w.user = ctl[c].win.user
    BY <1>1, <1>9, <2>1, <2>2, ControlBlankFields DEF EndRecordWinner, Ends
  <2>3. CASE ~\E w \in winnerRows : w.user = ctl[c].win.user
    <3>1. ctl[c].win.user \in Users /\ ctl[c].win.amount \in Nat
      BY <2>1, BidsType DEF PickedInv, LedgerInv
    <3>2. PICK row \in Row : row = [ctl[c].row EXCEPT !.status = "ENDED",
                                      !.winner = ctl[c].win.user, !.winAmount = ctl[c].win.amount]
      BY <1>1, <1>2, <3>1, RowSet
    <3>3. /\ row.status = "ENDED" /\ row.winner = ctl[c].win.user
          /\ row.winAmount = ctl[c].win.amount
          /\ row.endAt = ctl[c].row.endAt /\ row.ext = ctl[c].row.ext
      BY <1>1, <3>2 DEF Row
    <3>4. /\ ctl'[c] = [ctl[c] EXCEPT !.pc = "save", !.row = row]
          /\ winnerRows' = winnerRows \cup {[user |-> ctl[c].win.user, amount |-> ctl[c].win.amount]}
      BY <1>1, <1>9, <2>3, <3>2 DEF EndRecordWinner
    <3>5. ctl'[c] \in Control /\ ctl'[c].pc = "save" /\ ctl'[c].row = row
      BY <1>1, <3>4 DEF Control
    <3> QED
      BY <2>1, <3>3, <3>4, <3>5 DEF Records
  <2> QED
    BY <2>2, <2>3
<1>10. CASE SaveAuction(c)
  BY <1>1, <1>10, ControlBlankFields DEF SaveAuction, Ends
<1>11. CASE ControlError(c)
  BY <1>1, <1>11, ControlBlankFields DEF ControlError, Ends, vars
<1> QED
  BY <1>4, <1>5, <1>6, <1>7, <1>8, <1>9, <1>10, <1>11 DEF ControlStep

-----------------------------------------------------------------------------
(***************************************************************************)
(* Types and the promise to the bidders                                    *)
(***************************************************************************)
\* The list of bids only grows.
LEMMA BidsGrow ==
    ASSUME LedgerInv, [Next]_vars
    PROVE  \A i \in DOMAIN bids : i \in DOMAIN bids' /\ bids'[i] = bids[i]
<1> USE DEF LedgerInv
<1>1. ASSUME NEW r \in Requests, Step(r) \/ DatabaseError(r) \/ ReleaseFails(r)
      PROVE  \A i \in DOMAIN bids : i \in DOMAIN bids' /\ bids'[i] = bids[i]
  <2>1. CASE CreateBid(r) \/ AutoCreate(r)
    <3>1. req[r].draft \in Bid /\ bids' = Append(bids, req[r].draft)
      BY <2>1 DEF CreateBid, AutoCreate, DraftInv
    <3> QED
      BY <3>1, Appended
  <2>2. CASE bids' = bids
    BY <2>2
  <2> QED
    BY <1>1, <2>1, <2>2, StepBids
<1>2. CASE bids' = bids
  BY <1>2
<1> QED
  BY <1>1, <1>2 DEF Next, Work, Join, SetAutoBid, DisableAutoBid, SaveAutoBid, Tick, Crash, vars

\* Nothing that bidding rests on is about the row, except its type.
LEMMA LedgerInvRow ==
    ASSUME LedgerInv, auction' \in Row,
           UNCHANGED <<now, bids, participants, configs, cfgOp, lock, req, lapsed>>
    PROVE  LedgerInv'
<1>1. TypeOK'
  BY DEF LedgerInv, TypeOK
<1>2. DraftInv' /\ LockInv' /\ TimeInv'
  BY DEF LedgerInv, DraftInv, LockInv, InSection, TimeInv
<1>3. AdmitInv'
  BY DEF LedgerInv, AdmitInv, Informed, Ledger!Admissible
<1> QED
  BY <1>1, <1>2, <1>3 DEF LedgerInv

LEMMA CrashControls ==
    ASSUME RoomTypeOK, RoomCrash
    PROVE  /\ ctl' \in [Controls -> Control]
           /\ \A c \in Controls : \/ ctl'[c] = ctl[c]
                                  \/ ctl'[c].pc = "done" /\ ctl'[c].row = Published
<1>1. /\ ControlBlank("done") \in Control
      /\ ControlBlank("done").pc = "done" /\ ControlBlank("done").row = Published
  BY ControlBlankFields
<1>2. \A c \in Controls : ctl[c] \in Control
  BY DEF RoomTypeOK
<1>3. ctl' = [c \in Controls |-> IF ctl[c].pc = "idle" THEN ctl[c] ELSE ControlBlank("done")]
  BY DEF RoomCrash
<1>4. \A c \in Controls : ctl'[c] = ctl[c] \/ ctl'[c] = ControlBlank("done")
  BY <1>3
<1>5. ctl' \in [Controls -> Control]
  <2>1. \A c \in Controls : ctl'[c] \in Control
    BY <1>1, <1>2, <1>4
  <2>2. ctl' = [c \in Controls |-> ctl'[c]]
    BY <1>3
  <2> QED
    BY <2>1, <2>2
<1> QED
  BY <1>1, <1>4, <1>5

LEMMA NextRoomInv == RoomInv /\ [RoomNext]_roomVars => RoomInv'
<1> SUFFICES ASSUME RoomInv, [RoomNext]_roomVars PROVE RoomInv'
  OBVIOUS
<1> USE DEF RoomInv
<1>1. ASSUME [Next]_vars, UNCHANGED <<ctl, winnerRows>> PROVE RoomInv'
  <2>1. LedgerInv'
    BY <1>1, NextLedgerInv
  <2>2. RoomTypeOK'
    BY <1>1, <2>1 DEF LedgerInv, RoomTypeOK
  <2>3. PickedInv'
    BY <1>1, BidsGrow DEF PickedInv
  <2> QED
    BY <2>1, <2>2, <2>3
<1>2. ASSUME NEW c \in Controls, ControlStep(c) \/ ControlError(c) PROVE RoomInv'
  <2>1. /\ UNCHANGED <<now, bids, participants, configs, cfgOp, lock, req, lapsed>>
        /\ \A d \in Controls : d # c => ctl'[d] = ctl[d]
    BY <1>2, ControlOnlyRow, ControlLocal
  <2>2. DOMAIN ctl' = Controls /\ ctl' = [d \in Controls |-> ctl'[d]]
    BY <1>2 DEF RoomTypeOK, ControlStep, ControlError, PauseAuction, ResumeAuction,
       FailAuction, EndAuction, EndPickWinner, EndRecordWinner, SaveAuction, WillSave
  <2>3. ctl'[c] \in Control /\ auction' \in Row
    BY <1>2, ControlEffect DEF Decides, GoesOn, Records, Ends, RoomTypeOK, TypeOK, Control
  <2>4. LedgerInv'
    BY <2>1, <2>3, LedgerInvRow
  <2>5. winnerRows' \subseteq WinnerRow
    <3>1. CASE Records(c)
      <4>1. ctl[c].win.user \in Users /\ ctl[c].win.amount \in Nat
        BY <3>1, BidsType DEF Records, PickedInv, LedgerInv
      <4> QED
        BY <3>1, <4>1 DEF Records, RoomTypeOK, WinnerRow
    <3>2. CASE ~Records(c)
      BY <1>2, <3>2, ControlEffect DEF Decides, GoesOn, Ends, RoomTypeOK
    <3> QED
      BY <3>1, <3>2
  <2>6. ctl' \in [Controls -> Control]
    BY <2>1, <2>2, <2>3 DEF RoomTypeOK
  <2>7. RoomTypeOK'
    BY <2>4, <2>5, <2>6 DEF LedgerInv, RoomTypeOK
  <2>8. PickedInv'
    <3> SUFFICES ASSUME NEW d \in Controls, ctl'[d].pc = "record"
                 PROVE  \E i \in DOMAIN bids : ctl'[d].win = bids[i]
      BY <2>1 DEF PickedInv
    <3>1. CASE d # c
      BY <2>1, <3>1 DEF PickedInv
    <3>2. CASE d = c
      BY <1>2, <3>2, ControlEffect DEF Decides, GoesOn, Records, Ends
    <3> QED
      BY <3>1, <3>2
  <2> QED
    BY <2>4, <2>7, <2>8
<1>3. CASE RoomCrash
  <2>1. [Next]_vars /\ bids' = bids /\ winnerRows' = winnerRows
    BY <1>3 DEF RoomCrash, Next, Crash
  <2>2. LedgerInv'
    BY <2>1, NextLedgerInv
  <2>3. RoomTypeOK'
    BY <1>3, <2>1, <2>2, CrashControls DEF LedgerInv, RoomTypeOK
  <2>4. PickedInv'
    BY <1>3, <2>1, CrashControls DEF PickedInv
  <2> QED
    BY <2>2, <2>3, <2>4
<1>4. CASE UNCHANGED roomVars
  BY <1>1, <1>4 DEF roomVars
<1> QED
  BY <1>1, <1>2, <1>3, <1>4 DEF RoomNext, Next

LEMMA InitRoomInv == RoomInit => RoomInv
<1> SUFFICES ASSUME RoomInit PROVE RoomInv
  OBVIOUS
<1>1. LedgerInv
  BY InitLedgerInv DEF RoomInit
<1>2. ControlBlank("idle") \in Control /\ ControlBlank("idle").pc = "idle"
  BY ControlBlankFields
<1> QED
  BY <1>1, <1>2 DEF RoomInit, RoomInv, RoomTypeOK, LedgerInv, PickedInv

\* Bidders, the seller and the admins together keep every variable in its
\* type, whatever they interleave and wherever the server stops.
THEOREM RoomTypeCorrect == RoomSpec => []RoomTypeOK
<1>1. RoomInv => RoomTypeOK
  BY DEF RoomInv
<1> QED
  BY <1>1, InitRoomInv, NextRoomInv, PTL DEF RoomSpec

\* Pausing, resuming, ending and failing the auction outside the bid lock
\* does not touch what placeBid promises: until a lock expires under its
\* holder, each stored bid is admissible after those before it.
THEOREM RoomKeepsLedger == RoomSpec => KeepsLedger
<1>1. RoomInit => Ledger!LedgerInit
  BY DEF RoomInit, Init, Ledger!LedgerInit
<1>2. RoomInv /\ [RoomNext]_roomVars => [Ledger!LedgerNext]_<<bids, lapsed = {}>>
  <2> SUFFICES ASSUME RoomInv, [RoomNext]_roomVars
               PROVE  [Ledger!LedgerNext]_<<bids, lapsed = {}>>
    OBVIOUS
  <2>1. CASE [Next]_vars
    BY <2>1, StepRefines DEF RoomInv
  <2>2. ASSUME NEW c \in Controls, ControlStep(c) \/ ControlError(c)
        PROVE  UNCHANGED <<bids, lapsed = {}>>
    BY <2>2, ControlOnlyRow
  <2> QED
    BY <2>1, <2>2 DEF RoomNext, RoomCrash, Next, roomVars
<1> QED
  BY <1>1, <1>2, InitRoomInv, NextRoomInv, PTL DEF RoomSpec, KeepsLedger, Ledger!LedgerSpec
-----------------------------------------------------------------------------
(***************************************************************************)
(* The copies of the row                                                   *)
(***************************************************************************)
\* A user with a winner's row and a bid of that amount.
Entitled(u, a) ==
    /\ [user |-> u, amount |-> a] \in winnerRows
    /\ \E i \in DOMAIN bids : bids[i].user = u /\ bids[i].amount = a

\* A row that names a winner exactly when it has ended, an entitled one.
Honest(row) ==
    /\ row.winner # NoUser <=> row.status = "ENDED"
    /\ row.winner # NoUser => Entitled(row.winner, row.winAmount)

CopiesInv ==
    /\ Honest(auction)
    /\ \A r \in Requests : Honest(req[r].row) /\ Honest(req[r].out)
    /\ \A c \in Controls : Honest(ctl[c].row)

\* Deadline and counter agree in the control calls' copies as well.
ControlRowInv == \A c \in Controls : Accounted(ctl[c].row)

LEMMA PublishedHonest == Honest(Published)
<1>1. Published.winner = NoUser /\ Published.status = "ACTIVE"
  BY DEF Published
<1> QED
  BY <1>1 DEF Honest

LEMMA ExtendedHonest ==
    ASSUME NEW row \in Row, Honest(row)
    PROVE  Honest(Extended(row))
<1>1. /\ Extended(row).winner = row.winner /\ Extended(row).status = row.status
      /\ Extended(row).winAmount = row.winAmount
  BY DEF Extended, Row
<1> QED
  BY <1>1 DEF Honest

\* An entitled winner stays one: neither bids nor winners are removed.
LEMMA StaysHonest ==
    ASSUME NEW row, Honest(row), winnerRows \subseteq winnerRows',
           \A i \in DOMAIN bids : i \in DOMAIN bids' /\ bids'[i] = bids[i]
    PROVE  Honest(row)'
<1>1. Entitled(row.winner, row.winAmount) => Entitled(row.winner, row.winAmount)'
  BY DEF Entitled
<1> QED
  BY <1>1 DEF Honest

\* A step that leaves the copies where they are, or moves one to another.
LEMMA StepHonest ==
    ASSUME RoomInv, CopiesInv, NEW r \in Requests, Step(r) \/ DatabaseError(r) \/ ReleaseFails(r)
    PROVE  /\ Honest(auction') /\ Honest(req'[r].row) /\ Honest(req'[r].out)
           /\ \A s \in Requests : s # r => req'[s] = req[s]
<1>1. TypeOK /\ req[r] \in Request /\ req[r].row \in Row
  BY DEF RoomInv, LedgerInv, TypeOK, Request
<1>2. /\ Honest(auction) /\ Honest(req[r].row) /\ Honest(req[r].out) /\ Honest(Published)
      /\ Honest(Extended(req[r].row))
  BY <1>1, PublishedHonest, ExtendedHonest DEF CopiesInv
<1>3. /\ auction' \in {auction, Extended(req[r].row)}
      /\ req'[r].row \in {req[r].row, req[r].out, Published, auction}
      /\ req'[r].out \in {req[r].out, req[r].row, Published, Extended(req[r].row)}
  BY <1>1, StepRows
<1> QED
  BY <1>1, <1>2, <1>3, StepLocal

LEMMA NextCopies == RoomInv /\ CopiesInv /\ [RoomNext]_roomVars => CopiesInv'
<1> SUFFICES ASSUME RoomInv, CopiesInv, [RoomNext]_roomVars PROVE CopiesInv'
  OBVIOUS
<1> DEFINE Grown == /\ winnerRows \subseteq winnerRows'
                    /\ \A i \in DOMAIN bids : i \in DOMAIN bids' /\ bids'[i] = bids[i]
           Kept == /\ Honest(auction')
                   /\ \A r \in Requests : Honest(req'[r].row) /\ Honest(req'[r].out)
                   /\ \A c \in Controls : Honest(ctl'[c].row)
<1>1. ASSUME Grown, Kept PROVE CopiesInv'
  <2>1. \A row : Honest(row) => Honest(row)'
    BY <1>1, StaysHonest
  <2> QED
    BY <1>1, <2>1 DEF CopiesInv
<1>2. ASSUME NEW r \in Requests, Step(r) \/ DatabaseError(r) \/ ReleaseFails(r),
             UNCHANGED <<ctl, winnerRows>>
      PROVE  CopiesInv'
  <2>1. Grown
    BY <1>2, BidsGrow DEF RoomInv, Next, Work
  <2>2. Kept
    BY <1>2, StepHonest DEF CopiesInv
  <2> QED
    BY <1>1, <2>1, <2>2
<1>3. ASSUME NEW c \in Controls, ControlStep(c) \/ ControlError(c) PROVE CopiesInv'
  <2>1. /\ req' = req /\ bids' = bids
        /\ \A d \in Controls : d # c => ctl'[d] = ctl[d]
    BY <1>3, ControlOnlyRow, ControlLocal DEF RoomInv
  <2>2. Grown
    BY <1>3, <2>1, ControlLocal DEF RoomInv
  <2>3. CASE Decides(c) \/ GoesOn(c) \/ Ends(c)
    <3>1. Honest(auction')
      BY <2>3 DEF Decides, GoesOn, Ends, CopiesInv
    <3>2. Honest(ctl'[c].row)
      <4>1. CASE Decides(c)
        BY <4>1 DEF Decides, CopiesInv, Honest
      <4>2. CASE GoesOn(c)
        BY <4>2 DEF GoesOn, CopiesInv
      <4>3. CASE Ends(c)
        BY <4>3, PublishedHonest DEF Ends
      <4> QED
        BY <2>3, <4>1, <4>2, <4>3
    <3>3. Kept
      BY <2>1, <3>1, <3>2 DEF CopiesInv
    <3> QED
      BY <1>1, <2>2, <3>3
  <2>4. CASE Records(c)
    <3>1. \A row : Honest(row) => Honest(row)'
      BY <2>2, StaysHonest
    <3>2. PICK i \in DOMAIN bids : ctl[c].win = bids[i]
      BY <2>4 DEF Records, RoomInv, PickedInv
    <3>3. ctl[c].win.user \in Users /\ NoUser \notin Users
      BY <3>2, BidsType, PolicyAssumption DEF RoomInv, LedgerInv
    <3>4. Honest(ctl[c].row)'
      <4>1. /\ ctl'[c].row.status = "ENDED" /\ ctl'[c].row.winner = bids[i].user
            /\ ctl'[c].row.winAmount = bids[i].amount
            /\ [user |-> bids[i].user, amount |-> bids[i].amount] \in winnerRows'
        BY <2>4, <3>2 DEF Records
      <4>2. Entitled(ctl[c].row.winner, ctl[c].row.winAmount)'
        BY <2>1, <4>1 DEF Entitled
      <4> QED
        BY <3>2, <3>3, <4>1, <4>2 DEF Honest
    <3>5. \A d \in Controls : d # c => Honest(ctl[d].row)'
      BY <2>1, <3>1 DEF CopiesInv
    <3>6. Honest(auction)' /\ \A r \in Requests : Honest(req[r].row)' /\ Honest(req[r].out)'
      BY <2>1, <2>4, <3>1 DEF CopiesInv, Records
    <3> QED
      BY <3>4, <3>5, <3>6 DEF CopiesInv
  <2> QED
    BY <1>3, <2>3, <2>4, ControlEffect
<1>4. CASE RoomCrash
  <2>1. Grown /\ auction' = auction
    BY <1>4 DEF RoomCrash, Crash
  <2>2. \A r \in Requests : req'[r] = req[r] \/ req'[r] = Blank("done")
    BY <1>4 DEF RoomCrash, Crash
  <2>3. \A c \in Controls : Honest(ctl'[c].row)
    BY <1>4, CrashControls, PublishedHonest DEF RoomInv, CopiesInv
  <2>4. \A r \in Requests : Honest(req'[r].row) /\ Honest(req'[r].out)
    BY <2>2, BlankFields, PublishedHonest DEF CopiesInv
  <2>5. Kept
    BY <2>1, <2>3, <2>4 DEF CopiesInv
  <2> QED
    BY <1>1, <2>1, <2>5
<1>5. CASE UNCHANGED <<auction, req, bids, ctl, winnerRows>>
  BY <1>1, <1>5 DEF CopiesInv
<1> QED
  BY <1>2, <1>3, <1>4, <1>5 DEF RoomNext, Work, Join, SetAutoBid, DisableAutoBid, SaveAutoBid,
     Tick, roomVars, vars

LEMMA InitCopies == RoomInit => CopiesInv
<1> SUFFICES ASSUME RoomInit PROVE CopiesInv
  OBVIOUS
<1>1. \A r \in Requests : req[r].row = Published /\ req[r].out = Published
  BY BlankFields DEF RoomInit, Init
<1>2. \A c \in Controls : ctl[c].row = Published
  BY ControlBlankFields DEF RoomInit
<1>3. auction = Published
  BY DEF RoomInit, Init
<1> QED
  BY <1>1, <1>2, <1>3, PublishedHonest DEF CopiesInv

\* A winner on the row was stored in auction_winner before, with that amount,
\* and made that bid: whichever of the copies that endAuction, pauseAuction,
\* resumeAuction, failAuction and placeBid hold is saved last.
THEOREM WinnersRecorded == RoomSpec => []WinnerRecorded
<1>1. CopiesInv => WinnerRecorded
  BY DEF CopiesInv, Honest, Entitled, WinnerRecorded
<1> QED
  BY <1>1, InitRoomInv, NextRoomInv, InitCopies, NextCopies, PTL DEF RoomSpec

\* The row names a winner exactly while its status is ENDED: no copy saved
\* late leaves a winner on a reopened auction or an ended one without.
THEOREM WinnersOfTheEnded == RoomSpec => []WinnerOnlyWhenEnded
<1>1. CopiesInv => WinnerOnlyWhenEnded
  BY DEF CopiesInv, Honest, WinnerOnlyWhenEnded
<1> QED
  BY <1>1, InitRoomInv, NextRoomInv, InitCopies, NextCopies, PTL DEF RoomSpec

-----------------------------------------------------------------------------
(***************************************************************************)
(* The deadline                                                            *)
(***************************************************************************)
LEMMA NextControlRow ==
    RoomInv /\ RowInv /\ ControlRowInv /\ [RoomNext]_roomVars => (RowInv /\ ControlRowInv)'
<1> SUFFICES ASSUME RoomInv, RowInv, ControlRowInv, [RoomNext]_roomVars
             PROVE  (RowInv /\ ControlRowInv)'
  OBVIOUS
<1>1. TypeOK
  BY DEF RoomInv, LedgerInv
<1>2. CASE [Next]_vars /\ UNCHANGED ctl
  BY <1>1, <1>2, NextRow DEF ControlRowInv, Accounted
<1>3. ASSUME NEW c \in Controls, ControlStep(c) \/ ControlError(c)
      PROVE  (RowInv /\ ControlRowInv)'
  <2>1. req' = req /\ \A d \in Controls : d # c => ctl'[d] = ctl[d]
    BY <1>3, ControlOnlyRow, ControlLocal DEF RoomInv
  <2>2. Accounted(auction') /\ Accounted(ctl'[c].row)
    BY <1>3, ControlEffect, PublishedAccounted
       DEF Decides, GoesOn, Records, Ends, RowInv, ControlRowInv, Accounted
  <2> QED
    BY <2>1, <2>2 DEF RowInv, ControlRowInv, Accounted
<1>4. CASE RoomCrash
  <2>1. RowInv'
    BY <1>1, <1>4, NextRow DEF RoomCrash, Next
  <2>2. ControlRowInv'
    BY <1>4, CrashControls, PublishedAccounted DEF RoomInv, ControlRowInv, Accounted
  <2> QED
    BY <2>1, <2>2
<1> QED
  BY <1>2, <1>3, <1>4 DEF RoomNext, Next, roomVars

\* With the seller and the admins writing the same row, the deadline is still
\* the published one plus one anti-snip window for each extension counted.
THEOREM RoomDeadlineKept == RoomSpec => []DeadlineAccounted
<1>1. RoomInit => RowInv /\ ControlRowInv
  <2> SUFFICES ASSUME RoomInit PROVE RowInv /\ ControlRowInv
    OBVIOUS
  <2>1. RowInv
    BY BlankFields, PublishedAccounted DEF RoomInit, Init, RowInv
  <2>2. ControlRowInv
    BY ControlBlankFields, PublishedAccounted DEF RoomInit, ControlRowInv
  <2> QED
    BY <2>1, <2>2
<1>2. RowInv => DeadlineAccounted
  BY DEF RowInv, Accounted, DeadlineAccounted
<1> QED
  BY <1>1, <1>2, InitRoomInv, NextRoomInv, NextControlRow, PTL DEF RoomSpec
=============================================================================
