---------------------------- MODULE SellingProofs ----------------------------
(***************************************************************************)
(* Theorems about Selling, for any number of requests, auctions, plans and *)
(* limits.  As long as requests come one at a time, what the only one in   *)
(* flight has read is what is stored, and that is what the invariants of   *)
(* the seller and of the category say.  The quota is about any number of   *)
(* requests: those let in count against the limit they were let in by.     *)
(***************************************************************************)
EXTENDS Selling, FiniteSetTheorems, TLAPS

USE SellingAssumption DEF kycVars, planVars, auctionVars, sellingVars

-----------------------------------------------------------------------------
(***************************************************************************)
(* Requests that begin                                                     *)
(***************************************************************************)
LEMMA RestTyped ==
    /\ Rest \in Call /\ Rest.pc = "idle"
    /\ NoCategory \in Category /\ NoPlan \in Plan
    /\ PendingCategory \in Category /\ ApprovedCategory \in Category
BY DEF Rest, Call, NoCategory, NoPlan, Category, Plan, Draft, Auction, KycStatus, PendingCategory,
   ApprovedCategory

\* What a request knows when it begins, and still as long as nothing else
\* happens.
Fresh(r) ==
    /\ r.pc \notin {"idle", "fill", "count"}
    /\ r.pc = "reset" => r.kyc = kyc /\ kyc \in {"none", "REJECTED"}
    /\ r.pc = "role" => r.role = TRUE /\ r.kyc = "APPROVED" /\ kyc = "PENDING"
    /\ r.pc = "kyc" => r.kyc # "APPROVED" /\ kyc \notin {"none", "APPROVED"}
    /\ r.pc = "profile" => r.role = role
    /\ r.pc = "category" /\ Loads => r.category.status = "APPROVED"
    /\ r.pc = "auction" => Loads
    /\ r.pc \in {"pick", "auction"} => r.id # 0

Begins(c) == \E r \in Call : Begin(c, r) /\ Fresh(r)

LEMMA KycBegins ==
    ASSUME SellingTypeOK, NEW c \in Calls,
           UpdateKyc(c) \/ SubmitKyc(c) \/ ApproveKyc(c) \/ RejectKyc(c) \/ ChangeProfile(c)
    PROVE  Begins(c)
<1>0. kyc \in KycStatus /\ Rest \in Call
  BY RestTyped DEF SellingTypeOK
<1>1. CASE UpdateKyc(c)
  <2>1. PICK r : r = [Rest EXCEPT !.pc = IF kyc \in {"none", "REJECTED"} THEN "reset" ELSE "document",
                                  !.kyc = kyc]
    OBVIOUS
  <2>2. /\ r \in Call /\ r.kyc = kyc
        /\ r.pc = IF kyc \in {"none", "REJECTED"} THEN "reset" ELSE "document"
    BY <1>0, <2>1 DEF Call
  <2>3. Begin(c, r)
    BY <1>1, <2>1 DEF UpdateKyc
  <2> QED
    BY <2>2, <2>3 DEF Begins, Fresh
<1>2. CASE SubmitKyc(c)
  <2>1. PICK r : r = [Rest EXCEPT !.pc = "kyc", !.kyc = "PENDING"]
    OBVIOUS
  <2>2. r \in Call /\ r.pc = "kyc" /\ r.kyc = "PENDING"
    BY <1>0, <2>1 DEF Call, KycStatus
  <2>3. Begin(c, r) /\ kyc = "NOT_SUBMITTED"
    BY <1>2, <2>1 DEF SubmitKyc
  <2> QED
    BY <2>2, <2>3 DEF Begins, Fresh
<1>3. CASE ApproveKyc(c)
  <2>1. PICK r : r = [Rest EXCEPT !.pc = "role", !.role = TRUE, !.kyc = "APPROVED"]
    OBVIOUS
  <2>2. r \in Call /\ r.pc = "role" /\ r.kyc = "APPROVED" /\ r.role = TRUE
    BY <1>0, <2>1 DEF Call, KycStatus
  <2>3. Begin(c, r) /\ kyc = "PENDING"
    BY <1>3, <2>1 DEF ApproveKyc
  <2> QED
    BY <2>2, <2>3 DEF Begins, Fresh
<1>4. CASE RejectKyc(c)
  <2>1. PICK r : r = [Rest EXCEPT !.pc = "kyc", !.kyc = "REJECTED"]
    OBVIOUS
  <2>2. r \in Call /\ r.pc = "kyc" /\ r.kyc = "REJECTED"
    BY <1>0, <2>1 DEF Call, KycStatus
  <2>3. Begin(c, r) /\ kyc = "PENDING"
    BY <1>4, <2>1 DEF RejectKyc
  <2> QED
    BY <2>2, <2>3 DEF Begins, Fresh
<1>5. CASE ChangeProfile(c)
  <2>0. PICK b \in BOOLEAN : b = role
    BY DEF SellingTypeOK
  <2>1. PICK r : r = [Rest EXCEPT !.pc = "profile", !.role = b]
    OBVIOUS
  <2>2. r \in Call /\ r.pc = "profile" /\ r.role = b
    BY <1>0, <2>1 DEF Call
  <2>3. Begin(c, r)
    BY <1>5, <2>0, <2>1, Zenon DEF ChangeProfile
  <2>4. r.role = role
    BY <2>0, <2>2, Zenon
  <2>5. r.pc \notin {"idle", "fill", "count", "reset", "role", "kyc", "category", "auction", "pick"}
    BY <2>2
  <2>6. Fresh(r)
    BY <2>4, <2>5, Zenon DEF Fresh
  <2> QED
    BY <2>2, <2>3, <2>6 DEF Begins
<1> QED
  BY <1>1, <1>2, <1>3, <1>4, <1>5

LEMMA CategoryChangeBegins ==
    ASSUME SellingTypeOK, NEW c \in Calls, NEW row \in Category, ChangeCategory(c, row),
           Loads => row.status = "APPROVED"
    PROVE  Begins(c)
<1>1. PICK r : r = [Rest EXCEPT !.pc = "category", !.category = row]
  OBVIOUS
<1>2. r \in Call /\ r.pc = "category" /\ r.category = row
  BY <1>1, RestTyped DEF Call
<1>3. Begin(c, r)
  BY <1>1 DEF ChangeCategory
<1> QED
  BY <1>2, <1>3 DEF Begins, Fresh

LEMMA CategoryBegins ==
    ASSUME SellingTypeOK, NEW c \in Calls,
           \/ RequestCategory(c) \/ CreateCategory(c) \/ ApproveCategory(c) \/ RejectCategory(c)
           \/ UpdateCategory(c) \/ \E active \in BOOLEAN : ChangeCategoryStatus(c, active)
    PROVE  Begins(c)
<1>0. category \in Category /\ Rest \in Call
  BY RestTyped DEF SellingTypeOK
<1>1. ASSUME NEW row \in Category,
             Begin(c, [Rest EXCEPT !.pc = "newCategory", !.category = row])
      PROVE  Begins(c)
  <2>1. PICK r : r = [Rest EXCEPT !.pc = "newCategory", !.category = row]
    OBVIOUS
  <2>2. r \in Call /\ r.pc = "newCategory" /\ Begin(c, r)
    BY <1>0, <1>1, <2>1 DEF Call
  <2> QED
    BY <2>2 DEF Begins, Fresh
<1>2. CASE RequestCategory(c) \/ CreateCategory(c)
  BY <1>1, <1>2, RestTyped DEF RequestCategory, CreateCategory
<1>3. CASE ApproveCategory(c)
  <2>1. PICK row : row = [category EXCEPT !.status = "APPROVED", !.verified = TRUE]
    OBVIOUS
  <2>2. row \in Category /\ row.status = "APPROVED"
    BY <1>0, <2>1 DEF Category
  <2>3. ChangeCategory(c, row)
    BY <1>3, <2>1 DEF ApproveCategory
  <2> QED
    BY <2>2, <2>3, CategoryChangeBegins
<1>4. CASE RejectCategory(c)
  <2>1. PICK s : s = IF category.status = "PENDING" THEN "REJECTED" ELSE category.status
    OBVIOUS
  <2>2. PICK row : row = [category EXCEPT !.status = s]
    OBVIOUS
  <2>3. row \in Category /\ row.status = s
    BY <1>0, <2>1, <2>2 DEF Category
  <2>4. ChangeCategory(c, row)
    BY <1>4, <2>1, <2>2 DEF RejectCategory
  <2>5. Loads => row.status = "APPROVED"
    BY <2>1, <2>3 DEF Loads
  <2> QED
    BY <2>3, <2>4, <2>5, CategoryChangeBegins
<1>5. CASE UpdateCategory(c)
  <2>1. ChangeCategory(c, category) /\ (Loads => category.status = "APPROVED")
    BY <1>5 DEF UpdateCategory, Loads
  <2> QED
    BY <1>0, <2>1, CategoryChangeBegins
<1>6. ASSUME NEW active \in BOOLEAN, ChangeCategoryStatus(c, active)
      PROVE  Begins(c)
  <2>1. PICK row : row = [category EXCEPT !.active = active]
    OBVIOUS
  <2>2. row \in Category /\ row.status = category.status
    BY <1>0, <2>1 DEF Category
  <2>3. ChangeCategory(c, row)
    BY <1>6, <2>1 DEF ChangeCategoryStatus
  <2>4. Loads => row.status = "APPROVED"
    BY <2>2 DEF Loads
  <2> QED
    BY <2>2, <2>3, <2>4, CategoryChangeBegins
<1> QED
  BY <1>2, <1>3, <1>4, <1>5, <1>6

LEMMA PlanChangeBegins ==
    ASSUME SellingTypeOK, NEW c \in Calls, NEW p \in Plans, NEW row \in Plan,
           NEW pc \in {"plan", "subscribers"}, ChangePlan(c, p, row, pc)
    PROVE  Begins(c)
<1>1. PICK r : r = [Rest EXCEPT !.pc = pc, !.planId = p, !.plan = row]
  OBVIOUS
<1>2. r \in Call /\ r.pc = pc
  BY <1>1, RestTyped DEF Call
<1>3. Begin(c, r)
  BY <1>1 DEF ChangePlan
<1> QED
  BY <1>2, <1>3 DEF Begins, Fresh

LEMMA PlanBegins ==
    ASSUME SellingTypeOK, NEW c \in Calls, NEW p \in Plans, NEW default \in BOOLEAN,
           \/ \E active \in BOOLEAN : UpdatePlanStatus(c, p, default, active)
           \/ \E limit \in Limits : CreatePlan(c, p, default, limit)
           \/ \E active \in BOOLEAN, limit \in Limits : UpdatePlan(c, p, default, active, limit)
    PROVE  Begins(c)
<1>1. ASSUME NEW active \in BOOLEAN, UpdatePlanStatus(c, p, default, active) PROVE Begins(c)
  <2>1. PICK row : row = [plans[p] EXCEPT !.default = default, !.active = active]
    OBVIOUS
  <2>2. plans[p] \in Plan
    BY DEF SellingTypeOK
  <2>3. row \in Plan
    BY <2>1, <2>2 DEF Plan
  <2>4. ChangePlan(c, p, row, "plan")
    BY <1>1, <2>1 DEF UpdatePlanStatus
  <2> QED
    BY <2>3, <2>4, PlanChangeBegins
<1>2. ASSUME NEW active \in BOOLEAN, NEW limit \in Limits,
             NEW pc \in {"plan", "subscribers"},
             ChangePlan(c, p, [default |-> default, active |-> active, limit |-> limit], pc)
      PROVE  Begins(c)
  <2>1. [default |-> default, active |-> active, limit |-> limit] \in Plan
    BY DEF Plan
  <2> QED
    BY <1>2, <2>1, PlanChangeBegins
<1> QED
  BY <1>1, <1>2 DEF CreatePlan, UpdatePlan

LEMMA AuctionBegins ==
    ASSUME SellingTypeOK, NEW c \in Calls,
           \/ \E end \in 1..Horizon : CreateAuction(c, end)
           \/ \E end \in 1..Horizon, a \in DOMAIN auctions : UpdateAuction(c, a, end)
           \/ \E a \in DOMAIN auctions : PublishAuction(c, a)
    PROVE  Begins(c)
<1>0. Rest \in Call /\ \A end \in 1..Horizon : Draft(end) \in Auction
  BY RestTyped DEF Draft, Auction
<1>a. ASSUME NEW a \in DOMAIN auctions
      PROVE  /\ a \in 0..MaxAuctions /\ a # 0
             /\ [auctions[a] EXCEPT !.status = "ACTIVE"] \in Auction
  <2>1. auctions \in Seq(Auction) /\ Len(auctions) <= MaxAuctions
    BY DEF SellingTypeOK
  <2>2. auctions[a] \in Auction /\ a \in 1..Len(auctions)
    BY <2>1
  <2>3. Len(auctions) \in Nat
    BY <2>1
  <2>4. a \in 0..MaxAuctions /\ a # 0
    BY <2>1, <2>2, <2>3
  <2>5. [auctions[a] EXCEPT !.status = "ACTIVE"] \in Auction
    BY <2>2 DEF Auction
  <2> QED
    BY <2>4, <2>5
<1>1. ASSUME NEW end \in 1..Horizon, CreateAuction(c, end) PROVE Begins(c)
  <2>1. PICK r : r = [Rest EXCEPT !.pc = "quota", !.row = Draft(end)]
    OBVIOUS
  <2>2. r \in Call /\ r.pc = "quota"
    BY <1>0, <2>1 DEF Call
  <2>3. Begin(c, r)
    BY <1>1, <2>1 DEF CreateAuction
  <2> QED
    BY <2>2, <2>3 DEF Begins, Fresh
<1>2. ASSUME NEW end \in 1..Horizon, NEW a \in DOMAIN auctions, UpdateAuction(c, a, end)
      PROVE  Begins(c)
  <2>1. PICK r : r = [Rest EXCEPT !.pc = "pick", !.id = a, !.row = Draft(end)]
    OBVIOUS
  <2>2. r \in Call /\ r.pc = "pick" /\ r.id = a
    BY <1>0, <1>a, <2>1 DEF Call
  <2>3. Begin(c, r)
    BY <1>2, <2>1 DEF UpdateAuction
  <2> QED
    BY <1>a, <2>2, <2>3 DEF Begins, Fresh
<1>3. ASSUME NEW a \in DOMAIN auctions, PublishAuction(c, a) PROVE Begins(c)
  <2>0. PICK row \in Auction : row = [auctions[a] EXCEPT !.status = "ACTIVE"]
    BY <1>a
  <2>1. PICK r : r = [Rest EXCEPT !.pc = "auction", !.id = a, !.row = row]
    OBVIOUS
  <2>2. r \in Call /\ r.pc = "auction" /\ r.id = a
    BY <1>0, <1>a, <2>1 DEF Call
  <2>3. Begin(c, r) /\ Loads
    BY <1>3, <2>0, <2>1 DEF PublishAuction
  <2> QED
    BY <1>a, <2>2, <2>3 DEF Begins, Fresh
<1> QED
  BY <1>1, <1>2, <1>3

-----------------------------------------------------------------------------
(***************************************************************************)
(* Requests that go on, and the types                                      *)
(***************************************************************************)
\* A request in flight goes on as q.
Acts(c, q) ==
    /\ Busy(c) /\ q \in Call
    /\ q.pc = "idle" => q = Rest
    /\ call' = [call EXCEPT ![c] = q]
    /\ requests' = requests /\ mixed' = mixed

Same(q, r) ==
    /\ q.role = r.role /\ q.kyc = r.kyc /\ q.category = r.category
    /\ q.planId = r.planId /\ q.plan = r.plan /\ q.limit = r.limit
    /\ q.id = r.id /\ q.row = r.row

LEMMA GotoActs ==
    ASSUME SellingTypeOK, NEW c \in Calls, Busy(c), requests' = requests, mixed' = mixed,
           NEW pc \in {"document", "kyc", "plan", "count", "pick", "auction"}, Goto(c, pc)
    PROVE  \E q : Acts(c, q) /\ q.pc = pc /\ Same(q, call[c])
<1>0. call \in [Calls -> Call] /\ call[c] \in Call
  BY DEF SellingTypeOK
<1>1. PICK q : q = [call[c] EXCEPT !.pc = pc]
  OBVIOUS
<1>2. q \in Call /\ q.pc = pc
  BY <1>0, <1>1 DEF Call
<1>3. Same(q, call[c])
  BY <1>0, <1>1 DEF Call, Same
<1>4. call' = [call EXCEPT ![c] = q]
  BY <1>0, <1>1 DEF Goto
<1>5. Acts(c, q)
  BY <1>2, <1>4 DEF Acts
<1> QED
  BY <1>2, <1>3, <1>5

LEMMA FinishActs ==
    ASSUME SellingTypeOK, NEW c \in Calls, Busy(c), requests' = requests, mixed' = mixed,
           Finish(c)
    PROVE  Acts(c, Rest)
BY RestTyped DEF Acts, Finish

LEMMA QuotaActs ==
    ASSUME SellingTypeOK, NEW c \in Calls, ReadQuota(c)
    PROVE  \E q : /\ Acts(c, q) /\ q.planId = mine
                  /\ \/ q.pc = "count" /\ q.limit = cache[mine]
                     \/ q.pc = "fill" /\ q.limit = plans[mine].limit
<1>0. /\ call \in [Calls -> Call] /\ call[c] \in Call /\ mine \in Plans
      /\ cache[mine] \in Limits \cup {0} /\ plans[mine] \in Plan
  BY DEF SellingTypeOK
<1>1. PICK pc : pc = IF cache[mine] # 0 THEN "count" ELSE "fill"
  OBVIOUS
<1>2. PICK limit \in Limits \cup {0} :
        limit = IF cache[mine] # 0 THEN cache[mine] ELSE plans[mine].limit
  BY <1>0 DEF Plan
<1>3. PICK q : q = [call[c] EXCEPT !.planId = mine, !.limit = limit, !.pc = pc]
  OBVIOUS
<1>4. q \in Call /\ q.pc = pc /\ q.limit = limit /\ q.planId = mine
  BY <1>0, <1>1, <1>2, <1>3 DEF Call
<1>5. call' = [call EXCEPT ![c] = q]
  BY <1>0, <1>1, <1>2, <1>3 DEF ReadQuota, CacheKey
<1>6. Acts(c, q)
  BY <1>1, <1>4, <1>5 DEF Acts, ReadQuota, Busy
<1> QED
  BY <1>1, <1>2, <1>4, <1>6

\* Every other step of a request that goes on.
Goes(c) ==
    \/ SaveDocument(c) \/ SaveRole(c) \/ SaveKyc(c) \/ SaveProfile(c)
    \/ \E stored \in BOOLEAN : ResetKyc(c, stored)
    \/ SaveNewCategory(c) \/ SaveCategory(c)
    \/ \E subscribed \in BOOLEAN : CheckSubscribers(c, subscribed)
    \/ SavePlan(c) \/ FillCache(c) \/ CheckQuota(c) \/ PickCategory(c) \/ SaveAuction(c)
    \/ CallFails(c)

Ends(c) == Finish(c) /\ Acts(c, Rest)
GoesTo(c, pc) == \E q : Acts(c, q) /\ q.pc = pc /\ Same(q, call[c])

LEMMA GoesActs ==
    ASSUME SellingTypeOK, NEW c \in Calls, Goes(c)
    PROVE  /\ \/ Ends(c) \/ GoesTo(c, "document") \/ GoesTo(c, "kyc") \/ GoesTo(c, "plan")
              \/ GoesTo(c, "count") \/ GoesTo(c, "pick") \/ GoesTo(c, "auction")
           /\ \E q : Acts(c, q)
<1>1. Busy(c)
  BY DEF Goes, SaveDocument, SaveRole, SaveKyc, SaveProfile, ResetKyc, SaveNewCategory,
         SaveCategory, CheckSubscribers, SavePlan, FillCache, CheckQuota, PickCategory, SaveAuction,
         CallFails, Busy
<1>2. requests' = requests /\ mixed' = mixed
  BY DEF Goes, SaveDocument, SaveRole, SaveKyc, SaveProfile, ResetKyc, SaveNewCategory,
         SaveCategory, CheckSubscribers, SavePlan, FillCache, CheckQuota, PickCategory, SaveAuction,
         CallFails
<1>3. \/ Finish(c) \/ Goto(c, "document") \/ Goto(c, "kyc") \/ Goto(c, "plan")
      \/ Goto(c, "count") \/ Goto(c, "pick") \/ Goto(c, "auction")
  BY DEF Goes, SaveDocument, SaveRole, SaveKyc, SaveProfile, ResetKyc, SaveNewCategory,
         SaveCategory, CheckSubscribers, SavePlan, FillCache, CheckQuota, PickCategory, SaveAuction,
         CallFails
<1>4. \/ Ends(c) \/ GoesTo(c, "document") \/ GoesTo(c, "kyc") \/ GoesTo(c, "plan")
      \/ GoesTo(c, "count") \/ GoesTo(c, "pick") \/ GoesTo(c, "auction")
  BY <1>1, <1>2, <1>3, GotoActs, FinishActs DEF Ends, GoesTo
<1> QED
  BY <1>4 DEF Ends, GoesTo

\* What is left of the type invariant when the requests' part is known.
RowsTyped ==
    /\ role \in BOOLEAN /\ kyc \in KycStatus /\ documents \in BOOLEAN
    /\ category \in Category
    /\ plans \in [Plans -> Plan] /\ mine \in Plans
    /\ cache \in [Plans -> Limits \cup {0}]
    /\ auctions \in Seq(Auction) /\ Len(auctions) <= MaxAuctions
    /\ now \in 0..Horizon /\ moves \in 0..MaxMoves
    /\ faulty \in BOOLEAN
    /\ peak \in [Plans -> Limits \cup {0}] /\ held \subseteq Plans

LEMMA Replaced ==
    ASSUME NEW S, NEW s \in Seq(S), NEW i, NEW e \in S
    PROVE  [s EXCEPT ![i] = e] \in Seq(S) /\ Len([s EXCEPT ![i] = e]) = Len(s)
<1>1. s \in [1..Len(s) -> S] /\ Len(s) \in Nat
  OBVIOUS
<1>2. PICK t : t = [s EXCEPT ![i] = e]
  OBVIOUS
<1>3. t \in [1..Len(s) -> S]
  BY <1>1, <1>2
<1>4. t \in Seq(S) /\ Len(t) = Len(s)
  BY <1>1, <1>3
<1> QED
  BY <1>2, <1>4

LEMMA GoesRowsTyped ==
    ASSUME SellingTypeOK, NEW c \in Calls, Goes(c)
    PROVE  RowsTyped'
<1>0. call[c] \in Call /\ RowsTyped
  BY DEF SellingTypeOK, RowsTyped
<1>1. CASE SaveDocument(c) \/ SaveRole(c) \/ SaveKyc(c) \/ SaveProfile(c)
  <2>1. role' \in BOOLEAN /\ kyc' \in KycStatus /\ documents' \in BOOLEAN
    BY <1>0, <1>1 DEF SaveDocument, SaveRole, SaveKyc, SaveProfile, RowsTyped, Call
  <2>2. UNCHANGED <<category, planVars, auctionVars, faulty>>
    BY <1>1 DEF SaveDocument, SaveRole, SaveKyc, SaveProfile
  <2> QED
    BY <1>0, <2>1, <2>2 DEF RowsTyped
<1>2. ASSUME NEW stored \in BOOLEAN, ResetKyc(c, stored) PROVE RowsTyped'
  <2>1. kyc' \in KycStatus /\ faulty' \in BOOLEAN
    BY <1>0, <1>2 DEF ResetKyc, RowsTyped, KycStatus
  <2>2. UNCHANGED <<role, documents, category, planVars, auctionVars>>
    BY <1>2 DEF ResetKyc
  <2> QED
    BY <1>0, <2>1, <2>2 DEF RowsTyped
<1>3. CASE SaveNewCategory(c) \/ SaveCategory(c)
  <2>1. category' \in Category
    BY <1>0, <1>3 DEF SaveNewCategory, SaveCategory, RowsTyped, Call
  <2>2. UNCHANGED <<kycVars, planVars, auctionVars, faulty>>
    BY <1>3 DEF SaveNewCategory, SaveCategory
  <2> QED
    BY <1>0, <2>1, <2>2 DEF RowsTyped
<1>4. CASE SavePlan(c)
  <2>1. call[c].planId \in Plans /\ call[c].plan \in Plan
    BY <1>0 DEF Call
  <2>2. call[c].plan.limit \in Limits \cup {0}
    BY <2>1 DEF Plan
  <2>3. plans' \in [Plans -> Plan] /\ peak' \in [Plans -> Limits \cup {0}]
    BY <1>0, <1>4, <2>1, <2>2 DEF SavePlan, RowsTyped
  <2>4. UNCHANGED <<kycVars, category, mine, cache, held, auctionVars, faulty>>
    BY <1>4 DEF SavePlan
  <2> QED
    BY <1>0, <2>3, <2>4 DEF RowsTyped
<1>5. CASE FillCache(c)
  <2>1. call[c].planId \in Plans /\ call[c].limit \in Limits \cup {0}
    BY <1>0 DEF Call
  <2>2. cache' \in [Plans -> Limits \cup {0}]
    BY <1>0, <1>5, <2>1 DEF FillCache, CacheKey, RowsTyped
  <2>3. UNCHANGED <<kycVars, category, plans, mine, peak, held, auctionVars, faulty>>
    BY <1>5 DEF FillCache
  <2> QED
    BY <1>0, <2>2, <2>3 DEF RowsTyped
<1>6. CASE SaveAuction(c)
  <2>1. /\ call[c].row \in Auction /\ call[c].id \in 0..MaxAuctions
        /\ auctions \in Seq(Auction) /\ Len(auctions) <= MaxAuctions
    BY <1>0 DEF Call, RowsTyped
  <2>2. call[c].id = 0 => auctions' \in Seq(Auction) /\ Len(auctions') <= MaxAuctions
    <3>1. SUFFICES ASSUME call[c].id = 0 PROVE auctions' \in Seq(Auction) /\ Len(auctions') <= MaxAuctions
      OBVIOUS
    <3>2. auctions' = Append(auctions, call[c].row) /\ Len(auctions) < MaxAuctions
      BY <1>6, <3>1 DEF SaveAuction
    <3>3. auctions' \in Seq(Auction) /\ Len(auctions') = Len(auctions) + 1
      BY <2>1, <3>2
    <3>4. MaxAuctions \in Nat /\ Len(auctions) \in Nat
      BY <2>1
    <3> QED
      BY <3>2, <3>3, <3>4
  <2>3. call[c].id # 0 => auctions' \in Seq(Auction) /\ Len(auctions') <= MaxAuctions
    <3>1. SUFFICES ASSUME call[c].id # 0 PROVE auctions' \in Seq(Auction) /\ Len(auctions') <= MaxAuctions
      OBVIOUS
    <3>2. auctions' = [auctions EXCEPT ![call[c].id] = call[c].row]
      BY <1>6, <3>1 DEF SaveAuction
    <3>3. auctions' \in Seq(Auction) /\ Len(auctions') = Len(auctions)
      BY <2>1, <3>2, Replaced
    <3> QED
      BY <2>1, <3>3
  <2>4. auctions' \in Seq(Auction) /\ Len(auctions') <= MaxAuctions
    BY <2>2, <2>3
  <2>5. UNCHANGED <<kycVars, category, planVars, now, moves, faulty>>
    BY <1>6 DEF SaveAuction
  <2> QED
    BY <1>0, <2>4, <2>5 DEF RowsTyped
<1>7. CASE CallFails(c)
  BY <1>0, <1>7 DEF CallFails, RowsTyped
<1>8. CASE \/ \E subscribed \in BOOLEAN : CheckSubscribers(c, subscribed)
           \/ CheckQuota(c) \/ PickCategory(c)
  BY <1>0, <1>8 DEF CheckSubscribers, CheckQuota, PickCategory, RowsTyped
<1> QED
  BY <1>1, <1>2, <1>3, <1>4, <1>5, <1>6, <1>7, <1>8 DEF Goes

LEMMA ActsTyped ==
    ASSUME SellingTypeOK, NEW c \in Calls, NEW q, Acts(c, q)
    PROVE  (call \in [Calls -> Call] /\ requests \in 0..MaxRequests /\ mixed \in BOOLEAN)'
BY DEF Acts, SellingTypeOK

LEMMA BeginsTyped ==
    ASSUME SellingTypeOK, NEW c \in Calls, Begins(c)
    PROVE  SellingTypeOK'
<1>1. PICK r \in Call : Begin(c, r)
  BY DEF Begins
<1>2. call' \in [Calls -> Call]
  BY <1>1 DEF Begin, SellingTypeOK
<1>3. MaxRequests \in Nat /\ requests \in 0..MaxRequests /\ requests < MaxRequests
      /\ requests' = requests + 1
  BY <1>1 DEF Begin, SellingTypeOK
<1>4. requests' \in 0..MaxRequests
  BY <1>3
<1>5. mixed' \in BOOLEAN
  <2>1. mixed' = (mixed \/ \E d \in Calls : Busy(d))
    BY <1>1, Zenon DEF Begin
  <2>2. (mixed \/ \E d \in Calls : Busy(d)) \in BOOLEAN
    OBVIOUS
  <2> QED
    BY <2>1, <2>2, Zenon
<1>6. UNCHANGED <<kycVars, category, planVars, auctionVars, faulty>>
  BY <1>1 DEF Begin
<1> QED
  BY <1>2, <1>4, <1>5, <1>6 DEF SellingTypeOK

LEMMA QuotaTyped ==
    ASSUME SellingTypeOK, NEW c \in Calls, ReadQuota(c)
    PROVE  SellingTypeOK'
<1>1. (call \in [Calls -> Call] /\ requests \in 0..MaxRequests /\ mixed \in BOOLEAN)'
  BY QuotaActs, ActsTyped
<1>2. UNCHANGED <<kycVars, category, planVars, auctionVars, faulty>>
  BY DEF ReadQuota
<1> QED
  BY <1>1, <1>2 DEF SellingTypeOK

\* What happens without a request.
Elsewhere ==
    \/ \E p \in Plans : Subscribe(p) \/ OthersFill(p) \/ CacheExpires(p)
    \/ Tick

LEMMA ElsewhereTyped ==
    ASSUME SellingTypeOK, Elsewhere
    PROVE  SellingTypeOK'
<1>0. moves \in 0..MaxMoves /\ now \in 0..Horizon /\ MaxMoves \in Nat /\ Horizon \in Nat
  BY DEF SellingTypeOK
<1>1. moves' \in 0..MaxMoves
  <2>1. moves < MaxMoves /\ moves' = moves + 1
    BY DEF Elsewhere, Subscribe, OthersFill, CacheExpires, Tick
  <2> QED
    BY <1>0, <2>1
<1>2. ASSUME NEW p \in Plans, Subscribe(p) PROVE SellingTypeOK'
  <2>1. mixed' \in BOOLEAN
    <3>1. mixed' = (mixed \/ \E d \in Calls : Busy(d))
      BY <1>2, Zenon DEF Subscribe
    <3>2. (mixed \/ \E d \in Calls : Busy(d)) \in BOOLEAN
      OBVIOUS
    <3> QED
      BY <3>1, <3>2, Zenon
  <2>2. mine' = p /\ held' = held \cup {p}
        /\ UNCHANGED <<kycVars, category, plans, cache, peak, auctions, now, call, requests, faulty>>
    BY <1>2 DEF Subscribe
  <2> QED
    BY <1>1, <2>1, <2>2 DEF SellingTypeOK
<1>3. ASSUME NEW p \in Plans, OthersFill(p) \/ CacheExpires(p) PROVE SellingTypeOK'
  <2>1. plans[p] \in Plan /\ cache \in [Plans -> Limits \cup {0}]
    BY DEF SellingTypeOK
  <2>2. plans[p].limit \in Limits \cup {0}
    BY <2>1 DEF Plan
  <2>3. cache' \in [Plans -> Limits \cup {0}]
    BY <1>3, <2>1, <2>2 DEF OthersFill, CacheExpires, CacheKey
  <2>4. UNCHANGED <<kycVars, category, plans, mine, peak, held, auctions, now, call, requests, mixed, faulty>>
    BY <1>3 DEF OthersFill, CacheExpires
  <2> QED
    BY <1>1, <2>3, <2>4 DEF SellingTypeOK
<1>4. CASE Tick
  <2>1. now' \in 0..Horizon
    BY <1>0, <1>4 DEF Tick
  <2>2. UNCHANGED <<kycVars, category, planVars, auctions, call, requests, mixed, faulty>>
    BY <1>4 DEF Tick
  <2> QED
    BY <1>1, <2>1, <2>2 DEF SellingTypeOK
<1> QED
  BY <1>2, <1>3, <1>4 DEF Elsewhere

\* Every step is a request that begins, one that goes on, or happens elsewhere.
LEMMA StepKinds ==
    ASSUME SellingTypeOK, SellingNext
    PROVE  \/ \E c \in Calls : Begins(c) \/ ReadQuota(c) \/ Goes(c)
           \/ Elsewhere
<1>1. ASSUME NEW c \in Calls, SellerStep(c) PROVE Begins(c) \/ ReadQuota(c) \/ Goes(c)
  <2>1. CASE UpdateKyc(c) \/ SubmitKyc(c) \/ ChangeProfile(c)
    BY <2>1, KycBegins
  <2>2. CASE RequestCategory(c)
    BY <2>2, CategoryBegins
  <2>3. CASE \/ \E end \in 1..Horizon : \/ CreateAuction(c, end)
                                        \/ \E a \in DOMAIN auctions : UpdateAuction(c, a, end)
             \/ \E a \in DOMAIN auctions : PublishAuction(c, a)
    BY <2>3, AuctionBegins
  <2>4. CASE \/ SaveDocument(c) \/ \E stored \in BOOLEAN : ResetKyc(c, stored)
             \/ SaveRole(c) \/ SaveKyc(c) \/ SaveProfile(c)
             \/ ReadQuota(c) \/ FillCache(c) \/ CheckQuota(c) \/ PickCategory(c) \/ SaveAuction(c)
             \/ CallFails(c)
    BY <2>4 DEF Goes
  <2> QED
    BY <1>1, <2>1, <2>2, <2>3, <2>4, Zenon DEF SellerStep
<1>2. ASSUME NEW c \in Calls, AdminStep(c) PROVE Begins(c) \/ ReadQuota(c) \/ Goes(c)
  <2>1. CASE ApproveKyc(c) \/ RejectKyc(c)
    BY <2>1, KycBegins
  <2>2. CASE \/ CreateCategory(c) \/ ApproveCategory(c) \/ RejectCategory(c) \/ UpdateCategory(c)
             \/ \E active \in BOOLEAN : ChangeCategoryStatus(c, active)
    BY <2>2, CategoryBegins
  <2>3. CASE \E p \in Plans, default \in BOOLEAN :
                \/ \E active \in BOOLEAN : UpdatePlanStatus(c, p, default, active)
                \/ \E limit \in Limits : CreatePlan(c, p, default, limit)
                \/ \E active \in BOOLEAN, limit \in Limits : UpdatePlan(c, p, default, active, limit)
    BY <2>3, PlanBegins
  <2>4. CASE \/ SaveNewCategory(c) \/ SaveCategory(c) \/ SavePlan(c)
             \/ \E subscribed \in BOOLEAN : CheckSubscribers(c, subscribed)
    BY <2>4 DEF Goes
  <2> QED
    BY <1>2, <2>1, <2>2, <2>3, <2>4, Zenon DEF AdminStep
<1> QED
  BY <1>1, <1>2 DEF SellingNext, Elsewhere

LEMMA SellingInitTyped == SellingInit => SellingTypeOK
<1>1. SUFFICES ASSUME SellingInit PROVE SellingTypeOK
  OBVIOUS
<1>0. {MaxRequests, MaxAuctions, MaxMoves, Horizon} \subseteq Nat
  OBVIOUS
<1>2. role \in BOOLEAN /\ kyc \in KycStatus /\ documents \in BOOLEAN /\ category \in Category
  <2>1. (role = FALSE \/ role = TRUE) /\ (documents = FALSE \/ documents = TRUE)
    BY <1>1, Zenon DEF SellingInit
  <2>2. kyc \in {"none", "APPROVED"}
    BY <1>1 DEF SellingInit
  <2>3. category \in {NoCategory, PendingCategory, ApprovedCategory}
    BY <1>1 DEF SellingInit
  <2> QED
    BY <2>1, <2>2, <2>3, RestTyped DEF KycStatus
<1>3. auctions \in Seq(Auction) /\ Len(auctions) <= MaxAuctions
  <2>1. CASE auctions = <<>>
    BY <1>0, <2>1
  <2>2. ASSUME NEW n \in 0..(IF category = ApprovedCategory THEN MaxAuctions ELSE 0),
               auctions \in [1..n -> { [Draft(end) EXCEPT !.status = "ACTIVE"] : end \in 1..Horizon }]
        PROVE  auctions \in Seq(Auction) /\ Len(auctions) <= MaxAuctions
    <3>1. n \in Nat /\ n <= MaxAuctions
      BY <1>0
    <3>2. \A end \in 1..Horizon : [Draft(end) EXCEPT !.status = "ACTIVE"] \in Auction
      BY <1>0 DEF Draft, Auction
    <3>3. auctions \in [1..n -> Auction]
      BY <2>2, <3>2
    <3> QED
      BY <3>1, <3>3
  <2> QED
    BY <1>1, <2>1, <2>2 DEF SellingInit
<1>4. plans \in [Plans -> Plan] /\ peak \in [Plans -> Limits \cup {0}]
  <2>1. PICK limit \in Limits :
          /\ plans = [p \in Plans |-> IF p = FirstPlan
                                      THEN [default |-> TRUE, active |-> TRUE, limit |-> limit]
                                      ELSE NoPlan]
          /\ peak = [p \in Plans |-> plans[p].limit]
    BY <1>1 DEF SellingInit
  <2>2. plans \in [Plans -> Plan]
    BY <2>1, RestTyped DEF Plan
  <2>3. \A p \in Plans : plans[p].limit \in Limits \cup {0}
    BY <2>2 DEF Plan
  <2> QED
    BY <2>1, <2>2, <2>3
<1>5. /\ mine \in Plans /\ held \subseteq Plans /\ cache \in [Plans -> Limits \cup {0}]
      /\ mixed \in BOOLEAN /\ faulty \in BOOLEAN
  BY <1>1 DEF SellingInit
<1>6. now \in 0..Horizon /\ moves \in 0..MaxMoves /\ requests \in 0..MaxRequests
  BY <1>0, <1>1 DEF SellingInit
<1>7. call \in [Calls -> Call]
  BY <1>1, RestTyped DEF SellingInit
<1> QED
  BY <1>2, <1>3, <1>4, <1>5, <1>6, <1>7 DEF SellingTypeOK

LEMMA SellingStepTyped == SellingTypeOK /\ [SellingNext]_sellingVars => SellingTypeOK'
<1>1. SUFFICES ASSUME SellingTypeOK, [SellingNext]_sellingVars PROVE SellingTypeOK'
  OBVIOUS
<1>2. ASSUME NEW c \in Calls, Goes(c) PROVE SellingTypeOK'
  <2>1. RowsTyped'
    BY <1>1, <1>2, GoesRowsTyped
  <2>2. (call \in [Calls -> Call] /\ requests \in 0..MaxRequests /\ mixed \in BOOLEAN)'
    <3>1. PICK q : Acts(c, q)
      BY <1>1, <1>2, GoesActs
    <3> QED
      BY <1>1, <3>1, ActsTyped
  <2> QED
    BY <2>1, <2>2 DEF SellingTypeOK, RowsTyped
<1>3. CASE UNCHANGED sellingVars
  BY <1>1, <1>3 DEF SellingTypeOK
<1> QED
  BY <1>1, <1>2, <1>3, StepKinds, BeginsTyped, QuotaTyped, ElsewhereTyped

\* The state of a seller, of the category, the plans and the auctions is what
\* the schema and the entities allow, and a request carries what it read.
THEOREM SellingTypeCorrect == SellingSpec => []SellingTypeOK
BY SellingInitTyped, SellingStepTyped, PTL DEF SellingSpec

-----------------------------------------------------------------------------
(***************************************************************************)
(* Requests one at a time                                                  *)
(***************************************************************************)
OneAtATime == mixed = FALSE => \A c, d \in Calls : Busy(c) /\ Busy(d) => c = d

\* The one request in flight, or a finished one when there is none.
Sole(r) ==
    \/ Quiet /\ r = Rest
    \/ \E c \in Calls : Busy(c) /\ call[c] = r

LEMMA BeginSole ==
    ASSUME SellingTypeOK, OneAtATime, NEW c \in Calls, NEW r \in Call, Begin(c, r),
           r.pc # "idle", mixed' = FALSE
    PROVE  /\ mixed = FALSE /\ Sole(Rest)
           /\ \A x : Sole(x)' => x = r
           /\ OneAtATime'
<1>1. mixed = FALSE /\ Quiet
  <2>1. mixed' = (mixed \/ \E d \in Calls : Busy(d)) /\ mixed \in BOOLEAN
    BY Zenon DEF Begin, SellingTypeOK
  <2> QED
    BY <2>1, Zenon DEF Quiet
<1>2. call \in [Calls -> Call] /\ call' = [call EXCEPT ![c] = r]
  BY DEF Begin, SellingTypeOK
<1>3. \A d \in Calls : Busy(d)' => d = c
  BY <1>1, <1>2 DEF Quiet, Busy
<1>4. call'[c] = r /\ Busy(c)'
  BY <1>2 DEF Busy
<1> QED
  BY <1>1, <1>3, <1>4 DEF Sole, OneAtATime, Quiet

LEMMA ActsSole ==
    ASSUME SellingTypeOK, OneAtATime, NEW c \in Calls, NEW q, Acts(c, q)
    PROVE  /\ mixed = FALSE => Sole(call[c]) /\ \A x : Sole(x)' => x = q
           /\ OneAtATime'
<1>1. /\ call \in [Calls -> Call] /\ call' = [call EXCEPT ![c] = q] /\ mixed' = mixed
      /\ Busy(c) /\ (q.pc = "idle" => q = Rest)
  BY DEF Acts, SellingTypeOK
<1>2. ASSUME mixed = FALSE
      PROVE  Sole(call[c]) /\ \A d \in Calls : Busy(d)' => d = c
  BY <1>1, <1>2 DEF OneAtATime, Busy, Sole
<1>3. call'[c] = q
  BY <1>1
<1>4. ASSUME mixed = FALSE, NEW x, Sole(x)' PROVE x = q
  <2>1. CASE q.pc = "idle"
    BY <1>1, <1>2, <1>3, <1>4, <2>1 DEF Sole, Busy
  <2>2. CASE q.pc # "idle"
    <3>1. Busy(c)'
      BY <1>3, <2>2 DEF Busy
    <3> QED
      BY <1>2, <1>3, <1>4, <3>1 DEF Sole, Quiet
  <2> QED
    BY <2>1, <2>2
<1> QED
  BY <1>1, <1>2, <1>4 DEF OneAtATime

LEMMA ElsewhereSole ==
    ASSUME SellingTypeOK, OneAtATime, Elsewhere \/ UNCHANGED sellingVars
    PROVE  /\ mixed' = FALSE => mixed = FALSE
           /\ \A x : Sole(x)' => Sole(x)
           /\ OneAtATime'
<1>1. call' = call
  BY DEF Elsewhere, Subscribe, OthersFill, CacheExpires, Tick
<1>2. mixed' = FALSE => mixed = FALSE
  <2>1. mixed' = (mixed \/ \E d \in Calls : Busy(d)) \/ mixed' = mixed
    BY Zenon DEF Elsewhere, Subscribe, OthersFill, CacheExpires, Tick
  <2>2. mixed \in BOOLEAN
    BY DEF SellingTypeOK
  <2> QED
    BY <2>1, <2>2, Zenon
<1> QED
  BY <1>1, <1>2 DEF Sole, Quiet, Busy, OneAtATime

-----------------------------------------------------------------------------
(***************************************************************************)
(* The role and the record                                                 *)
(***************************************************************************)
\* With r in flight: the record is approved only for a seller, and r is going
\* to write what fits with the record and the role as they are.  If nothing
\* broke off, what is not yet so is so once r is done.
KycOK(r) ==
    /\ kyc = "APPROVED" => role = TRUE
    /\ r.pc = "reset" => r.kyc = kyc /\ kyc \in {"none", "REJECTED"}
    /\ r.pc = "role" => r.role = TRUE /\ r.kyc = "APPROVED" /\ kyc = "PENDING"
    /\ r.pc = "kyc" => /\ kyc # "none"
                       /\ IF r.kyc = "APPROVED" THEN role = TRUE ELSE kyc # "APPROVED"
    /\ r.pc = "profile" => r.role = role
    /\ faulty = FALSE =>
          /\ role = TRUE => kyc = "APPROVED" \/ (r.pc = "kyc" /\ r.kyc = "APPROVED")
          /\ kyc # "none" => documents = TRUE \/ r.pc = "document"

KycInv == mixed = FALSE => \A r \in Call : Sole(r) => KycOK(r)

LEMMA KycGoes ==
    ASSUME SellingTypeOK, NEW c \in Calls, Goes(c), KycOK(call[c])
    PROVE  \A q : Acts(c, q) => KycOK(q)'
<1> SUFFICES ASSUME NEW q, Acts(c, q) PROVE KycOK(q)'
  OBVIOUS
<1>0. /\ call' = [call EXCEPT ![c] = q] /\ call \in [Calls -> Call] /\ call[c] \in Call
      /\ call'[c] = q
  BY DEF Acts, SellingTypeOK
<1>r. Rest.pc = "idle"
  BY RestTyped
<1>f. Finish(c) => q.pc = "idle"
  BY <1>0, <1>r DEF Finish
<1>g. ASSUME NEW pc, Goto(c, pc)
      PROVE  q.pc = pc /\ q.kyc = call[c].kyc
  <2>1. q = [call[c] EXCEPT !.pc = pc]
    BY <1>0, <1>g DEF Goto
  <2> QED
    BY <1>0, <2>1 DEF Call
<1>1. CASE SaveDocument(c)
  <2>1. documents' = TRUE /\ q.pc = "idle" /\ UNCHANGED <<role, kyc, faulty>> /\ call[c].pc = "document"
    BY <1>1, <1>f DEF SaveDocument
  <2> QED
    BY <2>1 DEF KycOK
<1>2. CASE SaveRole(c)
  <2>1. /\ role' = call[c].role /\ call[c].pc = "role" /\ q.pc = "kyc" /\ q.kyc = call[c].kyc
        /\ UNCHANGED <<kyc, documents, faulty>>
    BY <1>2, <1>g DEF SaveRole
  <2> QED
    BY <2>1 DEF KycOK
<1>3. CASE SaveKyc(c)
  <2>1. /\ kyc' = call[c].kyc /\ call[c].pc = "kyc" /\ q.pc = "idle"
        /\ UNCHANGED <<role, documents, faulty>>
    BY <1>3, <1>f DEF SaveKyc
  <2> QED
    BY <2>1 DEF KycOK
<1>4. CASE SaveProfile(c)
  <2>1. /\ role' = call[c].role /\ call[c].pc = "profile" /\ q.pc = "idle"
        /\ UNCHANGED <<kyc, documents, faulty>>
    BY <1>4, <1>f DEF SaveProfile
  <2> QED
    BY <2>1 DEF KycOK
<1>5. ASSUME NEW stored \in BOOLEAN, ResetKyc(c, stored) PROVE KycOK(q)'
  <2>1. call[c].pc = "reset" /\ UNCHANGED <<role, documents>>
    BY <1>5 DEF ResetKyc
  <2>2. call[c].kyc = kyc /\ kyc \in {"none", "REJECTED"}
    BY <2>1 DEF KycOK
  <2>3. faulty' = FALSE => stored = TRUE /\ faulty = FALSE
    <3>1. faulty' = (faulty \/ ~stored)
      BY <1>5, Zenon DEF ResetKyc
    <3>2. faulty \in BOOLEAN
      BY DEF SellingTypeOK
    <3> QED
      BY <3>1, <3>2, Zenon
  <2>4. stored = TRUE => kyc' = "NOT_SUBMITTED" /\ q.pc = "document"
    BY <1>5, <1>g, <2>2 DEF ResetKyc
  <2>5. stored = FALSE => kyc' = kyc /\ q.pc \in {"idle", "document"}
    BY <1>5, <1>f, <1>g, <2>2 DEF ResetKyc
  <2> QED
    BY <2>1, <2>2, <2>3, <2>4, <2>5 DEF KycOK
<1>6. CASE CallFails(c)
  <2>1. UNCHANGED kycVars /\ faulty' = TRUE /\ q.pc = "idle"
    BY <1>6, <1>f DEF CallFails
  <2> QED
    BY <2>1 DEF KycOK
<1>7. CASE \/ SaveNewCategory(c) \/ SaveCategory(c)
           \/ \E subscribed \in BOOLEAN : CheckSubscribers(c, subscribed)
           \/ SavePlan(c) \/ FillCache(c) \/ CheckQuota(c) \/ PickCategory(c) \/ SaveAuction(c)
  <2>1. UNCHANGED kycVars /\ faulty' = faulty
    BY <1>7 DEF SaveNewCategory, SaveCategory, CheckSubscribers, SavePlan, FillCache, CheckQuota,
                PickCategory, SaveAuction
  <2>2. call[c].pc \notin {"document", "reset", "role", "kyc", "profile"}
    BY <1>7 DEF SaveNewCategory, SaveCategory, CheckSubscribers, SavePlan, FillCache, CheckQuota,
                PickCategory, SaveAuction
  <2>3. q.pc \in {"idle", "plan", "count", "pick", "auction"}
    BY <1>7, <1>f, <1>g DEF SaveNewCategory, SaveCategory, CheckSubscribers, SavePlan, FillCache,
                CheckQuota, PickCategory, SaveAuction
  <2> QED
    BY <2>1, <2>2, <2>3 DEF KycOK
<1> QED
  BY <1>1, <1>2, <1>3, <1>4, <1>5, <1>6, <1>7, Zenon DEF Goes

LEMMA KycStep ==
    ASSUME SellingTypeOK, OneAtATime, KycInv, [SellingNext]_sellingVars
    PROVE  KycInv'
<1> SUFFICES ASSUME mixed' = FALSE, NEW x, Sole(x)' PROVE KycOK(x)'
  BY DEF KycInv
<1>1. ASSUME NEW c \in Calls, Begins(c) PROVE KycOK(x)'
  <2>1. PICK r \in Call : Begin(c, r) /\ Fresh(r)
    BY <1>1 DEF Begins
  <2>2. r.pc # "idle"
    BY <2>1 DEF Fresh
  <2>3. x = r /\ mixed = FALSE /\ Sole(Rest)
    BY <2>1, <2>2, BeginSole
  <2>4. KycOK(Rest) /\ Rest.pc = "idle"
    BY <2>3, RestTyped DEF KycInv
  <2>5. UNCHANGED <<role, kyc, documents, faulty>>
    BY <2>1 DEF Begin
  <2>6. KycOK(r)'
    BY <2>1, <2>4, <2>5 DEF KycOK, Fresh
  <2> QED
    BY <2>3, <2>6
<1>2. ASSUME NEW c \in Calls, ReadQuota(c) PROVE KycOK(x)'
  <2>1. PICK q : Acts(c, q) /\ q.pc \in {"count", "fill"}
    BY <1>2, QuotaActs
  <2>2. mixed = FALSE
    BY <2>1 DEF Acts
  <2>3. x = q /\ Sole(call[c])
    BY <2>1, <2>2, ActsSole
  <2>4. KycOK(call[c]) /\ call[c].pc = "quota"
    BY <1>2, <2>2, <2>3 DEF KycInv, SellingTypeOK, ReadQuota
  <2>5. UNCHANGED <<role, kyc, documents, faulty>>
    BY <1>2 DEF ReadQuota
  <2>6. KycOK(q)'
    BY <2>1, <2>4, <2>5 DEF KycOK
  <2> QED
    BY <2>3, <2>6
<1>3. ASSUME NEW c \in Calls, Goes(c) PROVE KycOK(x)'
  <2>1. PICK q : Acts(c, q)
    BY <1>3, GoesActs
  <2>2. mixed = FALSE
    BY <2>1 DEF Acts
  <2>3. x = q /\ Sole(call[c])
    BY <2>1, <2>2, ActsSole
  <2>4. KycOK(call[c])
    BY <2>2, <2>3 DEF KycInv, SellingTypeOK
  <2>5. KycOK(q)'
    BY <1>3, <2>1, <2>4, KycGoes
  <2> QED
    BY <2>3, <2>5
<1>4. CASE Elsewhere \/ UNCHANGED sellingVars
  <2>1. Sole(x) /\ mixed = FALSE
    BY <1>4, ElsewhereSole
  <2>2. KycOK(x)
    <3>1. x \in Call
      BY <2>1, RestTyped DEF Sole, SellingTypeOK
    <3> QED
      BY <2>1, <3>1 DEF KycInv
  <2>3. UNCHANGED <<role, kyc, documents, faulty>>
    BY <1>4 DEF Elsewhere, Subscribe, OthersFill, CacheExpires, Tick
  <2> QED
    BY <2>2, <2>3 DEF KycOK
<1> QED
  BY <1>1, <1>2, <1>3, <1>4, StepKinds

LEMMA OneAtATimeStep ==
    ASSUME SellingTypeOK, OneAtATime, [SellingNext]_sellingVars
    PROVE  OneAtATime'
<1>1. ASSUME NEW c \in Calls, Begins(c), mixed' = FALSE PROVE OneAtATime'
  <2>1. PICK r \in Call : Begin(c, r) /\ Fresh(r)
    BY <1>1 DEF Begins
  <2> QED
    BY <1>1, <2>1, BeginSole DEF Fresh
<1>2. mixed' # FALSE => OneAtATime'
  BY DEF OneAtATime
<1>3. ASSUME NEW c \in Calls, ReadQuota(c) \/ Goes(c) PROVE OneAtATime'
  <2>1. PICK q : Acts(c, q)
    BY <1>3, QuotaActs, GoesActs
  <2> QED
    BY <2>1, ActsSole
<1> QED
  BY <1>1, <1>2, <1>3, StepKinds, ElsewhereSole

LEMMA SellingInitQuiet ==
    ASSUME SellingInit
    PROVE  /\ OneAtATime /\ \A x : Sole(x) => x = Rest
           /\ \A c \in Calls : call[c] = Rest
<1>1. call = [c \in Calls |-> Rest]
  BY DEF SellingInit
<1> QED
  BY <1>1, RestTyped DEF OneAtATime, Sole, Busy

LEMMA KycInit == ASSUME SellingInit PROVE KycInv
<1>1. \/ role = FALSE /\ kyc = "none"
      \/ role = TRUE /\ kyc = "APPROVED" /\ documents = TRUE
  BY Zenon DEF SellingInit
<1>2. KycOK(Rest)
  BY <1>1, RestTyped DEF KycOK
<1> QED
  BY <1>2, SellingInitQuiet DEF KycInv

LEMMA SoleExists ==
    ASSUME SellingTypeOK
    PROVE  \E r \in Call : Sole(r)
BY RestTyped DEF Sole, Quiet, SellingTypeOK

\* With one request at a time an approved seller has the role, even if
\* requests break off half-way; if none does, role and approval come together,
\* and never without a document.
THEOREM SellersAreApproved == SellingSpec => []SellerApproved
<1> DEFINE Inv == SellingTypeOK /\ OneAtATime /\ KycInv
<1>1. SellingInit => Inv
  BY SellingInitTyped, SellingInitQuiet, KycInit
<1>2. Inv /\ [SellingNext]_sellingVars => Inv'
  BY SellingStepTyped, OneAtATimeStep, KycStep
<1>3. Inv => SellerApproved
  <2> SUFFICES ASSUME Inv PROVE SellerApproved
    OBVIOUS
  <2>1. mixed \in BOOLEAN /\ role \in BOOLEAN /\ documents \in BOOLEAN /\ faulty \in BOOLEAN
    BY DEF SellingTypeOK
  <2>2. PICK r \in Call : Sole(r)
    BY SoleExists
  <2>3. mixed = FALSE => KycOK(r)
    BY <2>2 DEF KycInv
  <2>4. mixed = FALSE /\ kyc = "APPROVED" => role = TRUE
    BY <2>3 DEF KycOK
  <2>5. mixed = FALSE /\ Quiet => KycOK(Rest)
    BY RestTyped DEF KycInv, Sole
  <2>6. mixed = FALSE /\ Quiet /\ faulty = FALSE =>
          /\ role = TRUE => kyc = "APPROVED"
          /\ kyc # "none" => documents = TRUE
    BY <2>5, RestTyped DEF KycOK
  <2>7. mixed = FALSE /\ Quiet /\ faulty = FALSE /\ role = TRUE => documents = TRUE
    BY <2>6
  <2>8. ~mixed => (kyc = "APPROVED" => role)
    BY <2>1, <2>4, Zenon
  <2>9. ~mixed /\ Quiet /\ ~faulty => ((role <=> kyc = "APPROVED") /\ (role => documents))
    BY <2>1, <2>4, <2>6, <2>7, Zenon
  <2> QED
    BY <2>8, <2>9, Zenon DEF SellerApproved
<1> QED
  BY <1>1, <1>2, <1>3, PTL DEF SellingSpec

-----------------------------------------------------------------------------
(***************************************************************************)
(* The category                                                            *)
(***************************************************************************)
\* With r in flight: where there are auctions the category is approved, and r
\* is not going to change that.
CategoryOK(r) ==
    /\ auctions # <<>> => Loads
    /\ r.pc = "category" /\ Loads => r.category.status = "APPROVED"
    /\ r.pc = "auction" => Loads

CategoryInv == mixed = FALSE => \A r \in Call : Sole(r) => CategoryOK(r)

LEMMA CategoryGoes ==
    ASSUME SellingTypeOK, NEW c \in Calls, Goes(c), CategoryOK(call[c])
    PROVE  \A q : Acts(c, q) => CategoryOK(q)'
<1> SUFFICES ASSUME NEW q, Acts(c, q) PROVE CategoryOK(q)'
  OBVIOUS
<1>0. /\ call' = [call EXCEPT ![c] = q] /\ call \in [Calls -> Call] /\ call[c] \in Call
      /\ call'[c] = q
  BY DEF Acts, SellingTypeOK
<1>r. Rest.pc = "idle"
  BY RestTyped
<1>f. Finish(c) => q.pc = "idle"
  BY <1>0, <1>r DEF Finish
<1>g. ASSUME NEW pc, Goto(c, pc)
      PROVE  q.pc = pc
  <2>1. q = [call[c] EXCEPT !.pc = pc]
    BY <1>0, <1>g DEF Goto
  <2> QED
    BY <1>0, <2>1 DEF Call
<1>1. CASE SaveNewCategory(c)
  <2>1. /\ category' = IF category.status = "none" THEN call[c].category ELSE category
        /\ auctions' = auctions /\ q.pc = "idle"
    BY <1>1, <1>f DEF SaveNewCategory
  <2>2. CASE category.status = "none"
    BY <2>1, <2>2 DEF CategoryOK, Loads
  <2>3. CASE category.status # "none"
    BY <2>1, <2>3 DEF CategoryOK, Loads
  <2> QED
    BY <2>2, <2>3
<1>2. CASE SaveCategory(c)
  <2>1. /\ category' = call[c].category /\ call[c].pc = "category"
        /\ auctions' = auctions /\ q.pc = "idle"
    BY <1>2, <1>f DEF SaveCategory
  <2> QED
    BY <2>1 DEF CategoryOK, Loads
<1>3. CASE PickCategory(c)
  <2>1. UNCHANGED <<category, auctions>> /\ (q.pc = "idle" \/ (q.pc = "auction" /\ Loads))
    BY <1>3, <1>f, <1>g DEF PickCategory
  <2> QED
    BY <2>1 DEF CategoryOK, Loads
<1>4. CASE SaveAuction(c)
  <2>1. UNCHANGED category /\ q.pc = "idle" /\ call[c].pc = "auction"
    BY <1>4, <1>f DEF SaveAuction
  <2> QED
    BY <2>1 DEF CategoryOK, Loads
<1>5. CASE \/ SaveDocument(c) \/ SaveRole(c) \/ SaveKyc(c) \/ SaveProfile(c)
           \/ \E stored \in BOOLEAN : ResetKyc(c, stored)
           \/ \E subscribed \in BOOLEAN : CheckSubscribers(c, subscribed)
           \/ SavePlan(c) \/ FillCache(c) \/ CheckQuota(c) \/ CallFails(c)
  <2>1. UNCHANGED <<category, auctions>>
    BY <1>5 DEF SaveDocument, SaveRole, SaveKyc, SaveProfile, ResetKyc, CheckSubscribers, SavePlan,
                FillCache, CheckQuota, CallFails
  <2>2. q.pc \in {"idle", "document", "kyc", "plan", "count", "pick"}
    BY <1>5, <1>f, <1>g DEF SaveDocument, SaveRole, SaveKyc, SaveProfile, ResetKyc,
                CheckSubscribers, SavePlan, FillCache, CheckQuota, CallFails
  <2> QED
    BY <2>1, <2>2 DEF CategoryOK, Loads
<1> QED
  BY <1>1, <1>2, <1>3, <1>4, <1>5, Zenon DEF Goes

LEMMA CategoryStep ==
    ASSUME SellingTypeOK, OneAtATime, CategoryInv, [SellingNext]_sellingVars
    PROVE  CategoryInv'
<1> SUFFICES ASSUME mixed' = FALSE, NEW x, Sole(x)' PROVE CategoryOK(x)'
  BY DEF CategoryInv
<1>1. ASSUME NEW c \in Calls, Begins(c) PROVE CategoryOK(x)'
  <2>1. PICK r \in Call : Begin(c, r) /\ Fresh(r)
    BY <1>1 DEF Begins
  <2>2. r.pc # "idle"
    BY <2>1 DEF Fresh
  <2>3. x = r /\ mixed = FALSE /\ Sole(Rest)
    BY <2>1, <2>2, BeginSole
  <2>4. CategoryOK(Rest)
    BY <2>3, RestTyped DEF CategoryInv
  <2>5. UNCHANGED <<category, auctions>>
    BY <2>1 DEF Begin
  <2>6. CategoryOK(r)'
    BY <2>1, <2>4, <2>5 DEF CategoryOK, Fresh, Loads
  <2> QED
    BY <2>3, <2>6
<1>2. ASSUME NEW c \in Calls, ReadQuota(c) PROVE CategoryOK(x)'
  <2>1. PICK q : Acts(c, q) /\ q.pc \in {"count", "fill"}
    BY <1>2, QuotaActs
  <2>2. mixed = FALSE
    BY <2>1 DEF Acts
  <2>3. x = q /\ Sole(call[c])
    BY <2>1, <2>2, ActsSole
  <2>4. CategoryOK(call[c])
    BY <2>2, <2>3 DEF CategoryInv, SellingTypeOK
  <2>5. UNCHANGED <<category, auctions>>
    BY <1>2 DEF ReadQuota
  <2>6. CategoryOK(q)'
    BY <2>1, <2>4, <2>5 DEF CategoryOK, Loads
  <2> QED
    BY <2>3, <2>6
<1>3. ASSUME NEW c \in Calls, Goes(c) PROVE CategoryOK(x)'
  <2>1. PICK q : Acts(c, q)
    BY <1>3, GoesActs
  <2>2. mixed = FALSE
    BY <2>1 DEF Acts
  <2>3. x = q /\ Sole(call[c])
    BY <2>1, <2>2, ActsSole
  <2>4. CategoryOK(call[c])
    BY <2>2, <2>3 DEF CategoryInv, SellingTypeOK
  <2>5. CategoryOK(q)'
    BY <1>3, <2>1, <2>4, CategoryGoes
  <2> QED
    BY <2>3, <2>5
<1>4. CASE Elsewhere \/ UNCHANGED sellingVars
  <2>1. Sole(x) /\ mixed = FALSE
    BY <1>4, ElsewhereSole
  <2>2. CategoryOK(x)
    <3>1. x \in Call
      BY <2>1, RestTyped DEF Sole, SellingTypeOK
    <3> QED
      BY <2>1, <3>1 DEF CategoryInv
  <2>3. UNCHANGED <<category, auctions>>
    BY <1>4 DEF Elsewhere, Subscribe, OthersFill, CacheExpires, Tick
  <2> QED
    BY <2>2, <2>3 DEF CategoryOK, Loads
<1> QED
  BY <1>1, <1>2, <1>3, <1>4, StepKinds

LEMMA CategoryInit == ASSUME SellingInit PROVE CategoryInv
<1>1. auctions # <<>> => Loads
  <2>1. SUFFICES ASSUME auctions # <<>>, category # ApprovedCategory PROVE FALSE
    BY DEF Loads, ApprovedCategory
  <2>2. PICK n \in 0..0 :
           auctions \in [1..n -> { [Draft(end) EXCEPT !.status = "ACTIVE"] : end \in 1..Horizon }]
    BY <2>1 DEF SellingInit
  <2>3. auctions = <<>>
    BY <2>2
  <2> QED
    BY <2>1, <2>3
<1>2. CategoryOK(Rest)
  BY <1>1, RestTyped DEF CategoryOK
<1> QED
  BY <1>2, SellingInitQuiet DEF CategoryInv

\* With one request at a time the category of stored auctions stays approved,
\* so that the lists, which make an Auction of every row, can be read.
THEOREM ListsCanBeRead == SellingSpec => []ListsLoad
<1> DEFINE Inv == SellingTypeOK /\ OneAtATime /\ CategoryInv
<1>1. SellingInit => Inv
  BY SellingInitTyped, SellingInitQuiet, CategoryInit
<1>2. Inv /\ [SellingNext]_sellingVars => Inv'
  BY SellingStepTyped, OneAtATimeStep, CategoryStep
<1>3. Inv => ListsLoad
  <2> SUFFICES ASSUME Inv PROVE ListsLoad
    OBVIOUS
  <2>1. mixed = FALSE => (auctions # <<>> => Loads)
    BY SoleExists DEF CategoryInv, CategoryOK
  <2>2. mixed \in BOOLEAN
    BY DEF SellingTypeOK
  <2> QED
    BY <2>1, <2>2, Zenon DEF ListsLoad
<1> QED
  BY <1>1, <1>2, <1>3, PTL DEF SellingSpec

-----------------------------------------------------------------------------
(***************************************************************************)
(* The quota                                                               *)
(***************************************************************************)
\* No limit in the database or in the cache is above the highest there was.
LimitsOK ==
    /\ mine \in held
    /\ \A p \in Plans : plans[p].limit <= peak[p] /\ cache[p] <= peak[p]

\* Nor is one that a request goes by.
LimitRead(r) ==
    r.pc \in {"fill", "count"} => r.planId \in held /\ r.limit <= peak[r.planId]

LimitInv == LimitsOK /\ \A c \in Calls : LimitRead(call[c])

\* The requests that were let in and have their auction still to store.
LetIn(r) == r.pc \in {"pick", "auction"} /\ r.id = 0
Pending == { c \in Calls : LetIn(call[c]) }

Extra == IF mixed = TRUE THEN Cardinality(Calls) - 1 ELSE 0

QuotaInv == \E p \in held : Len(auctions) + Cardinality(Pending) <= peak[p] + Extra

\* What never gets less.
Grows ==
    /\ held \subseteq held' /\ \A p \in Plans : peak[p] <= peak'[p]
    /\ Extra <= Extra'

LEMMA LimitsTyped ==
    ASSUME SellingTypeOK
    PROVE  \A p \in Plans : peak[p] \in Nat /\ cache[p] \in Nat /\ plans[p].limit \in Nat
<1> SUFFICES ASSUME NEW p \in Plans
             PROVE  peak[p] \in Nat /\ cache[p] \in Nat /\ plans[p].limit \in Nat
  OBVIOUS
<1>0. Limits \cup {0} \subseteq Nat
  OBVIOUS
<1>1. peak[p] \in Limits \cup {0} /\ cache[p] \in Limits \cup {0} /\ plans[p] \in Plan
  BY DEF SellingTypeOK
<1>2. plans[p].limit \in Limits \cup {0}
  BY <1>1 DEF Plan
<1> QED
  BY <1>0, <1>1, <1>2

LEMMA CallTyped ==
    ASSUME SellingTypeOK, NEW c \in Calls
    PROVE  /\ call[c] \in Call /\ call[c].planId \in Plans /\ call[c].limit \in Nat
           /\ call[c].plan \in Plan /\ call[c].plan.limit \in Nat
           /\ call[c].id \in Nat
<1>0. Limits \cup {0} \subseteq Nat /\ 0..MaxAuctions \subseteq Nat
  OBVIOUS
<1>1. call[c] \in Call
  BY DEF SellingTypeOK
<1>2. /\ call[c].planId \in Plans /\ call[c].limit \in Limits \cup {0} /\ call[c].plan \in Plan
      /\ call[c].id \in 0..MaxAuctions
  BY <1>1 DEF Call
<1>3. call[c].plan.limit \in Limits \cup {0}
  BY <1>2 DEF Plan
<1> QED
  BY <1>0, <1>1, <1>2, <1>3

LEMMA CallsCounted ==
    ASSUME NEW c \in Calls
    PROVE  Cardinality(Calls) \in Nat /\ Cardinality(Calls) >= 1
<1>1. Cardinality(Calls) \in Nat /\ Calls # {}
  BY FS_CardinalityType
<1> QED
  BY <1>1, FS_EmptySet

\* More may be let in only once two requests were in flight at once.
LEMMA ExtraGrows ==
    ASSUME SellingTypeOK, mixed' \in BOOLEAN,
           mixed' = mixed \/ (mixed' = TRUE /\ (mixed = TRUE \/ \E c \in Calls : TRUE))
    PROVE  Extra <= Extra'
<1>1. mixed' = mixed => Extra' = Extra
  BY DEF Extra
<1>2. Cardinality(Calls) \in Nat
  BY FS_CardinalityType
<1>3. Extra \in Int
  BY <1>2 DEF Extra
<1>4. mixed' = TRUE /\ mixed = FALSE /\ (\E c \in Calls : TRUE) => Extra <= Extra'
  BY CallsCounted DEF Extra
<1>5. mixed' = TRUE /\ mixed = TRUE => Extra' = Extra
  BY <1>1
<1>6. mixed = TRUE \/ mixed = FALSE
  BY DEF SellingTypeOK
<1> QED
  BY <1>1, <1>3, <1>4, <1>5, <1>6

LEMMA MixedGrows ==
    ASSUME SellingTypeOK, NEW m, m = (mixed \/ \E d \in Calls : Busy(d))
    PROVE  m = mixed \/ (m = TRUE /\ (mixed = TRUE \/ \E c \in Calls : TRUE))
<1>1. mixed \in BOOLEAN
  BY DEF SellingTypeOK
<1>2. CASE \E d \in Calls : Busy(d)
  <2>1. m = TRUE
    BY <1>2, Zenon
  <2> QED
    BY <1>2, <2>1, Zenon
<1>3. CASE ~ \E d \in Calls : Busy(d)
  <2>1. (mixed \/ \E d \in Calls : Busy(d)) = mixed
    BY <1>1, <1>3, Zenon
  <2> QED
    BY <2>1, Zenon
<1> QED
  BY <1>2, <1>3

LEMMA StepGrows ==
    ASSUME SellingTypeOK, [SellingNext]_sellingVars
    PROVE  Grows
<1>0. mixed' \in BOOLEAN
  BY SellingStepTyped DEF SellingTypeOK
<1>1. ASSUME held' = held, peak' = peak, mixed' = mixed PROVE Grows
  <2>1. Extra <= Extra'
    BY <1>0, <1>1, ExtraGrows
  <2> QED
    BY <1>1, <2>1, LimitsTyped DEF Grows
<1>2. ASSUME NEW c \in Calls, Begins(c) PROVE Grows
  <2>1. PICK r \in Call : Begin(c, r)
    BY <1>2 DEF Begins
  <2>2. mixed' = (mixed \/ \E d \in Calls : Busy(d))
    BY <2>1, Zenon DEF Begin
  <2>3. Extra <= Extra'
    BY <1>0, <2>2, MixedGrows, ExtraGrows
  <2>4. held' = held /\ peak' = peak
    BY <2>1 DEF Begin
  <2> QED
    BY <2>3, <2>4, LimitsTyped DEF Grows
<1>3. ASSUME NEW c \in Calls, SavePlan(c) PROVE Grows
  <2>1. PICK p \in Plans, limit \in Nat :
          /\ peak' = [peak EXCEPT ![p] = IF limit > @ THEN limit ELSE @]
          /\ held' = held /\ mixed' = mixed
    BY <1>3, CallTyped DEF SavePlan
  <2>2. ASSUME NEW x \in Plans PROVE peak[x] <= peak'[x]
    <3>1. peak[x] \in Nat /\ peak \in [Plans -> Nat]
      BY LimitsTyped DEF SellingTypeOK
    <3>2. peak'[x] = IF x = p /\ limit > peak[x] THEN limit ELSE peak[x]
      BY <2>1, <3>1
    <3> QED
      BY <3>1, <3>2
  <2>3. Extra <= Extra'
    BY <1>0, <2>1, ExtraGrows
  <2> QED
    BY <2>1, <2>2, <2>3 DEF Grows
<1>4. ASSUME NEW p \in Plans, Subscribe(p) PROVE Grows
  <2>1. mixed' = (mixed \/ \E d \in Calls : Busy(d))
    BY <1>4, Zenon DEF Subscribe
  <2>2. Extra <= Extra'
    BY <1>0, <2>1, MixedGrows, ExtraGrows
  <2>3. held \subseteq held' /\ peak' = peak
    BY <1>4 DEF Subscribe
  <2> QED
    BY <2>2, <2>3, LimitsTyped DEF Grows
<1>5. CASE (\E p \in Plans : OthersFill(p) \/ CacheExpires(p)) \/ Tick \/ UNCHANGED sellingVars
  <2>1. held' = held /\ peak' = peak /\ mixed' = mixed
    BY <1>5 DEF OthersFill, CacheExpires, Tick
  <2> QED
    BY <1>1, <2>1
<1>6. ASSUME NEW c \in Calls, ReadQuota(c) \/ Goes(c), ~SavePlan(c) PROVE Grows
  <2>1. held' = held /\ peak' = peak /\ mixed' = mixed
    BY <1>6 DEF Goes, SaveDocument, SaveRole, SaveKyc, SaveProfile, ResetKyc, SaveNewCategory,
         SaveCategory, CheckSubscribers, FillCache, CheckQuota, PickCategory, SaveAuction,
         CallFails, ReadQuota
  <2> QED
    BY <1>1, <2>1
<1> QED
  BY <1>2, <1>3, <1>4, <1>5, <1>6, StepKinds DEF Elsewhere

LEMMA LimitReadGrows ==
    ASSUME SellingTypeOK, SellingTypeOK', Grows, NEW r \in Call, LimitRead(r)
    PROVE  LimitRead(r)'
<1>1. SUFFICES ASSUME r.pc \in {"fill", "count"} PROVE r.planId \in held' /\ r.limit <= peak'[r.planId]
  BY DEF LimitRead
<1>2. r.planId \in Plans /\ r.limit \in Limits \cup {0}
  BY DEF Call
<1>3. PICK p \in Plans, limit \in Nat : p = r.planId /\ limit = r.limit
  BY <1>2
<1>4. p \in held /\ limit <= peak[p]
  BY <1>1, <1>3 DEF LimitRead
<1>5. peak[p] \in Nat /\ peak'[p] \in Limits \cup {0}
  BY LimitsTyped DEF SellingTypeOK
<1>6. peak'[p] \in Nat
  <2>1. Limits \cup {0} \subseteq Nat
    OBVIOUS
  <2> QED
    BY <1>5, <2>1
<1>7. peak[p] <= peak'[p] /\ held \subseteq held'
  BY DEF Grows
<1>8. limit <= peak'[p]
  BY <1>4, <1>5, <1>6, <1>7
<1> QED
  BY <1>3, <1>4, <1>7, <1>8

\* One request changes: the others still go by a limit that was allowed.
LEMMA LimitReads ==
    ASSUME SellingTypeOK, SellingTypeOK', Grows, \A d \in Calls : LimitRead(call[d]),
           NEW c \in Calls, NEW q, call' = [call EXCEPT ![c] = q], LimitRead(q)'
    PROVE  \A d \in Calls : LimitRead(call[d])'
<1> SUFFICES ASSUME NEW d \in Calls PROVE LimitRead(call[d])'
  OBVIOUS
<1>1. call \in [Calls -> Call]
  BY DEF SellingTypeOK
<1>2. CASE d = c
  <2>1. call'[d] = q
    BY <1>1, <1>2
  <2> QED
    BY <2>1 DEF LimitRead
<1>3. CASE d # c
  <2>1. call'[d] = call[d] /\ call[d] \in Call
    BY <1>1, <1>3
  <2>2. PICK r \in Call : r = call[d]
    BY <2>1
  <2>3. LimitRead(r)'
    BY <2>2, LimitReadGrows
  <2> QED
    BY <2>1, <2>2, <2>3 DEF LimitRead
<1> QED
  BY <1>2, <1>3

LEMMA LimitStep ==
    ASSUME SellingTypeOK, LimitInv, [SellingNext]_sellingVars
    PROVE  LimitInv'
<1>t. SellingTypeOK' /\ Grows
  BY SellingStepTyped, StepGrows
<1>0. LimitsOK /\ \A d \in Calls : LimitRead(call[d])
  BY DEF LimitInv
<1>n. Rest.pc = "idle"
  BY RestTyped
<1>1. ASSUME NEW c \in Calls, Begins(c) PROVE LimitInv'
  <2>1. PICK r \in Call : Begin(c, r) /\ Fresh(r)
    BY <1>1 DEF Begins
  <2>2. LimitRead(r)'
    BY <2>1 DEF Fresh, LimitRead
  <2>3. call' = [call EXCEPT ![c] = r] /\ UNCHANGED planVars
    BY <2>1 DEF Begin
  <2>4. \A d \in Calls : LimitRead(call[d])'
    BY <1>0, <1>t, <2>2, <2>3, LimitReads
  <2>5. LimitsOK'
    BY <1>0, <2>3 DEF LimitsOK
  <2> QED
    BY <2>4, <2>5 DEF LimitInv
<1>2. ASSUME NEW c \in Calls, ReadQuota(c) PROVE LimitInv'
  <2>1. PICK q : /\ Acts(c, q) /\ q.planId = mine
                 /\ q.limit = cache[mine] \/ q.limit = plans[mine].limit
    BY <1>2, QuotaActs
  <2>2. UNCHANGED planVars
    BY <1>2 DEF ReadQuota
  <2>3. mine \in Plans
    BY DEF SellingTypeOK
  <2>4. LimitRead(q)'
    BY <1>0, <2>1, <2>2, <2>3 DEF LimitRead, LimitsOK
  <2>5. \A d \in Calls : LimitRead(call[d])'
    BY <1>0, <1>t, <2>1, <2>4, LimitReads DEF Acts
  <2>6. LimitsOK'
    BY <1>0, <2>2 DEF LimitsOK
  <2> QED
    BY <2>5, <2>6 DEF LimitInv
<1>3. ASSUME NEW c \in Calls, Goes(c) PROVE LimitInv'
  <2>0. PICK q : Acts(c, q)
    BY <1>3, GoesActs
  <2>1. /\ call' = [call EXCEPT ![c] = q] /\ call[c] \in Call /\ call'[c] = q
        /\ call \in [Calls -> Call]
    BY <2>0 DEF Acts, SellingTypeOK
  <2>2. LimitsOK' /\ LimitRead(q)'
    <3>1. CASE SavePlan(c)
      <4>1. q.pc = "idle" /\ UNCHANGED <<mine, held, cache>>
        BY <1>n, <2>1, <3>1 DEF SavePlan, Finish
      <4>2. PICK p \in Plans, plan \in Plan :
              /\ plan.limit \in Nat
              /\ plans' = [plans EXCEPT ![p] = plan]
              /\ peak' = [peak EXCEPT ![p] = IF plan.limit > @ THEN plan.limit ELSE @]
        BY <3>1, CallTyped DEF SavePlan
      <4>3. plans \in [Plans -> Plan] /\ peak \in [Plans -> Limits \cup {0}]
        BY DEF SellingTypeOK
      <4>4. ASSUME NEW x \in Plans PROVE plans'[x].limit <= peak'[x] /\ cache[x] <= peak'[x]
        <5>1. plans[x].limit <= peak[x] /\ cache[x] <= peak[x]
          BY <1>0 DEF LimitsOK
        <5>2. CASE x = p
          <6>1. plans'[x] = plan /\ peak'[x] = IF plan.limit > peak[x] THEN plan.limit ELSE peak[x]
            BY <4>2, <4>3, <5>2
          <6> QED
            BY <4>2, <5>1, <6>1, LimitsTyped
        <5>3. CASE x # p
          BY <4>2, <4>3, <5>1, <5>3
        <5> QED
          BY <5>2, <5>3
      <4> QED
        BY <1>0, <4>1, <4>4 DEF LimitsOK, LimitRead
    <3>2. CASE FillCache(c)
      <4>1. /\ call[c].pc = "fill" /\ UNCHANGED <<plans, mine, peak, held>>
            /\ cache' = [cache EXCEPT ![call[c].planId] = call[c].limit]
        BY <3>2 DEF FillCache, CacheKey
      <4>2. q = [call[c] EXCEPT !.pc = "count"]
        BY <2>1, <3>2 DEF FillCache, Goto
      <4>3. q.planId = call[c].planId /\ q.limit = call[c].limit
        BY <2>1, <4>2 DEF Call
      <4>4. call[c].planId \in held /\ call[c].limit <= peak[call[c].planId]
        BY <1>0, <4>1 DEF LimitRead
      <4>5. LimitsOK'
        BY <1>0, <4>1, <4>4 DEF LimitsOK, SellingTypeOK
      <4> QED
        BY <4>1, <4>3, <4>4, <4>5 DEF LimitRead
    <3>3. CASE ~SavePlan(c) /\ ~FillCache(c)
      <4>1. UNCHANGED planVars
        BY <1>3, <3>3 DEF Goes, SaveDocument, SaveRole, SaveKyc, SaveProfile, ResetKyc,
             SaveNewCategory, SaveCategory, CheckSubscribers, CheckQuota, PickCategory, SaveAuction,
             CallFails
      <4>2. \/ Finish(c) \/ Goto(c, "document") \/ Goto(c, "kyc") \/ Goto(c, "plan")
            \/ Goto(c, "pick") \/ Goto(c, "auction")
        BY <1>3, <3>3 DEF Goes, SaveDocument, SaveRole, SaveKyc, SaveProfile, ResetKyc,
             SaveNewCategory, SaveCategory, CheckSubscribers, CheckQuota, PickCategory, SaveAuction,
             CallFails
      <4>3. ASSUME NEW pc, Goto(c, pc) PROVE q.pc = pc
        <5>1. q = [call[c] EXCEPT !.pc = pc]
          BY <2>1, <4>3 DEF Goto
        <5> QED
          BY <2>1, <5>1 DEF Call
      <4>4. q.pc \notin {"fill", "count"}
        BY <1>n, <2>1, <4>2, <4>3 DEF Finish
      <4> QED
        BY <1>0, <4>1, <4>4 DEF LimitsOK, LimitRead
    <3> QED
      BY <3>1, <3>2, <3>3
  <2>3. \A d \in Calls : LimitRead(call[d])'
    BY <1>0, <1>t, <2>1, <2>2, LimitReads
  <2> QED
    BY <2>2, <2>3 DEF LimitInv
<1>4. CASE Elsewhere \/ UNCHANGED sellingVars
  <2>1. call' = call /\ plans' = plans /\ peak' = peak
    BY <1>4 DEF Elsewhere, Subscribe, OthersFill, CacheExpires, Tick
  <2>2. mine' \in held'
    <3>1. (mine' = mine /\ held' = held) \/ \E p \in Plans : mine' = p /\ held' = held \cup {p}
      BY <1>4 DEF Elsewhere, Subscribe, OthersFill, CacheExpires, Tick
    <3> QED
      BY <1>0, <3>1 DEF LimitsOK
  <2>3. \A p \in Plans : cache'[p] = cache[p] \/ cache'[p] = 0 \/ cache'[p] = plans[p].limit
    <3>1. \/ cache' = cache
          \/ \E x \in Plans : \/ cache' = [cache EXCEPT ![x] = plans[x].limit]
                               \/ cache' = [cache EXCEPT ![x] = 0]
      BY <1>4 DEF CacheKey, Elsewhere, Subscribe, OthersFill, CacheExpires, Tick
    <3>2. cache \in [Plans -> Limits \cup {0}]
      BY DEF SellingTypeOK
    <3> QED
      BY <3>1, <3>2
  <2>4. LimitsOK'
    BY <1>0, <2>1, <2>2, <2>3, LimitsTyped DEF LimitsOK
  <2>5. ASSUME NEW d \in Calls PROVE LimitRead(call[d])'
    <3>1. PICK r \in Call : r = call[d]
      BY DEF SellingTypeOK
    <3>2. LimitRead(r)'
      BY <1>0, <1>t, <3>1, LimitReadGrows
    <3> QED
      BY <2>1, <3>1, <3>2 DEF LimitRead
  <2> QED
    BY <2>4, <2>5 DEF LimitInv
<1> QED
  BY <1>1, <1>2, <1>3, <1>4, StepKinds

LEMMA PendingTyped ==
    ASSUME SellingTypeOK, SellingTypeOK'
    PROVE  /\ IsFiniteSet(Pending) /\ Cardinality(Pending) \in Nat /\ Len(auctions) \in Nat
           /\ IsFiniteSet(Pending') /\ Cardinality(Pending') \in Nat /\ Len(auctions') \in Nat
<1>1. Pending \subseteq Calls /\ Pending' \subseteq Calls
  BY DEF Pending
<1>2. IsFiniteSet(Pending) /\ IsFiniteSet(Pending')
  BY <1>1, FS_Subset
<1>3. auctions \in Seq(Auction) /\ auctions' \in Seq(Auction)
  BY DEF SellingTypeOK
<1>4. Len(auctions) \in Nat /\ Len(auctions') \in Nat
  BY <1>3
<1> QED
  BY <1>2, <1>4, FS_CardinalityType

LEMMA ExtraTyped ==
    Extra \in Int /\ Extra' \in Int
<1>1. Cardinality(Calls) \in Nat
  BY FS_CardinalityType
<1> QED
  BY <1>1 DEF Extra

\* Nobody is let in: the auctions and those to come do not get more.
LEMMA QuotaKept ==
    ASSUME SellingTypeOK, SellingTypeOK', Grows, QuotaInv,
           Len(auctions') + Cardinality(Pending') <= Len(auctions) + Cardinality(Pending)
    PROVE  QuotaInv'
<1>1. PICK p \in held : Len(auctions) + Cardinality(Pending) <= peak[p] + Extra
  BY DEF QuotaInv
<1>2. p \in Plans
  BY DEF SellingTypeOK
<1>3. peak[p] \in Nat /\ peak'[p] \in Nat
  <2>1. peak'[p] \in Limits \cup {0} /\ Limits \cup {0} \subseteq Nat
    BY <1>2 DEF SellingTypeOK
  <2> QED
    BY <1>2, <2>1, LimitsTyped
<1>4. peak[p] <= peak'[p] /\ p \in held' /\ Extra <= Extra'
  BY <1>1, <1>2 DEF Grows
<1>5. Extra \in Int /\ Extra' \in Int
  BY ExtraTyped
<1>6. /\ Len(auctions) \in Nat /\ Cardinality(Pending) \in Nat
      /\ Len(auctions') \in Nat /\ Cardinality(Pending') \in Nat
  BY PendingTyped
<1>7. Len(auctions') + Cardinality(Pending') <= peak'[p] + Extra'
  <2>1. PICK m \in Int : m = Len(auctions') + Cardinality(Pending')
    BY <1>6
  <2>2. PICK n \in Int : n = Len(auctions) + Cardinality(Pending)
    BY <1>6
  <2>3. PICK a \in Int : a = peak[p] + Extra
    BY <1>3, <1>5
  <2>4. m <= n /\ n <= a
    BY <1>1, <2>1, <2>2, <2>3
  <2>5. PICK b \in Int : b = peak'[p] + Extra' /\ a <= b
    BY <1>3, <1>4, <1>5, <2>3
  <2>6. m <= b
    BY <2>4, <2>5
  <2> QED
    BY <2>1, <2>5, <2>6
<1> QED
  BY <1>4, <1>7 DEF QuotaInv

\* One request changes, and is not let in.
LEMMA PendingKept ==
    ASSUME SellingTypeOK, NEW c \in Calls, NEW q, call' = [call EXCEPT ![c] = q],
           LetIn(q) => LetIn(call[c])
    PROVE  Pending' \subseteq Pending
<1>1. call \in [Calls -> Call]
  BY DEF SellingTypeOK
<1> QED
  BY <1>1 DEF Pending, LetIn

LEMMA FewerPending ==
    ASSUME SellingTypeOK, SellingTypeOK', Grows, QuotaInv,
           Pending' \subseteq Pending, Len(auctions') = Len(auctions)
    PROVE  QuotaInv'
<1>1. Cardinality(Pending') <= Cardinality(Pending)
  BY PendingTyped, FS_Subset
<1>2. /\ Len(auctions) \in Nat /\ Cardinality(Pending) \in Nat
      /\ Len(auctions') \in Nat /\ Cardinality(Pending') \in Nat
  BY PendingTyped
<1>3. Len(auctions') + Cardinality(Pending') <= Len(auctions) + Cardinality(Pending)
  BY <1>1, <1>2
<1> QED
  BY <1>3, QuotaKept

LEMMA QuotaLetsIn ==
    ASSUME SellingTypeOK, SellingTypeOK', OneAtATime, OneAtATime', Grows, LimitInv, QuotaInv,
           NEW c \in Calls, CheckQuota(c), Goto(c, "pick")
    PROVE  QuotaInv'
<1>1. PICK p \in held : Len(auctions) < peak[p] /\ p \in Plans
  <2>1. /\ call[c].pc = "count" /\ Len(auctions) < call[c].limit
        /\ call[c].planId \in Plans /\ call[c].limit \in Nat /\ Len(auctions) \in Nat
    <3>1. /\ call[c].planId \in Plans /\ call[c].limit \in Nat /\ Len(auctions) \in Nat
          /\ call[c] \in Call
      BY CallTyped, PendingTyped
    <3>2. call[c].pc = "count"
      BY DEF CheckQuota
    <3>3. ~ (Len(auctions) >= call[c].limit)
      <4>1. SUFFICES ASSUME Len(auctions) >= call[c].limit PROVE FALSE
        OBVIOUS
      <4>2. Finish(c)
        BY <4>1 DEF CheckQuota
      <4>3. call \in [Calls -> Call]
        BY DEF SellingTypeOK
      <4>4. call'[c].pc = "idle" /\ call'[c].pc = "pick"
        BY <3>1, <4>2, <4>3, RestTyped DEF Finish, Goto, Call
      <4> QED
        BY <4>4
    <3> QED
      BY <3>1, <3>2, <3>3
  <2>2. call[c].planId \in held /\ call[c].limit <= peak[call[c].planId]
    BY <2>1 DEF LimitInv, LimitRead
  <2>3. peak[call[c].planId] \in Nat
    BY <2>1, LimitsTyped
  <2>4. Len(auctions) < peak[call[c].planId]
    BY <2>1, <2>2, <2>3
  <2> QED
    BY <2>1, <2>2, <2>4
<1>2. auctions' = auctions /\ peak' = peak /\ held' = held /\ mixed' = mixed
  BY DEF CheckQuota
<1>3. Cardinality(Pending') <= 1 + Extra'
  <2>1. Pending' \subseteq Calls
    BY DEF Pending
  <2>2. Cardinality(Pending') <= Cardinality(Calls)
    BY <2>1, FS_Subset
  <2>3. Cardinality(Calls) \in Nat
    BY CallsCounted
  <2>4. CASE mixed' = TRUE
    BY <2>2, <2>3, <2>4, PendingTyped DEF Extra
  <2>5. CASE mixed' = FALSE
    <3>1. \A d \in Pending' : Busy(d)'
      BY DEF Pending, LetIn, Busy
    <3>2. \A d, e \in Pending' : d = e
      BY <2>1, <2>5, <3>1 DEF OneAtATime
    <3>3. \E d : Pending' \subseteq {d}
      BY <3>2
    <3>4. PICK d : Pending' \subseteq {d}
      BY <3>3
    <3>5. Cardinality(Pending') <= Cardinality({d}) /\ Cardinality({d}) = 1
      BY <3>4, FS_Subset, FS_Singleton
    <3> QED
      BY <2>5, <3>5 DEF Extra
  <2> QED
    BY <2>4, <2>5 DEF SellingTypeOK
<1>4. /\ Len(auctions') \in Nat /\ Cardinality(Pending') \in Nat /\ peak[p] \in Nat
  BY <1>1, PendingTyped, LimitsTyped
<1>5. Extra' \in Int
  BY ExtraTyped
<1>6. Len(auctions') + Cardinality(Pending') <= peak'[p] + Extra'
  BY <1>1, <1>2, <1>3, <1>4, <1>5
<1> QED
  BY <1>1, <1>2, <1>6 DEF QuotaInv

LEMMA QuotaIsStored ==
    ASSUME SellingTypeOK, SellingTypeOK', Grows, QuotaInv,
           NEW c \in Calls, SaveAuction(c)
    PROVE  QuotaInv'
<1>0. /\ call \in [Calls -> Call] /\ call[c].pc = "auction" /\ call' = [call EXCEPT ![c] = Rest]
      /\ Rest.pc = "idle"
  BY RestTyped DEF SaveAuction, SellingTypeOK, Finish
<1>1. ~LetIn(Rest)
  BY <1>0 DEF LetIn
<1>2. Pending' \subseteq Pending
  BY <1>0, <1>1, PendingKept
<1>a. auctions \in Seq(Auction) /\ call[c].row \in Auction
  BY DEF SellingTypeOK, Call
<1>3. CASE call[c].id = 0
  <2>1. c \in Pending
    BY <1>0, <1>3 DEF Pending, LetIn
  <2>2. c \notin Pending'
    BY <1>0 DEF Pending, LetIn
  <2>3. Pending' \subseteq Pending \ {c}
    BY <1>2, <2>2
  <2>4. /\ IsFiniteSet(Pending \ {c})
        /\ Cardinality(Pending \ {c}) = Cardinality(Pending) - 1
    BY <2>1, PendingTyped, FS_RemoveElement
  <2>5. Cardinality(Pending') <= Cardinality(Pending) - 1
    BY <2>3, <2>4, FS_Subset
  <2>6. Len(auctions') = Len(auctions) + 1
    <3>1. auctions' = Append(auctions, call[c].row)
      BY <1>3 DEF SaveAuction
    <3> QED
      BY <1>a, <3>1
  <2>7. /\ Len(auctions) \in Nat /\ Cardinality(Pending) \in Nat /\ Cardinality(Pending') \in Nat
    BY PendingTyped
  <2>8. Len(auctions') + Cardinality(Pending') <= Len(auctions) + Cardinality(Pending)
    BY <2>5, <2>6, <2>7
  <2> QED
    BY <2>8, QuotaKept
<1>4. CASE call[c].id # 0
  <2>1. auctions' = [auctions EXCEPT ![call[c].id] = call[c].row]
    BY <1>4 DEF SaveAuction
  <2>2. Len(auctions') = Len(auctions)
    BY <1>a, <2>1, Replaced
  <2> QED
    BY <1>2, <2>2, FewerPending
<1> QED
  BY <1>3, <1>4

LEMMA QuotaStep ==
    ASSUME SellingTypeOK, OneAtATime, LimitInv, QuotaInv, [SellingNext]_sellingVars
    PROVE  QuotaInv'
<1>t. SellingTypeOK' /\ OneAtATime' /\ Grows
  BY SellingStepTyped, OneAtATimeStep, StepGrows
<1>1. ASSUME NEW c \in Calls, Begins(c) PROVE QuotaInv'
  <2>1. PICK r \in Call : Begin(c, r) /\ Fresh(r)
    BY <1>1 DEF Begins
  <2>2. ~LetIn(r) /\ call' = [call EXCEPT ![c] = r] /\ auctions' = auctions
    BY <2>1 DEF Begin, Fresh, LetIn
  <2>3. Pending' \subseteq Pending
    BY <2>2, PendingKept
  <2> QED
    BY <1>t, <2>2, <2>3, FewerPending
<1>2. ASSUME NEW c \in Calls, ReadQuota(c) PROVE QuotaInv'
  <2>1. PICK q : Acts(c, q) /\ q.pc \in {"count", "fill"}
    BY <1>2, QuotaActs
  <2>2. ~LetIn(q) /\ call' = [call EXCEPT ![c] = q] /\ auctions' = auctions
    BY <1>2, <2>1 DEF Acts, ReadQuota, LetIn
  <2>3. Pending' \subseteq Pending
    BY <2>2, PendingKept
  <2> QED
    BY <1>t, <2>2, <2>3, FewerPending
<1>3. ASSUME NEW c \in Calls, Goes(c) PROVE QuotaInv'
  <2>1. CASE SaveAuction(c)
    BY <1>t, <2>1, QuotaIsStored
  <2>2. CASE CheckQuota(c) /\ Goto(c, "pick")
    BY <1>t, <2>2, QuotaLetsIn
  <2>3. CASE ~SaveAuction(c) /\ ~(CheckQuota(c) /\ Goto(c, "pick"))
    <3>1. auctions' = auctions
      BY <1>3, <2>3 DEF Goes, SaveDocument, SaveRole, SaveKyc, SaveProfile, ResetKyc,
           SaveNewCategory, SaveCategory, CheckSubscribers, SavePlan, FillCache, CheckQuota,
           PickCategory, CallFails
    <3>2. PICK q : Acts(c, q)
      BY <1>3, GoesActs
    <3>3. /\ call' = [call EXCEPT ![c] = q] /\ call[c] \in Call /\ call'[c] = q
          /\ call \in [Calls -> Call] /\ Rest.pc = "idle"
      BY <3>2, RestTyped DEF Acts, SellingTypeOK
    <3>4. \/ Finish(c) \/ Goto(c, "document") \/ Goto(c, "kyc") \/ Goto(c, "plan") \/ Goto(c, "count")
          \/ PickCategory(c) /\ Goto(c, "auction")
      BY <1>3, <2>3 DEF Goes, SaveDocument, SaveRole, SaveKyc, SaveProfile, ResetKyc,
           SaveNewCategory, SaveCategory, CheckSubscribers, SavePlan, FillCache, CheckQuota,
           PickCategory, CallFails
    <3>5. ASSUME NEW pc, Goto(c, pc) PROVE q.pc = pc /\ q.id = call[c].id
      <4>1. q = [call[c] EXCEPT !.pc = pc]
        BY <3>3, <3>5 DEF Goto
      <4> QED
        BY <3>3, <4>1 DEF Call
    <3>6. LetIn(q) => LetIn(call[c])
      BY <3>3, <3>4, <3>5 DEF Finish, LetIn, PickCategory
    <3>7. Pending' \subseteq Pending
      BY <3>3, <3>6, PendingKept
    <3> QED
      BY <1>t, <3>1, <3>7, FewerPending
  <2> QED
    BY <2>1, <2>2, <2>3
<1>4. CASE Elsewhere \/ UNCHANGED sellingVars
  <2>1. call' = call /\ auctions' = auctions
    BY <1>4 DEF Elsewhere, Subscribe, OthersFill, CacheExpires, Tick
  <2>2. Pending' \subseteq Pending
    BY <2>1 DEF Pending
  <2> QED
    BY <1>t, <2>1, <2>2, FewerPending
<1> QED
  BY <1>1, <1>2, <1>3, <1>4, StepKinds

LEMMA QuotaInit ==
    ASSUME SellingInit
    PROVE  LimitInv /\ QuotaInv
<1>0. SellingTypeOK /\ Rest.pc = "idle"
  BY SellingInitTyped, RestTyped
<1>1. \A c \in Calls : call[c].pc = "idle"
  BY <1>0, SellingInitQuiet
<1>2. /\ mine = FirstPlan /\ held = {FirstPlan} /\ mixed = FALSE
      /\ cache = [p \in Plans |-> 0] /\ peak = [p \in Plans |-> plans[p].limit]
  BY DEF SellingInit
<1>3. \A p \in Plans : plans[p].limit <= peak[p] /\ cache[p] <= peak[p]
  BY <1>0, <1>2, LimitsTyped
<1>4. LimitInv
  BY <1>1, <1>2, <1>3 DEF LimitInv, LimitsOK, LimitRead
<1>5. Pending = {}
  BY <1>1 DEF Pending, LetIn
<1>6. Cardinality(Pending) = 0
  BY <1>5, FS_EmptySet
<1>7. Len(auctions) <= peak[FirstPlan]
  <2>1. PICK limit \in Limits : plans[FirstPlan].limit = limit /\ Len(auctions) <= limit
    BY DEF SellingInit
  <2> QED
    BY <1>2, <2>1
<1>8. Len(auctions) \in Nat /\ peak[FirstPlan] \in Nat
  <2>1. auctions \in Seq(Auction)
    BY <1>0 DEF SellingTypeOK
  <2> QED
    BY <1>0, <2>1, LimitsTyped
<1>9. Len(auctions) + Cardinality(Pending) <= peak[FirstPlan] + Extra
  BY <1>2, <1>6, <1>7, <1>8 DEF Extra
<1> QED
  BY <1>2, <1>4, <1>9 DEF QuotaInv

\* For any number of requests in flight, whatever the cache has kept of the
\* plan: the auctions of a seller are within what some plan of theirs once
\* allowed, plus one for each other request let in meanwhile.
THEOREM QuotaHolds == SellingSpec => []AuctionQuota
<1> DEFINE Inv == SellingTypeOK /\ OneAtATime /\ LimitInv /\ QuotaInv
<1>1. SellingInit => Inv
  BY SellingInitTyped, SellingInitQuiet, QuotaInit
<1>2. Inv /\ [SellingNext]_sellingVars => Inv'
  BY SellingStepTyped, OneAtATimeStep, LimitStep, QuotaStep
<1>3. Inv => AuctionQuota
  <2> SUFFICES ASSUME Inv PROVE AuctionQuota
    OBVIOUS
  <2>1. PICK p \in held : Len(auctions) + Cardinality(Pending) <= peak[p] + Extra
    BY DEF QuotaInv
  <2>2. p \in Plans /\ auctions \in Seq(Auction)
    BY DEF SellingTypeOK
  <2>3. Len(auctions) \in Nat /\ peak[p] \in Nat /\ Extra \in Int
    BY <2>2, LimitsTyped, ExtraTyped
  <2>4. Cardinality(Pending) \in Nat
    <3>1. Pending \subseteq Calls
      BY DEF Pending
    <3> QED
      BY <3>1, FS_Subset, FS_CardinalityType
  <2>5. Len(auctions) <= peak[p] + Extra
    BY <2>1, <2>3, <2>4
  <2>6. Extra = IF mixed THEN Cardinality(Calls) - 1 ELSE 0
    <3>1. mixed = TRUE \/ mixed = FALSE
      BY DEF SellingTypeOK
    <3> QED
      BY <3>1 DEF Extra
  <2> QED
    BY <2>1, <2>5, <2>6, Zenon DEF AuctionQuota
<1> QED
  BY <1>1, <1>2, <1>3, PTL DEF SellingSpec
=============================================================================
