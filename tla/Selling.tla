------------------------------ MODULE Selling ------------------------------
(***************************************************************************)
(* How a user comes to sell: the KYC record and the SELLER role, the       *)
(* category the auctions go into, the subscription plans that limit how    *)
(* many there may be, drafting and publishing.  Every use case reads rows, *)
(* works on copies and writes whole rows back, without locks.  The user's  *)
(* status stays ACTIVE here (see Accounts); what happens to a published    *)
(* auction is in AuctionRoom, Settlement and PublicOffer, and what is      *)
(* listed of it in Listings.                                               *)
(*                                                                         *)
(* mixed, faulty, peak and held are history variables: requests were in    *)
(* flight at once; one broke off half-way; the highest limit each plan has *)
(* had; the plans the seller has had.                                      *)
(***************************************************************************)
EXTENDS Integers, Sequences, FiniteSets

CONSTANTS
    Calls,          \* requests that may be in flight at a time
    MaxRequests,    \* bound: requests in all
    MaxAuctions,    \* bound: auction rows
    MaxMoves,       \* bound: subscriptions, cache entries and ticks
    Horizon,        \* the last time at which an auction may end
    Plans,          \* ids of subscription plans
    FirstPlan,      \* the plan there is at the start, the default
    Limits          \* values of the AUCTION_CREATION feature

ASSUME SellingAssumption ==
    /\ {MaxRequests, MaxAuctions, MaxMoves, Horizon} \subseteq Nat
    /\ FirstPlan \in Plans
    /\ Limits \subseteq Nat \ {0} /\ Limits # {}
    /\ IsFiniteSet(Calls)

VARIABLES
    role,           \* whether the user has the SELLER role
    kyc,            \* the status of the seller's KYC row, "none" without one
    documents,      \* whether a document is stored
    category,       \* the category row; its slug is unique
    plans, mine,    \* the plan rows; the plan of the seller's subscription
    cache,          \* the plans in Redis: limits, 0 when absent
    auctions,       \* the auction rows
    now, moves,
    call, requests, \* the requests: where each stands, how many there were
    mixed, faulty, peak, held

kycVars == <<role, kyc, documents>>
planVars == <<plans, mine, cache, peak, held>>
auctionVars == <<auctions, now, moves>>
sellingVars == <<kycVars, category, planVars, auctionVars, call, requests, mixed, faulty>>

KycStatus == {"none", "NOT_SUBMITTED", "PENDING", "APPROVED", "REJECTED"}
Category == [status : {"none", "PENDING", "APPROVED", "REJECTED"}, verified : BOOLEAN, active : BOOLEAN]
Plan == [default : BOOLEAN, active : BOOLEAN, limit : Limits \cup {0}]

NoCategory == [status |-> "none", verified |-> FALSE, active |-> FALSE]
PendingCategory == [status |-> "PENDING", verified |-> FALSE, active |-> TRUE]
ApprovedCategory == [status |-> "APPROVED", verified |-> TRUE, active |-> TRUE]
NoPlan == [default |-> FALSE, active |-> FALSE, limit |-> 0]

\* Of what the seller enters, the end of the auction.
Auction == [status : {"DRAFT", "ACTIVE"}, end : 0..Horizon]
Draft(end) == [status |-> "DRAFT", end |-> end]

\* A request: what it will write and where.
Call == [pc : {"idle", "reset", "document", "kyc", "role", "profile", "newCategory", "category",
               "plan", "subscribers", "quota", "fill", "count", "pick", "auction"},
         role : BOOLEAN, kyc : KycStatus, category : Category,
         planId : Plans, plan : Plan, limit : Limits \cup {0},
         id : 0..MaxAuctions, row : Auction]
Rest == [pc |-> "idle", role |-> FALSE, kyc |-> "none", category |-> NoCategory,
         planId |-> FirstPlan, plan |-> NoPlan, limit |-> 0, id |-> 0, row |-> Draft(0)]

SellingTypeOK ==
    /\ role \in BOOLEAN /\ kyc \in KycStatus /\ documents \in BOOLEAN
    /\ category \in Category
    /\ plans \in [Plans -> Plan] /\ mine \in Plans
    /\ cache \in [Plans -> Limits \cup {0}]
    /\ auctions \in Seq(Auction) /\ Len(auctions) <= MaxAuctions
    /\ now \in 0..Horizon /\ moves \in 0..MaxMoves
    /\ call \in [Calls -> Call] /\ requests \in 0..MaxRequests
    /\ mixed \in BOOLEAN /\ faulty \in BOOLEAN
    /\ peak \in [Plans -> Limits \cup {0}] /\ held \subseteq Plans

\* A newcomer; or a seller, whose auctions, if any, are published.
SellingInit ==
    /\ \/ role = FALSE /\ kyc = "none" /\ documents = FALSE /\ category = NoCategory /\ auctions = <<>>
       \/ /\ role = TRUE /\ kyc = "APPROVED" /\ documents = TRUE
          /\ category \in {NoCategory, PendingCategory, ApprovedCategory}
          /\ \E n \in 0..(IF category = ApprovedCategory THEN MaxAuctions ELSE 0) :
                auctions \in [1..n -> { [Draft(end) EXCEPT !.status = "ACTIVE"] : end \in 1..Horizon }]
    /\ \E limit \in Limits :
          /\ plans = [p \in Plans |-> IF p = FirstPlan THEN [default |-> TRUE, active |-> TRUE, limit |-> limit]
                                      ELSE NoPlan]
          /\ peak = [p \in Plans |-> plans[p].limit]
          /\ Len(auctions) <= limit
    /\ mine = FirstPlan /\ held = {FirstPlan}
    /\ cache = [p \in Plans |-> 0]
    /\ now = 0 /\ moves = 0
    /\ call = [c \in Calls |-> Rest] /\ requests = 0
    /\ mixed = FALSE /\ faulty = FALSE

-----------------------------------------------------------------------------
Busy(c) == call[c].pc # "idle"

\* The request becomes r; another one in flight makes the history mixed.
Begin(c, r) ==
    /\ ~Busy(c) /\ requests < MaxRequests
    /\ call' = [call EXCEPT ![c] = r]
    /\ requests' = requests + 1
    /\ mixed' = (mixed \/ \E d \in Calls : Busy(d))
    /\ UNCHANGED <<kycVars, category, planVars, auctionVars, faulty>>

Goto(c, pc) == call' = [call EXCEPT ![c].pc = pc]
Finish(c) == call' = [call EXCEPT ![c] = Rest]

-----------------------------------------------------------------------------
(***************************************************************************)
(* KYC                                                                     *)
(***************************************************************************)
\* UpdateKycUsecase: a record is made, or a rejected one reopened, and the
\* document stored, whatever the status.
UpdateKyc(c) ==
    Begin(c, [Rest EXCEPT !.pc = IF kyc \in {"none", "REJECTED"} THEN "reset" ELSE "document",
                          !.kyc = kyc])

\* The result of the save is not looked at: a new record that was not stored,
\* as the second of two for one user is not, leaves its document without a
\* record to belong to, and a rejected one stays rejected.
ResetKyc(c, stored) ==
    /\ call[c].pc = "reset"
    /\ kyc' = IF stored /\ ~(call[c].kyc = "none" /\ kyc # "none") THEN "NOT_SUBMITTED" ELSE kyc
    /\ IF call[c].kyc = "none" /\ (~stored \/ kyc # "none") THEN Finish(c) ELSE Goto(c, "document")
    /\ faulty' = (faulty \/ ~stored)
    /\ UNCHANGED <<role, documents, category, planVars, auctionVars, requests, mixed>>

SaveDocument(c) ==
    /\ call[c].pc = "document"
    /\ documents' = TRUE
    /\ Finish(c)
    /\ UNCHANGED <<role, kyc, category, planVars, auctionVars, requests, mixed, faulty>>

\* kyc.submitKyc; nothing asks for documents.
SubmitKyc(c) ==
    /\ kyc = "NOT_SUBMITTED"
    /\ Begin(c, [Rest EXCEPT !.pc = "kyc", !.kyc = "PENDING"])

\* Faulty variant: the role is added to the copy that was read and not saved.
ApproveKyc_NotSaved(c) ==
    /\ ~role /\ kyc = "PENDING"
    /\ Begin(c, [Rest EXCEPT !.pc = "kyc", !.role = TRUE, !.kyc = "APPROVED"])

\* ApproveSellerKycUsecase: role and record are two writes, the role first.
ApproveKyc(c) ==
    /\ ~role /\ kyc = "PENDING"
    /\ Begin(c, [Rest EXCEPT !.pc = "role", !.role = TRUE, !.kyc = "APPROVED"])

RejectKyc(c) ==
    /\ kyc = "PENDING"
    /\ Begin(c, [Rest EXCEPT !.pc = "kyc", !.kyc = "REJECTED"])

SaveRole(c) ==
    /\ call[c].pc = "role"
    /\ role' = call[c].role
    /\ Goto(c, "kyc")
    /\ UNCHANGED <<kyc, documents, category, planVars, auctionVars, requests, mixed, faulty>>

SaveKyc(c) ==
    /\ call[c].pc = "kyc"
    /\ kyc' = call[c].kyc
    /\ Finish(c)
    /\ UNCHANGED <<role, documents, category, planVars, auctionVars, requests, mixed, faulty>>

\* Any other change of the user row writes the roles it read.
ChangeProfile(c) == Begin(c, [Rest EXCEPT !.pc = "profile", !.role = role])

SaveProfile(c) ==
    /\ call[c].pc = "profile"
    /\ role' = call[c].role
    /\ Finish(c)
    /\ UNCHANGED <<kyc, documents, category, planVars, auctionVars, requests, mixed, faulty>>

-----------------------------------------------------------------------------
(***************************************************************************)
(* Categories                                                              *)
(***************************************************************************)
\* The slug is looked up first, and unique: see SaveNewCategory.
RequestCategory(c) ==
    /\ role /\ category.status = "none"
    /\ Begin(c, [Rest EXCEPT !.pc = "newCategory", !.category = PendingCategory])

CreateCategory(c) ==
    /\ category.status = "none"
    /\ Begin(c, [Rest EXCEPT !.pc = "newCategory", !.category = ApprovedCategory])

SaveNewCategory(c) ==
    /\ call[c].pc = "newCategory"
    /\ category' = IF category.status = "none" THEN call[c].category ELSE category
    /\ Finish(c)
    /\ UNCHANGED <<kycVars, planVars, auctionVars, requests, mixed, faulty>>

ChangeCategory(c, row) ==
    /\ category.status # "none"
    /\ Begin(c, [Rest EXCEPT !.pc = "category", !.category = row])

ApproveCategory(c) ==
    /\ category.status = "PENDING"
    /\ ChangeCategory(c, [category EXCEPT !.status = "APPROVED", !.verified = TRUE])

\* Faulty variant: an approved category may be rejected as well.
RejectCategory_Approved(c) ==
    ChangeCategory(c, [category EXCEPT !.status = "REJECTED"])

\* A category that is not PENDING is saved as it was read.
RejectCategory(c) ==
    ChangeCategory(c, [category EXCEPT !.status = IF @ = "PENDING" THEN "REJECTED" ELSE @])

ChangeCategoryStatus(c, active) == ChangeCategory(c, [category EXCEPT !.active = active])

\* Name and parent.
UpdateCategory(c) == ChangeCategory(c, category)

SaveCategory(c) ==
    /\ call[c].pc = "category"
    /\ category' = call[c].category
    /\ Finish(c)
    /\ UNCHANGED <<kycVars, planVars, auctionVars, requests, mixed, faulty>>

-----------------------------------------------------------------------------
(***************************************************************************)
(* Plans and the seller's subscription                                     *)
(***************************************************************************)
HasDefault == \E p \in Plans : plans[p].default /\ plans[p].active

ChangePlan(c, p, row, pc) == Begin(c, [Rest EXCEPT !.pc = pc, !.planId = p, !.plan = row])

CreatePlan(c, p, default, limit) ==
    /\ plans[p] = NoPlan
    /\ default => ~HasDefault
    /\ ChangePlan(c, p, [default |-> default, active |-> TRUE, limit |-> limit], "plan")

\* UpdateSubscriptionPlanStatusUsecase
UpdatePlanStatus(c, p, default, active) ==
    /\ plans[p] # NoPlan
    /\ default => ~HasDefault
    /\ ChangePlan(c, p, [plans[p] EXCEPT !.default = default, !.active = active], "plan")

\* UpdateSubscriptionPlanUsecase does not look for another default; whether
\* the terms change is told from the plan as it is read.
UpdatePlan(c, p, default, active, limit) ==
    /\ plans[p] # NoPlan
    /\ ChangePlan(c, p, [default |-> default, active |-> active, limit |-> limit],
                  IF limit # plans[p].limit THEN "subscribers" ELSE "plan")

\* isSubscribedUsersExist: the terms of a plan in use stay.  subscribed says
\* whether somebody else has the plan.
CheckSubscribers(c, subscribed) ==
    /\ call[c].pc = "subscribers"
    /\ IF subscribed \/ mine = call[c].planId THEN Finish(c) ELSE Goto(c, "plan")
    /\ UNCHANGED <<kycVars, category, planVars, auctionVars, requests, mixed, faulty>>

SavePlan(c) ==
    LET p == call[c].planId
        limit == call[c].plan.limit
    IN  /\ call[c].pc = "plan"
        /\ plans' = [plans EXCEPT ![p] = call[c].plan]
        /\ peak' = [peak EXCEPT ![p] = IF limit > @ THEN limit ELSE @]
        /\ Finish(c)
        /\ UNCHANGED <<kycVars, category, mine, cache, held, auctionVars, requests, mixed, faulty>>

\* The seller's subscription changes (see Subscription).
Subscribe(p) ==
    /\ plans[p] # NoPlan /\ plans[p].active /\ p # mine
    /\ moves < MaxMoves /\ moves' = moves + 1
    /\ mine' = p /\ held' = held \cup {p}
    /\ mixed' = (mixed \/ \E c \in Calls : Busy(c))
    /\ UNCHANGED <<kycVars, category, plans, cache, peak, auctions, now, call, requests, faulty>>

\* Faulty variant: the key leaves out the plan.
CacheKey_Shared(p) == FirstPlan

\* CACHE_CONSTANTS.SUBSCRIPTION_PLAN_KEY
CacheKey(p) == p

\* Another subscriber has the plan looked up.
OthersFill(p) ==
    /\ plans[p] # NoPlan /\ cache[CacheKey(p)] = 0
    /\ moves < MaxMoves /\ moves' = moves + 1
    /\ cache' = [cache EXCEPT ![CacheKey(p)] = plans[p].limit]
    /\ UNCHANGED <<kycVars, category, plans, mine, peak, held, auctions, now, call, requests, mixed, faulty>>

\* SUBSCRIPTION_PLAN_TTL, a day; nothing else takes a plan out of the cache.
CacheExpires(p) ==
    /\ cache[p] # 0
    /\ moves < MaxMoves /\ moves' = moves + 1
    /\ cache' = [cache EXCEPT ![p] = 0]
    /\ UNCHANGED <<kycVars, category, plans, mine, peak, held, auctions, now, call, requests, mixed, faulty>>

-----------------------------------------------------------------------------
(***************************************************************************)
(* Drafting and publishing                                                 *)
(***************************************************************************)
\* Whether Auction.create accepts a row, when it is made and when it is read.
Loads == category.status = "APPROVED"

\* createAuctionSchema wants the end after the start, and nothing else.
CreateAuction(c, end) ==
    /\ role /\ category.status # "none"
    /\ Begin(c, [Rest EXCEPT !.pc = "quota", !.row = Draft(end)])

\* getUserSubscriptionPlan: the plan from the cache or the database.
ReadQuota(c) ==
    /\ call[c].pc = "quota"
    /\ call' = [call EXCEPT ![c].planId = mine,
                            ![c].limit = IF cache[CacheKey(mine)] # 0 THEN cache[CacheKey(mine)]
                                         ELSE plans[mine].limit,
                            ![c].pc = IF cache[CacheKey(mine)] # 0 THEN "count" ELSE "fill"]
    /\ UNCHANGED <<kycVars, category, planVars, auctionVars, requests, mixed, faulty>>

FillCache(c) ==
    /\ call[c].pc = "fill"
    /\ cache' = [cache EXCEPT ![CacheKey(call[c].planId)] = call[c].limit]
    /\ Goto(c, "count")
    /\ UNCHANGED <<kycVars, category, plans, mine, peak, held, auctionVars, requests, mixed, faulty>>

\* canCreateAuction: countBySellerId against the limit.
CheckQuota(c) ==
    /\ call[c].pc = "count"
    /\ IF Len(auctions) >= call[c].limit THEN Finish(c) ELSE Goto(c, "pick")
    /\ UNCHANGED <<kycVars, category, planVars, auctionVars, requests, mixed, faulty>>

\* The category is read and must be approved; whether it is active, nobody asks.
PickCategory(c) ==
    /\ call[c].pc = "pick"
    /\ IF Loads THEN Goto(c, "auction") ELSE Finish(c)
    /\ UNCHANGED <<kycVars, category, planVars, auctionVars, requests, mixed, faulty>>

\* UpdateAuctionUsecase: a draft, and it stays one.
UpdateAuction(c, a, end) ==
    /\ role /\ Loads /\ auctions[a].status = "DRAFT"
    /\ Begin(c, [Rest EXCEPT !.pc = "pick", !.id = a, !.row = Draft(end)])

PublishAuction(c, a) ==
    /\ role /\ Loads /\ auctions[a].status = "DRAFT" /\ auctions[a].end > now
    /\ Begin(c, [Rest EXCEPT !.pc = "auction", !.id = a, !.row = [auctions[a] EXCEPT !.status = "ACTIVE"]])

SaveAuction(c) ==
    /\ call[c].pc = "auction" /\ (call[c].id = 0 => Len(auctions) < MaxAuctions)
    /\ auctions' = IF call[c].id = 0 THEN Append(auctions, call[c].row)
                   ELSE [auctions EXCEPT ![call[c].id] = call[c].row]
    /\ Finish(c)
    /\ UNCHANGED <<kycVars, category, planVars, now, moves, requests, mixed, faulty>>

Tick ==
    /\ now < Horizon /\ now' = now + 1
    /\ moves < MaxMoves /\ moves' = moves + 1
    /\ UNCHANGED <<kycVars, category, planVars, auctions, call, requests, mixed, faulty>>

\* A statement throws or the server stops.
CallFails(c) ==
    /\ Busy(c)
    /\ Finish(c)
    /\ faulty' = TRUE
    /\ UNCHANGED <<kycVars, category, planVars, auctionVars, requests, mixed>>

-----------------------------------------------------------------------------
SellerStep(c) ==
    \/ UpdateKyc(c) \/ SaveDocument(c) \/ SubmitKyc(c)
    \/ \E stored \in BOOLEAN : ResetKyc(c, stored)
    \/ SaveRole(c) \/ SaveKyc(c) \/ ChangeProfile(c) \/ SaveProfile(c)
    \/ RequestCategory(c)
    \/ ReadQuota(c) \/ FillCache(c) \/ CheckQuota(c) \/ PickCategory(c) \/ SaveAuction(c)
    \/ \E end \in 1..Horizon :
          \/ CreateAuction(c, end)
          \/ \E a \in DOMAIN auctions : UpdateAuction(c, a, end)
    \/ \E a \in DOMAIN auctions : PublishAuction(c, a)
    \/ CallFails(c)

AdminStep(c) ==
    \/ ApproveKyc(c) \/ RejectKyc(c)
    \/ CreateCategory(c) \/ SaveNewCategory(c) \/ ApproveCategory(c) \/ RejectCategory(c)
    \/ UpdateCategory(c) \/ SaveCategory(c)
    \/ \E active \in BOOLEAN : ChangeCategoryStatus(c, active)
    \/ \E p \in Plans, default \in BOOLEAN :
          \/ \E active \in BOOLEAN : UpdatePlanStatus(c, p, default, active)
          \/ \E limit \in Limits : CreatePlan(c, p, default, limit)
          \/ \E active \in BOOLEAN, limit \in Limits : UpdatePlan(c, p, default, active, limit)
    \/ \E subscribed \in BOOLEAN : CheckSubscribers(c, subscribed)
    \/ SavePlan(c)

SellingNext ==
    \/ \E c \in Calls : SellerStep(c) \/ AdminStep(c)
    \/ \E p \in Plans : Subscribe(p) \/ OthersFill(p) \/ CacheExpires(p)
    \/ Tick

SellingSpec == SellingInit /\ [][SellingNext]_sellingVars

-----------------------------------------------------------------------------
(***************************************************************************)
(* Properties                                                              *)
(***************************************************************************)
Quiet == \A c \in Calls : ~Busy(c)

\* Requests one at a time, though they may fail half-way: an approved seller
\* has the role.  If none failed, role and approval come together, and only to
\* a user who handed in a document.
SellerApproved ==
    ~mixed =>
        /\ kyc = "APPROVED" => role
        /\ Quiet /\ ~faulty => (role <=> kyc = "APPROVED") /\ (role => documents)

\* Requests one at a time, though they may fail half-way: whatever is decided
\* about a category with auctions in it, every auction can still be read.  A
\* list reads all of its auctions or fails.
ListsLoad == ~mixed /\ auctions # <<>> => Loads

\* However stale the cached plan, a seller has no more auctions than some plan
\* of theirs once allowed, and one more for each further request that was let
\* in meanwhile.
AuctionQuota ==
    \E p \in held : Len(auctions) <= peak[p] + (IF mixed THEN Cardinality(Calls) - 1 ELSE 0)
=============================================================================
