------------------------------ MODULE Listings ------------------------------
(***************************************************************************)
(* What users, sellers and administrators are shown of the auction table:  *)
(* the queries of PrismaAuctionRepo and the use cases that page, merge and *)
(* count their results, while auctions come and go.  rows is the table of  *)
(* one seller in the order of creation, "me" the visitor; search terms and *)
(* the filter by category are left out.  What happens to an auction, which *)
(* other modules take apart, is one step here.                             *)
(***************************************************************************)
EXTENDS Integers, Sequences, FiniteSets, SequencesExt

CONSTANTS
    MaxRows,        \* bound: auction rows
    Moving,         \* bound: the rows to which more happens than publication
    Horizon         \* bound of the clock

ASSUME ListingsAssumption == {MaxRows, Horizon} \subseteq Nat /\ Moving \subseteq Nat

VARIABLES rows, now

listingVars == <<rows, now>>

Statuses == {"DRAFT", "ACTIVE", "PAUSED", "ENDED", "SOLD", "FAILED", "FALLBACK_ENDED",
             "FALLBACK_PUBLIC_NOTIFICATION"}
Types == {"LIVE", "LONG", "SEALED"}
Visitors == {"me", "other"}
Nobody == "nobody"

\* winner, the lead (bids ordered by amount, the first), whether the visitor
\* takes part, and whether there is a public offer that nobody has paid for.
AuctionRow ==
    [status : Statuses, type : Types, start : 0..Horizon, end : 0..Horizon,
     winner : Visitors \cup {Nobody}, lead : Visitors \cup {Nobody}, joined : BOOLEAN,
     offered : BOOLEAN]

-----------------------------------------------------------------------------
\* A set as a list, by the pairs of one that comes before another.
Sorted(S, before) ==
    [n \in 1..Cardinality(S) |->
        CHOOSE a \in S : Cardinality({ b \in S : <<b, a>> \in before }) = n - 1]

\* orderBy [{ field: order }, { createdAt: 'desc' }]
Ordered(ids, field, order) ==
    LET key(a) == IF field = "createdAt" THEN a ELSE rows[a][field]
        before == { p \in ids \X ids :
                      \/ IF order = "asc" THEN key(p[1]) < key(p[2]) ELSE key(p[1]) > key(p[2])
                      \/ key(p[1]) = key(p[2]) /\ p[1] > p[2] }
    IN  Sorted(ids, before)

\* skip and take
Page(list, page, limit) ==
    LET first == (page - 1) * limit
    IN  SubSeq(list, first + 1, IF first + limit < Len(list) THEN first + limit ELSE Len(list))

\* Math.max(1, Math.ceil(total / limit)) and Math.min(page, totalPages)
TotalPages(total, limit) == IF total = 0 THEN 1 ELSE (total + limit - 1) \div limit
CurrentPage(page, total, limit) ==
    IF page < TotalPages(total, limit) THEN page ELSE TotalPages(total, limit)

\* findAllForUsers: on show, or under way and soonest to end first.
Shown ==
    { a \in DOMAIN rows : rows[a].status \in {"ACTIVE", "PAUSED"} /\ rows[a].end >= now }

EndingSoon(type) ==
    { a \in DOMAIN rows : /\ rows[a].status = "ACTIVE" /\ rows[a].type = type
                          /\ rows[a].start <= now /\ now < rows[a].end }

\* Faulty variant: the page that was read is paged again as it stands.
Browse_Twice(field, order, page, limit) ==
    Page(Page(Ordered(Shown, field, order), page, limit), page, limit)

\* GetBrowseAuctionsUsecase: the repository pages, and the use case pages what
\* it got once more, as the page that many auctions have.
Browse(field, order, page, limit) ==
    LET read == Page(Ordered(Shown, field, order), page, limit)
    IN  Page(read, CurrentPage(page, Len(read), limit), limit)

\* findSellerAuctionsPage: past the last page, the last page.
SellerPage(page, limit) ==
    Page(Ordered(DOMAIN rows, "createdAt", "desc"),
         CurrentPage(page, Cardinality(DOMAIN rows), limit), limit)

\* GetAdminAuctionsUsecase: drafts are taken out of the page that was read.
AdminPage(page, limit) ==
    LET read == Page(Ordered(DOMAIN rows, "createdAt", "desc"), page, limit)
        visible == SelectSeq(read, LAMBDA a : rows[a].status # "DRAFT")
    IN  Page(visible, CurrentPage(page, Len(visible), limit), limit)

\* Faulty variant: the two lists one after the other.
HomeFeed_Unsorted(limit) ==
    LET soonest(type) == Page(Ordered(EndingSoon(type), "end", "asc"), 1, limit)
    IN  Page(soonest("LONG") \o soonest("SEALED"), 1, limit)

\* GetUserHomeAuctionFeedUsecase: the first of each kind, merged, cut again.
HomeFeed(limit) ==
    LET soonest(type) == Page(Ordered(EndingSoon(type), "end", "asc"), 1, limit)
        both == soonest("LONG") \o soonest("SEALED")
        before == { p \in (DOMAIN both) \X (DOMAIN both) :
                      \/ rows[both[p[1]]].end < rows[both[p[2]]].end
                      \/ rows[both[p[1]]].end = rows[both[p[2]]].end /\ p[1] < p[2] }
        merged == Sorted(DOMAIN both, before)
    IN  Page([i \in DOMAIN merged |-> both[merged[i]]], 1, limit)

\* countAuctionStats
PublicCounts ==
    [live |-> Cardinality({ a \in DOMAIN rows : /\ rows[a].status = "ACTIVE"
                                                /\ rows[a].start <= now /\ now <= rows[a].end }),
     upcoming |-> Cardinality({ a \in DOMAIN rows : /\ rows[a].status \in {"ACTIVE", "PAUSED"}
                                                    /\ now < rows[a].start }),
     ended |-> Cardinality({ a \in DOMAIN rows : rows[a].status \in
                    {"ENDED", "SOLD", "FALLBACK_ENDED", "FALLBACK_PUBLIC_NOTIFICATION"} })]

-----------------------------------------------------------------------------
(***************************************************************************)
(* The visitor's own auctions                                              *)
(***************************************************************************)
\* findParticipatedByUserId
Participated == { a \in DOMAIN rows : rows[a].joined }

\* GetUserParticipatedAuctionsUsecase.participationLabel
Label(row) ==
    CASE row.winner = "me" -> "WON"
      [] row.winner # Nobody /\ row.winner # "me" -> "LOST"
      [] row.winner = Nobody /\ row.status = "PAUSED" -> "PAUSED"
      [] row.winner = Nobody /\ row.status = "ACTIVE" /\ row.start <= now /\ now < row.end ->
            CASE row.lead = Nobody -> "NO_BIDS"
              [] row.lead = "me" -> "WINNING"
              [] OTHER -> "OUTBID"
      [] row.winner = Nobody /\ row.status = "ACTIVE" /\ now < row.start -> "UPCOMING"
      [] OTHER -> "ENDED"

\* Faulty variant: an auction nobody won counts as lost.
DashboardCounts_Unsold ==
    LET mine == Participated
        live == { a \in mine : /\ rows[a].status = "ACTIVE"
                               /\ rows[a].start <= now /\ now < rows[a].end }
        winning == { a \in live : rows[a].lead = "me" }
    IN  [winning |-> Cardinality(winning),
         losing |-> Cardinality(live) - Cardinality(winning),
         won |-> Cardinality({ a \in mine : rows[a].winner = "me" }),
         lost |-> Cardinality({ a \in mine : /\ rows[a].winner # "me"
                                             /\ rows[a].status \notin {"DRAFT", "ACTIVE", "PAUSED"} })]

\* getUserDahsboardAuctionStats; in SQL, NOT (winnerId = me) is not true of a
\* row without a winner.
DashboardCounts ==
    LET mine == Participated
        live == { a \in mine : /\ rows[a].status = "ACTIVE"
                               /\ rows[a].start <= now /\ now < rows[a].end }
        winning == { a \in live : rows[a].lead = "me" }
    IN  [winning |-> Cardinality(winning),
         losing |-> Cardinality(live) - Cardinality(winning),
         won |-> Cardinality({ a \in mine : rows[a].winner = "me" }),
         lost |-> Cardinality({ a \in mine : /\ rows[a].winner \notin {"me", Nobody}
                                             /\ rows[a].status \notin {"DRAFT", "ACTIVE", "PAUSED"} })]

\* GetAuctionRoomUsecase: no draft, and no sold auction without its winner.
RoomOpens(row) == row.status # "DRAFT" /\ (row.status = "SOLD" => row.winner # Nobody)

-----------------------------------------------------------------------------
(***************************************************************************)
(* The table changes                                                       *)
(***************************************************************************)
ListingsTypeOK ==
    /\ rows \in Seq(AuctionRow) /\ Len(rows) <= MaxRows
    /\ now \in 0..Horizon

ListingsInit == rows = <<>> /\ now = 0

\* createAuctionSchema wants the end after the start, and nothing else.
CreateDraft(type, start, end) ==
    /\ Len(rows) < MaxRows /\ start < end
    /\ rows' = Append(rows, [status |-> "DRAFT", type |-> type, start |-> start, end |-> end,
                             winner |-> Nobody, lead |-> Nobody, joined |-> FALSE,
                             offered |-> FALSE])
    /\ UNCHANGED now

Move(a, row) ==
    /\ a \in Moving
    /\ rows' = [rows EXCEPT ![a] = row]
    /\ UNCHANGED now

Publish(a) ==
    /\ rows[a].status = "DRAFT" /\ now < rows[a].end
    /\ rows' = [rows EXCEPT ![a].status = "ACTIVE"]
    /\ UNCHANGED now

JoinAuction(a) ==
    /\ rows[a].status = "ACTIVE" /\ ~rows[a].joined
    /\ Move(a, [rows[a] EXCEPT !.joined = TRUE])

TakeLead(a, u) ==
    /\ rows[a].status = "ACTIVE" /\ rows[a].start <= now /\ now <= rows[a].end
    /\ u = "me" => rows[a].joined
    /\ Move(a, [rows[a] EXCEPT !.lead = u])

\* PauseAuctionUsecase and ResumeAuctionUsecase; FailAuctionUsecase fails
\* whatever Auction.setStatus lets it, a draft or a sold auction too.
SetStatus(a, status) ==
    /\ \/ <<rows[a].status, status>> \in {<<"ACTIVE", "PAUSED">>, <<"PAUSED", "ACTIVE">>}
       \/ status = "FAILED" /\ rows[a].status # "ENDED"
    /\ Move(a, [rows[a] EXCEPT !.status = status])

\* EndAuctionUsecase, when there is a bid.
EndAuction(a) ==
    /\ rows[a].status \in {"ACTIVE", "PAUSED"} /\ rows[a].lead # Nobody
    /\ Move(a, [rows[a] EXCEPT !.status = "ENDED", !.winner = rows[a].lead])

\* ProcessAuctionWinnerFallbackUsecase: another participant, or nobody.
NextWinner(a, u) ==
    /\ rows[a].status = "ENDED" /\ u # rows[a].winner
    /\ u = "me" => rows[a].joined
    /\ Move(a, [rows[a] EXCEPT !.winner = u,
                               !.status = IF u = Nobody THEN "FALLBACK_ENDED" ELSE @])

OfferPublicly(a) ==
    /\ rows[a].status = "FALLBACK_ENDED"
    /\ Move(a, [rows[a] EXCEPT !.status = "FALLBACK_PUBLIC_NOTIFICATION", !.offered = TRUE])

\* VerifyPublicAuctionPaymentUsecase: whoever pays, participant or not, though
\* the auction has failed since it was offered.
Sell(a, u) ==
    /\ rows[a].offered
    /\ Move(a, [rows[a] EXCEPT !.status = "SOLD", !.winner = u, !.offered = FALSE])

Tick == now < Horizon /\ now' = now + 1 /\ UNCHANGED rows

ListingsNext ==
    \/ \E type \in Types, start, end \in 0..Horizon : CreateDraft(type, start, end)
    \/ \E a \in DOMAIN rows :
          \/ Publish(a) \/ JoinAuction(a) \/ EndAuction(a) \/ OfferPublicly(a)
          \/ \E status \in {"ACTIVE", "PAUSED", "FAILED"} : SetStatus(a, status)
          \/ \E u \in Visitors : TakeLead(a, u) \/ Sell(a, u)
          \/ \E u \in Visitors \cup {Nobody} : NextWinner(a, u)
    \/ Tick

ListingsSpec == ListingsInit /\ [][ListingsNext]_listingVars

-----------------------------------------------------------------------------
(***************************************************************************)
(* Properties                                                              *)
(***************************************************************************)
\* Page by page, whatever their size and order, the visitor sees each auction
\* on show once and nothing after them, and can open it; the administrator
\* sees each but the drafts, and the seller all of them.
PagesExact ==
    \A limit \in 1..Len(rows) :
        LET all == Ordered(DOMAIN rows, "createdAt", "desc")
            upTo(n) == 1..n
        IN  /\ \A field \in {"start", "end", "createdAt"}, order \in {"asc", "desc"} :
                  FlattenSeq([p \in upTo(Len(rows) + 1) |-> Browse(field, order, p, limit)])
                      = Ordered(Shown, field, order)
            /\ \A a \in Shown : RoomOpens(rows[a])
            /\ FlattenSeq([p \in upTo(Len(rows) + 1) |-> AdminPage(p, limit)])
                  = SelectSeq(all, LAMBDA a : rows[a].status # "DRAFT")
            /\ FlattenSeq([p \in upTo(TotalPages(Len(rows), limit)) |-> SellerPage(p, limit)]) = all

\* Cutting each list before merging loses nothing: the home feed holds as many
\* auctions as it may, and none that was left out ends sooner.
FeedSoonest ==
    \A limit \in 1..MaxRows :
        LET all == EndingSoon("LONG") \cup EndingSoon("SEALED")
            feed == HomeFeed(limit)
            chosen == { feed[i] : i \in DOMAIN feed }
        IN  /\ chosen \subseteq all
            /\ Cardinality(chosen) = Len(feed)
            /\ Len(feed) = IF Cardinality(all) < limit THEN Cardinality(all) ELSE limit
            /\ \A a \in chosen, b \in all \ chosen : rows[a].end <= rows[b].end
            /\ \A i, j \in DOMAIN feed : i < j => rows[feed[i]].end <= rows[feed[j]].end

\* The counts on the visitor's home page are those of the labels in the
\* visitor's list, and none of the public ones counts an auction twice.
CountsAgree ==
    LET labelled(labels) == Cardinality({ a \in Participated : Label(rows[a]) \in labels })
    IN  /\ DashboardCounts.winning = labelled({"WINNING"})
        /\ DashboardCounts.losing = labelled({"OUTBID", "NO_BIDS"})
        /\ DashboardCounts.won = labelled({"WON"})
        /\ DashboardCounts.lost = labelled({"LOST"})
        /\ PublicCounts.live + PublicCounts.upcoming + PublicCounts.ended
              <= Cardinality({ a \in DOMAIN rows : rows[a].status # "DRAFT" })
=============================================================================
