--------------------------- MODULE ListingsProofs ---------------------------
(***************************************************************************)
(* Theorems about Listings, for any number of auctions, any times and any  *)
(* page size: the counts on the visitor's home page are those of the       *)
(* labels in the visitor's list, and the merged home feed leaves out       *)
(* nothing that ends sooner than what it shows.                            *)
(***************************************************************************)
EXTENDS Listings, FiniteSetTheorems, TLAPS

USE ListingsAssumption DEF listingVars

-----------------------------------------------------------------------------
(***************************************************************************)
(* The rows                                                                *)
(***************************************************************************)
\* Nobody has won what is not over.
RowOK(row) == row.status \in {"DRAFT", "ACTIVE", "PAUSED"} => row.winner = Nobody

RowsOK == \A a \in DOMAIN rows : RowOK(rows[a])

\* A step adds a row or changes one.
Writes(row) ==
    /\ row \in AuctionRow /\ RowOK(row) /\ now' = now
    /\ \/ Len(rows) < MaxRows /\ rows' = Append(rows, row)
       \/ \E a \in DOMAIN rows : rows' = [rows EXCEPT ![a] = row]

LEMMA RowTyped ==
    ASSUME ListingsTypeOK, NEW a \in DOMAIN rows
    PROVE  rows[a] \in AuctionRow
BY DEF ListingsTypeOK

LEMMA DraftWrites ==
    ASSUME ListingsTypeOK, NEW type \in Types, NEW start \in 0..Horizon, NEW end \in 0..Horizon,
           CreateDraft(type, start, end)
    PROVE  \E row : Writes(row)
<1>1. PICK row : row = [status |-> "DRAFT", type |-> type, start |-> start, end |-> end,
                        winner |-> Nobody, lead |-> Nobody, joined |-> FALSE,
                        offered |-> FALSE]
  OBVIOUS
<1>2. row \in AuctionRow /\ row.winner = Nobody
  BY <1>1 DEF AuctionRow, Statuses, Visitors
<1>3. Len(rows) < MaxRows /\ rows' = Append(rows, row) /\ now' = now
  BY <1>1 DEF CreateDraft
<1> QED
  BY <1>2, <1>3 DEF Writes, RowOK

LEMMA MoveWrites ==
    ASSUME ListingsTypeOK, RowsOK, NEW a \in DOMAIN rows,
           \/ Publish(a) \/ JoinAuction(a) \/ EndAuction(a) \/ OfferPublicly(a)
           \/ \E status \in {"ACTIVE", "PAUSED", "FAILED"} : SetStatus(a, status)
           \/ \E u \in Visitors : TakeLead(a, u) \/ Sell(a, u)
           \/ \E u \in Visitors \cup {Nobody} : NextWinner(a, u)
    PROVE  \E row : Writes(row)
<1>1. PICK s \in Statuses, w \in Visitors \cup {Nobody}, l \in Visitors \cup {Nobody} :
        s = rows[a].status /\ w = rows[a].winner /\ l = rows[a].lead
  BY RowTyped DEF AuctionRow
<1>2. RowOK(rows[a]) /\ rows[a] \in AuctionRow
  BY RowTyped DEF RowsOK
<1>4. CASE Publish(a)
  <2>1. PICK row : row = [rows[a] EXCEPT !.status = "ACTIVE"]
    OBVIOUS
  <2>2. row \in AuctionRow /\ row.status = "ACTIVE" /\ row.winner = w
    BY <1>1, <1>2, <2>1 DEF AuctionRow, Statuses
  <2>3. rows' = [rows EXCEPT ![a] = row] /\ now' = now /\ rows[a].status = "DRAFT"
    BY <1>4, <2>1 DEF Publish
  <2>4. w = Nobody
    BY <1>1, <1>2, <2>3 DEF RowOK
  <2> QED
    BY <2>2, <2>3, <2>4 DEF Writes, RowOK
<1>5. CASE JoinAuction(a)
  <2>1. PICK row : row = [rows[a] EXCEPT !.joined = TRUE]
    OBVIOUS
  <2>2. row \in AuctionRow /\ row.status = s /\ row.winner = w
    BY <1>1, <1>2, <2>1 DEF AuctionRow, Statuses
  <2>3. rows' = [rows EXCEPT ![a] = row] /\ now' = now
    BY <1>5, <2>1 DEF JoinAuction, Move
  <2>4. s \in {"DRAFT", "ACTIVE", "PAUSED"} => w = Nobody
    BY <1>1, <1>2 DEF RowOK
  <2> QED
    BY <2>2, <2>3, <2>4 DEF Writes, RowOK
<1>6. ASSUME NEW u \in Visitors, TakeLead(a, u) PROVE \E row : Writes(row)
  <2>1. PICK row : row = [rows[a] EXCEPT !.lead = u]
    OBVIOUS
  <2>2. row \in AuctionRow /\ row.status = s /\ row.winner = w
    BY <1>1, <1>2, <2>1 DEF AuctionRow, Statuses
  <2>3. rows' = [rows EXCEPT ![a] = row] /\ now' = now
    BY <1>6, <2>1 DEF TakeLead, Move
  <2>4. s \in {"DRAFT", "ACTIVE", "PAUSED"} => w = Nobody
    BY <1>1, <1>2 DEF RowOK
  <2> QED
    BY <2>2, <2>3, <2>4 DEF Writes, RowOK
<1>7. ASSUME NEW status \in {"ACTIVE", "PAUSED", "FAILED"}, SetStatus(a, status)
      PROVE  \E row : Writes(row)
  <2>1. PICK row : row = [rows[a] EXCEPT !.status = status]
    OBVIOUS
  <2>2. row \in AuctionRow /\ row.status = status /\ row.winner = w
    BY <1>1, <1>2, <2>1 DEF AuctionRow, Statuses
  <2>3. rows' = [rows EXCEPT ![a] = row] /\ now' = now
        /\ (status = "FAILED" \/ rows[a].status \in {"ACTIVE", "PAUSED"})
    BY <1>7, <2>1 DEF SetStatus, Move
  <2>4. (status = "FAILED" \/ w = Nobody) /\ status \in Statuses
    BY <1>1, <1>2, <2>3 DEF RowOK, Statuses
  <2> QED
    BY <2>2, <2>3, <2>4 DEF Writes, RowOK
<1>8. CASE EndAuction(a)
  <2>1. PICK row : row = [rows[a] EXCEPT !.status = "ENDED", !.winner = l]
    OBVIOUS
  <2>2. row \in AuctionRow /\ row.status = "ENDED" /\ row.winner = l
    BY <1>1, <1>2, <2>1 DEF AuctionRow, Statuses
  <2>3. rows' = [rows EXCEPT ![a] = row] /\ now' = now
    BY <1>1, <1>8, <2>1 DEF EndAuction, Move
  <2> QED
    BY <2>2, <2>3 DEF Writes, RowOK
<1>9. ASSUME NEW u \in Visitors \cup {Nobody}, NextWinner(a, u) PROVE \E row : Writes(row)
  <2>0. PICK t \in {"FALLBACK_ENDED", "ENDED"} : t = IF u = Nobody THEN "FALLBACK_ENDED" ELSE "ENDED"
    OBVIOUS
  <2>1. PICK row : row = [rows[a] EXCEPT !.winner = u, !.status = t]
    OBVIOUS
  <2>2. row \in AuctionRow /\ row.status = t /\ row.winner = u
    BY <1>1, <1>2, <2>1 DEF AuctionRow, Statuses
  <2>3. rows' = [rows EXCEPT ![a] = row] /\ now' = now
    BY <1>2, <1>9, <2>0, <2>1 DEF NextWinner, Move, AuctionRow
  <2> QED
    BY <2>2, <2>3 DEF Writes, RowOK
<1>10. CASE OfferPublicly(a)
  <2>1. PICK row : row = [rows[a] EXCEPT !.status = "FALLBACK_PUBLIC_NOTIFICATION", !.offered = TRUE]
    OBVIOUS
  <2>2. row \in AuctionRow /\ row.status = "FALLBACK_PUBLIC_NOTIFICATION" /\ row.winner = w
    BY <1>1, <1>2, <2>1 DEF AuctionRow, Statuses
  <2>3. rows' = [rows EXCEPT ![a] = row] /\ now' = now
    BY <1>10, <2>1 DEF OfferPublicly, Move
  <2> QED
    BY <2>2, <2>3 DEF Writes, RowOK
<1>11. ASSUME NEW u \in Visitors, Sell(a, u) PROVE \E row : Writes(row)
  <2>1. PICK row : row = [rows[a] EXCEPT !.status = "SOLD", !.winner = u, !.offered = FALSE]
    OBVIOUS
  <2>2. row \in AuctionRow /\ row.status = "SOLD" /\ row.winner = u
    BY <1>1, <1>2, <2>1 DEF AuctionRow, Statuses
  <2>3. rows' = [rows EXCEPT ![a] = row] /\ now' = now
    BY <1>11, <2>1 DEF Sell, Move
  <2> QED
    BY <2>2, <2>3 DEF Writes, RowOK
<1> QED
  BY <1>4, <1>5, <1>6, <1>7, <1>8, <1>9, <1>10, <1>11

LEMMA WritesKeep ==
    ASSUME ListingsTypeOK, RowsOK, NEW row, Writes(row)
    PROVE  ListingsTypeOK' /\ RowsOK'
<1>0. rows \in Seq(AuctionRow) /\ Len(rows) <= MaxRows /\ row \in AuctionRow /\ MaxRows \in Nat
  BY DEF ListingsTypeOK, Writes
<1>1. CASE Len(rows) < MaxRows /\ rows' = Append(rows, row)
  <2>1. rows' \in Seq(AuctionRow) /\ Len(rows') = Len(rows) + 1 /\ Len(rows) \in Nat
    BY <1>0, <1>1
  <2>2. \A a \in DOMAIN rows' : (a \in DOMAIN rows /\ rows'[a] = rows[a]) \/ rows'[a] = row
    BY <1>0, <1>1, <2>1
  <2> QED
    BY <1>0, <1>1, <2>1, <2>2 DEF ListingsTypeOK, RowsOK, Writes
<1>2. ASSUME NEW a \in DOMAIN rows, rows' = [rows EXCEPT ![a] = row]
      PROVE  ListingsTypeOK' /\ RowsOK'
  <2>1. rows' \in Seq(AuctionRow) /\ Len(rows') = Len(rows) /\ DOMAIN rows' = DOMAIN rows
    BY <1>0, <1>2
  <2>2. \A b \in DOMAIN rows : rows'[b] = rows[b] \/ rows'[b] = row
    BY <1>0, <1>2
  <2> QED
    BY <1>0, <2>1, <2>2 DEF ListingsTypeOK, RowsOK, Writes
<1> QED
  BY <1>1, <1>2 DEF Writes

LEMMA RowsInit == ListingsInit => ListingsTypeOK /\ RowsOK
BY DEF ListingsInit, ListingsTypeOK, RowsOK

LEMMA RowsStep ==
    ListingsTypeOK /\ RowsOK /\ [ListingsNext]_listingVars => ListingsTypeOK' /\ RowsOK'
<1> SUFFICES ASSUME ListingsTypeOK, RowsOK, [ListingsNext]_listingVars
             PROVE  ListingsTypeOK' /\ RowsOK'
  OBVIOUS
<1>1. CASE UNCHANGED listingVars
  BY <1>1 DEF ListingsTypeOK, RowsOK
<1>2. CASE Tick
  <2>1. now' \in 0..Horizon /\ rows' = rows
    BY <1>2 DEF Tick, ListingsTypeOK
  <2> QED
    BY <2>1 DEF ListingsTypeOK, RowsOK
<1>3. CASE \E type \in Types, start, end \in 0..Horizon : CreateDraft(type, start, end)
  BY <1>3, DraftWrites, WritesKeep
<1>4. CASE \E a \in DOMAIN rows :
              \/ Publish(a) \/ JoinAuction(a) \/ EndAuction(a) \/ OfferPublicly(a)
              \/ \E status \in {"ACTIVE", "PAUSED", "FAILED"} : SetStatus(a, status)
              \/ \E u \in Visitors : TakeLead(a, u) \/ Sell(a, u)
              \/ \E u \in Visitors \cup {Nobody} : NextWinner(a, u)
  BY <1>4, MoveWrites, WritesKeep
<1> QED
  BY <1>1, <1>2, <1>3, <1>4 DEF ListingsNext

\* Every row is an auction as the schema has them.
THEOREM ListingsTypeCorrect == ListingsSpec => []ListingsTypeOK
<1>1. ListingsTypeOK /\ RowsOK => ListingsTypeOK
  OBVIOUS
<1> QED
  BY RowsInit, RowsStep, <1>1, PTL DEF ListingsSpec

-----------------------------------------------------------------------------
(***************************************************************************)
(* The counts                                                              *)
(***************************************************************************)
Running(row) == row.status = "ACTIVE" /\ row.start <= now /\ now < row.end

\* The label in terms of what the counts ask of a row.
LEMMA Labels ==
    ASSUME ListingsTypeOK, NEW row \in AuctionRow, RowOK(row)
    PROVE  /\ Label(row) = "WINNING" <=> Running(row) /\ row.lead = "me"
           /\ Label(row) \in {"OUTBID", "NO_BIDS"} <=> Running(row) /\ row.lead # "me"
           /\ Label(row) = "WON" <=> row.winner = "me"
           /\ Label(row) = "LOST" <=> /\ row.winner \notin {"me", Nobody}
                                      /\ row.status \notin {"DRAFT", "ACTIVE", "PAUSED"}
<1>1. row.winner \in {"me", "other", "nobody"} /\ Nobody = "nobody"
  BY DEF AuctionRow, Visitors, Nobody
<1>2. CASE row.winner = "me"
  <2>1. Label(row) = "WON"
    <3>1. row.winner # Nobody
      BY <1>1, <1>2
    <3> QED
      BY <1>2, <3>1, Zenon DEF Label
  <2>2. ~Running(row)
    BY <1>1, <1>2 DEF RowOK, Running
  <2> QED
    BY <1>1, <1>2, <2>1, <2>2
<1>3. CASE row.winner = "other"
  <2>1. Label(row) = "LOST"
    <3>1. row.winner # "me" /\ row.winner # Nobody
      BY <1>1, <1>3
    <3> QED
      BY <3>1, Zenon DEF Label
  <2>2. ~Running(row) /\ row.status \notin {"DRAFT", "ACTIVE", "PAUSED"}
    BY <1>1, <1>3 DEF RowOK, Running
  <2> QED
    BY <1>1, <1>3, <2>1, <2>2
<1>4. CASE row.winner = Nobody
  <2>1. CASE Running(row)
    <3>0. /\ row.winner # "me" /\ row.status # "PAUSED" /\ row.status = "ACTIVE"
          /\ row.start <= now /\ now < row.end /\ ~(now < row.start)
      <4>1. row.start \in Nat /\ now \in Nat
        BY DEF AuctionRow, ListingsTypeOK
      <4> QED
        BY <1>1, <1>4, <2>1, <4>1 DEF Running
    <3>1. CASE row.lead = Nobody
      <4>1. row.lead # "me"
        BY <1>1, <3>1
      <4>2. Label(row) = "NO_BIDS"
        BY <1>4, <3>0, <3>1, <4>1, Zenon DEF Label
      <4> QED
        BY <1>1, <1>4, <2>1, <3>1, <4>2
    <3>2. CASE row.lead = "me"
      <4>1. row.lead # Nobody
        BY <1>1, <3>2
      <4>2. Label(row) = "WINNING"
        BY <1>4, <3>0, <3>2, <4>1, Zenon DEF Label
      <4> QED
        BY <1>1, <1>4, <2>1, <3>2, <4>2
    <3>3. CASE row.lead # Nobody /\ row.lead # "me"
      <4>1. Label(row) = "OUTBID"
        BY <1>4, <3>0, <3>3, Zenon DEF Label
      <4> QED
        BY <1>1, <1>4, <2>1, <3>3, <4>1
    <3> QED
      BY <3>1, <3>2, <3>3
  <2>2. CASE ~Running(row)
    <3>0. row.winner # "me"
      BY <1>1, <1>4
    <3>1. Label(row) \in {"PAUSED", "UPCOMING", "ENDED"}
      <4>1. CASE row.status = "PAUSED"
        BY <1>4, <3>0, <4>1 DEF Label
      <4>2. CASE row.status = "ACTIVE" /\ now < row.start
        BY <1>4, <2>2, <3>0, <4>2 DEF Label, Running
      <4>3. CASE row.status # "PAUSED" /\ ~(row.status = "ACTIVE" /\ now < row.start)
        <5>1. Label(row) = "ENDED"
          BY <1>4, <2>2, <3>0, <4>3 DEF Label, Running
        <5> QED
          BY <5>1
      <4> QED
        BY <4>1, <4>2, <4>3
    <3> QED
      BY <1>1, <1>4, <2>2, <3>1
  <2> QED
    BY <2>1, <2>2
<1> QED
  BY <1>1, <1>2, <1>3, <1>4

LEMMA RowsFinite ==
    ASSUME ListingsTypeOK, NEW T \in SUBSET DOMAIN rows
    PROVE  IsFiniteSet(T) /\ Cardinality(T) \in Nat
<1>1. DOMAIN rows = 1..Len(rows) /\ Len(rows) \in Nat
  BY DEF ListingsTypeOK
<1>2. IsFiniteSet(DOMAIN rows)
  BY <1>1, FS_Interval
<1> QED
  BY <1>2, FS_Subset, FS_CardinalityType

LEMMA DashboardAgrees ==
    ASSUME ListingsTypeOK, RowsOK
    PROVE  LET labelled(labels) == Cardinality({ a \in Participated : Label(rows[a]) \in labels })
           IN  /\ DashboardCounts.winning = labelled({"WINNING"})
               /\ DashboardCounts.losing = labelled({"OUTBID", "NO_BIDS"})
               /\ DashboardCounts.won = labelled({"WON"})
               /\ DashboardCounts.lost = labelled({"LOST"})
<1> DEFINE live == { a \in Participated : Running(rows[a]) }
           winning == { a \in live : rows[a].lead = "me" }
           won == { a \in Participated : rows[a].winner = "me" }
           lost == { a \in Participated : /\ rows[a].winner \notin {"me", Nobody}
                                          /\ rows[a].status \notin {"DRAFT", "ACTIVE", "PAUSED"} }
           labelled(labels) == { a \in Participated : Label(rows[a]) \in labels }
<1>1. \A a \in Participated : rows[a] \in AuctionRow /\ RowOK(rows[a])
  BY RowTyped DEF Participated, RowsOK
<1>2. /\ labelled({"WINNING"}) = winning
      /\ labelled({"WON"}) = won
      /\ labelled({"LOST"}) = lost
      /\ labelled({"OUTBID", "NO_BIDS"}) = live \ winning
  BY <1>1, Labels
<1>3. /\ DashboardCounts.winning = Cardinality(winning)
      /\ DashboardCounts.losing = Cardinality(live) - Cardinality(winning)
      /\ DashboardCounts.won = Cardinality(won)
      /\ DashboardCounts.lost = Cardinality(lost)
  BY DEF DashboardCounts, Running
<1>4. Cardinality(live \ winning) = Cardinality(live) - Cardinality(winning)
  <2>1. live \subseteq DOMAIN rows
    BY DEF Participated
  <2>2. IsFiniteSet(live)
    BY <2>1, RowsFinite
  <2>3. live \cap winning = winning
    OBVIOUS
  <2>4. Cardinality(live \ winning) = Cardinality(live) - Cardinality(live \cap winning)
    BY <2>2, FS_Difference
  <2> QED
    BY <2>3, <2>4
<1> HIDE DEF live, winning, won, lost
<1> QED
  BY <1>2, <1>3, <1>4

LEMMA DisjointCounts ==
    ASSUME NEW S, IsFiniteSet(S), NEW A \in SUBSET S, NEW B \in SUBSET S, NEW C \in SUBSET S,
           A \cap B = {}, (A \cup B) \cap C = {}
    PROVE  Cardinality(A) + Cardinality(B) + Cardinality(C) <= Cardinality(S)
<1>1. IsFiniteSet(A) /\ IsFiniteSet(B) /\ IsFiniteSet(C)
  BY FS_Subset
<1>2. IsFiniteSet(A \cup B) /\ Cardinality(A \cup B) = Cardinality(A) + Cardinality(B) - 0
  BY <1>1, FS_Union, FS_EmptySet
<1>3. Cardinality((A \cup B) \cup C) = Cardinality(A \cup B) + Cardinality(C) - 0
  BY <1>1, <1>2, FS_Union, FS_EmptySet
<1>4. Cardinality((A \cup B) \cup C) <= Cardinality(S)
  BY FS_Subset
<1>5. Cardinality(A) \in Nat /\ Cardinality(B) \in Nat /\ Cardinality(C) \in Nat
  BY <1>1, FS_CardinalityType
<1> QED
  BY <1>2, <1>3, <1>4, <1>5

LEMMA PublicAgrees ==
    ASSUME ListingsTypeOK
    PROVE  PublicCounts.live + PublicCounts.upcoming + PublicCounts.ended
              <= Cardinality({ a \in DOMAIN rows : rows[a].status # "DRAFT" })
<1> DEFINE live == { a \in DOMAIN rows : /\ rows[a].status = "ACTIVE"
                                         /\ rows[a].start <= now /\ now <= rows[a].end }
           upcoming == { a \in DOMAIN rows : /\ rows[a].status \in {"ACTIVE", "PAUSED"}
                                             /\ now < rows[a].start }
           ended == { a \in DOMAIN rows : rows[a].status \in
                        {"ENDED", "SOLD", "FALLBACK_ENDED", "FALLBACK_PUBLIC_NOTIFICATION"} }
           S == { a \in DOMAIN rows : rows[a].status # "DRAFT" }
<1>1. /\ PublicCounts.live = Cardinality(live)
      /\ PublicCounts.upcoming = Cardinality(upcoming)
      /\ PublicCounts.ended = Cardinality(ended)
  BY DEF PublicCounts
<1>2. S \subseteq DOMAIN rows
  OBVIOUS
<1>3. IsFiniteSet(S)
  BY <1>2, RowsFinite
<1>4. live \subseteq S /\ upcoming \subseteq S /\ ended \subseteq S
  OBVIOUS
<1>5. live \cap upcoming = {}
  <2>1. 0..Horizon \subseteq Int
    OBVIOUS
  <2>2. now \in Int /\ \A a \in DOMAIN rows : rows[a].start \in Int
    BY <2>1, RowTyped DEF ListingsTypeOK, AuctionRow
  <2> QED
    BY <2>2
<1>6. (live \cup upcoming) \cap ended = {}
  OBVIOUS
<1> HIDE DEF live, upcoming, ended, S
<1>7. Cardinality(live) + Cardinality(upcoming) + Cardinality(ended) <= Cardinality(S)
  BY <1>3, <1>4, <1>5, <1>6, DisjointCounts
<1> QED
  BY <1>1, <1>7 DEF S

\* The counts of the dashboard are those of the labels of the list, though the
\* one is SQL over the status and the other a use case over the winner; and of
\* the public counts none counts an auction twice.
THEOREM CountsAreRight == ListingsSpec => []CountsAgree
<1>1. ListingsTypeOK /\ RowsOK => CountsAgree
  BY DashboardAgrees, PublicAgrees DEF CountsAgree
<1> QED
  BY RowsInit, RowsStep, <1>1, PTL DEF ListingsSpec

-----------------------------------------------------------------------------
(***************************************************************************)
(* Sets as lists                                                           *)
(***************************************************************************)
\* Every element of S once, the earlier before the later by R.
Lists(list, S, R) ==
    /\ list \in [1..Cardinality(S) -> S]
    /\ \A i, j \in 1..Cardinality(S) : i < j => <<list[i], list[j]>> \in R
    /\ \A a \in S : \E i \in 1..Cardinality(S) : list[i] = a

StrictOrder(S, R) ==
    /\ \A a \in S : <<a, a>> \notin R
    /\ \A a, b \in S : a # b => <<a, b>> \in R \/ <<b, a>> \in R
    /\ \A a, b, c \in S : <<a, b>> \in R /\ <<b, c>> \in R => <<a, c>> \in R

Below(S, R, a) == { b \in S : <<b, a>> \in R }

LEMMA BelowTyped ==
    ASSUME NEW S, IsFiniteSet(S), NEW R, StrictOrder(S, R), NEW a \in S
    PROVE  /\ IsFiniteSet(Below(S, R, a)) /\ Cardinality(Below(S, R, a)) \in Nat
           /\ Cardinality(Below(S, R, a)) < Cardinality(S)
<1>1. Below(S, R, a) \subseteq S \ {a}
  BY DEF Below, StrictOrder
<1>2. IsFiniteSet(S \ {a}) /\ Cardinality(S \ {a}) = Cardinality(S) - 1
  BY FS_RemoveElement
<1>3. IsFiniteSet(Below(S, R, a)) /\ Cardinality(Below(S, R, a)) <= Cardinality(S \ {a})
  BY <1>1, <1>2, FS_Subset
<1>4. Cardinality(Below(S, R, a)) \in Nat /\ Cardinality(S) \in Nat
  BY <1>3, FS_CardinalityType
<1> QED
  BY <1>2, <1>3, <1>4

LEMMA BelowGrows ==
    ASSUME NEW S, IsFiniteSet(S), NEW R, StrictOrder(S, R),
           NEW a \in S, NEW b \in S, <<a, b>> \in R
    PROVE  Cardinality(Below(S, R, a)) < Cardinality(Below(S, R, b))
<1>1. Below(S, R, a) \subseteq Below(S, R, b) \ {a} /\ a \in Below(S, R, b)
  BY DEF Below, StrictOrder
<1>2. /\ IsFiniteSet(Below(S, R, b) \ {a})
      /\ Cardinality(Below(S, R, b) \ {a}) = Cardinality(Below(S, R, b)) - 1
  BY <1>1, BelowTyped, FS_RemoveElement
<1>3. Cardinality(Below(S, R, a)) <= Cardinality(Below(S, R, b) \ {a})
  BY <1>1, <1>2, FS_Subset
<1>4. Cardinality(Below(S, R, a)) \in Nat /\ Cardinality(Below(S, R, b)) \in Nat
  BY BelowTyped
<1> QED
  BY <1>2, <1>3, <1>4

LEMMA SamePlace ==
    ASSUME NEW S, IsFiniteSet(S), NEW R, StrictOrder(S, R), NEW a \in S, NEW b \in S,
           Cardinality(Below(S, R, a)) = Cardinality(Below(S, R, b))
    PROVE  a = b
<1>1. Cardinality(Below(S, R, a)) \in Nat /\ Cardinality(Below(S, R, b)) \in Nat
  BY BelowTyped
<1>2. <<a, b>> \notin R /\ <<b, a>> \notin R
  BY <1>1, BelowGrows
<1> QED
  BY <1>2 DEF StrictOrder

\* Every place is taken.
LEMMA PlaceTaken ==
    ASSUME NEW S, IsFiniteSet(S), NEW R, StrictOrder(S, R), NEW i \in 1..Cardinality(S)
    PROVE  \E a \in S : Cardinality(Below(S, R, a)) = i - 1
<1> DEFINE below(a) == Cardinality(Below(S, R, a))
<1>n. PICK n \in Nat : n = Cardinality(S)
  BY FS_CardinalityType
<1>1. PICK place : place = [a \in S |-> below(a) + 1]
  OBVIOUS
<1>2. \A a \in S : below(a) \in Nat /\ below(a) < n
  BY <1>n, BelowTyped
<1>3. place \in [S -> 1..n]
  <2>1. \A a \in S : below(a) + 1 \in 1..n
    BY <1>n, <1>2
  <2> QED
    BY <1>1, <2>1
<1>4. place \in Injection(S, 1..n)
  <2>1. ASSUME NEW a \in S, NEW b \in S, place[a] = place[b] PROVE a = b
    <3>1. below(a) = below(b)
      BY <1>1, <1>2, <2>1
    <3> QED
      BY <3>1, SamePlace
  <2> QED
    BY <1>3, <2>1 DEF Injection, IsInjective
<1>5. IsFiniteSet(1..n) /\ Cardinality(1..n) = n
  BY <1>n, FS_Interval
<1>6. place \in Surjection(S, 1..n)
  BY <1>4, <1>5, <1>n, FS_Injection
<1>7. PICK a \in S : place[a] = i
  BY <1>6, <1>n DEF Surjection
<1> QED
  BY <1>1, <1>2, <1>7

LEMMA ByPlaceLists ==
    ASSUME NEW S, IsFiniteSet(S), NEW R, StrictOrder(S, R),
           NEW list \in [1..Cardinality(S) -> S],
           \A i \in 1..Cardinality(S) : Cardinality(Below(S, R, list[i])) = i - 1
    PROVE  Lists(list, S, R)
<1> DEFINE below(a) == Cardinality(Below(S, R, a))
<1>n. PICK n \in Nat : n = Cardinality(S)
  BY FS_CardinalityType
<1>1. ASSUME NEW i \in 1..n, NEW j \in 1..n, i < j PROVE <<list[i], list[j]>> \in R
  <2>1. /\ list[i] \in S /\ list[j] \in S
        /\ below(list[i]) = i - 1 /\ below(list[j]) = j - 1
    BY <1>n
  <2>2. list[i] # list[j] /\ ~(below(list[j]) < below(list[i]))
    BY <1>1, <2>1
  <2> QED
    BY <2>1, <2>2, BelowGrows DEF StrictOrder
<1>2. ASSUME NEW a \in S PROVE \E i \in 1..n : list[i] = a
  <2>1. below(a) \in Nat /\ below(a) < n
    BY <1>n, BelowTyped
  <2>2. PICK i \in 1..n : below(a) = i - 1
    BY <2>1
  <2>3. list[i] \in S /\ below(list[i]) = below(a)
    BY <1>n, <2>2
  <2> QED
    BY <2>3, SamePlace
<1> QED
  BY <1>n, <1>1, <1>2 DEF Lists

-----------------------------------------------------------------------------
(***************************************************************************)
(* Two lists cut, merged and cut again                                     *)
(***************************************************************************)
\* The elements of X once each, by what E says of them.
Enumerates(list, X, E) ==
    /\ list \in [1..Cardinality(X) -> X]
    /\ \A i, j \in 1..Cardinality(X) : i < j => list[i] # list[j] /\ E[list[i]] <= E[list[j]]
    /\ \A a \in X : \E i \in 1..Cardinality(X) : list[i] = a

Smaller(m, n) == IF m < n THEN m ELSE n

FirstOf(list, n) == { list[i] : i \in 1..n }
Distinct(list, n) == \A i, j \in 1..n : i < j => list[i] # list[j]
Rising(list, n, E) == \A i, j \in 1..n : i < j => E[list[i]] <= E[list[j]]

\* The first c of one are among the n of the other.
Holds(other, n, list, c) == \A k \in 1..c : \E j \in 1..n : other[j] = list[k]

LEMMA NumbersTo ==
    ASSUME NEW n \in Nat
    PROVE  IsFiniteSet(1..n) /\ Cardinality(1..n) = n
<1>1. Cardinality(1..n) = IF 1 > n THEN 0 ELSE n - 1 + 1
  BY FS_Interval
<1> QED
  BY <1>1, FS_Interval

\* The merged list holds the first elements of X, and more; what is left of X
\* outside its first places does not come sooner than what is in them.
LEMMA LeftOut ==
    ASSUME NEW T, NEW E \in [T -> Int], NEW X \in SUBSET T, IsFiniteSet(X),
           NEW list, Enumerates(list, X, E),
           NEW limit \in Nat, NEW n \in Nat, NEW merged \in [1..n -> T],
           Rising(merged, n, E), Holds(merged, n, list, Smaller(Cardinality(X), limit)),
           NEW y \in X, y \notin FirstOf(merged, Smaller(n, limit)),
           NEW i \in 1..Smaller(n, limit)
    PROVE  E[merged[i]] <= E[y]
<1>c. PICK c \in Nat : c = Cardinality(X)
  BY FS_CardinalityType
<1>1. PICK k \in 1..c : list[k] = y
  BY <1>c DEF Enumerates
<1>2. i \in 1..n /\ i <= limit /\ E[merged[i]] \in Int /\ E[y] \in Int
  <2>1. i \in 1..n /\ i <= limit
    BY DEF Smaller
  <2> QED
    BY <2>1
<1>3. CASE k <= limit
  <2>1. k \in 1..Smaller(Cardinality(X), limit)
    BY <1>1, <1>3, <1>c DEF Smaller
  <2>2. PICK j \in 1..n : merged[j] = y
    BY <1>1, <2>1 DEF Holds
  <2>3. j \notin 1..Smaller(n, limit)
    BY <2>2 DEF FirstOf
  <2>4. i < j
    BY <1>2, <2>2, <2>3 DEF Smaller
  <2> QED
    BY <1>2, <2>2, <2>4 DEF Rising
<1>4. CASE limit < k
  <2>1. SUFFICES ASSUME E[y] < E[merged[i]] PROVE FALSE
    BY <1>2
  <2>2. ASSUME NEW h \in 1..limit
        PROVE  \E j \in 1..(i - 1) : merged[j] = list[h]
    <3>1. h \in 1..Smaller(Cardinality(X), limit) /\ h \in 1..c /\ h < k
      BY <1>1, <1>4, <1>c DEF Smaller
    <3>2. PICK j \in 1..n : merged[j] = list[h]
      BY <3>1 DEF Holds
    <3>3. E[list[h]] <= E[y] /\ E[list[h]] \in Int
      BY <1>1, <1>c, <3>1 DEF Enumerates
    <3>4. ~(i < j) /\ i # j
      <4>1. ~(E[merged[i]] <= E[merged[j]])
        BY <1>2, <2>1, <3>2, <3>3
      <4>2. i \in 1..n /\ j \in 1..n
        BY <1>2, <3>2
      <4>3. i # j
        BY <1>2, <4>1
      <4> QED
        BY <4>1, <4>2, <4>3 DEF Rising
    <3>5. j \in 1..(i - 1)
      BY <1>2, <3>2, <3>4
    <3> QED
      BY <3>2, <3>5
  <2>3. PICK at : at = [h \in 1..limit |-> CHOOSE j \in 1..(i - 1) : merged[j] = list[h]]
    OBVIOUS
  <2>4. at \in [1..limit -> 1..(i - 1)] /\ \A h \in 1..limit : merged[at[h]] = list[h]
    <3>1. \A h \in 1..limit : at[h] \in 1..(i - 1) /\ merged[at[h]] = list[h]
      BY <2>2, <2>3
    <3> QED
      BY <2>3, <3>1
  <2>5. PICK m \in Nat : m = i - 1 /\ m < limit
    BY <1>2
  <2>6. /\ IsFiniteSet(1..limit) /\ Cardinality(1..limit) = limit
        /\ IsFiniteSet(1..m) /\ Cardinality(1..m) = m
    BY NumbersTo
  <2>a. PICK P, Q : P = 1..limit /\ Q = 1..m
    OBVIOUS
  <2>b. IsFiniteSet(P) /\ IsFiniteSet(Q) /\ Cardinality(Q) < Cardinality(P) /\ at \in [P -> Q]
    BY <2>4, <2>5, <2>6, <2>a
  <2>7. PICK g \in 1..limit, h \in 1..limit : g # h /\ at[g] = at[h]
    <3>1. \E g, h \in P : g # h /\ at[g] = at[h]
      BY <2>b, FS_PigeonHole
    <3> QED
      BY <2>a, <3>1
  <2>8. list[g] = list[h] /\ g \in 1..c /\ h \in 1..c
    <3>1. merged[at[g]] = list[g] /\ merged[at[h]] = list[h]
      BY <2>4
    <3>2. limit <= c
      BY <1>1, <1>4
    <3> QED
      BY <2>7, <3>1, <3>2
  <2>9. g < h \/ h < g
    BY <2>7
  <2> QED
    BY <1>c, <2>8, <2>9 DEF Enumerates
<1> QED
  BY <1>1, <1>2, <1>3, <1>4

\* What there is of a list of distinct elements up to the n-th.
LEMMA FirstCounted ==
    ASSUME NEW n \in Nat, NEW list, Distinct(list, n)
    PROVE  Cardinality(FirstOf(list, n)) = n
<1> DEFINE S == FirstOf(list, n)
<1>1. PICK f : f = [i \in 1..n |-> list[i]]
  OBVIOUS
<1>2. f \in [1..n -> S] /\ \A i \in 1..n : f[i] = list[i]
  BY <1>1 DEF FirstOf
<1>3. \A i, j \in 1..n : f[i] = f[j] => i = j
  <2> SUFFICES ASSUME NEW i \in 1..n, NEW j \in 1..n, f[i] = f[j], i # j PROVE FALSE
    OBVIOUS
  <2>1. i < j \/ j < i
    OBVIOUS
  <2> QED
    BY <1>2, <2>1 DEF Distinct
<1>4. f \in Bijection(1..n, S)
  BY <1>2, <1>3 DEF Bijection, Injection, IsInjective, Surjection, FirstOf
<1>5. ExistsBijection(1..n, S)
  BY <1>4 DEF ExistsBijection
<1> HIDE DEF S
<1>6. Cardinality(S) = n
  BY <1>5, FS_CountingElements
<1> QED
  BY <1>6 DEF S

LEMMA SecondPart ==
    ASSUME NEW l \in Nat, NEW s \in Nat, NEW j \in 1..(l + s)
    PROVE  j \in 1..l \/ \E k \in 1..s : j = l + k
<1>1. j <= l => j \in 1..l
  OBVIOUS
<1>2. l < j => j - l \in 1..s /\ j = l + (j - l)
  OBVIOUS
<1>3. j <= l \/ l < j
  OBVIOUS
<1> QED
  BY <1>1, <1>2, <1>3

LEMMA PartsWithin ==
    ASSUME NEW l \in Nat, NEW s \in Nat
    PROVE  /\ \A k \in 1..l : k \in 1..(l + s)
           /\ \A k \in 1..s : l + k \in 1..(l + s)
           /\ \A h \in 1..l, k \in 1..s : h < l + k
           /\ \A h, k \in 1..s : l + h < l + k => h < k
OBVIOUS

\* As many places as there are, with a different one at each.
LEMMA PlacedDistinct ==
    ASSUME NEW n \in Nat, NEW f, Distinct(f, n), NEW order \in [1..n -> 1..n], Distinct(order, n)
    PROVE  Distinct([i \in 1..n |-> f[order[i]]], n)
<1> SUFFICES ASSUME NEW i \in 1..n, NEW j \in 1..n, i < j PROVE f[order[i]] # f[order[j]]
  BY DEF Distinct
<1>1. PICK x \in 1..n, y \in 1..n : x = order[i] /\ y = order[j]
  OBVIOUS
<1>2. x # y
  BY <1>1 DEF Distinct
<1>3. x < y \/ y < x
  BY <1>2
<1> QED
  BY <1>1, <1>3 DEF Distinct

LEMMA CutsAgree ==
    ASSUME NEW a \in Nat, NEW b \in Nat, NEW limit \in Nat
    PROVE  /\ Smaller(a, limit) \in Nat /\ Smaller(a, limit) <= a /\ Smaller(a, limit) <= limit
           /\ Smaller(Smaller(a, limit) + Smaller(b, limit), limit) = Smaller(a + b, limit)
BY DEF Smaller

\* The first m of merged are of X, as many as they may be, and none of the rest
\* comes sooner.
Soonest(merged, m, X, E, limit) ==
    /\ FirstOf(merged, m) \subseteq X
    /\ Cardinality(FirstOf(merged, m)) = m
    /\ m = Smaller(Cardinality(X), limit)
    /\ \A x \in FirstOf(merged, m), y \in X \ FirstOf(merged, m) : E[x] <= E[y]

LEMMA MergedFirst ==
    ASSUME NEW A, NEW B, IsFiniteSet(A), IsFiniteSet(B), A \cap B = {},
           NEW T, T = A \cup B, NEW E, E \in [T -> Int], NEW limit \in Nat,
           NEW L, Enumerates(L, A, E), NEW S, Enumerates(S, B, E),
           NEW l \in Nat, l = Smaller(Cardinality(A), limit),
           NEW s \in Nat, s = Smaller(Cardinality(B), limit),
           NEW n \in Nat, n = l + s,
           NEW merged, merged \in [1..n -> T], Distinct(merged, n), Rising(merged, n, E),
           Holds(merged, n, L, l), Holds(merged, n, S, s),
           NEW m \in Nat, m = Smaller(n, limit)
    PROVE  Soonest(merged, m, T, E, limit)
<1>m. m <= n /\ 1..m \subseteq 1..n /\ m = Smaller(n, limit)
  BY DEF Smaller
<1>1. FirstOf(merged, m) \subseteq T
  BY <1>m DEF FirstOf
<1>2. Cardinality(FirstOf(merged, m)) = m
  <2>1. Distinct(merged, m)
    BY <1>m DEF Distinct
  <2> QED
    BY <2>1, FirstCounted
<1>3. m = Smaller(Cardinality(T), limit)
  <2>1. PICK a \in Nat, b \in Nat : a = Cardinality(A) /\ b = Cardinality(B)
    BY FS_CardinalityType
  <2>2. Cardinality(A \cup B) = Cardinality(A) + Cardinality(B) - Cardinality(A \cap B)
    BY FS_Union
  <2>3. Cardinality(A \cap B) = 0
    BY FS_EmptySet
  <2>4. Cardinality(A \cup B) = a + b
    BY <2>1, <2>2, <2>3
  <2>5. m = Smaller(Smaller(a, limit) + Smaller(b, limit), limit)
    BY <2>1
  <2> QED
    BY <2>4, <2>5, CutsAgree
<1>4. ASSUME NEW x \in FirstOf(merged, m), NEW y \in T \ FirstOf(merged, m)
      PROVE  E[x] <= E[y]
  <2>1. PICK i \in 1..m : x = merged[i]
    BY DEF FirstOf
  <2>2. /\ merged \in [1..n -> T] /\ E \in [T -> Int] /\ A \in SUBSET T /\ B \in SUBSET T
        /\ Rising(merged, n, E) /\ y \notin FirstOf(merged, Smaller(n, limit))
        /\ i \in 1..Smaller(n, limit)
    BY <1>m
  <2>3. CASE y \in A
    <3>1. Holds(merged, n, L, Smaller(Cardinality(A), limit))
      OBVIOUS
    <3>2. E[merged[i]] <= E[y]
      BY <2>2, <2>3, <3>1, LeftOut
    <3> QED
      BY <2>1, <3>2
  <2>4. CASE y \in B
    <3>1. Holds(merged, n, S, Smaller(Cardinality(B), limit))
      OBVIOUS
    <3>2. E[merged[i]] <= E[y]
      BY <2>2, <2>4, <3>1, LeftOut
    <3> QED
      BY <2>1, <3>2
  <2> QED
    BY <2>3, <2>4
<1> QED
  BY <1>1, <1>2, <1>3, <1>4 DEF Soonest

-----------------------------------------------------------------------------
(***************************************************************************)
(* The home feed                                                           *)
(***************************************************************************)
\* By K, and by K2 where K says nothing.
Lex(X, K, K2) == { p \in X \X X : K[p[1]] < K[p[2]] \/ (K[p[1]] = K[p[2]] /\ K2[p[1]] < K2[p[2]]) }

LEMMA LexOrders ==
    ASSUME NEW X, NEW K \in [X -> Int], NEW K2 \in [X -> Int],
           \A a, b \in X : K2[a] = K2[b] => a = b
    PROVE  StrictOrder(X, Lex(X, K, K2))
<1>1. \A a, b \in X : <<a, b>> \in Lex(X, K, K2) <=> K[a] < K[b] \/ (K[a] = K[b] /\ K2[a] < K2[b])
  BY DEF Lex
<1>2. \A a \in X : K[a] \in Int /\ K2[a] \in Int
  OBVIOUS
<1>3. \A a \in X : <<a, a>> \notin Lex(X, K, K2)
  BY <1>1, <1>2
<1>4. \A a, b \in X : a # b => <<a, b>> \in Lex(X, K, K2) \/ <<b, a>> \in Lex(X, K, K2)
  BY <1>1, <1>2
<1>5. \A a, b, c \in X :
        <<a, b>> \in Lex(X, K, K2) /\ <<b, c>> \in Lex(X, K, K2) => <<a, c>> \in Lex(X, K, K2)
  BY <1>1, <1>2
<1> QED
  BY <1>3, <1>4, <1>5 DEF StrictOrder

\* A list with, at each place, the element with as many before it.
LEMMA LexEnumerates ==
    ASSUME NEW X, IsFiniteSet(X), NEW K \in [X -> Int], NEW K2 \in [X -> Int],
           \A a, b \in X : K2[a] = K2[b] => a = b, NEW R, R = Lex(X, K, K2),
           NEW list \in [1..Cardinality(X) -> X],
           \A n \in 1..Cardinality(X) : Cardinality(Below(X, R, list[n])) = n - 1
    PROVE  Enumerates(list, X, K)
<1>1. StrictOrder(X, R)
  BY LexOrders
<1>4. Lists(list, X, R)
  BY <1>1, ByPlaceLists
<1>5. \A a, b \in X : <<a, b>> \in R => a # b /\ K[a] <= K[b]
  <2>1. \A a, b \in X : <<a, b>> \in R => K[a] < K[b] \/ (K[a] = K[b] /\ K2[a] < K2[b])
    BY DEF Lex
  <2>2. \A a \in X : K[a] \in Int /\ K2[a] \in Int
    OBVIOUS
  <2> QED
    BY <2>1, <2>2, SMTT(40)
<1>6. ASSUME NEW i \in 1..Cardinality(X), NEW j \in 1..Cardinality(X), i < j
      PROVE  list[i] # list[j] /\ K[list[i]] <= K[list[j]]
  <2>1. <<list[i], list[j]>> \in R /\ list[i] \in X /\ list[j] \in X
    BY <1>4, <1>6 DEF Lists
  <2> QED
    BY <1>5, <2>1
<1> QED
  BY <1>4, <1>6 DEF Lists, Enumerates

LEMMA ListFunction ==
    ASSUME NEW X, NEW D, NEW list, DOMAIN list = D, list = [n \in D |-> list[n]],
           \A n \in D : list[n] \in X
    PROVE  list \in [D -> X]
<1>1. [n \in D |-> list[n]] \in [D -> X]
  BY Zenon
<1> QED
  BY <1>1, Zenon

\* Sorted picks such a list, because at each place there is one to pick.
LEMMA SortedEnumerates ==
    ASSUME NEW X, IsFiniteSet(X), NEW K \in [X -> Int], NEW K2 \in [X -> Int],
           \A a, b \in X : K2[a] = K2[b] => a = b, NEW R, R = Lex(X, K, K2)
    PROVE  Sorted(X, R) \in [1..Cardinality(X) -> X] /\ Enumerates(Sorted(X, R), X, K)
<1>1. StrictOrder(X, R)
  BY LexOrders
<1>2. PICK list : list = Sorted(X, R)
  OBVIOUS
<1>3. list = [n \in 1..Cardinality(X) |-> CHOOSE a \in X : Cardinality(Below(X, R, a)) = n - 1]
  BY <1>2 DEF Sorted, Below
<1>4. ASSUME NEW n \in 1..Cardinality(X)
      PROVE  list[n] \in X /\ Cardinality(Below(X, R, list[n])) = n - 1
  <2>1. PICK x \in X : Cardinality(Below(X, R, x)) = n - 1
    BY <1>1, PlaceTaken
  <2>2. list[n] = CHOOSE a \in X : Cardinality(Below(X, R, a)) = n - 1
    BY <1>3
  <2> QED
    BY <2>1, <2>2, ZenonT(60)
<1>5. list \in [1..Cardinality(X) -> X]
  <2>1. DOMAIN list = 1..Cardinality(X) /\ list = [n \in 1..Cardinality(X) |-> list[n]]
    BY <1>3
  <2> QED
    BY <1>4, <2>1, ListFunction
<1>6. Enumerates(list, X, K)
  BY <1>4, <1>5, LexEnumerates
<1> QED
  BY <1>2, <1>5, <1>6

LEMMA RowNumbers ==
    ASSUME ListingsTypeOK
    PROVE  /\ DOMAIN rows = 1..Len(rows) /\ Len(rows) \in Nat
           /\ \A a \in DOMAIN rows : a \in Int /\ rows[a].end \in Int
<1>1. DOMAIN rows = 1..Len(rows) /\ Len(rows) \in Nat
  BY DEF ListingsTypeOK
<1>2. 0..Horizon \subseteq Int
  OBVIOUS
<1> QED
  BY <1>1, <1>2, RowTyped DEF AuctionRow

LEMMA SoonestFirst ==
    ASSUME ListingsTypeOK, NEW X \in SUBSET DOMAIN rows, NEW E, \A a \in X : E[a] = rows[a].end
    PROVE  Enumerates(Ordered(X, "end", "asc"), X, E)
<1>0. IsFiniteSet(X)
  BY RowsFinite
<1>1. PICK K, K2 : K = [a \in X |-> rows[a].end] /\ K2 = [a \in X |-> -a]
  OBVIOUS
<1>2. K \in [X -> Int] /\ K2 \in [X -> Int] /\ \A a, b \in X : K2[a] = K2[b] => a = b
  BY <1>1, RowNumbers
<1>3. PICK R : R = { p \in X \X X : \/ rows[p[1]].end < rows[p[2]].end
                                    \/ rows[p[1]].end = rows[p[2]].end /\ p[1] > p[2] }
  OBVIOUS
<1>4. Ordered(X, "end", "asc") = Sorted(X, R)
  BY <1>3 DEF Ordered
<1>5. R = Lex(X, K, K2)
  <2>1. \A a, b \in X : K2[a] < K2[b] <=> a > b
    BY <1>1, RowNumbers
  <2> QED
    BY <1>1, <1>3, <2>1 DEF Lex
<1>6. Sorted(X, R) \in [1..Cardinality(X) -> X] /\ Enumerates(Sorted(X, R), X, K)
  BY <1>0, <1>2, <1>5, SortedEnumerates
<1>7. \A a \in X : K[a] = E[a]
  BY <1>1
<1>8. PICK s : s = Sorted(X, R)
  OBVIOUS
<1>9. Enumerates(s, X, E)
  <2>1. s \in [1..Cardinality(X) -> X] /\ Enumerates(s, X, K)
    BY <1>6, <1>8
  <2>2. \A i \in 1..Cardinality(X) : E[s[i]] = K[s[i]]
    BY <1>7, <2>1
  <2> QED
    BY <2>1, <2>2 DEF Enumerates
<1> QED
  BY <1>4, <1>8, <1>9

\* The order in which the feed takes what is in the joined lists.
LEMMA MergeOrder ==
    ASSUME ListingsTypeOK, NEW n \in Nat, NEW both \in [1..n -> DOMAIN rows],
           NEW X, X = DOMAIN both, NEW R,
           R = { p \in X \X X : \/ rows[both[p[1]]].end < rows[both[p[2]]].end
                                \/ rows[both[p[1]]].end = rows[both[p[2]]].end /\ p[1] < p[2] }
    PROVE  Enumerates(Sorted(X, R), 1..n, [i \in 1..n |-> rows[both[i]].end])
<1>0. X = 1..n
  OBVIOUS
<1>1. IsFiniteSet(X)
  BY <1>0, NumbersTo
<1>2. PICK K, K2 : K = [i \in X |-> rows[both[i]].end] /\ K2 = [i \in X |-> i]
  OBVIOUS
<1>3. K \in [X -> Int] /\ K2 \in [X -> Int] /\ \A a, b \in X : K2[a] = K2[b] => a = b
  BY <1>0, <1>2, RowNumbers
<1>4. R = Lex(X, K, K2)
  BY <1>2 DEF Lex
<1>5. Enumerates(Sorted(X, R), X, K)
  BY <1>1, <1>3, <1>4, SortedEnumerates
<1> QED
  BY <1>0, <1>2, <1>5

LEMMA ListTyped ==
    ASSUME NEW T, NEW list \in Seq(T)
    PROVE  list \in [1..Len(list) -> T] /\ DOMAIN list = 1..Len(list)
OBVIOUS

\* p is the first n of the list.
Starts(p, n, list, T) ==
    /\ n \in Nat /\ p \in Seq(T) /\ Len(p) = n /\ p \in [1..n -> T] /\ DOMAIN p = 1..n
    /\ \A k \in 1..n : p[k] = list[k]

LEMMA FirstPage ==
    ASSUME NEW T, NEW list \in Seq(T), NEW limit \in Nat
    PROVE  Starts(Page(list, 1, limit), Smaller(Len(list), limit), list, T)
<1>1. PICK a \in Nat, c \in Nat : a = Len(list) /\ c = Smaller(a, limit) /\ c <= a
  BY DEF Smaller
<1>2. PICK p : p = Page(list, 1, limit)
  OBVIOUS
<1>3. p = SubSeq(list, 1, c)
  <2>1. (1 - 1) * limit = 0 /\ 0 + 1 = 1 /\ 0 + limit = limit
    OBVIOUS
  <2>2. p = SubSeq(list, 1, IF limit < Len(list) THEN limit ELSE Len(list))
    BY <1>2, <2>1 DEF Page
  <2>3. c = IF limit < Len(list) THEN limit ELSE Len(list)
    BY <1>1 DEF Smaller
  <2> QED
    BY <2>2, <2>3
<1>4. p \in Seq(T) /\ Len(p) = c /\ \A k \in 1..c : p[k] = list[k]
  BY <1>1, <1>3
<1>5. p \in [1..c -> T] /\ DOMAIN p = 1..c
  BY <1>4, ListTyped
<1> QED
  BY <1>1, <1>2, <1>4, <1>5 DEF Starts

\* The first l of LA, then the first s of SA, n in all.
Joins(both, n, LA, l, SA, s, T) ==
    /\ n \in Nat /\ n = l + s /\ both \in [1..n -> T]
    /\ \A k \in 1..l : both[k] = LA[k]
    /\ \A k \in 1..s : both[l + k] = SA[k]

Chained(both, L, S, T) ==
    /\ both \in Seq(T) /\ Len(both) = Len(L) + Len(S)
    /\ \A k \in 1..Len(L) : both[k] = L[k]
    /\ \A k \in 1..Len(S) : both[Len(L) + k] = S[k]

LEMMA Parts ==
    ASSUME NEW T, NEW L \in Seq(T), NEW S \in Seq(T)
    PROVE  Chained(L \o S, L, S, T)
<1>1. L \o S \in Seq(T) /\ Len(L \o S) = Len(L) + Len(S)
  OBVIOUS
<1>2. \A k \in 1..Len(L) : (L \o S)[k] = L[k]
  OBVIOUS
<1>3. \A k \in 1..Len(S) : (L \o S)[Len(L) + k] = S[k]
  OBVIOUS
<1> QED
  BY <1>1, <1>2, <1>3 DEF Chained

LEMMA Joined ==
    ASSUME NEW T, NEW A \in SUBSET T, NEW B \in SUBSET T,
           NEW L, NEW l, NEW LA, Starts(L, l, LA, A), NEW S, NEW s, NEW SA, Starts(S, s, SA, B)
    PROVE  Joins(L \o S, l + s, LA, l, SA, s, T)
<1>1. l \in Nat /\ s \in Nat /\ L \in Seq(T) /\ S \in Seq(T) /\ Len(L) = l /\ Len(S) = s
  BY DEF Starts
<1>2. PICK both : both = L \o S
  OBVIOUS
<1>3. /\ both \in Seq(T) /\ Len(both) = l + s
      /\ \A k \in 1..l : both[k] = L[k]
      /\ \A k \in 1..s : both[l + k] = S[k]
  <2>1. Chained(L \o S, L, S, T)
    BY <1>1, Parts, Zenon
  <2>2. Chained(both, L, S, T)
    BY <1>2, <2>1
  <2> QED
    BY <1>1, <2>2 DEF Chained
<1>4. both \in [1..(l + s) -> T]
  <2>1. both \in [1..Len(both) -> T]
    BY <1>3, ListTyped
  <2> QED
    BY <1>3, <2>1
<1>5. (\A k \in 1..l : L[k] = LA[k]) /\ (\A k \in 1..s : S[k] = SA[k])
  BY DEF Starts
<1>6. l + s \in Nat
  BY <1>1
<1> QED
  BY <1>1, <1>2, <1>3, <1>4, <1>5, <1>6 DEF Joins

\* Of two lists of what is apart nothing is there twice.
LEMMA JoinedDistinct ==
    ASSUME NEW T, NEW A, NEW B, A \cap B = {},
           NEW L, NEW l, NEW LA, Starts(L, l, LA, A), Distinct(L, l),
           NEW S, NEW s, NEW SA, Starts(S, s, SA, B), Distinct(S, s),
           NEW both, NEW n, Joins(both, n, LA, l, SA, s, T)
    PROVE  Distinct(both, n)
<1>1. l \in Nat /\ s \in Nat /\ n = l + s
  BY DEF Starts, Joins
<1>2. \A k \in 1..l : both[k] = L[k] /\ both[k] \in A
  BY DEF Starts, Joins
<1>3. \A k \in 1..s : both[l + k] = S[k] /\ both[l + k] \in B
  <2>1. \A k \in 1..s : both[l + k] = SA[k]
    BY DEF Joins
  <2>2. \A k \in 1..s : S[k] = SA[k] /\ S[k] \in B
    BY DEF Starts
  <2> QED
    BY <2>1, <2>2
<1> SUFFICES ASSUME NEW i \in 1..n, NEW j \in 1..n, i < j PROVE both[i] # both[j]
  BY DEF Distinct
<1>i. i \in 1..l \/ \E k \in 1..s : i = l + k
  BY <1>1, SecondPart
<1>j. j \in 1..l \/ \E k \in 1..s : j = l + k
  BY <1>1, SecondPart
<1>4. CASE i \in 1..l /\ j \in 1..l
  BY <1>2, <1>4 DEF Distinct
<1>5. ASSUME i \in 1..l, NEW k \in 1..s, j = l + k PROVE both[i] # both[j]
  <2>1. both[i] \in A /\ both[j] \in B
    BY <1>2, <1>3, <1>5
  <2> QED
    BY <2>1
<1>6. ASSUME NEW h \in 1..s, i = l + h, NEW k \in 1..s, j = l + k PROVE both[i] # both[j]
  <2>1. h < k
    BY <1>1, <1>6
  <2>2. S[h] # S[k]
    BY <2>1 DEF Distinct
  <2> QED
    BY <1>3, <1>6, <2>2
<1>7. ASSUME NEW h \in 1..s, i = l + h, j \in 1..l PROVE FALSE
  BY <1>1, <1>7
<1> QED
  BY <1>i, <1>j, <1>4, <1>5, <1>6, <1>7

LEMMA EndingSoonApart ==
    ASSUME ListingsTypeOK, NEW A, A = EndingSoon("LONG"), NEW B, B = EndingSoon("SEALED")
    PROVE  /\ A \subseteq DOMAIN rows /\ B \subseteq DOMAIN rows /\ A \cap B = {}
           /\ IsFiniteSet(A) /\ IsFiniteSet(B)
<1>1. A \subseteq DOMAIN rows /\ B \subseteq DOMAIN rows
  BY DEF EndingSoon
<1>2. A \cap B = {}
  <2>1. \A a \in A : rows[a].type = "LONG"
    BY DEF EndingSoon
  <2>2. \A b \in B : rows[b].type = "SEALED"
    BY DEF EndingSoon
  <2> QED
    BY <2>1, <2>2
<1>3. IsFiniteSet(A) /\ IsFiniteSet(B)
  BY <1>1, RowsFinite
<1> QED
  BY <1>1, <1>2, <1>3

FeedTakes(order, n, both, limit) ==
    /\ order \in [1..n -> 1..n]
    /\ Enumerates(order, 1..n, [i \in 1..n |-> rows[both[i]].end])
    /\ HomeFeed(limit) = Page([i \in 1..n |-> both[order[i]]], 1, limit)

\* What the feed is: the two lists, in the order of the ends, cut.
LEMMA FeedMerges ==
    ASSUME ListingsTypeOK, NEW limit \in Nat, NEW n \in Nat, NEW L, NEW S, NEW both,
           L = Page(Ordered(EndingSoon("LONG"), "end", "asc"), 1, limit),
           S = Page(Ordered(EndingSoon("SEALED"), "end", "asc"), 1, limit),
           both = L \o S, both \in [1..n -> DOMAIN rows]
    PROVE  \E order : FeedTakes(order, n, both, limit)
<1> DEFINE lists == Page(Ordered(EndingSoon("LONG"), "end", "asc"), 1, limit)
                       \o Page(Ordered(EndingSoon("SEALED"), "end", "asc"), 1, limit)
           before == { p \in (DOMAIN lists) \X (DOMAIN lists) :
                         \/ rows[lists[p[1]]].end < rows[lists[p[2]]].end
                         \/ rows[lists[p[1]]].end = rows[lists[p[2]]].end /\ p[1] < p[2] }
           order == Sorted(DOMAIN lists, before)
<1>1. HomeFeed(limit) = Page([i \in DOMAIN order |-> lists[order[i]]], 1, limit)
  BY DEF HomeFeed
<1>2. lists = both
  OBVIOUS
<1> HIDE DEF lists
<1>4. Enumerates(order, 1..n, [i \in 1..n |-> rows[lists[i]].end])
  <2>1. lists \in [1..n -> DOMAIN rows]
    BY <1>2
  <2> QED
    BY <2>1, MergeOrder
<1> HIDE DEF order
<1>5. order \in [1..n -> 1..n] /\ DOMAIN order = 1..n
  <2>1. Cardinality(1..n) = n
    BY NumbersTo
  <2> QED
    BY <1>4, <2>1 DEF Enumerates
<1>6. HomeFeed(limit) = Page([i \in 1..n |-> both[order[i]]], 1, limit)
  BY <1>1, <1>2, <1>5
<1>7. Enumerates(order, 1..n, [i \in 1..n |-> rows[both[i]].end])
  BY <1>2, <1>4
<1>8. FeedTakes(order, n, both, limit)
  BY <1>5, <1>6, <1>7 DEF FeedTakes
<1> QED
  BY <1>8

Reads(K, n, both, E) == \A i \in 1..n : K[i] = E[both[i]]
Takes(merged, n, both, order) == merged = [i \in 1..n |-> both[order[i]]]

\* The merged list goes up, has nothing twice, and holds both lists.
Merges(merged, both, n, E, T) ==
    /\ merged \in [1..n -> T] /\ Distinct(merged, n) /\ Rising(merged, n, E)
    /\ \A k \in 1..n : \E j \in 1..n : merged[j] = both[k]

LEMMA MergedList ==
    ASSUME NEW T, NEW E, \A a \in T : E[a] \in Int, NEW n \in Nat,
           NEW both, both \in [1..n -> T], Distinct(both, n),
           NEW order, order \in [1..n -> 1..n],
           NEW K, Reads(K, n, both, E), Enumerates(order, 1..n, K),
           NEW merged, Takes(merged, n, both, order)
    PROVE  Merges(merged, both, n, E, T)
<1>0. /\ merged = [i \in 1..n |-> both[order[i]]]
      /\ \A i \in 1..n : K[i] = E[both[i]]
  BY DEF Reads, Takes
<1>1. merged \in [1..n -> T]
  <2>1. \A i \in 1..n : both[order[i]] \in T
    OBVIOUS
  <2> QED
    BY <1>0, <2>1
<1>2. Cardinality(1..n) = n
  BY NumbersTo
<1>4. /\ \A i, j \in 1..n : i < j => order[i] # order[j] /\ K[order[i]] <= K[order[j]]
      /\ \A k \in 1..n : \E j \in 1..n : order[j] = k
  BY <1>2 DEF Enumerates
<1>5. Distinct(merged, n)
  <2>1. Distinct(order, n)
    BY <1>4 DEF Distinct
  <2> QED
    BY <1>0, <2>1, PlacedDistinct
<1>6. Rising(merged, n, E)
  <2>1. \A i \in 1..n : K[order[i]] = E[merged[i]]
    BY <1>0
  <2> QED
    BY <1>4, <2>1 DEF Rising
<1>7. \A k \in 1..n : \E j \in 1..n : merged[j] = both[k]
  BY <1>0, <1>4
<1> QED
  BY <1>0, <1>1, <1>5, <1>6, <1>7 DEF Merges

LEMMA JoinedHeld ==
    ASSUME NEW T, NEW LA, NEW l \in Nat, NEW SA, NEW s \in Nat,
           NEW both, NEW n, Joins(both, n, LA, l, SA, s, T),
           NEW E, NEW merged, Merges(merged, both, n, E, T)
    PROVE  Holds(merged, n, LA, l) /\ Holds(merged, n, SA, s)
<1>0. n = l + s
  BY DEF Joins
<1>m. \A k \in 1..n : \E j \in 1..n : merged[j] = both[k]
  BY DEF Merges
<1>1. ASSUME NEW k \in 1..l PROVE \E j \in 1..n : merged[j] = LA[k]
  <2>1. k \in 1..n /\ both[k] = LA[k]
    BY <1>0, PartsWithin DEF Joins
  <2> QED
    BY <1>m, <2>1
<1>2. ASSUME NEW k \in 1..s PROVE \E j \in 1..n : merged[j] = SA[k]
  <2>1. l + k \in 1..n /\ both[l + k] = SA[k]
    BY <1>0, PartsWithin DEF Joins
  <2> QED
    BY <1>m, <2>1
<1> QED
  BY <1>1, <1>2 DEF Holds

\* The first of what is enumerated.
LEMMA FirstCut ==
    ASSUME NEW X, IsFiniteSet(X), NEW E, NEW list, Enumerates(list, X, E), NEW limit \in Nat
    PROVE  /\ Starts(Page(list, 1, limit), Smaller(Cardinality(X), limit), list, X)
           /\ Distinct(Page(list, 1, limit), Smaller(Cardinality(X), limit))
<1>1. PICK c \in Nat : c = Cardinality(X)
  BY FS_CardinalityType
<1>2. PICK l \in Nat : l = Smaller(c, limit) /\ l <= c
  BY CutsAgree
<1>3. list \in [1..c -> X]
  BY <1>1 DEF Enumerates
<1>4. list \in Seq(X) /\ Len(list) = c
  BY <1>3
<1>5. Starts(Page(list, 1, limit), l, list, X)
  BY <1>2, <1>4, FirstPage
<1>6. Distinct(Page(list, 1, limit), l)
  <2>1. \A i \in 1..l : i \in 1..c
    BY <1>2
  <2>2. \A i, j \in 1..c : i < j => list[i] # list[j]
    BY <1>1 DEF Enumerates
  <2>3. \A i \in 1..l : Page(list, 1, limit)[i] = list[i]
    BY <1>5 DEF Starts
  <2> QED
    BY <2>1, <2>2, <2>3 DEF Distinct
<1> QED
  BY <1>1, <1>2, <1>5, <1>6

ShowsSoonest(feed, chosen, all, limit) ==
    /\ chosen \subseteq all
    /\ Cardinality(chosen) = Len(feed)
    /\ Len(feed) = Smaller(Cardinality(all), limit)
    /\ \A a \in chosen, b \in all \ chosen : rows[a].end <= rows[b].end
    /\ \A i, j \in DOMAIN feed : i < j => rows[feed[i]].end <= rows[feed[j]].end

LEMMA FeedIs ==
    ASSUME ListingsTypeOK, NEW limit \in Nat, NEW all, NEW feed, NEW chosen,
           all = EndingSoon("LONG") \cup EndingSoon("SEALED"),
           feed = HomeFeed(limit), chosen = { feed[i] : i \in DOMAIN feed }
    PROVE  ShowsSoonest(feed, chosen, all, limit)
<1>1. PICK A, B : A = EndingSoon("LONG") /\ B = EndingSoon("SEALED")
  OBVIOUS
<1>2. /\ A \subseteq DOMAIN rows /\ B \subseteq DOMAIN rows /\ A \cap B = {}
      /\ IsFiniteSet(A) /\ IsFiniteSet(B)
  BY <1>1, EndingSoonApart
<1>t. PICK T : T = A \cup B
  OBVIOUS
<1>3. PICK E : E = [a \in T |-> rows[a].end]
  OBVIOUS
<1>4. /\ E \in [T -> Int] /\ T \subseteq DOMAIN rows /\ T = all /\ A \subseteq T /\ B \subseteq T
      /\ \A a \in T : E[a] = rows[a].end
  <2>1. T \subseteq DOMAIN rows
    BY <1>2, <1>t
  <2>2. \A a \in T : rows[a].end \in Int
    BY <2>1, RowNumbers
  <2> QED
    BY <1>1, <1>3, <1>t, <2>1, <2>2
<1>5. PICK LA, SA : LA = Ordered(A, "end", "asc") /\ SA = Ordered(B, "end", "asc")
  OBVIOUS
<1>6. Enumerates(LA, A, E) /\ Enumerates(SA, B, E)
  <2>1. A \in SUBSET DOMAIN rows /\ \A a \in A : E[a] = rows[a].end
    BY <1>2, <1>4
  <2>2. B \in SUBSET DOMAIN rows /\ \A b \in B : E[b] = rows[b].end
    BY <1>2, <1>4
  <2>3. Enumerates(LA, A, E)
    BY <1>5, <2>1, SoonestFirst
  <2>4. Enumerates(SA, B, E)
    BY <1>5, <2>2, SoonestFirst
  <2> QED
    BY <2>3, <2>4
<1>7. PICK l, s : l = Smaller(Cardinality(A), limit) /\ s = Smaller(Cardinality(B), limit)
  OBVIOUS
<1>8. PICK L, S : L = Page(LA, 1, limit) /\ S = Page(SA, 1, limit)
  OBVIOUS
<1>9. Starts(L, l, LA, A) /\ Distinct(L, l) /\ Starts(S, s, SA, B) /\ Distinct(S, s)
  BY <1>2, <1>6, <1>7, <1>8, FirstCut, Zenon
<1>10. l \in Nat /\ s \in Nat
  BY <1>9 DEF Starts
<1>11. PICK both, n : both = L \o S /\ n = l + s
  OBVIOUS
<1>12. Joins(both, n, LA, l, SA, s, T)
  <2>1. A \in SUBSET T /\ B \in SUBSET T
    BY <1>4
  <2>2. Joins(L \o S, l + s, LA, l, SA, s, T)
    BY <1>9, <2>1, Joined, Zenon
  <2> QED
    BY <1>11, <2>2
<1>13. n \in Nat /\ both \in [1..n -> T]
  BY <1>12 DEF Joins
<1>14. Distinct(both, n)
  BY <1>2, <1>9, <1>12, JoinedDistinct, Zenon
<1>15. PICK order : FeedTakes(order, n, both, limit)
  <2>1. both \in [1..n -> DOMAIN rows]
    BY <1>4, <1>13
  <2>2. /\ L = Page(Ordered(EndingSoon("LONG"), "end", "asc"), 1, limit)
        /\ S = Page(Ordered(EndingSoon("SEALED"), "end", "asc"), 1, limit)
    BY <1>1, <1>5, <1>8
  <2>3. both = L \o S
    BY <1>11
  <2> QED
    BY <1>13, <2>1, <2>2, <2>3, FeedMerges, Zenon
<1>16. PICK merged : merged = [i \in 1..n |-> both[order[i]]]
  OBVIOUS
<1>17. Merges(merged, both, n, E, T)
  <2>1. PICK K : K = [i \in 1..n |-> rows[both[i]].end]
    OBVIOUS
  <2>2. Reads(K, n, both, E)
    BY <1>4, <1>13, <2>1 DEF Reads
  <2>3. Enumerates(order, 1..n, K)
    BY <1>15, <2>1 DEF FeedTakes
  <2>4. \A a \in T : E[a] \in Int
    BY <1>4
  <2>5. order \in [1..n -> 1..n] /\ Takes(merged, n, both, order)
    BY <1>15, <1>16 DEF FeedTakes, Takes
  <2> QED
    BY <1>13, <1>14, <2>2, <2>3, <2>4, <2>5, MergedList, Zenon
<1>18. merged \in [1..n -> T] /\ Distinct(merged, n) /\ Rising(merged, n, E)
  BY <1>17 DEF Merges
<1>19. Holds(merged, n, LA, l) /\ Holds(merged, n, SA, s)
  BY <1>10, <1>12, <1>17, JoinedHeld, Zenon
<1>20. PICK m \in Nat : m = Smaller(n, limit) /\ m <= n
  BY <1>13, CutsAgree
<1>21. Soonest(merged, m, T, E, limit)
  <2>1. E \in [T -> Int] /\ n = l + s /\ m = Smaller(n, limit)
    BY <1>4, <1>11, <1>20
  <2> QED
    BY <1>2, <1>6, <1>7, <1>10, <1>13, <1>18, <1>19, <1>t, <2>1, MergedFirst
<1>22. /\ Len(feed) = m /\ DOMAIN feed = 1..m
       /\ \A k \in 1..m : feed[k] = merged[k]
  <2>1. feed = Page(merged, 1, limit)
    BY <1>15, <1>16 DEF FeedTakes
  <2>2. merged \in Seq(T) /\ Len(merged) = n
    BY <1>13, <1>18
  <2>3. Starts(feed, m, merged, T)
    BY <1>20, <2>1, <2>2, FirstPage
  <2> QED
    BY <2>3 DEF Starts
<1>23. chosen = FirstOf(merged, m)
  BY <1>22 DEF FirstOf
<1>24. \A i, j \in DOMAIN feed : i < j => rows[feed[i]].end <= rows[feed[j]].end
  <2>1. \A i \in 1..m : i \in 1..n
    BY <1>13, <1>20
  <2>2. \A i \in 1..m : merged[i] \in T
    BY <1>18, <2>1
  <2>3. \A i \in 1..m : rows[merged[i]].end = E[merged[i]]
    BY <1>4, <2>2
  <2>4. \A i, j \in 1..m : i < j => E[merged[i]] <= E[merged[j]]
    BY <1>18, <2>1 DEF Rising
  <2> QED
    BY <1>22, <2>3, <2>4
<1>25. \A a \in chosen, b \in all \ chosen : rows[a].end <= rows[b].end
  <2>1. chosen \subseteq T /\ \A x \in chosen, y \in T \ chosen : E[x] <= E[y]
    BY <1>21, <1>23 DEF Soonest
  <2>2. \A x \in chosen : E[x] = rows[x].end
    BY <1>4, <2>1
  <2>3. \A y \in T \ chosen : E[y] = rows[y].end
    BY <1>4
  <2> QED
    BY <1>4, <2>1, <2>2, <2>3
<1>26. /\ chosen \subseteq all /\ Cardinality(chosen) = Len(feed)
       /\ Len(feed) = Smaller(Cardinality(all), limit)
  BY <1>4, <1>21, <1>22, <1>23 DEF Soonest
<1> QED
  BY <1>24, <1>25, <1>26 DEF ShowsSoonest

\* However many auctions there are and however many the feed may hold, cutting
\* each list before merging them leaves out nothing that ends sooner.
THEOREM FeedIsSoonest == ListingsSpec => []FeedSoonest
<1>1. ASSUME ListingsTypeOK PROVE FeedSoonest
  <2> SUFFICES ASSUME NEW limit \in 1..MaxRows, NEW all, NEW feed, NEW chosen,
                      all = EndingSoon("LONG") \cup EndingSoon("SEALED"),
                      feed = HomeFeed(limit), chosen = { feed[i] : i \in DOMAIN feed }
               PROVE  /\ chosen \subseteq all
                      /\ Cardinality(chosen) = Len(feed)
                      /\ Len(feed) = IF Cardinality(all) < limit THEN Cardinality(all) ELSE limit
                      /\ \A a \in chosen, b \in all \ chosen : rows[a].end <= rows[b].end
                      /\ \A i, j \in DOMAIN feed : i < j => rows[feed[i]].end <= rows[feed[j]].end
    BY Zenon DEF FeedSoonest
  <2>1. limit \in Nat
    OBVIOUS
  <2>2. ShowsSoonest(feed, chosen, all, limit)
    BY <1>1, <2>1, FeedIs, Zenon
  <2> QED
    BY <2>2 DEF Smaller, ShowsSoonest
<1>2. ListingsTypeOK /\ RowsOK => FeedSoonest
  BY <1>1
<1> QED
  BY RowsInit, RowsStep, <1>2, PTL DEF ListingsSpec
=============================================================================
