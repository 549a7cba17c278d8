---------------------------- MODULE AuctionRoom ----------------------------
(***************************************************************************)
(* The auction room: bidding (module Bidding) together with what the       *)
(* seller and the admins do to the same auction row meanwhile, pausing,    *)
(* resuming, ending and failing it.  None of these use cases takes the bid *)
(* lock; each reads the row, decides, and later writes the whole row back. *)
(*                                                                         *)
(* Overdue auctions are not ended by the server itself: the cron job calls *)
(* ExpireOverdueAuctionsUsecase.execute detached from its object and fails *)
(* before it reads anything, so its firing changes no state.               *)
(***************************************************************************)
EXTENDS Bidding

CONSTANT Controls       \* calls of the control use cases that may be made

VARIABLES
    ctl,                \* the control calls: where each stands, what it read
    winnerRows          \* the auction_winner table: user and amount, rank 1

roomVars == <<vars, ctl, winnerRows>>

Control == [pc : {"idle", "winner", "record", "save", "done"},
            row : Row, win : Bid \cup {NoBid}]

ControlBlank(pc) == [pc |-> pc, row |-> Published, win |-> NoBid]

WinnerRow == [user : Users, amount : Nat]

RoomTypeOK ==
    /\ TypeOK
    /\ ctl \in [Controls -> Control]
    /\ winnerRows \subseteq WinnerRow

RoomInit ==
    /\ Init
    /\ ctl = [c \in Controls |-> ControlBlank("idle")]
    /\ winnerRows = {}

-----------------------------------------------------------------------------
\* A control call has read the row and will save row in its place.
WillSave(c, row) ==
    /\ ctl' = [ctl EXCEPT ![c] = [@ EXCEPT !.pc = "save", !.row = row]]
    /\ UNCHANGED <<vars, winnerRows>>

\* Faulty variants: pausing whatever the status; forgetting the extensions.
PauseAuction_AnyStatus(c) ==
    /\ ctl[c].pc = "idle"
    /\ WillSave(c, [auction EXCEPT !.status = "PAUSED", !.winAmount = 0])

\* Neither pausing nor resuming copies winAmount.
PauseAuction(c) ==
    /\ ctl[c].pc = "idle"
    /\ auction.status = "ACTIVE"
    /\ WillSave(c, [auction EXCEPT !.status = "PAUSED", !.winAmount = 0])

ResumeAuction(c) ==
    /\ ctl[c].pc = "idle"
    /\ auction.status = "PAUSED"
    /\ WillSave(c, [auction EXCEPT !.status = "ACTIVE", !.winAmount = 0])

FailAuction(c) ==
    /\ ctl[c].pc = "idle"
    /\ CanSetStatus(auction, "FAILED")
    /\ WillSave(c, [auction EXCEPT !.status = "FAILED"])

\* endAuction reads the row ...
EndAuction(c) ==
    /\ ctl[c].pc = "idle"
    /\ auction.status \in {"ACTIVE", "PAUSED"}
    /\ ctl' = [ctl EXCEPT ![c] = [@ EXCEPT !.pc = "winner", !.row = auction]]
    /\ UNCHANGED <<vars, winnerRows>>

\* ... then the bids; without a winner it returns and the auction goes on ...
EndPickWinner(c) ==
    /\ ctl[c].pc = "winner"
    /\ \/ /\ Winners(bids) = {}
          /\ ctl' = [ctl EXCEPT ![c] = ControlBlank("done")]
       \/ \E b \in Winners(bids) :
             ctl' = [ctl EXCEPT ![c] = [@ EXCEPT !.pc = "record", !.win = b]]
    /\ UNCHANGED <<vars, winnerRows>>

\* Faulty variant: the refused row is not noticed.
EndRecordWinner_Ignored(c) ==
    /\ ctl[c].pc = "record"
    /\ LET win == ctl[c].win
       IN  /\ winnerRows' = IF \E w \in winnerRows : w.user = win.user THEN winnerRows
                            ELSE winnerRows \cup {[user |-> win.user, amount |-> win.amount]}
           /\ ctl' = [ctl EXCEPT ![c] =
                        [@ EXCEPT !.pc = "save",
                                  !.row = [ctl[c].row EXCEPT !.status = "ENDED",
                                              !.winner = win.user,
                                              !.winAmount = win.amount]]]
    /\ UNCHANGED vars

\* ... then stores the winner: (auctionId, userId) is unique, so a second
\* row for the same user is refused and the call ends there ...
EndRecordWinner(c) ==
    /\ ctl[c].pc = "record"
    /\ LET win == ctl[c].win
       IN  IF \E w \in winnerRows : w.user = win.user
           THEN /\ ctl' = [ctl EXCEPT ![c] = ControlBlank("done")]
                /\ UNCHANGED winnerRows
           ELSE /\ winnerRows' = winnerRows \cup {[user |-> win.user, amount |-> win.amount]}
                /\ ctl' = [ctl EXCEPT ![c] =
                             [@ EXCEPT !.pc = "save",
                                       !.row = [ctl[c].row EXCEPT !.status = "ENDED",
                                                   !.winner = win.user,
                                                   !.winAmount = win.amount]]]
    /\ UNCHANGED vars

\* ... and saves the row, as the other control calls do.
SaveAuction(c) ==
    /\ ctl[c].pc = "save"
    /\ auction' = ctl[c].row
    /\ ctl' = [ctl EXCEPT ![c] = ControlBlank("done")]
    /\ UNCHANGED <<now, bids, participants, configs, cfgOp, lock, req, lapsed, winnerRows>>

\* A query or a save of the call fails and the call returns.
ControlError(c) ==
    /\ ctl[c].pc \in {"winner", "record", "save"}
    /\ ctl' = [ctl EXCEPT ![c] = ControlBlank("done")]
    /\ UNCHANGED <<vars, winnerRows>>

ControlStep(c) ==
    \/ PauseAuction(c) \/ ResumeAuction(c) \/ FailAuction(c) \/ EndAuction(c)
    \/ EndPickWinner(c) \/ EndRecordWinner(c) \/ SaveAuction(c)

\* The server stops: every call in flight is gone.
RoomCrash ==
    /\ Crash
    /\ ctl' = [c \in Controls |->
                 IF ctl[c].pc = "idle" THEN ctl[c] ELSE ControlBlank("done")]
    /\ UNCHANGED winnerRows

RoomNext ==
    \/ Work /\ UNCHANGED <<ctl, winnerRows>>
    \/ \E c \in Controls : ControlStep(c) \/ ControlError(c)
    \/ RoomCrash

RoomSpec == RoomInit /\ [][RoomNext]_roomVars

-----------------------------------------------------------------------------
(***************************************************************************)
(* Properties                                                              *)
(***************************************************************************)
\* A row that names a winner names one that was recorded before, with the
\* amount recorded, and that is the user's bid: whichever copies of the row
\* were saved over each other, and wherever the server died.
WinnerRecorded ==
    auction.winner # NoUser =>
        /\ [user |-> auction.winner, amount |-> auction.winAmount] \in winnerRows
        /\ \E i \in DOMAIN bids : /\ bids[i].user = auction.winner
                                  /\ bids[i].amount = auction.winAmount

\* A row names a winner exactly while it is ENDED: reopening an auction, by
\* resuming it or by a late extension, forgets the winner altogether.
WinnerOnlyWhenEnded == auction.winner # NoUser <=> auction.status = "ENDED"
=============================================================================
