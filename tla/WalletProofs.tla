---------------------------- MODULE WalletProofs ----------------------------
(***************************************************************************)
(* Theorems about module Wallet, for any number of users, calls, amounts   *)
(* and deliveries of the end job.                                          *)
(***************************************************************************)
EXTENDS Wallet, TLAPS

USE DEF walletVars, settingVars, SameRows, SameJob

-----------------------------------------------------------------------------
(***************************************************************************)
(* Type correctness                                                        *)
(***************************************************************************)
\* A call that is over is a well-typed call.
LEMMA RestType ==
    ASSUME NEW pc \in {"idle", "open", "setting", "done"} PROVE Rest(pc) \in Call
  BY DEF Rest, Call, Ops, Balance, Empty

\* What a call makes of the row it read is a row again.
LEMMA ChangedType ==
    ASSUME NEW c \in Actors, call[c] \in Call PROVE Changed(c) \in Balance
<1>1. /\ call[c].copy \in Balance /\ call[c].copy.main \in Int /\ call[c].copy.held \in Int
      /\ call[c].amount \in Int
  BY DEF Call, Balance
<1> DEFINE b == call[c].copy
           a == call[c].amount
<1>2. /\ [b EXCEPT !.main = b.main + a] \in Balance
      /\ [b EXCEPT !.main = b.main - a] \in Balance
      /\ [main |-> b.main - a, held |-> b.held + a] \in Balance
      /\ [main |-> b.main + a, held |-> b.held - a] \in Balance
  BY <1>1 DEF Balance
<1> QED
  BY <1>1, <1>2, Zenon DEF Changed

\* What each actor knows while it works: whose row, which deposit; the end
\* worker only releases and the calls never do.
Sound(c, r) ==
    /\ r.pc \in {"open", "hold", "record", "save", "enrol"} => r.user \in Users
    /\ r.pc = "fill" => r.amount \in Deposits
    /\ c # Job => /\ r.op # "release" /\ r.pc # "read"
                  /\ r.pc \in {"setting", "fill"} => r.user \in Users /\ r.op = "join"
    /\ c = Job => /\ r.pc \in {"idle", "setting", "fill", "read", "save", "done"}
                  /\ r.pc \notin {"idle", "done"} => r.op = "release"
                  /\ r.pc # "save" => r.user = NoUser

\* The money an actor is about to take is in its copy of the main balance.
Covered(r) ==
    /\ r.copy.main >= 0
    /\ r.pc \in {"record", "save"} /\ r.op \in {"debit", "join"} => r.copy.main >= r.amount

CallInv == \A c \in Actors : Sound(c, call[c]) /\ Covered(call[c])

\* The fields of a call that moves on, that is over, or that is set anew.
LEMMA GotoFields ==
    ASSUME WalletTypeOK, NEW c \in Actors, NEW pc, Goto(c, pc)
    PROVE  /\ call'[c].pc = pc
           /\ call'[c].op = call[c].op /\ call'[c].user = call[c].user
           /\ call'[c].amount = call[c].amount /\ call'[c].copy = call[c].copy
           /\ \A d \in Actors \ {c} : call'[d] = call[d]
<1>1. call[c] \in Call
  BY DEF WalletTypeOK
<1> QED
  BY <1>1 DEF Goto, WalletTypeOK, Call

LEMMA RestFields ==
    ASSUME NEW pc
    PROVE  /\ Rest(pc).pc = pc /\ Rest(pc).op = "none" /\ Rest(pc).user = NoUser
           /\ Rest(pc).amount = 0 /\ Rest(pc).copy = Empty /\ Empty.main = 0 /\ Empty.held = 0
  BY DEF Rest, Empty

LEMMA Replaced ==
    ASSUME WalletTypeOK, NEW c \in Actors, NEW r, call' = [call EXCEPT ![c] = r]
    PROVE  call'[c] = r /\ \A d \in Actors \ {c} : call'[d] = call[d]
  BY DEF WalletTypeOK

LEMMA InitWalletType == WalletInit => WalletTypeOK
<1> SUFFICES ASSUME WalletInit PROVE WalletTypeOK
  OBVIOUS
<1>1. Empty \in Balance /\ Rest("idle") \in Call
  BY RestType DEF Balance, Empty
<1>2. wallet \in [Users -> Balance] /\ call \in [Actors -> Call]
  BY <1>1 DEF WalletInit
<1>3. editing \in BOOLEAN /\ edited \in BOOLEAN
  BY Zenon DEF WalletInit
<1> QED
  BY <1>2, <1>3, WalletAssumption DEF WalletInit, WalletTypeOK

LEMMA NextWalletType == WalletTypeOK /\ CallInv /\ [WalletNext]_walletVars => WalletTypeOK'
<1> SUFFICES ASSUME WalletTypeOK, CallInv, [WalletNext]_walletVars PROVE WalletTypeOK'
  OBVIOUS
<1> USE WalletAssumption
<1>0. /\ \A c \in Calls : c \in Actors
      /\ Job \in Actors
      /\ \A c \in Actors : call[c] \in Call /\ Sound(c, call[c])
      /\ \A pc \in {"idle", "open", "setting", "done"} : Rest(pc) \in Call
  BY RestType DEF Actors, WalletTypeOK, CallInv
<1>1. ASSUME NEW c \in Calls, NEW u \in Users, OpenWallet(c, u) PROVE WalletTypeOK'
  <2>1. [Rest("open") EXCEPT !.op = "open", !.user = u] \in Call
    BY <1>0 DEF Call, Ops
  <2> QED
    BY <1>0, <1>1, <2>1 DEF OpenWallet, WalletTypeOK
<1>2. ASSUME NEW c \in Calls, CreateWallet(c) PROVE WalletTypeOK'
  BY <1>0, <1>2 DEF CreateWallet, Finish, WalletTypeOK, Sound
<1>3. ASSUME NEW c \in Calls, NEW op \in Ops, NEW u \in Users, NEW a \in Nat,
             NEW pc \in {"record", "hold", "setting"}, ReadWallet(c, op, u, a, pc)
      PROVE  WalletTypeOK'
  <2>1. [pc |-> pc, op |-> op, user |-> u, amount |-> a, copy |-> wallet[u]] \in Call
    BY DEF Call, WalletTypeOK
  <2> QED
    BY <1>0, <1>3, <2>1 DEF ReadWallet, WalletTypeOK
<1>4. ASSUME NEW c \in Actors, ReadSetting(c) PROVE WalletTypeOK'
  <2>1. ASSUME NEW pc \in {"fill", "read", "hold"}, NEW a \in Nat
        PROVE  [call[c] EXCEPT !.amount = a, !.pc = pc] \in Call
    BY <1>0 DEF Call
  <2>2. PICK a \in Nat : a = IF cache # 0 THEN cache ELSE setting
    BY DEF WalletTypeOK
  <2>3. PICK pc \in {"fill", "read", "hold"} :
          pc = IF cache = 0 THEN "fill" ELSE IF c = Job THEN "read" ELSE "hold"
    OBVIOUS
  <2>4. call' = [call EXCEPT ![c].amount = a, ![c].pc = pc]
    BY <1>4, <2>2, <2>3, Zenon DEF ReadSetting
  <2>5. call' \in [Actors -> Call]
    BY <2>1, <2>4 DEF WalletTypeOK
  <2> QED
    BY <1>4, <2>5 DEF ReadSetting, WalletTypeOK
<1>5. ASSUME NEW c \in Actors, FillCache(c) PROVE WalletTypeOK'
  <2>1. ASSUME NEW pc \in {"read", "hold"} PROVE [call[c] EXCEPT !.pc = pc] \in Call
    BY <1>0 DEF Call
  <2>2. call' \in [Actors -> Call]
    BY <1>5, <2>1 DEF FillCache, Goto, WalletTypeOK
  <2>3. cache' \in Deposits
    BY <1>0, <1>5 DEF FillCache, Sound
  <2> QED
    BY <1>5, <2>2, <2>3 DEF FillCache, WalletTypeOK
<1>6. ASSUME NEW c \in Actors, CheckBalance(c) PROVE WalletTypeOK'
  BY <1>0, <1>6 DEF CheckBalance, Goto, Finish, WalletTypeOK, Call
<1>7. ASSUME NEW c \in Actors, RecordTransaction(c) PROVE WalletTypeOK'
  <2>1. call' \in [Actors -> Call]
    BY <1>0, <1>7 DEF RecordTransaction, Goto, WalletTypeOK, Call
  <2>2. ledger' \in [Users -> Int]
    <3>1. call[c].amount \in Int /\ call[c].user \in Users /\ ledger[call[c].user] \in Int
      BY <1>0, <1>7 DEF Call, Sound, RecordTransaction, WalletTypeOK
    <3>2. /\ [ledger EXCEPT ![call[c].user] = @ + call[c].amount] \in [Users -> Int]
          /\ [ledger EXCEPT ![call[c].user] = @ - call[c].amount] \in [Users -> Int]
      BY <3>1 DEF WalletTypeOK
    <3> QED
      BY <1>7, <3>2, Zenon DEF RecordTransaction, Recorded, WalletTypeOK
  <2> QED
    BY <1>7, <2>1, <2>2 DEF RecordTransaction, WalletTypeOK
<1>8. ASSUME NEW c \in Calls, SaveWallet(c) PROVE WalletTypeOK'
  <2>1. Changed(c) \in Balance
    BY <1>0, ChangedType
  <2>a. [call[c] EXCEPT !.pc = "enrol"] \in Call
    BY <1>0 DEF Call
  <2>2. call' \in [Actors -> Call]
    BY <1>0, <1>8, <2>a DEF SaveWallet, Goto, Finish, WalletTypeOK
  <2>3. wallet' \in [Users -> Balance]
    BY <1>8, <2>1 DEF SaveWallet, WalletTypeOK
  <2> QED
    BY <1>8, <2>2, <2>3 DEF SaveWallet, WalletTypeOK
<1>9. ASSUME NEW c \in Calls, SaveParticipant(c) PROVE WalletTypeOK'
  BY <1>0, <1>9 DEF SaveParticipant, Finish, WalletTypeOK, Sound
<1>10. ASSUME TakeJob PROVE WalletTypeOK'
  <2>1. [Rest("setting") EXCEPT !.op = "release"] \in Call
    BY <1>0 DEF Call, Ops
  <2> QED
    BY <1>0, <1>10, <2>1 DEF TakeJob, WalletTypeOK
<1>11. ASSUME NEW u \in Users, ReadReleased(u) PROVE WalletTypeOK'
  <2>1. [call[Job] EXCEPT !.pc = "save", !.user = u, !.copy = wallet[u]] \in Call
    BY <1>0 DEF Call, WalletTypeOK
  <2> QED
    BY <1>0, <1>11, <2>1 DEF ReadReleased, WalletTypeOK
<1>12. ASSUME SaveReleased PROVE WalletTypeOK'
  <2>1. Changed(Job) \in Balance
    BY <1>0, ChangedType
  <2>2. NextParticipant \in Call
    <3>1. Empty \in Balance
      BY DEF Empty, Balance
    <3> QED
      BY <1>0, <3>1 DEF NextParticipant, Call
  <2>3. wallet' \in [Users -> Balance]
    BY <1>12, <2>1 DEF SaveReleased, WalletTypeOK
  <2> QED
    BY <1>0, <1>12, <2>2, <2>3 DEF SaveReleased, WalletTypeOK
<1>13. ASSUME ReleaseDone PROVE WalletTypeOK'
  BY <1>0, <1>13 DEF ReleaseDone, WalletTypeOK
<1>14. ASSUME NEW d \in Deposits, EditSetting(d) PROVE WalletTypeOK'
  BY <1>14 DEF EditSetting, WalletTypeOK
<1>15. ASSUME RevalidateCache \/ CacheExpires PROVE WalletTypeOK'
  BY <1>15 DEF RevalidateCache, CacheExpires, WalletTypeOK
<1>16. ASSUME NEW c \in Actors, StatementFails(c) PROVE WalletTypeOK'
  BY <1>0, <1>16, SMTT(30) DEF StatementFails, Goto, Finish, WalletTypeOK, Call
<1>17. ASSUME ServerStops PROVE WalletTypeOK'
  BY <1>0, <1>17 DEF ServerStops, WalletTypeOK
<1>18. CASE UNCHANGED walletVars
  BY <1>18 DEF WalletTypeOK
<1>19. /\ "credit" \in Ops /\ "debit" \in Ops /\ "join" \in Ops
       /\ Amounts \subseteq Nat /\ 0 \in Nat
  BY DEF Ops
<1> QED
  BY <1>1, <1>2, <1>3, <1>4, <1>5, <1>6, <1>7, <1>8, <1>9, <1>10, <1>11, <1>12, <1>13,
     <1>14, <1>15, <1>16, <1>17, <1>18, <1>19
  DEF WalletNext, WalletStep, JobStep, CreditWallet, DebitWallet, ConfirmTopup, AddParticipant
-----------------------------------------------------------------------------
(***************************************************************************)
(* No operation overdraws the main balance                                 *)
(***************************************************************************)
\* Every step keeps what the actors know, and their money covered.
LEMMA NextCallInv ==
    WalletTypeOK /\ CallInv /\ MainCovered /\ [WalletNext]_walletVars => CallInv'
<1> SUFFICES ASSUME WalletTypeOK, CallInv, MainCovered, [WalletNext]_walletVars PROVE CallInv'
  OBVIOUS
<1> USE WalletAssumption
<1>0. /\ \A c \in Calls : c \in Actors /\ c # Job
      /\ Job \in Actors
      /\ \A c \in Actors : call[c] \in Call /\ Sound(c, call[c]) /\ Covered(call[c])
  BY DEF Actors, WalletTypeOK, CallInv
<1>a. ASSUME NEW c \in Actors, \A d \in Actors \ {c} : call'[d] = call[d],
             Sound(c, call'[c]), Covered(call'[c])
      PROVE  CallInv'
  BY <1>0, <1>a DEF CallInv, Sound, Covered
<1>b. ASSUME NEW c \in Actors, NEW pc \in {"idle", "done"}
      PROVE  Sound(c, Rest(pc)) /\ Covered(Rest(pc))
  BY RestFields DEF Sound, Covered
<1>c. ASSUME NEW c \in Actors, Finish(c) PROVE CallInv'
  BY <1>a, <1>b, <1>c, Replaced, ZenonT(40) DEF Finish
<1>1. ASSUME NEW c \in Calls, NEW u \in Users, OpenWallet(c, u) PROVE CallInv'
  <2> DEFINE r == [Rest("open") EXCEPT !.op = "open", !.user = u]
  <2>1. r.pc = "open" /\ r.op = "open" /\ r.user = u /\ r.copy = Empty /\ Empty.main = 0
    BY DEF Rest, Empty
  <2>2. call'[c] = r /\ \A d \in Actors \ {c} : call'[d] = call[d]
    BY <1>0, <1>1, Replaced DEF OpenWallet
  <2>3. Sound(c, r) /\ Covered(r)
    BY <1>0, <2>1 DEF Sound, Covered
  <2> QED
    BY <1>0, <1>a, <2>2, <2>3
<1>2. ASSUME NEW c \in Calls, CreateWallet(c) PROVE CallInv'
  BY <1>0, <1>2, <1>c DEF CreateWallet
<1>3. ASSUME NEW c \in Calls, NEW op \in {"credit", "debit", "join"}, NEW u \in Users,
             NEW a \in Nat, NEW pc \in {"record", "hold", "setting"},
             pc = "record" => op = "credit", pc = "setting" => op = "join",
             ReadWallet(c, op, u, a, pc)
      PROVE  CallInv'
  <2> DEFINE r == [pc |-> pc, op |-> op, user |-> u, amount |-> a, copy |-> wallet[u]]
  <2>1. r.pc = pc /\ r.op = op /\ r.user = u /\ r.copy = wallet[u]
    OBVIOUS
  <2>2. Sound(c, r) /\ Covered(r)
    BY <1>0, <1>3, <2>1 DEF Sound, Covered, MainCovered
  <2>3. Sound(c, Rest("done")) /\ Covered(Rest("done"))
    BY <1>0, <1>b
  <2>4. (call'[c] = r \/ call'[c] = Rest("done")) /\ \A d \in Actors \ {c} : call'[d] = call[d]
    BY <1>0, <1>3 DEF ReadWallet, WalletTypeOK
  <2> HIDE DEF r
  <2> QED
    BY <1>0, <1>a, <2>2, <2>3, <2>4
<1>4. ASSUME NEW c \in Actors, ReadSetting(c) PROVE CallInv'
  <2>1. PICK a \in Deposits : a = IF cache # 0 THEN cache ELSE setting
    BY DEF WalletTypeOK
  <2>2. PICK pc \in {"fill", "read", "hold"} :
          pc = IF cache = 0 THEN "fill" ELSE IF c = Job THEN "read" ELSE "hold"
    OBVIOUS
  <2>3. call' = [call EXCEPT ![c].amount = a, ![c].pc = pc]
    BY <1>4, <2>1, <2>2, Zenon DEF ReadSetting
  <2>4. /\ call'[c].pc = pc /\ call'[c].amount = a
        /\ call'[c].op = call[c].op /\ call'[c].user = call[c].user /\ call'[c].copy = call[c].copy
        /\ \A d \in Actors \ {c} : call'[d] = call[d]
    BY <1>0, <2>3 DEF WalletTypeOK, Call
  <2>5. call[c].pc = "setting" /\ Sound(c, call[c]) /\ Covered(call[c])
    BY <1>0, <1>4 DEF ReadSetting
  <2>6. Sound(c, call'[c]) /\ Covered(call'[c])
    BY <2>2, <2>4, <2>5 DEF Sound, Covered
  <2> QED
    BY <1>a, <2>4, <2>6
<1>5. ASSUME NEW c \in Actors, FillCache(c) PROVE CallInv'
  <2>1. PICK pc \in {"read", "hold"} : pc = (IF c = Job THEN "read" ELSE "hold") /\ Goto(c, pc)
    BY <1>5 DEF FillCache
  <2>2. call[c].pc = "fill" /\ Sound(c, call[c]) /\ Covered(call[c])
    BY <1>0, <1>5 DEF FillCache
  <2>3. Sound(c, call'[c]) /\ Covered(call'[c])
    BY <2>1, <2>2, GotoFields DEF Sound, Covered
  <2> QED
    BY <1>a, <2>1, <2>3, GotoFields
<1>6. ASSUME NEW c \in Actors, CheckBalance(c) PROVE CallInv'
  <2>1. ASSUME Affordable(c, call[c].copy), Goto(c, "record")
        PROVE  Sound(c, call'[c]) /\ Covered(call'[c])
    <3>1. call[c].pc = "hold" /\ Sound(c, call[c]) /\ Covered(call[c])
      BY <1>0, <1>6 DEF CheckBalance
    <3> QED
      BY <2>1, <3>1, GotoFields DEF Sound, Covered, Affordable
  <2> QED
    BY <1>6, <1>a, <1>c, <2>1, GotoFields DEF CheckBalance
<1>7. ASSUME NEW c \in Actors, call[c].pc = "record", Goto(c, "save") PROVE CallInv'
  <2>1. Sound(c, call'[c]) /\ Covered(call'[c])
    BY <1>0, <1>7, GotoFields DEF Sound, Covered
  <2> QED
    BY <1>7, <1>a, <2>1, GotoFields
<1>8. ASSUME NEW c \in Calls, SaveWallet(c) PROVE CallInv'
  <2>1. ASSUME Goto(c, "enrol") PROVE Sound(c, call'[c]) /\ Covered(call'[c])
    <3>1. call[c].pc = "save" /\ Sound(c, call[c]) /\ Covered(call[c])
      BY <1>0, <1>8 DEF SaveWallet
    <3> QED
      BY <1>0, <2>1, <3>1, GotoFields DEF Sound, Covered
  <2> QED
    BY <1>0, <1>8, <1>a, <1>c, <2>1, GotoFields DEF SaveWallet
<1>9. ASSUME NEW c \in Calls, SaveParticipant(c) PROVE CallInv'
  BY <1>0, <1>9, <1>c DEF SaveParticipant
<1>10. ASSUME TakeJob PROVE CallInv'
  <2> DEFINE r == [Rest("setting") EXCEPT !.op = "release"]
  <2>1. r.pc = "setting" /\ r.op = "release" /\ r.user = NoUser /\ r.copy = Empty /\ Empty.main = 0
    BY DEF Rest, Empty
  <2>2. call'[Job] = r /\ \A d \in Actors \ {Job} : call'[d] = call[d]
    BY <1>0, <1>10, Replaced DEF TakeJob
  <2>3. Sound(Job, r) /\ Covered(r)
    BY <2>1 DEF Sound, Covered
  <2> QED
    BY <1>0, <1>a, <2>2, <2>3
<1>11. ASSUME NEW u \in Users, ReadReleased(u) PROVE CallInv'
  <2> DEFINE r == [call[Job] EXCEPT !.pc = "save", !.user = u, !.copy = wallet[u]]
  <2>1. r.pc = "save" /\ r.op = call[Job].op /\ r.user = u /\ r.copy = wallet[u]
    BY <1>0 DEF Call
  <2>2. (call'[Job] = r \/ call'[Job] = call[Job]) /\ \A d \in Actors \ {Job} : call'[d] = call[d]
    BY <1>0, <1>11 DEF ReadReleased, WalletTypeOK
  <2>3. Sound(Job, r) /\ Covered(r)
    <3>1. call[Job].pc = "read" /\ Sound(Job, call[Job])
      BY <1>0, <1>11 DEF ReadReleased
    <3> QED
      BY <2>1, <3>1 DEF Sound, Covered, MainCovered
  <2> HIDE DEF r
  <2> QED
    BY <1>0, <1>a, <2>2, <2>3
<1>12. ASSUME SaveReleased PROVE CallInv'
  <2>1. /\ NextParticipant.pc = "read" /\ NextParticipant.op = call[Job].op
        /\ NextParticipant.user = NoUser /\ NextParticipant.copy = Empty /\ Empty.main = 0
    BY <1>0 DEF NextParticipant, Call, Empty
  <2>2. Sound(Job, NextParticipant) /\ Covered(NextParticipant)
    <3>1. call[Job].pc = "save" /\ Sound(Job, call[Job])
      BY <1>0, <1>12 DEF SaveReleased
    <3> QED
      BY <2>1, <3>1 DEF Sound, Covered
  <2>3. /\ call'[Job] = NextParticipant \/ call'[Job] = Rest("done")
        /\ \A d \in Actors \ {Job} : call'[d] = call[d]
    BY <1>0, <1>12 DEF SaveReleased, WalletTypeOK
  <2> QED
    BY <1>0, <1>a, <1>b, <2>2, <2>3
<1>13. ASSUME ReleaseDone PROVE CallInv'
  BY <1>0, <1>13, <1>c DEF ReleaseDone, Finish
<1>14. ASSUME UNCHANGED call PROVE CallInv'
  BY <1>14 DEF CallInv, Sound, Covered
<1>15. ASSUME NEW c \in Actors, StatementFails(c) PROVE CallInv'
  BY <1>7, <1>15, <1>c DEF StatementFails
<1>16. ASSUME ServerStops PROVE CallInv'
  <2>1. ASSUME NEW c \in Actors
        PROVE  call'[c] = call[c] \/ call'[c] = Rest("idle") \/ call'[c] = Rest("done")
    BY <1>16 DEF ServerStops
  <2> QED
    BY <1>0, <1>b, <2>1 DEF CallInv, Sound, Covered
<1> QED
  <2>1. /\ "credit" \in {"credit", "debit", "join"} /\ "debit" \in {"credit", "debit", "join"}
        /\ "join" \in {"credit", "debit", "join"} /\ Amounts \subseteq Nat /\ 0 \in Nat
    OBVIOUS
  <2>2. ASSUME NEW c \in Calls, WalletStep(c) PROVE CallInv'
    BY <1>1, <1>2, <1>3, <1>8, <1>9, <2>1, <2>2
    DEF WalletStep, CreditWallet, DebitWallet, ConfirmTopup, AddParticipant
  <2>3. ASSUME NEW c \in Actors, RecordTransaction(c) PROVE CallInv'
    BY <1>7, <2>3 DEF RecordTransaction
  <2>4. ASSUME NEW d \in Deposits, EditSetting(d) \/ RevalidateCache \/ CacheExpires \/ UNCHANGED walletVars
        PROVE  CallInv'
    BY <1>14, <2>4 DEF EditSetting, RevalidateCache, CacheExpires
  <2>5. CASE JobStep
    BY <1>10, <1>11, <1>12, <1>13, <2>5 DEF JobStep
  <2>6. CASE RevalidateCache \/ CacheExpires \/ UNCHANGED walletVars
    BY <1>14, <2>6 DEF RevalidateCache, CacheExpires
  <2> QED
    BY <1>4, <1>5, <1>6, <1>15, <1>16, <2>2, <2>3, <2>4, <2>5, <2>6 DEF WalletNext
\* What each operation does to the two balances of its copy.
LEMMA ChangedFields ==
    ASSUME NEW c \in Actors, call[c] \in Call
    PROVE  LET b == call[c].copy  a == call[c].amount  op == call[c].op
           IN  /\ a \in Nat /\ b.main \in Int /\ b.held \in Int
               /\ op \in {"credit", "release"} => Changed(c).main = b.main + a
               /\ op \in {"debit", "join"} => Changed(c).main = b.main - a
               /\ op \notin {"credit", "release", "debit", "join"} => Changed(c).main = b.main
               /\ op = "join" => Changed(c).held = b.held + a
               /\ op = "release" => Changed(c).held = b.held - a
               /\ op \notin {"release", "join"} => Changed(c).held = b.held
<1>1. call[c].amount \in Nat /\ call[c].copy \in Balance /\ call[c].op \in Ops
  BY DEF Call
<1>2. call[c].copy.main \in Int /\ call[c].copy.held \in Int
  BY <1>1 DEF Balance
<1>3. CASE call[c].op = "credit"
  BY <1>1, <1>2, <1>3 DEF Changed, Balance
<1>4. CASE call[c].op = "debit"
  BY <1>1, <1>2, <1>4 DEF Changed, Balance
<1>5. CASE call[c].op = "join"
  BY <1>1, <1>2, <1>5 DEF Changed
<1>6. CASE call[c].op = "release"
  BY <1>1, <1>2, <1>6 DEF Changed
<1>7. CASE call[c].op \notin {"credit", "debit", "join", "release"}
  <2>1. Changed(c) = call[c].copy
    BY <1>7 DEF Changed
  <2> QED
    BY <1>1, <1>2, <1>7, <2>1
<1> QED
  BY <1>3, <1>4, <1>5, <1>6, <1>7

\* The rows change only where an actor saves its copy.
LEMMA StepWallet ==
    ASSUME WalletTypeOK, CallInv, [WalletNext]_walletVars
    PROVE  \/ UNCHANGED wallet
           \/ \E c \in Actors :
                 /\ call[c].pc = "save" /\ Whole(call[c].amount)
                 /\ wallet' = [wallet EXCEPT ![call[c].user] = Changed(c)]
<1>1. Job \in Actors /\ \A c \in Calls : c \in Actors
  BY DEF Actors
<1>2. ASSUME NEW c \in Calls, WalletStep(c)
      PROVE  UNCHANGED wallet \/ SaveWallet(c)
  BY <1>2 DEF WalletStep, OpenWallet, AddParticipant, CreditWallet, DebitWallet, ConfirmTopup,
              ReadWallet, CreateWallet, SaveParticipant
<1>3. ASSUME JobStep PROVE UNCHANGED wallet \/ SaveReleased
  BY <1>3 DEF JobStep, TakeJob, ReadReleased, ReleaseDone
<1>4. ASSUME NEW c \in Actors,
             ReadSetting(c) \/ FillCache(c) \/ CheckBalance(c) \/ RecordTransaction(c) \/ StatementFails(c)
      PROVE  UNCHANGED wallet
  BY <1>4 DEF ReadSetting, FillCache, CheckBalance, RecordTransaction, StatementFails
<1>5. ASSUME \/ \E d \in Deposits : EditSetting(d)
             \/ RevalidateCache \/ CacheExpires \/ ServerStops \/ UNCHANGED walletVars
      PROVE  UNCHANGED wallet
  BY <1>5 DEF EditSetting, RevalidateCache, CacheExpires, ServerStops
<1>6. ASSUME NEW c \in Calls, SaveWallet(c)
      PROVE  UNCHANGED wallet \/ /\ call[c].pc = "save" /\ Whole(call[c].amount)
                                 /\ wallet' = [wallet EXCEPT ![call[c].user] = Changed(c)]
  BY <1>6 DEF SaveWallet
<1>7. ASSUME SaveReleased
      PROVE  UNCHANGED wallet \/ /\ call[Job].pc = "save" /\ Whole(call[Job].amount)
                                 /\ wallet' = [wallet EXCEPT ![call[Job].user] = Changed(Job)]
  BY <1>7 DEF SaveReleased
<1> QED
  BY <1>1, <1>2, <1>3, <1>4, <1>5, <1>6, <1>7 DEF WalletNext

\* A saved copy has its main balance covered.
LEMMA NextMain ==
    WalletTypeOK /\ CallInv /\ MainCovered /\ [WalletNext]_walletVars => MainCovered'
<1> SUFFICES ASSUME WalletTypeOK, CallInv, MainCovered, [WalletNext]_walletVars PROVE MainCovered'
  OBVIOUS
<1>1. CASE UNCHANGED wallet
  BY <1>1 DEF MainCovered
<1>2. ASSUME NEW c \in Actors, call[c].pc = "save",
             wallet' = [wallet EXCEPT ![call[c].user] = Changed(c)]
      PROVE  MainCovered'
  <2>1. call[c] \in Call /\ Covered(call[c]) /\ call[c].op \in Ops
    BY DEF WalletTypeOK, CallInv, Call
  <2>2. Changed(c).main >= 0
    BY <1>2, <2>1, ChangedFields DEF Covered, Ops
  <2>3. ASSUME NEW u \in Users PROVE wallet'[u] = wallet[u] \/ wallet'[u] = Changed(c)
    BY <1>2 DEF WalletTypeOK
  <2> QED
    BY <2>2, <2>3 DEF MainCovered
<1> QED
  BY <1>1, <1>2, StepWallet

LEMMA MainInvariant == WalletSpec => [](WalletTypeOK /\ CallInv /\ MainCovered)
<1>1. WalletInit => WalletTypeOK /\ CallInv /\ MainCovered
  <2> SUFFICES ASSUME WalletInit PROVE WalletTypeOK /\ CallInv /\ MainCovered
    OBVIOUS
  <2>1. CallInv
    BY RestFields DEF WalletInit, CallInv, Sound, Covered
  <2>2. MainCovered
    BY DEF WalletInit, MainCovered, Empty
  <2> QED
    BY InitWalletType, <2>1, <2>2
<1> QED
  BY <1>1, NextWalletType, NextCallInv, NextMain, PTL DEF WalletSpec

\* Every variable of the wallets keeps its type.
THEOREM WalletTypeCorrect == WalletSpec => []WalletTypeOK
  BY MainInvariant, PTL

\* Whichever stale copies are saved over each other, no main balance falls
\* below zero.
THEOREM NeverOverdrawn == WalletSpec => []MainCovered
  BY MainInvariant, PTL
-----------------------------------------------------------------------------
(***************************************************************************)
(* The books balance                                                       *)
(***************************************************************************)
Total(balance) == balance.main + balance.held

\* A row nobody disturbed: one actor at most works on it, with a true copy,
\* and the transactions add up to the row, or to what is about to be saved.
Books(u) ==
    /\ \A c, d \in Working(u) : c = d
    /\ \A c \in Working(u) : call[c].copy = wallet[u]
    /\ (\A c \in Working(u) : call[c].pc # "save") => ledger[u] = Total(wallet[u])
    /\ \A c \in Working(u) : call[c].pc = "save" =>
          ledger[u] = IF Whole(call[c].amount) THEN Total(Changed(c)) ELSE Total(wallet[u])

BooksInv == \A u \in Users \ dirty : Books(u)

LEMMA ChangedSame ==
    ASSUME NEW c \in Actors, call'[c].op = call[c].op, call'[c].amount = call[c].amount,
           call'[c].copy = call[c].copy
    PROVE  Changed(c)' = Changed(c)
  BY DEF Changed

\* A step of an actor that works on another row, before and after.
LEMMA BooksElsewhere ==
    ASSUME NEW u \in Users, Books(u), NEW c \in Actors,
           \A d \in Actors \ {c} : call'[d] = call[d],
           c \notin Working(u), c \notin Working(u)',
           wallet'[u] = wallet[u], ledger'[u] = ledger[u]
    PROVE  Books(u)'
<1>1. ASSUME NEW d PROVE d \in Working(u)' <=> d \in Working(u)
  BY DEF Working
<1>2. ASSUME NEW d \in Working(u) PROVE d \in Actors /\ call'[d] = call[d]
  BY DEF Working
<1>3. ASSUME NEW d \in Working(u) PROVE Changed(d)' = Changed(d)
  BY <1>2, ChangedSame
<1> QED
  BY <1>1, <1>2, <1>3 DEF Books, Total

\* An actor takes up a row on which nobody works.
LEMMA BooksBegun ==
    ASSUME NEW u \in Users, Books(u), NEW c \in Actors, Working(u) = {},
           \A d \in Actors \ {c} : call'[d] = call[d],
           call'[c].copy = wallet[u], wallet'[u] = wallet[u], ledger'[u] = ledger[u],
           call'[c].pc = "save" => Total(Changed(c)') = Total(wallet[u])
    PROVE  Books(u)'
<1>1. ASSUME NEW d \in Working(u)' PROVE d = c
  BY DEF Working
<1>2. ledger[u] = Total(wallet[u])
  BY DEF Books
<1> QED
  BY <1>1, <1>2 DEF Books, Total

\* The one actor at work on a row goes on, up to its save.
LEMMA BooksContinued ==
    ASSUME NEW u \in Users, Books(u), NEW c \in Working(u),
           \A d \in Actors \ {c} : call'[d] = call[d],
           call[c].pc # "save", call'[c].user = u \/ call'[c].pc = "done",
           call'[c].pc # "done" => call'[c].copy = call[c].copy, wallet'[u] = wallet[u],
           call'[c].pc # "save" => ledger'[u] = ledger[u],
           call'[c].pc = "save" =>
              ledger'[u] = IF Whole(call'[c].amount) THEN Total(Changed(c)') ELSE Total(wallet[u])
    PROVE  Books(u)'
<1>1. ASSUME NEW d \in Working(u)' PROVE d = c
  BY DEF Working, Books
<1>2. ledger[u] = Total(wallet[u]) /\ call[c].copy = wallet[u]
  BY DEF Books
<1>3. CASE c \in Working(u)'
  <2>1. call'[c].pc # "done"
    BY <1>3 DEF Working
  <2> QED
    BY <1>1, <1>2, <1>3, <2>1 DEF Books, Total
<1>4. CASE c \notin Working(u)'
  <2>1. c \in Actors /\ call[c].user = u
    BY DEF Working
  <2>2. call'[c].pc # "save"
    BY <1>4, <2>1 DEF Working
  <2>3. Working(u)' = {}
    BY <1>1, <1>4
  <2> QED
    BY <1>2, <2>2, <2>3 DEF Books, Total
<1> QED
  BY <1>3, <1>4
\* The one actor at work on a row is done with it.
LEMMA BooksClosed ==
    ASSUME NEW u \in Users, Books(u), NEW c \in Working(u), call[c].pc = "save",
           \A d \in Actors \ {c} : call'[d] = call[d],
           c \notin Working(u)', ledger'[u] = ledger[u],
           wallet'[u] = IF Whole(call[c].amount) THEN Changed(c) ELSE wallet[u]
    PROVE  Books(u)'
<1>1. Working(u)' = {}
  BY DEF Working, Books
<1>2. ledger[u] = IF Whole(call[c].amount) THEN Total(Changed(c)) ELSE Total(wallet[u])
  BY DEF Books
<1>3. ledger'[u] = Total(wallet'[u])
  BY <1>2
<1> QED
  BY <1>1, <1>3 DEF Books, Total

\* Every step keeps the books of the rows it does not mark as disturbed.
LEMMA NextBooks ==
    WalletTypeOK /\ CallInv /\ BooksInv /\ [WalletNext]_walletVars => BooksInv'
<1> SUFFICES ASSUME WalletTypeOK, CallInv, BooksInv, [WalletNext]_walletVars,
                    NEW u \in Users, u \notin dirty'
             PROVE  Books(u)'
  BY DEF BooksInv
<1> USE WalletAssumption
<1>0. /\ \A c \in Calls : c \in Actors /\ c # Job
      /\ Job \in Actors /\ NoUser # u
      /\ \A c \in Actors : call[c] \in Call /\ Sound(c, call[c])
  BY DEF Actors, WalletTypeOK, CallInv
<1>a. ASSUME u \notin dirty PROVE Books(u)
  BY <1>a DEF BooksInv
<1>b. ASSUME NEW c \in Actors PROVE c \in Working(u) <=>
         call[c].user = u /\ call[c].pc \notin {"idle", "open", "enrol", "done"}
  BY DEF Working
<1>c. ASSUME NEW c \in Actors PROVE c \in Working(u)' <=>
         call'[c].user = u /\ call'[c].pc \notin {"idle", "open", "enrol", "done"}
  BY DEF Working
<1>d. ASSUME NEW c \in Actors, Finish(c)
      PROVE  /\ call'[c].pc = "done" /\ c \notin Working(u)'
             /\ \A d \in Actors \ {c} : call'[d] = call[d]
  <2>1. call'[c] = Rest("done") /\ \A d \in Actors \ {c} : call'[d] = call[d]
    BY <1>d, Replaced DEF Finish
  <2> QED
    BY <1>c, <2>1, RestFields
<1>1. ASSUME NEW c \in Calls, NEW v \in Users, OpenWallet(c, v) PROVE Books(u)'
  <2> DEFINE r == [Rest("open") EXCEPT !.op = "open", !.user = v]
  <2>1. r.pc = "open"
    BY DEF Rest
  <2>2. call'[c] = r /\ \A d \in Actors \ {c} : call'[d] = call[d]
    BY <1>0, <1>1, Replaced DEF OpenWallet
  <2>3. c \notin Working(u) /\ c \notin Working(u)' /\ Books(u)
    BY <1>0, <1>1, <1>a, <1>b, <1>c, <2>1, <2>2 DEF OpenWallet
  <2> QED
    BY <1>0, <1>1, <2>2, <2>3, BooksElsewhere DEF OpenWallet
<1>2. ASSUME NEW c \in Calls, CreateWallet(c) \/ SaveParticipant(c) PROVE Books(u)'
  <2>1. Finish(c) /\ c \notin Working(u) /\ Books(u)
    BY <1>0, <1>2, <1>a, <1>b DEF CreateWallet, SaveParticipant
  <2> QED
    BY <1>0, <1>2, <1>d, <2>1, BooksElsewhere DEF CreateWallet, SaveParticipant
<1>3. ASSUME NEW c \in Calls, NEW op, NEW v \in Users, NEW a, NEW pc \in {"record", "hold", "setting"},
             ReadWallet(c, op, v, a, pc)
      PROVE  Books(u)'
  <2> DEFINE r == [pc |-> pc, op |-> op, user |-> v, amount |-> a, copy |-> wallet[v]]
  <2>1. r.pc = pc /\ r.user = v /\ r.copy = wallet[v]
    OBVIOUS
  <2>2. /\ Readable(v) => call'[c] = r
        /\ ~Readable(v) => call'[c] = Rest("done")
        /\ \A d \in Actors \ {c} : call'[d] = call[d]
    BY <1>0, <1>3 DEF ReadWallet, WalletTypeOK
  <2>3. UNCHANGED <<wallet, ledger>> /\ c \notin Working(u) /\ Books(u)
    BY <1>0, <1>3, <1>a, <1>b DEF ReadWallet
  <2> HIDE DEF r
  <2>4. CASE Readable(v) /\ u = v
    <3>1. Working(u) = {}
      BY <1>3, <2>4 DEF ReadWallet
    <3> QED
      BY <1>0, <2>1, <2>2, <2>3, <2>4, <3>1, BooksBegun
  <2>5. CASE ~(Readable(v) /\ u = v)
    <3>1. c \notin Working(u)'
      BY <1>0, <1>c, <2>1, <2>2, <2>5, RestFields
    <3> QED
      BY <1>0, <2>2, <2>3, <3>1, BooksElsewhere
  <2> QED
    BY <2>4, <2>5
\* A move that is neither to nor from a save, and changes no row.
<1>m. ASSUME NEW c \in Actors, NEW pc, pc \notin {"save", "idle", "open", "enrol", "done"},
             call[c].pc \notin {"save", "idle", "open", "enrol", "done"},
             call'[c].pc = pc, call'[c].user = call[c].user, call'[c].copy = call[c].copy,
             \A d \in Actors \ {c} : call'[d] = call[d],
             UNCHANGED <<wallet, ledger, dirty>>
      PROVE  Books(u)'
  <2>1. Books(u)
    BY <1>a, <1>m
  <2>2. CASE call[c].user = u
    <3>1. c \in Working(u)
      BY <1>b, <1>m, <2>2
    <3> QED
      BY <1>m, <2>1, <2>2, <3>1, BooksContinued
  <2>3. CASE call[c].user # u
    <3>1. c \notin Working(u) /\ c \notin Working(u)'
      BY <1>b, <1>c, <1>m, <2>3
    <3> QED
      BY <1>m, <2>1, <3>1, BooksElsewhere
  <2> QED
    BY <2>2, <2>3
\* An actor that has saved nothing gives up.
<1>n. ASSUME NEW c \in Actors, Finish(c), call[c].pc # "save", UNCHANGED <<wallet, ledger, dirty>>
      PROVE  Books(u)'
  <2>1. Books(u) /\ c \in Actors
    BY <1>a, <1>n
  <2>2. CASE c \in Working(u)
    BY <1>d, <1>n, <2>1, <2>2, BooksContinued
  <2>3. CASE c \notin Working(u)
    BY <1>d, <1>n, <2>1, <2>3, BooksElsewhere
  <2> QED
    BY <2>2, <2>3
<1>4. ASSUME NEW c \in Actors, ReadSetting(c) PROVE Books(u)'
  <2>1. PICK a : a = IF cache # 0 THEN cache ELSE setting
    OBVIOUS
  <2>2. PICK pc \in {"fill", "read", "hold"} :
          pc = IF cache = 0 THEN "fill" ELSE IF c = Job THEN "read" ELSE "hold"
    OBVIOUS
  <2>3. call' = [call EXCEPT ![c].amount = a, ![c].pc = pc]
    BY <1>4, <2>1, <2>2, Zenon DEF ReadSetting
  <2>4. /\ call'[c].pc = pc
        /\ call'[c].user = call[c].user /\ call'[c].copy = call[c].copy
        /\ \A d \in Actors \ {c} : call'[d] = call[d]
    BY <1>0, <2>3 DEF WalletTypeOK, Call
  <2> QED
    BY <1>4, <1>m, <2>2, <2>4 DEF ReadSetting
<1>5. ASSUME NEW c \in Actors, FillCache(c) PROVE Books(u)'
  <2>1. PICK pc \in {"read", "hold"} : Goto(c, pc)
    BY <1>5 DEF FillCache
  <2> QED
    BY <1>5, <1>m, <2>1, GotoFields DEF FillCache
<1>6. ASSUME NEW c \in Actors, CheckBalance(c) PROVE Books(u)'
  <2>1. CASE Goto(c, "record")
    BY <1>6, <1>m, <2>1, GotoFields DEF CheckBalance
  <2>2. CASE Finish(c)
    BY <1>6, <1>n, <2>2 DEF CheckBalance
  <2> QED
    BY <1>6, <2>1, <2>2 DEF CheckBalance
<1>7. ASSUME NEW c \in Actors, RecordTransaction(c) PROVE Books(u)'
  <2>1. /\ call[c].pc = "record" /\ Goto(c, "save") /\ UNCHANGED <<wallet, dirty>>
        /\ call[c].user \in Users /\ call[c].amount \in Nat /\ Books(u)
    BY <1>0, <1>7, <1>a DEF RecordTransaction, Sound, Call
  <2>2. CASE call[c].user # u
    <3>1. ledger'[u] = ledger[u]
      BY <1>7, <2>2 DEF RecordTransaction, Recorded, WalletTypeOK
    <3>2. c \notin Working(u) /\ c \notin Working(u)'
      BY <1>b, <1>c, <2>1, <2>2, GotoFields
    <3> QED
      BY <2>1, <3>1, <3>2, GotoFields, BooksElsewhere
  <2>3. CASE call[c].user = u
    <3>1. c \in Working(u) /\ Changed(c)' = Changed(c)
      BY <1>b, <2>1, <2>3, GotoFields, ChangedSame
    <3>2. call[c].copy = wallet[u] /\ ledger[u] = Total(wallet[u])
      BY <2>1, <3>1 DEF Books
    <3>3. ledger[u] \in Int /\ call[c] \in Call
      BY <1>0 DEF WalletTypeOK
    <3>4. ledger'[u] = IF Whole(call[c].amount) THEN Total(Changed(c)) ELSE Total(wallet[u])
      <4>1. CASE ~Whole(call[c].amount)
        BY <1>7, <3>2, <4>1 DEF RecordTransaction
      <4>2. CASE Whole(call[c].amount) /\ call[c].op = "credit"
        <5>1. ledger'[u] = ledger[u] + call[c].amount
          BY <1>7, <2>3, <4>2 DEF RecordTransaction, Recorded, WalletTypeOK
        <5> QED
          BY <3>2, <3>3, <4>2, <5>1, ChangedFields DEF Total
      <4>3. CASE Whole(call[c].amount) /\ call[c].op = "debit"
        <5>1. ledger'[u] = ledger[u] - call[c].amount
          BY <1>7, <2>3, <4>3 DEF RecordTransaction, Recorded, WalletTypeOK
        <5> QED
          BY <3>2, <3>3, <4>3, <5>1, ChangedFields DEF Total
      <4>4. CASE Whole(call[c].amount) /\ call[c].op \notin {"credit", "debit"}
        <5>1. ledger' = ledger
          BY <1>7, <4>4 DEF RecordTransaction, Recorded
        <5> QED
          BY <3>2, <3>3, <4>4, <5>1, ChangedFields DEF Total
      <4> QED
        BY <4>1, <4>2, <4>3, <4>4
    <3> QED
      BY <2>1, <2>3, <3>1, <3>4, GotoFields, BooksContinued
  <2> QED
    BY <2>2, <2>3
\* A save, after which the actor no longer works on the row.
<1>s. ASSUME NEW c \in Actors, call[c].pc = "save", c \notin Working(u)',
             \A d \in Actors \ {c} : call'[d] = call[d],
             wallet' = IF Whole(call[c].amount) THEN [wallet EXCEPT ![call[c].user] = Changed(c)]
                       ELSE wallet,
             UNCHANGED <<ledger, dirty>>
      PROVE  Books(u)'
  <2>1. Books(u)
    BY <1>a, <1>s
  <2>2. CASE call[c].user = u
    <3>1. c \in Working(u)
      BY <1>b, <1>s, <2>2
    <3>2. wallet'[u] = IF Whole(call[c].amount) THEN Changed(c) ELSE wallet[u]
      BY <1>s, <2>2 DEF WalletTypeOK
    <3> QED
      BY <1>s, <2>1, <3>1, <3>2, BooksClosed
  <2>3. CASE call[c].user # u
    <3>1. c \notin Working(u)
      BY <1>b, <2>3
    <3>2. wallet'[u] = wallet[u]
      BY <1>s, <2>3 DEF WalletTypeOK
    <3> QED
      BY <1>s, <2>1, <3>1, <3>2, BooksElsewhere
  <2> QED
    BY <2>2, <2>3
<1>8. ASSUME NEW c \in Calls, SaveWallet(c) PROVE Books(u)'
  <2>1. c \notin Working(u)' /\ \A d \in Actors \ {c} : call'[d] = call[d]
    <3>1. CASE Goto(c, "enrol")
      BY <1>0, <1>c, <3>1, GotoFields
    <3>2. CASE Finish(c)
      BY <1>0, <1>d, <3>2
    <3> QED
      BY <1>8, <3>1, <3>2 DEF SaveWallet
  <2> QED
    BY <1>0, <1>8, <1>s, <2>1 DEF SaveWallet
<1>9. ASSUME SaveReleased PROVE Books(u)'
  <2>1. NextParticipant.user = NoUser
    BY <1>0 DEF NextParticipant, Call
  <2>2. /\ call'[Job] = NextParticipant \/ call'[Job] = Rest("done")
        /\ \A d \in Actors \ {Job} : call'[d] = call[d]
    BY <1>0, <1>9 DEF SaveReleased, WalletTypeOK
  <2>3. Job \notin Working(u)'
    BY <1>0, <1>c, <2>1, <2>2, RestFields
  <2> QED
    BY <1>0, <1>9, <1>s, <2>2, <2>3 DEF SaveReleased
<1>10. ASSUME TakeJob PROVE Books(u)'
  <2> DEFINE r == [Rest("setting") EXCEPT !.op = "release"]
  <2>1. r.user = NoUser
    BY DEF Rest
  <2>2. call'[Job] = r /\ \A d \in Actors \ {Job} : call'[d] = call[d]
    BY <1>0, <1>10, Replaced DEF TakeJob
  <2>3. Job \notin Working(u) /\ Job \notin Working(u)' /\ Books(u)
    BY <1>0, <1>10, <1>a, <1>b, <1>c, <2>1, <2>2 DEF TakeJob
  <2> QED
    BY <1>0, <1>10, <2>2, <2>3, BooksElsewhere DEF TakeJob
<1>11. ASSUME NEW v \in Users, ReadReleased(v) PROVE Books(u)'
  <2> DEFINE r == [call[Job] EXCEPT !.pc = "save", !.user = v, !.copy = wallet[v]]
  <2>1. r.pc = "save" /\ r.op = call[Job].op /\ r.user = v /\ r.copy = wallet[v] /\ r \in Call
    BY <1>0 DEF Call, WalletTypeOK
  <2>2. /\ Readable(v) => call'[Job] = r
        /\ ~Readable(v) => call'[Job] = call[Job]
        /\ \A d \in Actors \ {Job} : call'[d] = call[d]
    BY <1>0, <1>11 DEF ReadReleased, WalletTypeOK
  <2> HIDE DEF r
  <2>3. /\ UNCHANGED <<wallet, ledger>> /\ Job \notin Working(u) /\ Books(u)
        /\ call[Job].user = NoUser /\ call[Job].op = "release"
    BY <1>0, <1>11, <1>a, <1>b DEF ReadReleased, Sound
  <2>4. CASE Readable(v) /\ u = v
    <3>1. Working(u) = {}
      BY <1>11, <2>4 DEF ReadReleased
    <3>2. call'[Job].op = "release" /\ call'[Job] \in Call /\ call'[Job].copy = wallet[u]
      BY <2>1, <2>2, <2>3, <2>4
    <3>3. Total(Changed(Job)') = Total(wallet[u])
      <4>1. Changed(Job)' = [main |-> wallet[u].main + call'[Job].amount,
                             held |-> wallet[u].held - call'[Job].amount]
        BY <3>2 DEF Changed
      <4>2. call'[Job].amount \in Nat /\ wallet[u].main \in Int /\ wallet[u].held \in Int
        BY <3>2 DEF Call, WalletTypeOK, Balance
      <4> QED
        BY <4>1, <4>2 DEF Total
    <3> QED
      BY <1>0, <2>2, <2>3, <2>4, <3>1, <3>2, <3>3, BooksBegun
  <2>5. CASE ~(Readable(v) /\ u = v)
    <3>1. Job \notin Working(u)'
      BY <1>0, <1>c, <2>1, <2>2, <2>3, <2>5
    <3> QED
      BY <1>0, <2>2, <2>3, <3>1, BooksElsewhere
  <2> QED
    BY <2>4, <2>5
<1>12. ASSUME ReleaseDone PROVE Books(u)'
  BY <1>0, <1>12, <1>n DEF ReleaseDone, Finish
<1>13. ASSUME UNCHANGED <<wallet, ledger, call, dirty>> PROVE Books(u)'
  BY <1>a, <1>13 DEF Books, Working, Changed, Total
<1>14. ASSUME NEW c \in Actors, StatementFails(c) PROVE Books(u)'
  <2>1. call[c].user # u /\ UNCHANGED <<wallet, ledger>> /\ Books(u) /\ c \notin Working(u)
    BY <1>14, <1>a, <1>b DEF StatementFails
  <2>2. c \notin Working(u)' /\ \A d \in Actors \ {c} : call'[d] = call[d]
    <3>1. CASE Goto(c, "save")
      BY <1>c, <2>1, <3>1, GotoFields
    <3>2. CASE Finish(c)
      BY <1>d, <3>2
    <3> QED
      BY <1>14, <3>1, <3>2 DEF StatementFails
  <2> QED
    BY <2>1, <2>2, BooksElsewhere
<1>15. ASSUME ServerStops PROVE Books(u)'
  <2>1. Working(u) = {} /\ UNCHANGED <<wallet, ledger>> /\ Books(u)
    BY <1>15, <1>a DEF ServerStops
  <2>2. ASSUME NEW c \in Actors PROVE c \notin Working(u)'
    <3>1. \/ call[c].pc = "idle" /\ call'[c] = call[c]
          \/ call'[c] = Rest("idle") \/ call'[c] = Rest("done")
      BY <1>15 DEF ServerStops
    <3> QED
      BY <1>c, <3>1, RestFields
  <2>3. Working(u)' = {}
    BY <2>2 DEF Working
  <2> QED
    BY <2>1, <2>3 DEF Books, Total
<1> QED
  <2>1. ASSUME NEW c \in Calls, WalletStep(c) PROVE Books(u)'
    BY <1>1, <1>2, <1>3, <1>8, <2>1
    DEF WalletStep, CreditWallet, DebitWallet, ConfirmTopup, AddParticipant
  <2>2. CASE JobStep
    BY <1>9, <1>10, <1>11, <1>12, <2>2 DEF JobStep
  <2>3. ASSUME \/ \E d \in Deposits : EditSetting(d)
               \/ RevalidateCache \/ CacheExpires \/ UNCHANGED walletVars
        PROVE  Books(u)'
    BY <1>13, <2>3 DEF EditSetting, RevalidateCache, CacheExpires
  <2> QED
    BY <1>4, <1>5, <1>6, <1>7, <1>14, <1>15, <2>1, <2>2, <2>3 DEF WalletNext

LEMMA BooksInvariant == WalletSpec => []BooksInv
<1>1. WalletInit => BooksInv
  <2> SUFFICES ASSUME WalletInit, NEW u \in Users PROVE Books(u)
    BY DEF BooksInv
  <2>1. Working(u) = {}
    BY RestFields DEF WalletInit, Working
  <2> QED
    BY <2>1 DEF WalletInit, Books, Total, Empty
<1> QED
  BY <1>1, MainInvariant, NextBooks, PTL DEF WalletSpec

\* A wallet nobody disturbed holds what its stored transactions add up to,
\* whatever was held and released on it.
THEOREM WalletsBalance == WalletSpec => []BooksBalance
<1>1. BooksInv => BooksBalance
  BY DEF BooksInv, BooksBalance, Books, Working, Total
<1> QED
  BY <1>1, BooksInvariant, PTL
-----------------------------------------------------------------------------
(***************************************************************************)
(* No wallet is locked out                                                 *)
(***************************************************************************)
\* A hold or a release in progress is for the configured deposit.
Agreed(r) ==
    r.pc = "fill" \/ (r.op \in {"join", "release"} /\ r.pc \in {"hold", "read", "record", "save"})
        => r.amount = setting

SettingInv == ~edited => cache \in {0, setting} /\ \A c \in Actors : Agreed(call[c])

LEMMA NextSetting == WalletTypeOK /\ CallInv /\ SettingInv /\ [WalletNext]_walletVars => SettingInv'
<1> SUFFICES ASSUME WalletTypeOK, CallInv, SettingInv, [WalletNext]_walletVars, ~edited'
             PROVE  cache' \in {0, setting'} /\ \A c \in Actors : Agreed(call[c])'
  BY DEF SettingInv
<1> USE WalletAssumption
<1> DEFINE Goal == cache' \in {0, setting'} /\ \A c \in Actors : Agreed(call[c])'
<1>0. /\ \A c \in Calls : c \in Actors /\ c # Job
      /\ Job \in Actors
      /\ \A c \in Actors : call[c] \in Call /\ Sound(c, call[c])
  BY DEF Actors, WalletTypeOK, CallInv
<1>e. ASSUME ~edited PROVE cache \in {0, setting} /\ \A c \in Actors : Agreed(call[c])
  BY <1>e DEF SettingInv
\* One actor steps, and is for the configured deposit afterwards.
<1>a. ASSUME NEW c \in Actors, \A d \in Actors \ {c} : call'[d] = call[d], Agreed(call[c])',
             UNCHANGED <<setting, edited>>, cache' \in {0, setting}
      PROVE  Goal
  <2>1. \A d \in Actors : Agreed(call[d])
    BY <1>a, <1>e
  <2> QED
    BY <1>a, <2>1 DEF Agreed
<1>c. ASSUME NEW c \in Actors, Finish(c), UNCHANGED settingVars PROVE Goal
  <2>1. call'[c] = Rest("done") /\ \A d \in Actors \ {c} : call'[d] = call[d]
    BY <1>c, Replaced DEF Finish
  <2>2. Agreed(call[c])' /\ cache' \in {0, setting}
    BY <1>c, <1>e, <2>1, RestFields DEF Agreed
  <2> QED
    BY <1>a, <1>c, <2>1, <2>2
<1>1. ASSUME NEW c \in Calls, NEW u \in Users, OpenWallet(c, u) PROVE Goal
  <2> DEFINE r == [Rest("open") EXCEPT !.op = "open", !.user = u]
  <2>1. r.pc = "open"
    BY DEF Rest
  <2>2. call'[c] = r /\ \A d \in Actors \ {c} : call'[d] = call[d]
    BY <1>0, <1>1, Replaced DEF OpenWallet
  <2>3. Agreed(call[c])' /\ cache' \in {0, setting} /\ UNCHANGED <<setting, edited>>
    BY <1>1, <1>e, <2>1, <2>2 DEF Agreed, OpenWallet
  <2> QED
    BY <1>0, <1>a, <2>2, <2>3
<1>2. ASSUME NEW c \in Calls, CreateWallet(c) \/ SaveParticipant(c) PROVE Goal
  BY <1>0, <1>2, <1>c DEF CreateWallet, SaveParticipant
<1>3. ASSUME NEW c \in Calls, NEW op \in {"credit", "debit", "join"}, NEW u \in Users,
             NEW a \in Nat, NEW pc \in {"record", "hold", "setting"},
             pc # "setting" => op # "join", ReadWallet(c, op, u, a, pc)
      PROVE  Goal
  <2> DEFINE r == [pc |-> pc, op |-> op, user |-> u, amount |-> a, copy |-> wallet[u]]
  <2>1. r.pc = pc /\ r.op = op
    OBVIOUS
  <2>2. (call'[c] = r \/ call'[c] = Rest("done")) /\ \A d \in Actors \ {c} : call'[d] = call[d]
    BY <1>0, <1>3 DEF ReadWallet, WalletTypeOK
  <2>3. Agreed(call[c])' /\ cache' \in {0, setting} /\ UNCHANGED <<setting, edited>>
    BY <1>3, <1>e, <2>1, <2>2, RestFields DEF Agreed, ReadWallet
  <2> QED
    BY <1>0, <1>a, <2>2, <2>3
<1>4. ASSUME NEW c \in Actors, ReadSetting(c) PROVE Goal
  <2>1. PICK a : a = IF cache # 0 THEN cache ELSE setting
    OBVIOUS
  <2>2. PICK pc \in {"fill", "read", "hold"} :
          pc = IF cache = 0 THEN "fill" ELSE IF c = Job THEN "read" ELSE "hold"
    OBVIOUS
  <2>3. call' = [call EXCEPT ![c].amount = a, ![c].pc = pc]
    BY <1>4, <2>1, <2>2, Zenon DEF ReadSetting
  <2>4. call'[c].amount = a /\ \A d \in Actors \ {c} : call'[d] = call[d]
    BY <1>0, <2>3 DEF WalletTypeOK, Call
  <2>5. UNCHANGED settingVars /\ cache \in {0, setting}
    BY <1>4, <1>e DEF ReadSetting
  <2>6. Agreed(call[c])'
    BY <2>1, <2>4, <2>5 DEF Agreed
  <2> QED
    BY <1>a, <2>4, <2>5, <2>6
<1>5. ASSUME NEW c \in Actors, FillCache(c) PROVE Goal
  <2>1. PICK pc \in {"read", "hold"} : Goto(c, pc)
    BY <1>5 DEF FillCache
  <2>2. UNCHANGED <<setting, edited>> /\ call[c].amount = setting /\ cache' = setting
    BY <1>5, <1>e DEF FillCache, Agreed
  <2>3. Agreed(call[c])'
    BY <2>1, <2>2, GotoFields DEF Agreed
  <2> QED
    BY <1>a, <2>1, <2>2, <2>3, GotoFields
<1>6. ASSUME NEW c \in Actors, NEW pc \in {"record", "save", "enrol"}, Goto(c, pc),
             call[c].pc \in {"hold", "record", "save"}, UNCHANGED settingVars
      PROVE  Goal
  <2>1. Agreed(call[c]) /\ cache \in {0, setting}
    BY <1>6, <1>e
  <2>2. Agreed(call[c])'
    BY <1>6, <2>1, GotoFields DEF Agreed
  <2> QED
    BY <1>6, <1>a, <2>1, <2>2, GotoFields
<1>7. ASSUME NEW c \in Actors,
             CheckBalance(c) \/ RecordTransaction(c) \/ StatementFails(c)
      PROVE  Goal
  BY <1>6, <1>7, <1>c DEF CheckBalance, RecordTransaction, StatementFails
<1>8. ASSUME NEW c \in Calls, SaveWallet(c) PROVE Goal
  BY <1>0, <1>6, <1>8, <1>c DEF SaveWallet
<1>9. ASSUME TakeJob PROVE Goal
  <2> DEFINE r == [Rest("setting") EXCEPT !.op = "release"]
  <2>1. r.pc = "setting"
    BY DEF Rest
  <2>2. call'[Job] = r /\ \A d \in Actors \ {Job} : call'[d] = call[d]
    BY <1>0, <1>9, Replaced DEF TakeJob
  <2>3. Agreed(call[Job])' /\ cache' \in {0, setting} /\ UNCHANGED <<setting, edited>>
    BY <1>9, <1>e, <2>1, <2>2 DEF Agreed, TakeJob
  <2> QED
    BY <1>0, <1>a, <2>2, <2>3
\* The job goes from one participant to the next with the amount it has.
<1>10. ASSUME NEW r, r.amount = call[Job].amount, call[Job].pc \in {"read", "save"},
              call'[Job] \in {r, Rest("done")}, \A d \in Actors \ {Job} : call'[d] = call[d],
              UNCHANGED settingVars
       PROVE  Goal
  <2>1. Agreed(call[Job]) /\ cache \in {0, setting} /\ call[Job].op = "release"
    BY <1>0, <1>10, <1>e DEF Sound
  <2>2. Agreed(call[Job])'
    BY <1>10, <2>1, RestFields DEF Agreed
  <2> QED
    BY <1>0, <1>10, <1>a, <2>1, <2>2
<1>11. ASSUME NEW u \in Users, ReadReleased(u) PROVE Goal
  <2> DEFINE r == [call[Job] EXCEPT !.pc = "save", !.user = u, !.copy = wallet[u]]
  <2>1. r.amount = call[Job].amount
    BY <1>0 DEF Call
  <2>2. (call'[Job] = r \/ call'[Job] = call[Job]) /\ \A d \in Actors \ {Job} : call'[d] = call[d]
    BY <1>0, <1>11 DEF ReadReleased, WalletTypeOK
  <2>3. call[Job].pc = "read" /\ UNCHANGED settingVars
    BY <1>11 DEF ReadReleased
  <2> HIDE DEF r
  <2> QED
    BY <1>10, <2>1, <2>2, <2>3
<1>12. ASSUME SaveReleased PROVE Goal
  <2>1. NextParticipant.amount = call[Job].amount
    BY <1>0 DEF NextParticipant, Call
  <2>2. /\ call'[Job] = NextParticipant \/ call'[Job] = Rest("done")
        /\ \A d \in Actors \ {Job} : call'[d] = call[d]
    BY <1>0, <1>12 DEF SaveReleased, WalletTypeOK
  <2>3. call[Job].pc = "save" /\ UNCHANGED settingVars
    BY <1>12 DEF SaveReleased
  <2> QED
    BY <1>10, <2>1, <2>2, <2>3
<1>13. ASSUME ReleaseDone PROVE Goal
  BY <1>0, <1>13, <1>c DEF ReleaseDone, Finish
<1>14. ASSUME RevalidateCache \/ CacheExpires \/ UNCHANGED walletVars PROVE Goal
  BY <1>14, <1>e DEF RevalidateCache, CacheExpires, Agreed
<1>15. ASSUME ServerStops PROVE Goal
  <2>1. ASSUME NEW c \in Actors
        PROVE  call'[c] = call[c] \/ call'[c] = Rest("idle") \/ call'[c] = Rest("done")
    BY <1>15 DEF ServerStops
  <2>2. UNCHANGED <<setting, cache, edited>>
    BY <1>15 DEF ServerStops
  <2> QED
    BY <1>e, <2>1, <2>2, RestFields DEF Agreed
<1>16. ASSUME NEW d \in Deposits, EditSetting(d) PROVE Goal
  BY <1>16 DEF EditSetting
<1> QED
  <2>1. /\ "credit" \in {"credit", "debit", "join"} /\ "debit" \in {"credit", "debit", "join"}
        /\ "join" \in {"credit", "debit", "join"} /\ Amounts \subseteq Nat /\ 0 \in Nat
    OBVIOUS
  <2>2. ASSUME NEW c \in Calls, WalletStep(c) PROVE Goal
    BY <1>1, <1>2, <1>3, <1>8, <2>1, <2>2
    DEF WalletStep, CreditWallet, DebitWallet, ConfirmTopup, AddParticipant
  <2>3. CASE JobStep
    BY <1>9, <1>11, <1>12, <1>13, <2>3 DEF JobStep
  <2> QED
    BY <1>4, <1>5, <1>7, <1>14, <1>15, <1>16, <2>2, <2>3 DEF WalletNext

\* A call that has stored its hold on the wallet of u and not its participant row.
Enrolling(u) == \E c \in Calls : call[c].pc = "enrol" /\ call[c].user = u

\* The end worker is about to release the hold of u.
Releasing(u) == call[Job].pc = "save" /\ call[Job].user = u

\* The deposit of u is in its held balance from the hold to the release.
Held(u) ==
    /\ wallet[u].held >= 0
    /\ jobs = 0 /\ (u \in participants \/ Enrolling(u)) => wallet[u].held >= setting
    /\ u \in todo => wallet[u].held >= setting
    /\ Releasing(u) => u \notin todo /\ wallet[u].held >= setting

\* A job at work was delivered.
Delivered == jobs = 0 => call[Job].pc = "idle"

HeldInv == Delivered /\ (~edited /\ jobs <= 1 => \A u \in Users \ dirty : Held(u))

LEMMA NextDelivered == WalletTypeOK /\ Delivered /\ [WalletNext]_walletVars => Delivered'
<1> SUFFICES ASSUME WalletTypeOK, Delivered, [WalletNext]_walletVars, jobs' = 0
             PROVE  call'[Job].pc = "idle"
  BY DEF Delivered
<1> USE WalletAssumption
<1>0. Job \in Actors /\ (\A c \in Calls : c \in Actors /\ c # Job) /\ jobs \in Nat
  BY DEF Actors, WalletTypeOK
<1>1. ~TakeJob /\ jobs = 0 /\ call[Job].pc = "idle"
  <2>1. ASSUME TakeJob PROVE FALSE
    BY <1>0, <2>1 DEF TakeJob
  <2>2. UNCHANGED jobs
    BY <2>1, ZenonT(40) DEF WalletNext, WalletStep, JobStep, OpenWallet, AddParticipant, CreditWallet,
       DebitWallet, ConfirmTopup, ReadWallet, CreateWallet, SaveWallet, SaveParticipant, ReadSetting,
       FillCache, CheckBalance, RecordTransaction, StatementFails, ReadReleased, SaveReleased,
       ReleaseDone, EditSetting, RevalidateCache, CacheExpires, ServerStops
  <2> QED
    BY <2>1, <2>2 DEF Delivered
<1>2. ASSUME NEW c \in Calls, WalletStep(c) PROVE call'[Job] = call[Job]
  BY <1>0, <1>2 DEF WalletStep, OpenWallet, AddParticipant, CreditWallet,
     DebitWallet, ConfirmTopup, ReadWallet, CreateWallet, SaveWallet, SaveParticipant, Goto, Finish,
     WalletTypeOK
<1>3. ASSUME NEW c \in Actors,
             ReadSetting(c) \/ FillCache(c) \/ CheckBalance(c) \/ RecordTransaction(c) \/ StatementFails(c)
      PROVE  call'[Job] = call[Job]
  <2>1. c # Job
    BY <1>1, <1>3 DEF ReadSetting, FillCache, CheckBalance, RecordTransaction, StatementFails
  <2> QED
    BY <1>0, <1>3, <2>1 DEF ReadSetting, FillCache, CheckBalance, RecordTransaction, StatementFails,
       Goto, Finish, WalletTypeOK
<1>4. ~JobStep
  BY <1>1 DEF JobStep, ReadReleased, SaveReleased, ReleaseDone
<1>5. ASSUME \/ \E d \in Deposits : EditSetting(d)
             \/ RevalidateCache \/ CacheExpires \/ ServerStops \/ UNCHANGED walletVars
      PROVE  call'[Job] = call[Job]
  BY <1>0, <1>1, <1>5 DEF EditSetting, RevalidateCache, CacheExpires, ServerStops
<1> QED
  BY <1>1, <1>2, <1>3, <1>4, <1>5 DEF WalletNext

\* A step that takes nothing out of the held balance of u and starts no release.
LEMMA HeldKept ==
    ASSUME WalletTypeOK, WalletTypeOK', NEW u \in Users, Held(u),
           wallet'[u].held >= wallet[u].held, setting' = setting, jobs' = jobs,
           u \in participants' => u \in participants \/ Enrolling(u),
           Enrolling(u)' => Enrolling(u) \/ wallet'[u].held >= setting,
           u \in todo' => u \in todo,
           Releasing(u)' => Releasing(u)
    PROVE  Held(u)'
<1>1. wallet[u].held \in Int /\ wallet'[u].held \in Int /\ setting \in Int
  <2>1. wallet[u] \in Balance /\ wallet'[u] \in Balance
    BY DEF WalletTypeOK
  <2> QED
    BY <2>1, WalletAssumption DEF Balance, WalletTypeOK
<1> QED
  BY <1>1 DEF Held

\* The deposit of a row nobody disturbed stays held until its one release.
LEMMA NextHeld ==
    /\ WalletTypeOK /\ WalletTypeOK' /\ CallInv /\ BooksInv /\ SettingInv /\ HeldInv
    /\ [WalletNext]_walletVars
    => HeldInv'
<1> SUFFICES ASSUME WalletTypeOK, WalletTypeOK', CallInv, BooksInv, SettingInv, HeldInv,
                    [WalletNext]_walletVars, ~edited', jobs' <= 1, NEW u \in Users, u \notin dirty'
             PROVE  Held(u)'
  BY NextDelivered DEF HeldInv
<1> USE WalletAssumption
<1>0. /\ \A c \in Calls : c \in Actors /\ c # Job
      /\ Job \in Actors /\ NoUser # u
      /\ \A c \in Actors : call[c] \in Call /\ Sound(c, call[c])
      /\ jobs \in Nat /\ setting \in Nat /\ wallet[u].held \in Int
      /\ jobs = 0 => call[Job].pc = "idle"
  <2>1. wallet[u] \in Balance
    BY DEF WalletTypeOK
  <2> QED
    BY <2>1 DEF Actors, WalletTypeOK, CallInv, HeldInv, Delivered, Balance
<1>1. UNCHANGED <<setting, edited>> /\ jobs <= 1 /\ u \notin dirty
  <2>1. ASSUME NEW d \in Deposits, EditSetting(d) PROVE FALSE
    BY <2>1 DEF EditSetting
  <2>2. UNCHANGED <<setting, edited>>
    BY <2>1, ZenonT(30) DEF WalletNext, WalletStep, JobStep, OpenWallet, AddParticipant, CreditWallet,
       DebitWallet, ConfirmTopup, ReadWallet, CreateWallet, SaveWallet, SaveParticipant, ReadSetting,
       FillCache, CheckBalance, RecordTransaction, StatementFails, TakeJob, ReadReleased, SaveReleased,
       ReleaseDone, RevalidateCache, CacheExpires, ServerStops
  <2>3. jobs' = jobs \/ jobs' = jobs + 1
    BY <2>1, ZenonT(40) DEF WalletNext, WalletStep, JobStep, OpenWallet, AddParticipant, CreditWallet,
       DebitWallet, ConfirmTopup, ReadWallet, CreateWallet, SaveWallet, SaveParticipant, ReadSetting,
       FillCache, CheckBalance, RecordTransaction, StatementFails, TakeJob, ReadReleased, SaveReleased,
       ReleaseDone, RevalidateCache, CacheExpires, ServerStops
  <2>4. dirty \subseteq dirty'
    BY <2>1, ZenonT(40) DEF WalletNext, WalletStep, JobStep, OpenWallet, AddParticipant, CreditWallet,
       DebitWallet, ConfirmTopup, ReadWallet, CreateWallet, SaveWallet, SaveParticipant, ReadSetting,
       FillCache, CheckBalance, RecordTransaction, StatementFails, TakeJob, ReadReleased, SaveReleased,
       ReleaseDone, RevalidateCache, CacheExpires, ServerStops
  <2> QED
    BY <1>0, <2>2, <2>3, <2>4
<1>2. Held(u) /\ Books(u) /\ \A c \in Actors : Agreed(call[c])
  BY <1>1 DEF HeldInv, BooksInv, SettingInv
\* The steps of one actor that write no row and neither start nor end an
\* enrolment or a release.
<1>a. ASSUME NEW c \in Actors, \A d \in Actors \ {c} : call'[d] = call[d],
             call'[c].pc \notin {"enrol"}, c = Job => call'[c].pc # "save",
             wallet'[u] = wallet[u], UNCHANGED <<participants, jobs>>, todo' \subseteq todo
      PROVE  Held(u)'
  <2>1. Enrolling(u)' => Enrolling(u)
    BY <1>0, <1>a DEF Enrolling
  <2>2. Releasing(u)' => Releasing(u)
    BY <1>0, <1>a DEF Releasing
  <2> QED
    BY <1>0, <1>1, <1>2, <1>a, <2>1, <2>2, HeldKept
<1>c. ASSUME NEW c \in Actors, Finish(c)
      PROVE  call'[c].pc = "done" /\ \A d \in Actors \ {c} : call'[d] = call[d]
  <2>1. call'[c] = Rest("done") /\ \A d \in Actors \ {c} : call'[d] = call[d]
    BY <1>c, Replaced DEF Finish
  <2> QED
    BY <2>1, RestFields
<1>3. ASSUME NEW c \in Calls, NEW v \in Users, OpenWallet(c, v) PROVE Held(u)'
  <2> DEFINE r == [Rest("open") EXCEPT !.op = "open", !.user = v]
  <2>1. r.pc = "open"
    BY DEF Rest
  <2>2. call'[c] = r /\ \A d \in Actors \ {c} : call'[d] = call[d]
    BY <1>0, <1>3, Replaced DEF OpenWallet
  <2> QED
    BY <1>0, <1>3, <1>a, <2>1, <2>2 DEF OpenWallet
<1>4. ASSUME NEW c \in Calls, CreateWallet(c) PROVE Held(u)'
  BY <1>0, <1>4, <1>a, <1>c DEF CreateWallet
<1>5. ASSUME NEW c \in Calls, NEW op, NEW v \in Users, NEW a, NEW pc \in {"record", "hold", "setting"},
             ReadWallet(c, op, v, a, pc)
      PROVE  Held(u)'
  <2> DEFINE r == [pc |-> pc, op |-> op, user |-> v, amount |-> a, copy |-> wallet[v]]
  <2>1. r.pc = pc
    OBVIOUS
  <2>2. (call'[c] = r \/ call'[c] = Rest("done")) /\ \A d \in Actors \ {c} : call'[d] = call[d]
    BY <1>0, <1>5 DEF ReadWallet, WalletTypeOK
  <2>3. call'[c].pc # "enrol"
    BY <2>1, <2>2, RestFields
  <2> QED
    BY <1>0, <1>5, <1>a, <2>2, <2>3 DEF ReadWallet
<1>6. ASSUME NEW c \in Actors, ReadSetting(c) PROVE Held(u)'
  <2>1. PICK a : a = IF cache # 0 THEN cache ELSE setting
    OBVIOUS
  <2>2. PICK pc \in {"fill", "read", "hold"} :
          pc = IF cache = 0 THEN "fill" ELSE IF c = Job THEN "read" ELSE "hold"
    OBVIOUS
  <2>3. call' = [call EXCEPT ![c].amount = a, ![c].pc = pc]
    BY <1>6, <2>1, <2>2, Zenon DEF ReadSetting
  <2>4. call'[c].pc = pc /\ \A d \in Actors \ {c} : call'[d] = call[d]
    BY <1>0, <2>3 DEF WalletTypeOK, Call
  <2> QED
    BY <1>6, <1>a, <2>2, <2>4 DEF ReadSetting
<1>7. ASSUME NEW c \in Actors, FillCache(c) PROVE Held(u)'
  <2>1. PICK pc \in {"read", "hold"} : Goto(c, pc)
    BY <1>7 DEF FillCache
  <2> QED
    BY <1>7, <1>a, <2>1, GotoFields DEF FillCache
<1>8. ASSUME NEW c \in Actors, CheckBalance(c) \/ RecordTransaction(c) \/ StatementFails(c)
      PROVE  Held(u)'
  <2>1. c = Job => call[c].pc \notin {"hold", "record"}
    BY <1>0 DEF Sound
  <2>2. UNCHANGED <<wallet, participants, jobs, todo>>
    BY <1>8 DEF CheckBalance, RecordTransaction, StatementFails
  <2>3. \/ Finish(c)
        \/ c # Job /\ \E pc \in {"record", "save"} : Goto(c, pc)
    BY <1>8, <2>1 DEF CheckBalance, RecordTransaction, StatementFails
  <2>4. CASE Finish(c)
    BY <1>a, <1>c, <2>2, <2>4
  <2>5. ASSUME c # Job, NEW pc \in {"record", "save"}, Goto(c, pc) PROVE Held(u)'
    BY <1>a, <2>2, <2>5, GotoFields
  <2> QED
    BY <2>3, <2>4, <2>5
\* A call saves: what it holds is added, nothing it does takes from the held balance.
<1>9. ASSUME NEW c \in Calls, SaveWallet(c) PROVE Held(u)'
  <2>1. /\ call[c].pc = "save" /\ call[c].user \in Users /\ call[c].op # "release"
        /\ call[c].op = "join" => call[c].amount = setting
        /\ call[c].amount \in Nat
    BY <1>0, <1>2, <1>9 DEF SaveWallet, Sound, Agreed, Call
  <2>2. (Goto(c, "enrol") /\ call[c].op = "join" /\ Whole(call[c].amount)) \/ Finish(c)
    BY <1>9 DEF SaveWallet
  <2>3. /\ \A d \in Actors \ {c} : call'[d] = call[d]
        /\ call'[c].pc = "enrol" => /\ call'[c].user = call[c].user /\ call[c].op = "join"
                                    /\ Whole(call[c].amount)
    BY <1>0, <1>c, <2>2, GotoFields
  <2>4. /\ wallet'[u].held >= wallet[u].held
        /\ call[c].op = "join" /\ Whole(call[c].amount) /\ call[c].user = u => wallet'[u].held >= setting
    <3>1. CASE call[c].user = u /\ Whole(call[c].amount)
      <4>1. wallet'[u] = Changed(c)
        BY <1>9, <3>1 DEF SaveWallet, WalletTypeOK
      <4>2. call[c].copy = wallet[u]
        BY <1>0, <1>2, <2>1, <3>1 DEF Books, Working
      <4>3. wallet[u].held >= 0
        BY <1>2 DEF Held
      <4> QED
        BY <1>0, <2>1, <3>1, <4>1, <4>2, <4>3, ChangedFields
    <3>2. CASE ~(call[c].user = u /\ Whole(call[c].amount))
      BY <1>0, <1>9, <3>2 DEF SaveWallet, WalletTypeOK
    <3> QED
      BY <3>1, <3>2
  <2>5. Enrolling(u)' => Enrolling(u) \/ wallet'[u].held >= setting
    BY <1>0, <2>3, <2>4 DEF Enrolling
  <2>6. Releasing(u)' => Releasing(u)
    BY <1>0, <2>3 DEF Releasing
  <2> QED
    BY <1>0, <1>1, <1>2, <1>9, <2>4, <2>5, <2>6, HeldKept DEF SaveWallet
<1>10. ASSUME NEW c \in Calls, SaveParticipant(c) PROVE Held(u)'
  <2>1. call'[c].pc = "done" /\ \A d \in Actors \ {c} : call'[d] = call[d]
    BY <1>0, <1>10, <1>c DEF SaveParticipant
  <2>2. u \in participants' => u \in participants \/ Enrolling(u)
    BY <1>10 DEF SaveParticipant, Enrolling
  <2>3. (Enrolling(u)' => Enrolling(u)) /\ (Releasing(u)' => Releasing(u))
    BY <1>0, <2>1 DEF Enrolling, Releasing
  <2> QED
    BY <1>0, <1>1, <1>2, <1>10, <2>2, <2>3, HeldKept DEF SaveParticipant
\* The job takes its list: whoever is on it has the deposit held.
<1>11. ASSUME TakeJob PROVE Held(u)'
  <2> DEFINE r == [Rest("setting") EXCEPT !.op = "release"]
  <2>1. r.pc = "setting"
    BY DEF Rest
  <2>2. call'[Job] = r
    BY <1>0, <1>11, Replaced DEF TakeJob
  <2>3. ~Releasing(u)'
    BY <2>1, <2>2 DEF Releasing
  <2>4. jobs = 0 /\ jobs' = 1
    BY <1>0, <1>11 DEF TakeJob
  <2>5. u \in todo' => wallet[u].held >= setting
    BY <1>2, <1>11, <2>4 DEF TakeJob, Held
  <2> QED
    BY <1>1, <1>2, <1>11, <2>3, <2>4, <2>5 DEF TakeJob, Held
<1>12. ASSUME NEW v \in Users, ReadReleased(v) PROVE Held(u)'
  <2> DEFINE r == [call[Job] EXCEPT !.pc = "save", !.user = v, !.copy = wallet[v]]
  <2>1. r.user = v
    BY <1>0 DEF Call
  <2>2. (call'[Job] = r \/ call'[Job] = call[Job]) /\ \A d \in Actors \ {Job} : call'[d] = call[d]
    BY <1>0, <1>12 DEF ReadReleased, WalletTypeOK
  <2> HIDE DEF r
  <2>3. call[Job].pc = "read" /\ call[Job].user # u /\ jobs # 0
    BY <1>0, <1>12 DEF ReadReleased, Sound
  <2>4. Releasing(u)' => u = v
    BY <2>1, <2>2, <2>3 DEF Releasing
  <2>5. /\ v \in todo /\ todo' = todo \ {v}
        /\ UNCHANGED <<jobs, wallet>>
    BY <1>12 DEF ReadReleased
  <2> QED
    BY <1>1, <1>2, <2>3, <2>4, <2>5 DEF Held
\* The release: the deposit was held and the user is no longer on the list.
<1>13. ASSUME SaveReleased PROVE Held(u)'
  <2>1. NextParticipant.pc = "read"
    BY <1>0 DEF NextParticipant, Call
  <2>2. call'[Job] = NextParticipant \/ call'[Job] = Rest("done")
    BY <1>0, <1>13 DEF SaveReleased, WalletTypeOK
  <2>3. ~Releasing(u)'
    BY <2>1, <2>2, RestFields DEF Releasing
  <2>4. /\ call[Job].pc = "save" /\ jobs # 0 /\ call[Job].op = "release"
        /\ call[Job].amount = setting /\ call[Job].user \in Users
    BY <1>0, <1>2, <1>13 DEF SaveReleased, Sound, Agreed
  <2>5. UNCHANGED <<todo, jobs>>
    BY <1>13 DEF SaveReleased
  <2>6. CASE call[Job].user = u /\ Whole(call[Job].amount)
    <3>1. wallet'[u] = Changed(Job)
      BY <1>13, <2>6 DEF SaveReleased, WalletTypeOK
    <3>2. call[Job].copy = wallet[u]
      BY <1>0, <1>2, <2>4, <2>6 DEF Books, Working
    <3>3. u \notin todo /\ wallet[u].held >= setting
      BY <1>2, <2>4, <2>6 DEF Held, Releasing
    <3>4. wallet'[u].held >= 0
      BY <1>0, <2>4, <3>1, <3>2, <3>3, ChangedFields
    <3> QED
      BY <2>3, <2>4, <2>5, <3>3, <3>4 DEF Held
  <2>7. CASE ~(call[Job].user = u /\ Whole(call[Job].amount))
    <3>1. wallet'[u] = wallet[u]
      BY <1>13, <2>7 DEF SaveReleased, WalletTypeOK
    <3> QED
      BY <1>1, <1>2, <2>3, <2>4, <2>5, <3>1 DEF Held
  <2> QED
    BY <2>6, <2>7
<1>14. ASSUME ReleaseDone PROVE Held(u)'
  BY <1>0, <1>14, <1>a, <1>c DEF ReleaseDone, Finish
<1>15. ASSUME RevalidateCache \/ CacheExpires \/ UNCHANGED walletVars PROVE Held(u)'
  BY <1>1, <1>2, <1>15 DEF RevalidateCache, CacheExpires, Held, Enrolling, Releasing
<1>16. ASSUME ServerStops PROVE Held(u)'
  <2>1. ASSUME NEW c \in Actors
        PROVE  call'[c].pc \in {"idle", "done"}
    <3>1. \/ call'[c] = call[c] /\ call[c].pc = "idle"
          \/ call'[c] = Rest("idle") \/ call'[c] = Rest("done")
      BY <1>16, <2>1 DEF ServerStops
    <3> QED
      BY <3>1, RestFields
  <2>2. ~Enrolling(u)' /\ ~Releasing(u)'
    BY <1>0, <2>1 DEF Enrolling, Releasing
  <2> QED
    BY <1>0, <1>1, <1>2, <1>16, <2>2, HeldKept DEF ServerStops
<1> QED
  <2>1. ASSUME NEW c \in Calls, WalletStep(c) PROVE Held(u)'
    BY <1>3, <1>4, <1>5, <1>9, <1>10, <2>1
    DEF WalletStep, CreditWallet, DebitWallet, ConfirmTopup, AddParticipant
  <2>2. CASE JobStep
    BY <1>11, <1>12, <1>13, <1>14, <2>2 DEF JobStep
  <2>3. ASSUME NEW d \in Deposits, EditSetting(d) PROVE Held(u)'
    BY <2>3 DEF EditSetting
  <2> QED
    BY <1>6, <1>7, <1>8, <1>15, <1>16, <2>1, <2>2, <2>3 DEF WalletNext

LEMMA HeldInvariant == WalletSpec => [](SettingInv /\ HeldInv)
<1>1. WalletInit => SettingInv /\ HeldInv
  <2> SUFFICES ASSUME WalletInit PROVE SettingInv /\ HeldInv
    OBVIOUS
  <2>1. Job \in Actors /\ \A c \in Calls : c \in Actors
    BY DEF Actors
  <2>2. \A c \in Actors : call[c].pc = "idle"
    BY RestFields DEF WalletInit
  <2>3. SettingInv
    BY <2>2 DEF WalletInit, SettingInv, Agreed
  <2>4. ASSUME NEW u \in Users PROVE Held(u)
    BY <2>1, <2>2, RestFields DEF WalletInit, Held, Enrolling, Releasing
  <2> QED
    BY <2>1, <2>2, <2>3, <2>4 DEF HeldInv, Delivered
<1> QED
  BY <1>1, MainInvariant, BooksInvariant, NextSetting, NextHeld, PTL DEF WalletSpec

\* With the deposit unedited and the end job delivered once, a wallet nobody
\* disturbed never becomes one that Wallet.create refuses to load, however
\* many calls joined, credited and debited before, during and after the
\* release.
THEOREM NobodyLockedOut == WalletSpec => []NeverLockedOut
<1>1. WalletTypeOK /\ MainCovered /\ HeldInv => NeverLockedOut
  BY DEF WalletTypeOK, MainCovered, HeldInv, Held, NeverLockedOut, Readable, Valid
<1> QED
  BY <1>1, MainInvariant, HeldInvariant, PTL
=============================================================================
