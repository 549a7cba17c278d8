--------------------------- MODULE AccountsProofs ---------------------------
(***************************************************************************)
(* Theorems about module Accounts, for any number of requests, codes,      *)
(* reports and points.                                                     *)
(***************************************************************************)
EXTENDS Accounts, SequenceTheorems, TLAPS

USE DEF accountsVars, codeVars, fraudVars

-----------------------------------------------------------------------------
(***************************************************************************)
(* The requests                                                            *)
(***************************************************************************)
\* A request whose copy of the user will be written back as it is.
Copied(r) ==
    \/ r.pc = "code" /\ r.op # "reset"
    \/ r.pc = "saveCode" /\ r.then = "saveUser"
    \/ r.pc \in {"report", "count", "saveUser", "threshold", "suspend"}

\* A request that has just begun: what it read of the user.
Begun(r) ==
    /\ r \in Call
    /\ r.then = "idle" /\ r.pc \in {"create", "otp", "code", "saveUser", "report", "update"}
    /\ r.pc = "create" => r.copy.status = "ACTIVE" /\ r.copy.fraud = 0
    /\ r.pc \notin {"create", "update"} => user.status # "none"
    /\ r.pc = "update" => r.report \in DOMAIN reports
    /\ r.copy.fraud \in {0, user.fraud}
    /\ Copied(r) => /\ r.copy.status # "none" /\ r.copy.fraud = user.fraud
                    /\ Out(user) => Out(r.copy) \/ r.op = "unblock"

LEMMA NothingType == NoUser \in User /\ NoReport \in Report /\ NoOtp \in Otp /\ Rest \in Call
<1> USE AccountsAssumption
<1>1. NoUser \in User
  BY DEF NoUser, User
<1>2. NoReport \in Report
  BY DEF NoReport, Report
<1>3. NoOtp \in Otp
  BY DEF NoOtp, Otp, Purposes
<1> QED
  BY <1>1, <1>2, <1>3 DEF Rest, Call, Purposes

LEMMA RestFields ==
    /\ Rest.pc = "idle" /\ Rest.op = "none" /\ Rest.then = "idle" /\ Rest.copy = NoUser
    /\ Rest.filed = NoReport /\ Rest.otp = NoOtp
    /\ NoUser.fraud = 0 /\ NoUser.status = "none"
  BY DEF Rest, NoUser

\* The steps of a request after its first.
Later(c) ==
    \/ CreateUser(c) \/ CreateOtp(c) \/ (\E right, old \in BOOLEAN : ReadOtp(c, right, old))
    \/ ReadUser(c) \/ SaveOtp(c) \/ SaveUser(c) \/ CallFails(c)
    \/ (\E today \in BOOLEAN : SaveReport(c, today))
    \/ CountReports(c) \/ UpdateReport(c) \/ AddPoints(c) \/ DecideSuspension(c) \/ CreateSuspension(c)

\* Every first step of a request is of one form.
LEMMA Beginnings ==
    ASSUME AccountsTypeOK, NEW c \in Calls, UserStep(c) \/ FraudStep(c)
    PROVE  Later(c) \/ \E r \in Call : Begin(c, r) /\ Begun(r)
<1> USE NothingType
<1>0. user \in User /\ user.fraud \in 0..MaxGranted
  BY DEF AccountsTypeOK, User
<1>1. ASSUME Register(c) PROVE \E r \in Call : Begin(c, r) /\ Begun(r)
  <2> DEFINE u == [NoUser EXCEPT !.status = "ACTIVE", !.local = TRUE]
             r == [Rest EXCEPT !.pc = "create", !.op = "register", !.copy = u]
  <2>1. u \in User /\ u.status = "ACTIVE" /\ u.fraud = 0
    BY DEF User, NoUser
  <2> HIDE DEF u
  <2>2. r \in Call /\ r.pc = "create" /\ r.then = "idle" /\ r.copy = u
    BY <2>1, ZenonT(40) DEF Call, Rest
  <2>3. Begin(c, r)
    BY <1>1 DEF Register, u
  <2> HIDE DEF r
  <2>4. Begun(r)
    BY <2>1, <2>2 DEF Begun, Copied
  <2> QED
    BY <2>2, <2>3, <2>4
<1>2. ASSUME GoogleAuth(c) PROVE \E r \in Call : Begin(c, r) /\ Begun(r)
  <2> DEFINE u == [NoUser EXCEPT !.status = "ACTIVE", !.verified = TRUE]
             r == [Rest EXCEPT !.pc = "create", !.op = "google", !.copy = u]
  <2>1. u \in User /\ u.status = "ACTIVE" /\ u.fraud = 0
    BY DEF User, NoUser
  <2> HIDE DEF u
  <2>2. r \in Call /\ r.pc = "create" /\ r.then = "idle" /\ r.copy = u
    BY <2>1, ZenonT(40) DEF Call, Rest
  <2>3. Begin(c, r)
    BY <1>2 DEF GoogleAuth, u
  <2> HIDE DEF r
  <2>4. Begun(r)
    BY <2>1, <2>2 DEF Begun, Copied
  <2> QED
    BY <2>2, <2>3, <2>4
<1>3. ASSUME ForgotPassword(c) \/ \E p \in Purposes : SendOtp(c, p)
      PROVE \E r \in Call : Begin(c, r) /\ Begun(r)
  <2>1. "RESET_PASSWORD" \in Purposes
    BY DEF Purposes
  <2>2. PICK p \in Purposes : user.status # "none" /\ Begin(c, [Rest EXCEPT !.pc = "otp", !.op = "send", !.purpose = p])
    BY <1>3, <2>1 DEF ForgotPassword, SendOtp
  <2> DEFINE r == [Rest EXCEPT !.pc = "otp", !.op = "send", !.purpose = p]
  <2>3. r \in Call /\ r.pc = "otp" /\ r.then = "idle" /\ r.copy = NoUser /\ NoUser.fraud = 0
    BY DEF Call, Rest, NoUser
  <2>4. Begin(c, r)
    BY <2>2
  <2> HIDE DEF r
  <2>5. Begun(r)
    BY <2>2, <2>3 DEF Begun, Copied
  <2> QED
    BY <2>3, <2>4, <2>5
<1>4. ASSUME NEW op \in {"verify", "reset", "password", "edit"}, NEW p \in Purposes, NEW u \in User,
             user.status # "none", AskCode(c, op, p, u),
             op # "reset" => u.status = user.status /\ u.fraud = user.fraud,
             op = "reset" => u = NoUser
      PROVE \E r \in Call : Begin(c, r) /\ Begun(r)
  <2> DEFINE r == [Rest EXCEPT !.pc = "code", !.op = op, !.purpose = p, !.copy = u]
  <2>1. r \in Call /\ r.pc = "code" /\ r.op = op /\ r.then = "idle" /\ r.copy = u
    BY DEF Call, Rest
  <2>2. Begin(c, r) /\ NoUser.fraud = 0
    BY <1>4 DEF AskCode, NoUser
  <2> HIDE DEF r
  <2>3. Begun(r)
    BY <1>4, <2>1, <2>2 DEF Begun, Copied, Out
  <2> QED
    BY <2>1, <2>2, <2>3
<1>5. ASSUME NEW p \in Purposes, VerifyCredentials(c, p) PROVE \E r \in Call : Begin(c, r) /\ Begun(r)
  <2>0. PICK b \in BOOLEAN : b = TRUE
    OBVIOUS
  <2>1. PICK u : u = [user EXCEPT !.verified = b]
    OBVIOUS
  <2>2. u \in User /\ u.status = user.status /\ u.fraud = user.fraud
    BY <1>0, <2>1 DEF User
  <2>3. AskCode(c, "verify", p, u) /\ user.status # "none"
    BY <1>5, <2>0, <2>1, Zenon DEF VerifyCredentials
  <2>4. PICK op \in {"verify", "reset", "password", "edit"} : op = "verify"
    OBVIOUS
  <2>5. AskCode(c, op, p, u)
    BY <2>3, <2>4
  <2> QED
    BY <1>4, <2>2, <2>3, <2>4, <2>5
<1>6. ASSUME ChangePassword(c) \/ ChangeProfilePassword(c) \/ EditProfile(c)
      PROVE \E r \in Call : Begin(c, r) /\ Begun(r)
  <2>1. {"RESET_PASSWORD", "CHANGE_PROFILE_PASSWORD", "EDIT_PROFILE"} \subseteq Purposes
    BY DEF Purposes
  <2>2. CASE ChangePassword(c)
    <3>1. user.status # "none" /\ AskCode(c, "reset", "RESET_PASSWORD", NoUser)
      BY <2>2, Zenon DEF ChangePassword
    <3>2. PICK op \in {"verify", "reset", "password", "edit"} : op = "reset"
      OBVIOUS
    <3> QED
      BY <1>4, <2>1, <3>1, <3>2
  <2>3. CASE ChangeProfilePassword(c)
    <3>1. user.status = "ACTIVE" /\ AskCode(c, "password", "CHANGE_PROFILE_PASSWORD", user)
      BY <2>3, Zenon DEF ChangeProfilePassword, Authenticated
    <3>2. PICK op \in {"verify", "reset", "password", "edit"} : op = "password"
      OBVIOUS
    <3> QED
      BY <1>0, <1>4, <2>1, <3>1, <3>2
  <2>4. CASE EditProfile(c)
    <3>1. user.status = "ACTIVE" /\ AskCode(c, "edit", "EDIT_PROFILE", user)
      BY <2>4, Zenon DEF EditProfile, Authenticated
    <3>2. PICK op \in {"verify", "reset", "password", "edit"} : op = "edit"
      OBVIOUS
    <3> QED
      BY <1>0, <1>4, <2>1, <3>1, <3>2
  <2> QED
    BY <1>6, <2>2, <2>3, <2>4
<1>7. ASSUME NEW op \in {"profile", "block", "unblock"}, NEW u \in User, Rewrite(c, op, u),
             u.status # "none", user.status # "none", u.fraud = user.fraud,
             Out(user) => Out(u) \/ op = "unblock"
      PROVE \E r \in Call : Begin(c, r) /\ Begun(r)
  <2> DEFINE r == [Rest EXCEPT !.pc = "saveUser", !.op = op, !.copy = u]
  <2>1. r \in Call /\ r.pc = "saveUser" /\ r.op = op /\ r.then = "idle" /\ r.copy = u
    BY DEF Call, Rest
  <2>2. Begin(c, r)
    BY <1>7 DEF Rewrite
  <2> HIDE DEF r
  <2>3. Begun(r)
    BY <1>7, <2>1 DEF Begun, Copied
  <2> QED
    BY <2>1, <2>2, <2>3
<1>8. ASSUME CompleteProfile(c) \/ UpdateAvatarUrl(c) PROVE \E r \in Call : Begin(c, r) /\ Begun(r)
  BY <1>0, <1>7, <1>8 DEF CompleteProfile, UpdateAvatarUrl, Authenticated
<1>9. ASSUME NEW block \in BOOLEAN, BlockUser(c, block) PROVE \E r \in Call : Begin(c, r) /\ Begun(r)
  <2>1. PICK st \in {"BLOCKED", "ACTIVE"} : st = IF block THEN "BLOCKED" ELSE "ACTIVE"
    OBVIOUS
  <2>2. PICK op \in {"block", "unblock"} : op = IF block THEN "block" ELSE "unblock"
    OBVIOUS
  <2>3. PICK u : u = [user EXCEPT !.status = st]
    OBVIOUS
  <2>4. u \in User /\ u.status = st /\ u.fraud = user.fraud
    BY <1>0, <2>3 DEF User
  <2>5. Rewrite(c, op, u) /\ user.status # "none"
    BY <1>9, <2>1, <2>2, <2>3, Zenon DEF BlockUser
  <2>6. Out(u) \/ op = "unblock"
    BY <2>1, <2>2, <2>4 DEF Out
  <2> QED
    BY <1>7, <2>4, <2>5, <2>6
<1>10. ASSUME NEW by \in {"USER", "SELLER"}, NEW points \in Points, CreateFraudReport(c, by, points)
       PROVE \E r \in Call : Begin(c, r) /\ Begun(r)
  <2> DEFINE f == [NoReport EXCEPT !.by = by, !.points = points]
             r == [Rest EXCEPT !.pc = "report", !.op = "report", !.copy = user, !.filed = f]
  <2>1. f \in Report
    BY DEF Report
  <2> HIDE DEF f
  <2>2. r \in Call /\ r.pc = "report" /\ r.op = "report" /\ r.then = "idle" /\ r.copy = user
    BY <1>0, <2>1 DEF Call, Rest
  <2>3. Begin(c, r) /\ user.status # "none"
    BY <1>10 DEF CreateFraudReport, f
  <2> HIDE DEF r
  <2>4. Begun(r)
    BY <2>2, <2>3 DEF Begun, Copied
  <2> QED
    BY <2>2, <2>3, <2>4
<1>11. ASSUME NEW op \in {"update", "review"}, NEW i \in DOMAIN reports, NEW f \in Report,
              NEW b \in BOOLEAN, OpenReport(c, op, i, f, b)
       PROVE \E r \in Call : Begin(c, r) /\ Begun(r)
  <2> DEFINE r == [Rest EXCEPT !.pc = "update", !.op = op, !.report = i, !.filed = f, !.flag = b]
  <2>0. i \in 0..MaxReports
    BY AccountsAssumption DEF AccountsTypeOK
  <2>1. /\ r \in Call /\ r.pc = "update" /\ r.then = "idle" /\ r.copy = NoUser /\ r.report = i
        /\ NoUser.fraud = 0
    BY <2>0 DEF Call, Rest, NoUser
  <2>2. Begin(c, r)
    BY <1>11 DEF OpenReport
  <2> HIDE DEF r
  <2>3. Begun(r)
    BY <2>1 DEF Begun, Copied
  <2> QED
    BY <2>1, <2>2, <2>3
<1>12. ASSUME NEW i \in DOMAIN reports,
              \/ \E verified \in BOOLEAN : ReviewFraudReport(c, i, verified)
              \/ MarkUnderReview(c, i)
              \/ \E by \in {"USER", "SELLER"}, points \in Points, status \in {"OPEN", "RESOLVED"} :
                    UpdateFraudReport(c, i, by, points, status)
       PROVE \E r \in Call : Begin(c, r) /\ Begun(r)
  <2>1. reports[i] \in Report
    BY DEF AccountsTypeOK
  <2>2. /\ [reports[i] EXCEPT !.status = "RESOLVED"] \in Report
        /\ [reports[i] EXCEPT !.status = IF @ = "OPEN" THEN "UNDER_REVIEW" ELSE @] \in Report
        /\ \A by \in {"USER", "SELLER"}, points \in Points, status \in {"OPEN", "RESOLVED"} :
              [reports[i] EXCEPT !.by = by, !.points = points, !.status = status] \in Report
    BY <2>1 DEF Report
  <2> QED
    BY <1>11, <1>12, <2>2 DEF ReviewFraudReport, MarkUnderReview, UpdateFraudReport
<1> QED
  BY <1>1, <1>2, <1>3, <1>5, <1>6, <1>8, <1>9, <1>10, <1>12 DEF UserStep, FraudStep, Later

-----------------------------------------------------------------------------
(***************************************************************************)
(* The inductive invariant                                                 *)
(***************************************************************************)
\* The points a request is about to hand out.
Owed(r) == IF r.then = "threshold" THEN r.filed.points ELSE 0

\* Whatever overlaps: a request knows the rows it will write, works for an
\* account that exists, and its copy holds no points but those handed out and
\* the ones it is about to hand out.
Sound(r) ==
    /\ r.pc \in {"saveCode", "user"} => r.code \in 1..Len(codes)
    /\ r.pc = "update" => r.report \in 1..Len(reports)
    /\ r.then = "threshold" => r.pc = "saveUser"
    /\ r.then = "saveUser" => r.pc \in {"saveCode", "user"}
    /\ r.copy.fraud <= granted + Owed(r)
    /\ r.pc \notin {"idle", "create"} => user.status # "none"
    /\ r.pc = "create" => r.copy.status = "ACTIVE" /\ r.copy.fraud = 0
    /\ Copied(r) => r.copy.status # "none"

RowsOK ==
    /\ user \in User /\ granted \in Nat
    /\ codes \in Seq(Otp) /\ Len(codes) <= MaxCodes /\ guesses \in [1..MaxCodes -> Nat]
    /\ reports \in Seq(Report) /\ Len(reports) <= MaxReports
    /\ user.fraud <= granted
    /\ user.status = "none" => granted = 0 /\ Len(reports) = 0
    /\ \A i \in 1..MaxCodes : i > Len(codes) => guesses[i] = 0

OtherOK ==
    /\ suspensions \in [{"TEMPORARY", "PERMANENT"} -> Nat] /\ requests \in 0..MaxRequests
    /\ pardoned \in BOOLEAN /\ mixed \in BOOLEAN

CallsOK == call \in [Calls -> Call] /\ \A c \in Calls : Sound(call[c])

\* One request at a time: its copies are what the rows say, but for what it
\* means to change.
Accurate(r) ==
    /\ Copied(r) => /\ r.copy.fraud = user.fraud + Owed(r)
                    /\ Out(user) => Out(r.copy) \/ r.op = "unblock"
    /\ r.pc \in {"saveCode", "user"} => guesses[r.code] <= r.otp.attempts

\* A request on its way to suspending the account.
Suspending(r) ==
    r.pc \in {"threshold", "suspend"} \/ (r.pc = "saveUser" /\ r.copy.status = "SUSPENDED")

\* What holds when r is the only request under way: the wrong tries of a code
\* are counted in its row, or r is about to write them there.
Alone(r) ==
    /\ Accurate(r)
    /\ user.fraud = granted
    /\ user.fraud >= Threshold => Out(user) \/ pardoned \/ Suspending(r)
    /\ \A i \in 1..Len(codes) : (r.pc = "saveCode" /\ r.code = i) \/ guesses[i] <= codes[i].attempts

OneBusy == \A c, d \in Calls : Busy(c) /\ Busy(d) => c = d

AloneInv == ~mixed => OneBusy /\ \A c \in Calls : (\A d \in Calls \ {c} : ~Busy(d)) => Alone(call[c])

AccountsInv == RowsOK /\ OtherOK /\ CallsOK /\ AloneInv

\* What one step of request c has to establish; the others follow.
Advance(c) ==
    /\ call' \in [Calls -> Call] /\ \A d \in Calls \ {c} : call'[d] = call[d]
    /\ Sound(call[c])'
    /\ ~mixed' /\ Alone(call[c]) => Alone(call[c])'
    /\ RowsOK'
    /\ Len(codes) <= Len(codes') /\ Len(reports) <= Len(reports') /\ granted <= granted'
    /\ user.status # "none" => user'.status # "none"

LEMMA TypeFacts ==
    ASSUME RowsOK, OtherOK, CallsOK
    PROVE  /\ AccountsTypeOK
           /\ user.fraud \in Nat /\ user.status \in {"none", "ACTIVE", "BLOCKED", "SUSPENDED"}
           /\ Len(codes) \in Nat /\ DOMAIN codes = 1..Len(codes) /\ \A i \in DOMAIN codes : codes[i] \in Otp
           /\ Len(reports) \in Nat /\ DOMAIN reports = 1..Len(reports)
           /\ \A i \in DOMAIN reports : reports[i] \in Report
<1>1. AccountsTypeOK
  BY DEF RowsOK, OtherOK, CallsOK, AccountsTypeOK
<1>2. user.fraud \in Nat /\ user.status \in {"none", "ACTIVE", "BLOCKED", "SUSPENDED"}
  BY DEF RowsOK, User
<1> QED
  BY <1>1, <1>2 DEF RowsOK

LEMMA CallFacts ==
    ASSUME CallsOK, NEW c \in Calls
    PROVE  /\ call[c] \in Call /\ call[c].copy \in User /\ call[c].otp \in Otp /\ call[c].filed \in Report
           /\ call[c].copy.fraud \in Nat /\ call[c].filed.points \in Nat
           /\ call[c].otp.attempts \in 0..MaxAttempts
           /\ call[c].flag \in BOOLEAN /\ call[c].purpose \in Purposes /\ call[c].code \in 0..MaxCodes
           /\ Sound(call[c])
<1>1. call[c] \in Call /\ Sound(call[c])
  BY DEF CallsOK
<1>2. /\ call[c].copy \in User /\ call[c].otp \in Otp /\ call[c].filed \in Report
      /\ call[c].purpose \in Purposes /\ call[c].code \in 0..MaxCodes
  BY <1>1 DEF Call
<1>3. call[c].flag \in BOOLEAN
  BY <1>1, Zenon DEF Call
<1>4. call[c].copy.fraud \in Nat
  BY <1>2 DEF User
<1>5. call[c].filed.points \in Nat
  <2>1. call[c].filed.points \in Points \cup {0}
    BY <1>2 DEF Report
  <2>2. Points \subseteq Nat /\ 0 \in Nat
    BY AccountsAssumption
  <2> QED
    BY <2>1, <2>2, Zenon
<1>6. call[c].otp.attempts \in 0..MaxAttempts
  BY <1>2 DEF Otp
<1> QED
  BY <1>1, <1>2, <1>3, <1>4, <1>5, <1>6

\* A request that ends, the rows as they were.
LEMMA Ends ==
    ASSUME RowsOK, OtherOK, CallsOK, NEW c \in Calls, Finish(c),
           UNCHANGED <<user, codes, guesses, reports, granted, pardoned>>,
           mixed' \/ (call[c].pc # "saveCode" /\ (Suspending(call[c]) => user.fraud < Threshold))
    PROVE  Advance(c)
<1>1. call' \in [Calls -> Call] /\ call'[c] = Rest /\ \A d \in Calls \ {c} : call'[d] = call[d]
  BY NothingType DEF CallsOK, Finish
<1>2. /\ call'[c].pc = "idle" /\ call'[c].then = "idle" /\ call'[c].copy.fraud = 0
  BY <1>1, RestFields
<1>3. Sound(call[c])'
  BY <1>2 DEF Sound, Copied, Owed, RowsOK
<1>4. ASSUME ~mixed', Alone(call[c]) PROVE Alone(call[c])'
  BY <1>2, <1>4, TypeFacts, AccountsAssumption DEF Alone, Accurate, Copied, Suspending, Out
<1>5. RowsOK'
  BY DEF RowsOK
<1> QED
  BY <1>1, <1>3, <1>4, <1>5, TypeFacts DEF Advance, RowsOK

LEMMA BeginAdvances ==
    ASSUME RowsOK, OtherOK, CallsOK, NEW c \in Calls, NEW r \in Call, Begin(c, r), Begun(r)
    PROVE  Advance(c)
<1>1. call' \in [Calls -> Call] /\ call'[c] = r /\ \A d \in Calls \ {c} : call'[d] = call[d]
  BY DEF CallsOK, Begin
<1>2. UNCHANGED <<user, codes, guesses, reports, granted, pardoned>> /\ call[c].pc = "idle"
  BY DEF Begin, Busy
<1>3. Sound(call[c])'
  <2>1. r.copy.fraud <= granted /\ Owed(r) = 0
    BY TypeFacts DEF Begun, Owed, RowsOK
  <2>2. r.pc = "update" => r.report \in 1..Len(reports) /\ user.status # "none"
    BY TypeFacts DEF Begun, RowsOK
  <2>3. r.pc \notin {"idle", "create"} => user.status # "none"
    BY <2>2 DEF Begun
  <2> QED
    BY <1>1, <1>2, <2>1, <2>2, <2>3 DEF Sound, Begun, RowsOK
<1>4. ASSUME Alone(call[c]) PROVE Alone(call[c])'
  <2>1. Accurate(call[c])'
    BY <1>1, <1>2, TypeFacts DEF Begun, Accurate, Owed
  <2> QED
    BY <1>1, <1>2, <1>4, <2>1 DEF Alone, Suspending, Out
<1>5. RowsOK'
  BY <1>2 DEF RowsOK
<1> QED
  BY <1>1, <1>2, <1>3, <1>4, <1>5, TypeFacts DEF Advance, RowsOK

LEMMA CreateUserAdvances ==
    ASSUME RowsOK, OtherOK, CallsOK, NEW c \in Calls, CreateUser(c)
    PROVE  Advance(c)
<1> USE AccountsAssumption
<1>1. /\ call[c].pc = "create" /\ UNCHANGED <<codes, guesses, reports, granted, pardoned, mixed>>
      /\ call[c].copy.status = "ACTIVE" /\ call[c].copy.fraud = 0 /\ call[c].copy \in User
  BY CallFacts DEF CreateUser, Sound
<1>2. CASE user.status # "none"
  BY <1>1, <1>2, Ends DEF CreateUser, Suspending
<1>3. CASE user.status = "none"
  <2>1. user' = call[c].copy /\ user'.fraud = 0 /\ user'.status = "ACTIVE" /\ granted = 0
    BY <1>1, <1>3 DEF CreateUser, RowsOK
  <2>2. RowsOK'
    BY <1>1, <2>1 DEF RowsOK
  <2>3. /\ call' \in [Calls -> Call] /\ \A d \in Calls \ {c} : call'[d] = call[d]
        /\ call'[c].pc \in {"idle", "otp"} /\ call'[c].then = "idle" /\ call'[c].copy.fraud = 0
    <3>1. CASE call[c].op = "register"
      <4>1. call' = [call EXCEPT ![c].pc = "otp"] /\ call[c] \in Call
        BY <1>3, <3>1, CallFacts DEF CreateUser, Goto
      <4>2. [call[c] EXCEPT !.pc = "otp"] \in Call
        BY <4>1 DEF Call
      <4> QED
        BY <1>1, <4>1, <4>2, CallFacts, SMTT(30) DEF CallsOK, Call, Sound
    <3>2. CASE call[c].op # "register"
      BY <1>3, <3>2, NothingType, RestFields DEF CreateUser, Finish, CallsOK
    <3> QED
      BY <3>1, <3>2
  <2>4. Sound(call[c])'
    BY <1>1, <2>1, <2>3 DEF Sound, Copied, Owed, RowsOK
  <2>5. ASSUME Alone(call[c]) PROVE Alone(call[c])'
    BY <1>1, <2>1, <2>3, <2>5 DEF Alone, Accurate, Copied, Suspending
  <2> QED
    BY <1>1, <2>1, <2>2, <2>3, <2>4, <2>5, TypeFacts DEF Advance, RowsOK
<1> QED
  BY <1>2, <1>3

LEMMA CreateOtpAdvances ==
    ASSUME RowsOK, OtherOK, CallsOK, NEW c \in Calls, CreateOtp(c)
    PROVE  Advance(c)
<1> USE AccountsAssumption
<1>0. PICK o : o = [purpose |-> call[c].purpose, status |-> "PENDING", attempts |-> 0, live |-> TRUE]
  OBVIOUS
<1>1. o \in Otp /\ o.attempts = 0
  BY <1>0, CallFacts DEF Otp
<1>2. /\ call[c].pc = "otp" /\ UNCHANGED <<user, guesses, reports, granted, pardoned, mixed>>
      /\ Len(codes) < MaxCodes /\ codes' = Append(codes, o)
  BY <1>0 DEF CreateOtp
<1>3. /\ codes' \in Seq(Otp) /\ Len(codes') = Len(codes) + 1
      /\ \A i \in 1..Len(codes) : codes'[i] = codes[i]
      /\ codes'[Len(codes) + 1] = o
  BY <1>1, <1>2, AppendProperties DEF RowsOK
<1>4. call' \in [Calls -> Call] /\ call'[c] = Rest /\ \A d \in Calls \ {c} : call'[d] = call[d]
  BY NothingType DEF CreateOtp, CallsOK, Finish
<1>5. call'[c].pc = "idle" /\ call'[c].then = "idle" /\ call'[c].copy.fraud = 0
  BY <1>4, RestFields
<1>6. RowsOK'
  BY <1>2, <1>3, TypeFacts, SMTT(30) DEF RowsOK
<1>7. Sound(call[c])'
  BY <1>2, <1>5 DEF Sound, Copied, Owed, RowsOK
<1>8. ASSUME Alone(call[c]) PROVE Alone(call[c])'
  <2>1. ASSUME NEW i \in 1..Len(codes') PROVE guesses'[i] <= codes'[i].attempts
    <3>1. CASE i = Len(codes) + 1
      <4>1. i \in 1..MaxCodes /\ i > Len(codes)
        BY <1>2, <1>3, <3>1, TypeFacts
      <4>2. guesses[i] = 0
        BY <4>1 DEF RowsOK
      <4> QED
        BY <1>1, <1>2, <1>3, <3>1, <4>2
    <3>2. CASE i # Len(codes) + 1
      BY <1>2, <1>3, <1>8, <3>2, TypeFacts DEF Alone
    <3> QED
      BY <3>1, <3>2
  <2> QED
    BY <1>2, <1>5, <1>8, <2>1 DEF Alone, Accurate, Copied, Suspending, Out
<1> QED
  BY <1>2, <1>3, <1>4, <1>6, <1>7, <1>8, TypeFacts, SMTT(30) DEF Advance, RowsOK

LEMMA ReadUserAdvances ==
    ASSUME RowsOK, OtherOK, CallsOK, NEW c \in Calls, ReadUser(c)
    PROVE  Advance(c)
<1>1. /\ call[c].pc = "user" /\ UNCHANGED <<user, codes, guesses, reports, granted, pardoned, mixed>>
      /\ Sound(call[c])
  BY CallFacts DEF ReadUser
<1>2. CASE Out(user)
  BY <1>1, <1>2, Ends DEF ReadUser, Suspending
<1>3. CASE ~Out(user)
  <2>1. PICK q : q = [call[c] EXCEPT !.copy = user, !.pc = "saveCode"]
    OBVIOUS
  <2>2. call' = [call EXCEPT ![c] = q]
    BY <1>3, <2>1, CallFacts DEF ReadUser, CallsOK
  <2>3. /\ q \in Call /\ q.pc = "saveCode" /\ q.copy = user /\ q.code = call[c].code /\ q.otp = call[c].otp
        /\ q.then = call[c].then /\ q.filed = call[c].filed /\ q.op = call[c].op
    BY <2>1, CallFacts, TypeFacts, ZenonT(40) DEF Call, RowsOK
  <2>4. call' \in [Calls -> Call] /\ call'[c] = q /\ \A d \in Calls \ {c} : call'[d] = call[d]
    BY <2>2, <2>3 DEF CallsOK
  <2>5. Sound(call[c])'
    BY <1>1, <2>3, <2>4 DEF Sound, Copied, Owed, RowsOK
  <2>6. ASSUME Alone(call[c]) PROVE Alone(call[c])'
    BY <1>1, <1>3, <2>3, <2>4, <2>6, TypeFacts DEF Alone, Accurate, Copied, Suspending, Out, Owed, Sound
  <2>7. RowsOK'
    BY <1>1 DEF RowsOK
  <2> QED
    BY <1>1, <2>4, <2>5, <2>6, <2>7, TypeFacts DEF Advance, RowsOK
<1> QED
  BY <1>2, <1>3

LEMMA CountReportsAdvances ==
    ASSUME RowsOK, OtherOK, CallsOK, NEW c \in Calls, CountReports(c)
    PROVE  Advance(c)
<1>1. /\ call[c].pc = "count" /\ UNCHANGED <<user, codes, guesses, reports, granted, pardoned, mixed>>
      /\ Sound(call[c])
  BY CallFacts DEF CountReports
<1>2. CASE Finish(c)
  BY <1>1, <1>2, Ends DEF Suspending
<1>3. CASE call' = [call EXCEPT ![c].pc = "saveUser", ![c].copy.status = "SUSPENDED"]
  <2>1. PICK u : u = [call[c].copy EXCEPT !.status = "SUSPENDED"]
    OBVIOUS
  <2>2. u \in User /\ u.status = "SUSPENDED" /\ u.fraud = call[c].copy.fraud
    BY <2>1, CallFacts DEF User
  <2>3. PICK q : q = [call[c] EXCEPT !.pc = "saveUser", !.copy = u]
    OBVIOUS
  <2>4. call' = [call EXCEPT ![c] = q]
    BY <1>3, <2>1, <2>3, CallFacts DEF CallsOK, Call
  <2>5. /\ q \in Call /\ q.pc = "saveUser" /\ q.copy = u
        /\ q.then = call[c].then /\ q.filed = call[c].filed /\ q.op = call[c].op
    BY <2>2, <2>3, CallFacts, ZenonT(40) DEF Call
  <2>6. call' \in [Calls -> Call] /\ call'[c] = q /\ \A d \in Calls \ {c} : call'[d] = call[d]
    BY <2>4, <2>5 DEF CallsOK
  <2>7. Sound(call[c])'
    BY <1>1, <2>2, <2>5, <2>6 DEF Sound, Copied, Owed, RowsOK
  <2>8. ASSUME Alone(call[c]) PROVE Alone(call[c])'
    BY <1>1, <2>2, <2>5, <2>6, <2>8, TypeFacts DEF Alone, Accurate, Copied, Suspending, Out, Owed, Sound
  <2>9. RowsOK'
    BY <1>1 DEF RowsOK
  <2> QED
    BY <1>1, <2>6, <2>7, <2>8, <2>9, TypeFacts DEF Advance, RowsOK
<1> QED
  BY <1>2, <1>3 DEF CountReports

LEMMA AddPointsAdvances ==
    ASSUME RowsOK, OtherOK, CallsOK, NEW c \in Calls, AddPoints(c)
    PROVE  Advance(c)
<1> USE AccountsAssumption
<1>1. /\ call[c].pc = "target" /\ UNCHANGED <<user, codes, guesses, reports, granted, pardoned, mixed>>
      /\ Sound(call[c]) /\ granted + call[c].filed.points <= MaxGranted
  BY CallFacts DEF AddPoints
<1>2. PICK u : u = [user EXCEPT !.fraud = @ + call[c].filed.points]
  OBVIOUS
<1>3. u.status = user.status /\ u.fraud = user.fraud + call[c].filed.points
  BY <1>2 DEF RowsOK, User
<1>4. u \in User
  <2>1. PICK f : f = user.fraud + call[c].filed.points
    OBVIOUS
  <2>2. f \in 0..MaxGranted
    <3>1. /\ user.fraud \in Nat /\ call[c].filed.points \in Nat /\ granted \in Nat /\ MaxGranted \in Nat
          /\ user.fraud <= granted
      BY TypeFacts, CallFacts DEF RowsOK
    <3> QED
      BY <1>1, <2>1, <3>1
  <2>3. u = [user EXCEPT !.fraud = f]
    BY <1>2, <2>1
  <2> QED
    BY <2>2, <2>3 DEF RowsOK, User
<1>5. PICK q : q = [call[c] EXCEPT !.copy = u, !.pc = "saveUser", !.then = "threshold"]
  OBVIOUS
<1>6. call' = [call EXCEPT ![c] = q]
  BY <1>2, <1>5, CallFacts DEF AddPoints, CallsOK, Call
<1>7. /\ q \in Call /\ q.pc = "saveUser" /\ q.copy = u
      /\ q.then = "threshold" /\ q.filed = call[c].filed /\ q.op = call[c].op
  BY <1>4, <1>5, CallFacts, ZenonT(40) DEF Call
<1>8. call' \in [Calls -> Call] /\ call'[c] = q /\ \A d \in Calls \ {c} : call'[d] = call[d]
  BY <1>6, <1>7 DEF CallsOK
<1>9. Sound(call[c])'
  <2>1. Owed(q) = call[c].filed.points /\ u.fraud <= granted + call[c].filed.points
    BY <1>3, <1>7, TypeFacts, CallFacts, SMTT(30) DEF Owed, RowsOK
  <2> QED
    BY <1>1, <1>3, <1>7, <1>8, <2>1 DEF Sound
<1>10. ASSUME Alone(call[c]) PROVE Alone(call[c])'
  BY <1>1, <1>3, <1>7, <1>8, <1>10, TypeFacts, CallFacts DEF Alone, Accurate, Copied, Suspending, Out, Owed
<1>11. RowsOK'
  BY <1>1 DEF RowsOK
<1> QED
  BY <1>1, <1>8, <1>9, <1>10, <1>11, TypeFacts DEF Advance, RowsOK

LEMMA DecideSuspensionAdvances ==
    ASSUME RowsOK, OtherOK, CallsOK, NEW c \in Calls, DecideSuspension(c)
    PROVE  Advance(c)
<1> USE AccountsAssumption
<1>1. /\ call[c].pc = "threshold" /\ UNCHANGED <<user, codes, guesses, reports, granted, pardoned, mixed>>
      /\ Sound(call[c])
  BY CallFacts DEF DecideSuspension
<1>2. CASE ~ReachesThreshold(c)
  <2>1. Finish(c)
    BY <1>2 DEF DecideSuspension
  <2>2. call' \in [Calls -> Call] /\ call'[c] = Rest /\ \A d \in Calls \ {c} : call'[d] = call[d]
    BY <2>1, NothingType DEF CallsOK, Finish
  <2>3. call'[c].pc = "idle" /\ call'[c].then = "idle" /\ call'[c].copy.fraud = 0
    BY <2>2, RestFields
  <2>4. Sound(call[c])'
    BY <1>1, <2>3 DEF Sound, Copied, Owed, RowsOK
  <2>5. ASSUME Alone(call[c]) PROVE Alone(call[c])'
    <3>1. user.fraud < Threshold
      BY <1>1, <1>2, <2>5, TypeFacts, CallFacts DEF Alone, Accurate, Copied, Owed, Sound, ReachesThreshold
    <3> QED
      BY <1>1, <2>3, <2>5, <3>1, TypeFacts DEF Alone, Accurate, Copied, Suspending, Out
  <2>6. RowsOK'
    BY <1>1 DEF RowsOK
  <2> QED
    BY <1>1, <2>2, <2>4, <2>5, <2>6, TypeFacts DEF Advance, RowsOK
<1>3. CASE ReachesThreshold(c)
  <2>0. PICK b \in BOOLEAN : b = (suspensions # [t \in DOMAIN suspensions |-> 0])
    BY Zenon
  <2>1. PICK q : q = [call[c] EXCEPT !.pc = "suspend", !.flag = b]
    OBVIOUS
  <2>2. call' = [call EXCEPT ![c].pc = "suspend", ![c].flag = b]
    BY <1>3, <2>0, Zenon DEF DecideSuspension
  <2>3. call' = [call EXCEPT ![c] = q]
    BY <2>1, <2>2, CallFacts DEF CallsOK, Call
  <2>4. /\ q \in Call /\ q.pc = "suspend" /\ q.copy = call[c].copy
        /\ q.then = call[c].then /\ q.filed = call[c].filed /\ q.op = call[c].op
    BY <2>1, CallFacts, ZenonT(40) DEF Call
  <2>5. call' \in [Calls -> Call] /\ call'[c] = q /\ \A d \in Calls \ {c} : call'[d] = call[d]
    BY <2>3, <2>4 DEF CallsOK
  <2>6. Sound(call[c])'
    BY <1>1, <2>4, <2>5 DEF Sound, Copied, Owed
  <2>7. ASSUME Alone(call[c]) PROVE Alone(call[c])'
    BY <1>1, <2>4, <2>5, <2>7 DEF Alone, Accurate, Copied, Suspending, Out, Owed
  <2>8. RowsOK'
    BY <1>1 DEF RowsOK
  <2> QED
    BY <1>1, <2>5, <2>6, <2>7, <2>8, TypeFacts DEF Advance, RowsOK
<1> QED
  BY <1>2, <1>3

LEMMA CreateSuspensionAdvances ==
    ASSUME RowsOK, OtherOK, CallsOK, NEW c \in Calls, CreateSuspension(c)
    PROVE  Advance(c)
<1>1. /\ call[c].pc = "suspend" /\ UNCHANGED <<user, codes, guesses, reports, granted, pardoned, mixed>>
      /\ Sound(call[c]) /\ call' = [call EXCEPT ![c].pc = "saveUser", ![c].copy.status = "SUSPENDED"]
  BY CallFacts DEF CreateSuspension
<1>2. PICK u : u = [call[c].copy EXCEPT !.status = "SUSPENDED"]
  OBVIOUS
<1>3. u \in User /\ u.status = "SUSPENDED" /\ u.fraud = call[c].copy.fraud
  BY <1>2, CallFacts DEF User
<1>4. PICK q : q = [call[c] EXCEPT !.pc = "saveUser", !.copy = u]
  OBVIOUS
<1>5. call' = [call EXCEPT ![c] = q]
  BY <1>1, <1>2, <1>4, CallFacts DEF CallsOK, Call
<1>6. /\ q \in Call /\ q.pc = "saveUser" /\ q.copy = u
      /\ q.then = call[c].then /\ q.filed = call[c].filed /\ q.op = call[c].op
  BY <1>3, <1>4, CallFacts, ZenonT(40) DEF Call
<1>7. call' \in [Calls -> Call] /\ call'[c] = q /\ \A d \in Calls \ {c} : call'[d] = call[d]
  BY <1>5, <1>6 DEF CallsOK
<1>8. Sound(call[c])'
  BY <1>1, <1>3, <1>6, <1>7 DEF Sound, Copied, Owed, RowsOK
<1>9. ASSUME Alone(call[c]) PROVE Alone(call[c])'
  BY <1>1, <1>3, <1>6, <1>7, <1>9, TypeFacts DEF Alone, Accurate, Copied, Suspending, Out, Owed, Sound
<1>10. RowsOK'
  BY <1>1 DEF RowsOK
<1> QED
  BY <1>1, <1>7, <1>8, <1>9, <1>10, TypeFacts DEF Advance, RowsOK

LEMMA SaveReportAdvances ==
    ASSUME RowsOK, OtherOK, CallsOK, NEW c \in Calls, NEW today \in BOOLEAN, SaveReport(c, today)
    PROVE  Advance(c)
<1> USE AccountsAssumption
<1>0. PICK o : o = [call[c].filed EXCEPT !.today = today]
  OBVIOUS
<1>1. o \in Report
  BY <1>0, CallFacts DEF Report
<1>2. /\ call[c].pc = "report" /\ UNCHANGED <<user, codes, guesses, granted, pardoned, mixed>>
      /\ Len(reports) < MaxReports /\ reports' = Append(reports, o)
      /\ call' = [call EXCEPT ![c].pc = "count"] /\ Sound(call[c])
  BY <1>0, CallFacts DEF SaveReport, Goto
<1>3. reports' \in Seq(Report) /\ Len(reports') = Len(reports) + 1
  BY <1>1, <1>2, AppendProperties DEF RowsOK
<1>4. PICK q : q = [call[c] EXCEPT !.pc = "count"]
  OBVIOUS
<1>5. /\ q \in Call /\ q.pc = "count" /\ q.copy = call[c].copy
      /\ q.then = call[c].then /\ q.filed = call[c].filed /\ q.op = call[c].op
  BY <1>4, CallFacts DEF Call
<1>6. call' \in [Calls -> Call] /\ call'[c] = q /\ \A d \in Calls \ {c} : call'[d] = call[d]
  BY <1>2, <1>4, <1>5 DEF CallsOK
<1>7. RowsOK'
  BY <1>2, <1>3, TypeFacts, SMTT(30) DEF RowsOK, Sound
<1>8. Sound(call[c])'
  BY <1>2, <1>5, <1>6 DEF Sound, Copied, Owed
<1>9. ASSUME Alone(call[c]) PROVE Alone(call[c])'
  BY <1>2, <1>5, <1>6, <1>9 DEF Alone, Accurate, Copied, Suspending, Out, Owed
<1> QED
  BY <1>2, <1>3, <1>6, <1>7, <1>8, <1>9, TypeFacts DEF Advance, RowsOK

LEMMA UpdateReportAdvances ==
    ASSUME RowsOK, OtherOK, CallsOK, NEW c \in Calls, UpdateReport(c)
    PROVE  Advance(c)
<1> USE AccountsAssumption
<1>0. PICK i : i = call[c].report
  OBVIOUS
<1>1. /\ call[c].pc = "update" /\ UNCHANGED <<user, codes, guesses, granted, pardoned, mixed>>
      /\ i \in 1..Len(reports) /\ user.status # "none" /\ Sound(call[c])
  BY <1>0, CallFacts DEF UpdateReport, Sound
<1>2. PICK o : o = [call[c].filed EXCEPT !.today = reports[i].today]
  OBVIOUS
<1>3. o \in Report
  <2>1. PICK b \in BOOLEAN : b = reports[i].today
    <3>1. reports[i] \in Report
      BY <1>1, TypeFacts
    <3> QED
      BY <3>1, Zenon DEF Report
  <2> QED
    BY <1>2, <2>1, CallFacts DEF Report
<1>4. reports' = [reports EXCEPT ![i] = o]
  BY <1>0, <1>2 DEF UpdateReport
<1>5. reports' \in Seq(Report) /\ Len(reports') = Len(reports)
  BY <1>1, <1>3, <1>4, ExceptSeq DEF RowsOK
<1>6. RowsOK'
  BY <1>1, <1>5, TypeFacts DEF RowsOK
<1>7. /\ call' \in [Calls -> Call] /\ \A d \in Calls \ {c} : call'[d] = call[d]
      /\ call'[c].pc \in {"idle", "target"} /\ call'[c].then = "idle" /\ call'[c].copy.fraud <= granted
  <2>1. CASE Goto(c, "target")
    <3>1. [call[c] EXCEPT !.pc = "target"] \in Call
      BY CallFacts DEF Call
    <3>2. call' \in [Calls -> Call] /\ call'[c] = [call[c] EXCEPT !.pc = "target"]
      BY <2>1, <3>1 DEF CallsOK, Goto
    <3>3. /\ call'[c].pc = "target" /\ call'[c].then = call[c].then /\ call'[c].copy = call[c].copy
          /\ \A d \in Calls \ {c} : call'[d] = call[d]
      BY <2>1, <3>2, CallFacts DEF Call, Goto, CallsOK
    <3>4. call[c].then = "idle"
      BY <1>1, CallFacts DEF Sound, Call
    <3> QED
      BY <1>1, <3>2, <3>3, <3>4, CallFacts DEF Sound, Owed, RowsOK
  <2>2. CASE Finish(c)
    BY <2>2, NothingType, RestFields DEF Finish, CallsOK, RowsOK
  <2> QED
    BY <2>1, <2>2 DEF UpdateReport
<1>8. Sound(call[c])'
  BY <1>1, <1>7 DEF Sound, Copied, Owed, RowsOK
<1>9. ASSUME Alone(call[c]) PROVE Alone(call[c])'
  BY <1>1, <1>7, <1>9 DEF Alone, Accurate, Copied, Suspending, Out, Owed
<1> QED
  BY <1>1, <1>5, <1>6, <1>7, <1>8, <1>9, TypeFacts DEF Advance, RowsOK

LEMMA SaveUserAdvances ==
    ASSUME RowsOK, OtherOK, CallsOK, NEW c \in Calls, SaveUser(c)
    PROVE  Advance(c)
<1> USE AccountsAssumption
<1>1. /\ call[c].pc = "saveUser" /\ user' = call[c].copy /\ UNCHANGED <<codes, guesses, reports, mixed>>
      /\ Sound(call[c]) /\ call[c].copy.status # "none" /\ call[c].copy \in User
      /\ call[c].then \in {"idle", "threshold"}
  BY CallFacts DEF SaveUser, Sound, Copied, Call
<1>2. granted' = granted + Owed(call[c]) /\ Owed(call[c]) \in Nat /\ granted' \in Nat
  <2>1. granted' = IF call[c].then = "threshold" THEN granted + call[c].filed.points ELSE granted
    BY DEF SaveUser
  <2>2. granted \in Nat /\ call[c].filed.points \in Nat
    BY CallFacts DEF RowsOK
  <2> QED
    BY <2>1, <2>2 DEF Owed
<1>3. RowsOK'
  <2>1. user' \in User /\ user'.status # "none" /\ user'.fraud <= granted'
    BY <1>1, <1>2 DEF Sound
  <2>2. UNCHANGED <<codes, guesses, reports>> /\ granted' \in Nat
    BY <1>1, <1>2
  <2> QED
    BY <2>1, <2>2 DEF RowsOK
<1>4. pardoned' = (call[c].op = "unblock" \/ (pardoned /\ call[c].then # "threshold"))
  BY Zenon DEF SaveUser
<1>5. CASE call[c].then = "idle"
  <2>1. Finish(c) /\ granted' = granted
    BY <1>5 DEF SaveUser
  <2>2. call' \in [Calls -> Call] /\ call'[c] = Rest /\ \A d \in Calls \ {c} : call'[d] = call[d]
    BY <2>1, NothingType DEF CallsOK, Finish
  <2>3. call'[c].pc = "idle" /\ call'[c].then = "idle" /\ call'[c].copy.fraud = 0
    BY <2>2, RestFields
  <2>4. Sound(call[c])'
    BY <2>1, <2>3 DEF Sound, Copied, Owed, RowsOK
  <2>5. ASSUME Alone(call[c]) PROVE Alone(call[c])'
    <3>1. user'.fraud = granted'
      BY <1>1, <1>5, <2>1, <2>5 DEF Alone, Accurate, Copied, Owed, RowsOK, User
    <3>2. Accurate(call[c])' /\ \A i \in 1..Len(codes') : guesses'[i] <= codes'[i].attempts
      BY <1>1, <2>3, <2>5 DEF Alone, Accurate, Copied
    <3>3. user'.fraud >= Threshold => Out(user)' \/ pardoned'
      <4>1. user'.fraud = user.fraud /\ (Out(user) => Out(call[c].copy) \/ call[c].op = "unblock")
        BY <1>1, <1>5, <2>1, <2>5 DEF Alone, Accurate, Copied, Owed, RowsOK, User
      <4>2. call[c].op = "unblock" \/ pardoned => pardoned'
        BY <1>4, <1>5, Zenon
      <4>3. user.fraud >= Threshold => Out(user) \/ pardoned \/ call[c].copy.status = "SUSPENDED"
        BY <1>1, <2>5 DEF Alone, Suspending
      <4> QED
        BY <1>1, <4>1, <4>2, <4>3 DEF Out
    <3> QED
      BY <3>1, <3>2, <3>3 DEF Alone
  <2> QED
    BY <1>1, <1>2, <1>3, <2>2, <2>4, <2>5, TypeFacts DEF Advance, RowsOK
<1>6. CASE call[c].then = "threshold"
  <2>1. PICK q : q = [call[c] EXCEPT !.pc = "threshold", !.then = "idle"]
    OBVIOUS
  <2>2. call' = [call EXCEPT ![c] = q]
    BY <1>6, <2>1, CallFacts DEF SaveUser, CallsOK, Call
  <2>3. q \in Call /\ q.pc = "threshold" /\ q.copy = call[c].copy /\ q.then = "idle" /\ q.op = call[c].op
    BY <2>1, CallFacts, ZenonT(40) DEF Call
  <2>4. call' \in [Calls -> Call] /\ call'[c] = q /\ \A d \in Calls \ {c} : call'[d] = call[d]
    BY <2>2, <2>3 DEF CallsOK
  <2>5. Sound(call[c])'
    BY <1>1, <1>2, <2>3, <2>4 DEF Sound, Copied, Owed
  <2>6. ASSUME Alone(call[c]) PROVE Alone(call[c])'
    <3>1. user'.fraud = granted' /\ user'.fraud \in Nat
      BY <1>1, <1>2, <2>6, CallFacts DEF Alone, Accurate, Copied
    <3> QED
      BY <1>1, <2>3, <2>4, <2>6, <3>1 DEF Alone, Accurate, Copied, Suspending, Out, Owed
  <2> QED
    BY <1>1, <1>2, <1>3, <2>4, <2>5, <2>6, TypeFacts DEF Advance, RowsOK
<1> QED
  BY <1>1, <1>5, <1>6

LEMMA SaveOtpAdvances ==
    ASSUME RowsOK, OtherOK, CallsOK, NEW c \in Calls, SaveOtp(c)
    PROVE  Advance(c)
<1> USE AccountsAssumption
<1>0. PICK i : i = call[c].code
  OBVIOUS
<1>1. /\ call[c].pc = "saveCode" /\ UNCHANGED <<user, guesses, reports, granted, pardoned, mixed>>
      /\ i \in 1..Len(codes) /\ user.status # "none" /\ Sound(call[c])
      /\ call[c].then \in {"idle", "saveUser"}
  BY <1>0, CallFacts DEF SaveOtp, Sound, Call
<1>2. PICK o : o = [call[c].otp EXCEPT !.live = codes[i].live]
  OBVIOUS
<1>3. o \in Otp /\ o.attempts = call[c].otp.attempts
  <2>1. PICK b \in BOOLEAN : b = codes[i].live
    <3>1. codes[i] \in Otp
      BY <1>1, TypeFacts
    <3> QED
      BY <3>1, Zenon DEF Otp
  <2> QED
    BY <1>2, <2>1, CallFacts DEF Otp
<1>4. codes' = [codes EXCEPT ![i] = o]
  BY <1>0, <1>2 DEF SaveOtp
<1>5. codes' \in Seq(Otp) /\ Len(codes') = Len(codes)
  BY <1>1, <1>3, <1>4, ExceptSeq DEF RowsOK
<1>6. codes'[i] = o /\ \A j \in 1..Len(codes) : j # i => codes'[j] = codes[j]
  BY <1>1, <1>4, TypeFacts
<1>7. RowsOK'
  BY <1>1, <1>5, TypeFacts DEF RowsOK
<1>8. PICK q : q = IF call[c].then = "idle" THEN Rest
                   ELSE [call[c] EXCEPT !.pc = call[c].then, !.then = "idle"]
  OBVIOUS
<1>9. call' = [call EXCEPT ![c] = q]
  BY <1>8, CallFacts DEF SaveOtp, Finish, CallsOK, Call
<1>10. /\ q \in Call /\ q.then = "idle"
       /\ \/ q.pc = "idle" /\ q.copy.fraud = 0
          \/ /\ q.pc = "saveUser" /\ call[c].then = "saveUser"
             /\ q.copy = call[c].copy /\ q.op = call[c].op
  <2>1. CASE call[c].then = "idle"
    BY <1>8, <2>1, NothingType, RestFields
  <2>2. CASE call[c].then = "saveUser"
    BY <1>8, <2>2, CallFacts, ZenonT(40) DEF Call
  <2> QED
    BY <1>1, <2>1, <2>2
<1>11. call' \in [Calls -> Call] /\ call'[c] = q /\ \A d \in Calls \ {c} : call'[d] = call[d]
  BY <1>9, <1>10 DEF CallsOK
<1>12. Sound(call[c])'
  BY <1>1, <1>10, <1>11 DEF Sound, Copied, Owed, RowsOK
<1>13. ASSUME Alone(call[c]) PROVE Alone(call[c])'
  <2>1. \A j \in 1..Len(codes') : guesses'[j] <= codes'[j].attempts
    BY <1>0, <1>1, <1>3, <1>5, <1>6, <1>13 DEF Alone, Accurate
  <2>2. Accurate(call[c])'
    BY <1>1, <1>10, <1>11, <1>13 DEF Alone, Accurate, Copied, Out, Owed
  <2> QED
    BY <1>1, <1>13, <2>1, <2>2 DEF Alone, Suspending, Out
<1> QED
  BY <1>1, <1>5, <1>7, <1>11, <1>12, <1>13, TypeFacts DEF Advance, RowsOK

\* The code read is a row of the table.
LEMMA RecentRow ==
    ASSUME NEW p PROVE RecentOtp(p) = 0 \/ RecentOtp(p) \in DOMAIN codes
  BY DEF RecentOtp, CodesOf

\* What the reading of a code comes to: the request ends, or it goes on with
\* the code, a wrong try counted.
LEMMA Readings ==
    ASSUME RowsOK, OtherOK, CallsOK, NEW c \in Calls,
           NEW right \in BOOLEAN, NEW old \in BOOLEAN, ReadOtp(c, right, old)
    PROVE  \/ Finish(c) /\ guesses' = guesses
           \/ \E i \in 1..Len(codes), pc \in {"saveCode", "user", "saveUser"}, o \in Otp,
                 then \in {"idle", "saveUser"} :
                 /\ call' = [call EXCEPT ![c].pc = pc, ![c].code = i, ![c].otp = o, ![c].then = then]
                 /\ \/ /\ pc = "saveCode" /\ then = "idle"
                       /\ o.attempts = codes[i].attempts + 1 /\ guesses' = [guesses EXCEPT ![i] = @ + 1]
                    \/ /\ o.attempts = codes[i].attempts /\ guesses' = guesses
                       /\ \/ pc = "saveCode" /\ then = "idle"
                          \/ pc = "saveCode" /\ then = "saveUser" /\ call[c].op # "reset"
                          \/ pc = "user" /\ then = "saveUser"
                          \/ pc = "saveUser" /\ then = "idle" /\ call[c].op # "reset"
<1> USE AccountsAssumption
<1>1. PICK i : i = RecentOtp(call[c].purpose)
  OBVIOUS
<1>2. PICK op : op = call[c].op
  OBVIOUS
<1>3. PICK v : v = IF i = 0 THEN "refuse" ELSE Judge(op, codes[i], right)
  OBVIOUS
<1> DEFINE Put(pc, o, then) ==
              call' = [call EXCEPT ![c].pc = pc, ![c].code = i, ![c].otp = o, ![c].then = then]
<1>4. /\ CASE v = "refuse" -> Finish(c)
           [] v = "block" -> Put("saveCode", [codes[i] EXCEPT !.status = "BLOCKED"], "idle")
           [] v = "count" -> Put("saveCode", [codes[i] EXCEPT !.attempts = @ + 1], "idle")
           [] v = "accept" ->
              CASE op = "verify" -> Put("saveCode", [codes[i] EXCEPT !.status = "VERIFIED"], "saveUser")
                [] op = "reset"  -> Put("user", [codes[i] EXCEPT !.status = "VERIFIED"], "saveUser")
                [] op = "edit" \/ (op = "password" /\ old /\ call[c].copy.local) ->
                      Put("saveUser", codes[i], "idle")
                [] OTHER -> Finish(c)
      /\ guesses' = IF v = "count" THEN [guesses EXCEPT ![i] = @ + 1] ELSE guesses
  BY <1>1, <1>2, <1>3 DEF ReadOtp
<1>5. i = 0 \/ i \in 1..Len(codes)
  BY <1>1, RecentRow, TypeFacts
<1> HIDE DEF Put
<1>6. CASE i = 0
  BY <1>3, <1>4, <1>6
<1>7. CASE i \in 1..Len(codes)
  <2>1. /\ codes[i] \in Otp /\ codes[i].attempts \in 0..MaxAttempts /\ i # 0
    BY <1>7, TypeFacts DEF Otp
  <2>2. v = Judge(op, codes[i], right)
    BY <1>3, <2>1
  <2>3. v \in {"refuse", "block", "count", "accept"}
    BY <2>2 DEF Judge
  <2>4. v = "count" => codes[i].attempts < MaxAttempts
    BY <2>1, <2>2 DEF Judge
  <2>5. CASE v = "refuse"
    BY <1>4, <2>5
  <2>6. CASE v = "block"
    <3>1. PICK o : o = [codes[i] EXCEPT !.status = "BLOCKED"]
      OBVIOUS
    <3>2. o \in Otp /\ o.attempts = codes[i].attempts
      BY <2>1, <3>1 DEF Otp
    <3>3. Put("saveCode", o, "idle") /\ guesses' = guesses
      BY <1>4, <2>6, <3>1
    <3> QED
      BY <1>7, <3>2, <3>3 DEF Put
  <2>7. CASE v = "count"
    <3>0. PICK a : a = codes[i].attempts + 1
      OBVIOUS
    <3>1. PICK o : o = [codes[i] EXCEPT !.attempts = a]
      OBVIOUS
    <3>2. a \in 0..MaxAttempts
      BY <2>1, <2>4, <2>7, <3>0
    <3>3. o \in Otp /\ o.attempts = codes[i].attempts + 1
      BY <2>1, <3>0, <3>1, <3>2 DEF Otp
    <3>4. Put("saveCode", o, "idle") /\ guesses' = [guesses EXCEPT ![i] = @ + 1]
      BY <1>4, <2>7, <3>0, <3>1
    <3> QED
      BY <1>7, <3>3, <3>4 DEF Put
  <2>8. CASE v = "accept"
    <3>1. PICK o : o = [codes[i] EXCEPT !.status = "VERIFIED"]
      OBVIOUS
    <3>2. o \in Otp /\ o.attempts = codes[i].attempts
      BY <2>1, <3>1 DEF Otp
    <3>3. guesses' = guesses
      BY <1>4, <2>8
    <3>4. CASE op = "verify"
      <4>1. Put("saveCode", o, "saveUser")
        BY <1>4, <2>8, <3>1, <3>4
      <4> QED
        BY <1>2, <1>7, <3>2, <3>3, <3>4, <4>1 DEF Put
    <3>5. CASE op = "reset"
      <4>1. Put("user", o, "saveUser")
        BY <1>4, <2>8, <3>1, <3>5
      <4> QED
        BY <1>7, <3>2, <3>3, <4>1 DEF Put
    <3>6. CASE op \notin {"verify", "reset"} /\ (op = "edit" \/ (op = "password" /\ old /\ call[c].copy.local))
      <4>1. Put("saveUser", codes[i], "idle")
        BY <1>4, <2>8, <3>6
      <4> QED
        BY <1>2, <1>7, <2>1, <3>3, <3>6, <4>1 DEF Put
    <3>7. CASE op \notin {"verify", "reset"} /\ ~(op = "edit" \/ (op = "password" /\ old /\ call[c].copy.local))
      BY <1>4, <2>8, <3>3, <3>7
    <3> QED
      BY <3>4, <3>5, <3>6, <3>7
  <2> QED
    BY <2>3, <2>5, <2>6, <2>7, <2>8
<1> QED
  BY <1>5, <1>6, <1>7

LEMMA ReadOtpAdvances ==
    ASSUME RowsOK, OtherOK, CallsOK, NEW c \in Calls,
           NEW right \in BOOLEAN, NEW old \in BOOLEAN, ReadOtp(c, right, old)
    PROVE  Advance(c)
<1> USE AccountsAssumption
<1>1. call[c].pc = "code" /\ UNCHANGED <<user, codes, reports, granted, pardoned, mixed>> /\ Sound(call[c])
  BY CallFacts DEF ReadOtp
<1>2. CASE Finish(c) /\ guesses' = guesses
  BY <1>1, <1>2, Ends DEF Suspending
<1>3. ASSUME NEW i \in 1..Len(codes), NEW pc \in {"saveCode", "user", "saveUser"}, NEW o \in Otp,
             NEW then \in {"idle", "saveUser"},
             call' = [call EXCEPT ![c].pc = pc, ![c].code = i, ![c].otp = o, ![c].then = then],
             \/ /\ pc = "saveCode" /\ then = "idle"
                /\ o.attempts = codes[i].attempts + 1 /\ guesses' = [guesses EXCEPT ![i] = @ + 1]
             \/ /\ o.attempts = codes[i].attempts /\ guesses' = guesses
                /\ \/ pc = "saveCode" /\ then = "idle"
                   \/ pc = "saveCode" /\ then = "saveUser" /\ call[c].op # "reset"
                   \/ pc = "user" /\ then = "saveUser"
                   \/ pc = "saveUser" /\ then = "idle" /\ call[c].op # "reset"
      PROVE  Advance(c)
  <2>1. PICK q : q = [call[c] EXCEPT !.pc = pc, !.code = i, !.otp = o, !.then = then]
    OBVIOUS
  <2>2. call' = [call EXCEPT ![c] = q]
    BY <1>3, <2>1, CallFacts DEF CallsOK, Call
  <2>3. i \in 0..MaxCodes /\ i \in 1..MaxCodes /\ codes[i].attempts \in Nat /\ Len(codes) \in Nat
    <3>1. codes[i] \in Otp /\ Len(codes) \in Nat /\ Len(codes) <= MaxCodes /\ MaxCodes \in Nat
      BY TypeFacts DEF RowsOK
    <3>2. codes[i].attempts \in 0..MaxAttempts
      BY <3>1 DEF Otp
    <3> QED
      BY <3>1, <3>2
  <2>4. /\ q \in Call /\ q.pc = pc /\ q.copy = call[c].copy /\ q.code = i /\ q.otp = o /\ q.then = then
        /\ q.filed = call[c].filed /\ q.op = call[c].op
    BY <2>1, <2>3, CallFacts, ZenonT(40) DEF Call
  <2>5. call' \in [Calls -> Call] /\ call'[c] = q /\ \A d \in Calls \ {c} : call'[d] = call[d]
    BY <2>2, <2>4 DEF CallsOK
  <2>6. guesses' \in [1..MaxCodes -> Nat] /\ \A j \in 1..MaxCodes : j # i => guesses'[j] = guesses[j]
    <3>1. guesses \in [1..MaxCodes -> Nat]
      BY DEF RowsOK
    <3>2. guesses' = guesses \/ guesses' = [guesses EXCEPT ![i] = guesses[i] + 1]
      BY <1>3
    <3>3. guesses[i] + 1 \in Nat
      BY <2>3, <3>1
    <3> QED
      BY <2>3, <3>1, <3>2, <3>3
  <2>7. RowsOK'
    BY <1>1, <2>3, <2>6 DEF RowsOK
  <2>8. call[c].then = "idle"
    BY <1>1, CallFacts DEF Sound, Call
  <2>9. Sound(call[c])'
    <3>1. pc = "saveUser" \/ then = "saveUser" => pc = "user" \/ call[c].op # "reset"
      BY <1>3
    <3> QED
      BY <1>1, <1>3, <2>3, <2>4, <2>5, <2>8, <3>1 DEF Sound, Copied, Owed
  <2>10. ASSUME Alone(call[c]) PROVE Alone(call[c])'
    <3>1. \A j \in 1..Len(codes) : guesses[j] <= codes[j].attempts
      BY <1>1, <2>10 DEF Alone
    <3>2. guesses'[i] <= o.attempts
      <4>1. guesses[i] \in Nat /\ guesses[i] <= codes[i].attempts
        BY <2>3, <3>1 DEF RowsOK
      <4>2. \/ guesses'[i] = guesses[i] /\ o.attempts = codes[i].attempts
            \/ guesses'[i] = guesses[i] + 1 /\ o.attempts = codes[i].attempts + 1
        <5>1. guesses \in [1..MaxCodes -> Nat]
          BY DEF RowsOK
        <5>2. CASE guesses' = guesses /\ o.attempts = codes[i].attempts
          BY <5>2
        <5>3. CASE guesses' = [guesses EXCEPT ![i] = guesses[i] + 1] /\ o.attempts = codes[i].attempts + 1
          BY <2>3, <5>1, <5>3
        <5>4. \/ guesses' = guesses /\ o.attempts = codes[i].attempts
              \/ guesses' = [guesses EXCEPT ![i] = guesses[i] + 1] /\ o.attempts = codes[i].attempts + 1
          BY <1>3, Zenon
        <5> QED
          BY <5>2, <5>3, <5>4, Zenon
      <4> QED
        BY <2>3, <4>1, <4>2, SMTT(30)
    <3>3. \A j \in 1..Len(codes) : (pc = "saveCode" /\ j = i) \/ guesses'[j] <= codes[j].attempts
      <4>1. \A j \in 1..Len(codes) : j \in 1..MaxCodes
        BY TypeFacts DEF RowsOK
      <4>2. pc # "saveCode" => guesses' = guesses
        BY <1>3
      <4> QED
        BY <2>6, <3>1, <4>1, <4>2
    <3>4. Accurate(call[c])'
      <4>1. pc = "saveUser" \/ (pc = "saveCode" /\ then = "saveUser") => call[c].op # "reset"
        BY <1>3
      <4> QED
        BY <1>1, <1>3, <2>4, <2>5, <2>8, <2>10, <3>2, <4>1 DEF Alone, Accurate, Copied, Out, Owed
    <3> QED
      BY <1>1, <2>4, <2>5, <2>10, <3>3, <3>4 DEF Alone, Suspending, Out
  <2> QED
    BY <1>1, <2>5, <2>7, <2>9, <2>10, TypeFacts, SMTT(30) DEF Advance, RowsOK
<1>4. CASE ~(Finish(c) /\ guesses' = guesses)
  <2>1. PICK i \in 1..Len(codes), pc \in {"saveCode", "user", "saveUser"}, o \in Otp,
             then \in {"idle", "saveUser"} :
             /\ call' = [call EXCEPT ![c].pc = pc, ![c].code = i, ![c].otp = o, ![c].then = then]
             /\ \/ /\ pc = "saveCode" /\ then = "idle"
                   /\ o.attempts = codes[i].attempts + 1 /\ guesses' = [guesses EXCEPT ![i] = @ + 1]
                \/ /\ o.attempts = codes[i].attempts /\ guesses' = guesses
                   /\ \/ pc = "saveCode" /\ then = "idle"
                      \/ pc = "saveCode" /\ then = "saveUser" /\ call[c].op # "reset"
                      \/ pc = "user" /\ then = "saveUser"
                      \/ pc = "saveUser" /\ then = "idle" /\ call[c].op # "reset"
    BY <1>4, Readings, ZenonT(30)
  <2> QED
    BY <1>3, <2>1, Zenon
<1> QED
  BY <1>2, <1>4

\* Every step of a request does what Advance says.
LEMMA StepAdvances ==
    ASSUME RowsOK, OtherOK, CallsOK, NEW c \in Calls, UserStep(c) \/ FraudStep(c)
    PROVE  Advance(c)
<1>1. Later(c) \/ \E r \in Call : Begin(c, r) /\ Begun(r)
  BY TypeFacts, Beginnings
<1>2. ASSUME CallFails(c) PROVE Advance(c)
  <2>1. Finish(c) /\ UNCHANGED <<user, codes, guesses, reports, granted, pardoned>> /\ mixed'
    BY <1>2, Zenon DEF CallFails
  <2> QED
    BY <2>1, Ends
<1> QED
  BY <1>1, <1>2, BeginAdvances, CreateUserAdvances, CreateOtpAdvances, ReadOtpAdvances, ReadUserAdvances,
     SaveOtpAdvances, SaveUserAdvances, SaveReportAdvances, CountReportsAdvances, UpdateReportAdvances,
     AddPointsAdvances, DecideSuspensionAdvances, CreateSuspensionAdvances, Zenon DEF Later

LEMMA ExpiryKeeps ==
    ASSUME RowsOK, OtherOK, CallsOK, AloneInv, NEW i \in DOMAIN codes, OtpExpires(i)
    PROVE  RowsOK' /\ CallsOK' /\ AloneInv'
<1> USE AccountsAssumption
<1>1. /\ UNCHANGED <<user, guesses, reports, granted, call, pardoned, mixed>>
      /\ codes' = [codes EXCEPT ![i].live = FALSE]
  BY DEF OtpExpires
<1>2. PICK o : o = [codes[i] EXCEPT !.live = FALSE]
  OBVIOUS
<1>3. o \in Otp /\ o.attempts = codes[i].attempts
  BY <1>2, TypeFacts DEF Otp
<1>4. codes' = [codes EXCEPT ![i] = o]
  BY <1>1, <1>2
<1>5. codes' \in Seq(Otp) /\ Len(codes') = Len(codes)
  BY <1>3, <1>4, TypeFacts, ExceptSeq DEF RowsOK
<1>6. \A j \in 1..Len(codes) : codes'[j].attempts = codes[j].attempts
  BY <1>3, <1>4, TypeFacts
<1>7. RowsOK'
  BY <1>1, <1>5 DEF RowsOK
<1>8. CallsOK'
  BY <1>1, <1>5 DEF CallsOK, Sound, Copied, Owed
<1>9. ASSUME NEW c \in Calls, Alone(call[c]) PROVE Alone(call[c])'
  BY <1>1, <1>5, <1>6, <1>9 DEF Alone, Accurate, Suspending, Copied, Out, Owed
<1>10. AloneInv'
  BY <1>1, <1>9 DEF AloneInv, OneBusy, Busy
<1> QED
  BY <1>7, <1>8, <1>10

LEMMA MidnightKeeps ==
    ASSUME RowsOK, OtherOK, CallsOK, AloneInv, Midnight
    PROVE  RowsOK' /\ CallsOK' /\ AloneInv'
<1> USE AccountsAssumption
<1>1. /\ UNCHANGED <<user, codes, guesses, granted, call, pardoned, mixed>>
      /\ reports' = [r \in DOMAIN reports |-> [reports[r] EXCEPT !.today = FALSE]]
  BY DEF Midnight
<1>2. \A r \in 1..Len(reports) : [reports[r] EXCEPT !.today = FALSE] \in Report
  BY TypeFacts, ZenonT(40) DEF Report
<1>3. reports' \in Seq(Report) /\ Len(reports') = Len(reports)
  <2>1. reports' \in [1..Len(reports) -> Report] /\ Len(reports) \in Nat
    BY <1>1, <1>2, TypeFacts
  <2> QED
    BY <2>1
<1>4. RowsOK'
  BY <1>1, <1>3 DEF RowsOK
<1>5. CallsOK'
  BY <1>1, <1>3 DEF CallsOK, Sound, Copied, Owed
<1>6. AloneInv'
  BY <1>1 DEF AloneInv, OneBusy, Busy, Alone, Accurate, Suspending, Copied, Out, Owed
<1> QED
  BY <1>4, <1>5, <1>6

-----------------------------------------------------------------------------
(***************************************************************************)
(* Theorems                                                                *)
(***************************************************************************)
LEMMA InitEstablishes == AccountsInit => AccountsInv
<1> SUFFICES ASSUME AccountsInit PROVE AccountsInv
  OBVIOUS
<1> USE AccountsAssumption
<1>1. user \in User /\ user.fraud = 0
  <2>1. CASE user = NoUser
    BY <2>1, NothingType, RestFields
  <2>2. CASE user = [status |-> "ACTIVE", verified |-> TRUE, local |-> TRUE, fraud |-> 0]
    BY <2>2 DEF User
  <2> QED
    BY <2>1, <2>2 DEF AccountsInit
<1>2. /\ codes = <<>> /\ reports = <<>> /\ granted = 0 /\ guesses = [i \in 1..MaxCodes |-> 0]
      /\ call = [c \in Calls |-> Rest]
  BY DEF AccountsInit
<1>3. RowsOK
  BY <1>1, <1>2 DEF RowsOK
<1>4. OtherOK
  <2>1. pardoned \in BOOLEAN /\ mixed \in BOOLEAN
    BY Zenon DEF AccountsInit
  <2> QED
    BY <2>1 DEF OtherOK, AccountsInit
<1>5. CallsOK
  BY <1>2, NothingType, RestFields DEF CallsOK, Sound, Copied, Owed
<1>6. AloneInv
  BY <1>1, <1>2, NothingType, RestFields DEF AloneInv, OneBusy, Busy, Alone, Accurate, Copied, Suspending
<1> QED
  BY <1>3, <1>4, <1>5, <1>6 DEF AccountsInv

LEMMA OtherKeeps == ASSUME AccountsInv, AccountsNext PROVE OtherOK'
<1> USE AccountsAssumption
<1>0. AccountsTypeOK /\ OtherOK
  BY TypeFacts DEF AccountsInv
<1>1. pardoned' \in BOOLEAN /\ mixed' \in BOOLEAN
  <2>1. ASSUME NEW c \in Calls, NEW r, Begin(c, r) PROVE pardoned' \in BOOLEAN /\ mixed' \in BOOLEAN
    BY <1>0, <2>1, Zenon DEF Begin, OtherOK
  <2>2. ASSUME NEW c \in Calls, Later(c) PROVE pardoned' \in BOOLEAN /\ mixed' \in BOOLEAN
    BY <1>0, <2>2, Zenon DEF Later, OtherOK, CreateUser, CreateOtp, ReadOtp, ReadUser, SaveOtp, SaveUser,
       CallFails, SaveReport, CountReports, UpdateReport, AddPoints, DecideSuspension, CreateSuspension
  <2>3. ASSUME NEW c \in Calls, UserStep(c) \/ FraudStep(c) PROVE pardoned' \in BOOLEAN /\ mixed' \in BOOLEAN
    BY <1>0, <2>1, <2>2, <2>3, Beginnings, Zenon
  <2>4. ASSUME Midnight \/ \E i \in DOMAIN codes : OtpExpires(i)
        PROVE pardoned' \in BOOLEAN /\ mixed' \in BOOLEAN
    BY <1>0, <2>4, Zenon DEF Midnight, OtpExpires, OtherOK
  <2> QED
    BY <2>3, <2>4, Zenon DEF AccountsNext
<1>2. suspensions' \in [{"TEMPORARY", "PERMANENT"} -> Nat] /\ requests' \in 0..MaxRequests
  <2> DEFINE Goal == suspensions' \in [{"TEMPORARY", "PERMANENT"} -> Nat] /\ requests' \in 0..MaxRequests
  <2>1. ASSUME NEW c \in Calls, NEW r, Begin(c, r) PROVE Goal
    BY <1>0, <2>1 DEF Begin, OtherOK
  <2>2. ASSUME NEW c \in Calls, CreateSuspension(c) PROVE Goal
    <3>1. PICK t \in {"TEMPORARY", "PERMANENT"} : t = IF call[c].flag THEN "PERMANENT" ELSE "TEMPORARY"
      OBVIOUS
    <3>2. suspensions' = [suspensions EXCEPT ![t] = @ + 1] /\ requests' = requests
      BY <2>2, <3>1, Zenon DEF CreateSuspension
    <3> QED
      BY <1>0, <3>2 DEF OtherOK
  <2>3. ASSUME UNCHANGED <<suspensions, requests>> PROVE Goal
    BY <1>0, <2>3 DEF OtherOK
  <2> HIDE DEF Goal
  <2>4. ASSUME NEW c \in Calls, Later(c) PROVE Goal
    <3>1. CreateSuspension(c) \/ UNCHANGED <<suspensions, requests>>
      BY <2>4, Zenon DEF Later, CreateUser, CreateOtp, ReadOtp, ReadUser, SaveOtp, SaveUser,
         CallFails, SaveReport, CountReports, UpdateReport, AddPoints, DecideSuspension
    <3> QED
      BY <2>2, <2>3, <3>1
  <2>5. ASSUME NEW c \in Calls, UserStep(c) \/ FraudStep(c) PROVE Goal
    BY <1>0, <2>1, <2>4, <2>5, Beginnings, Zenon
  <2>6. ASSUME Midnight \/ \E i \in DOMAIN codes : OtpExpires(i) PROVE Goal
    BY <2>3, <2>6, Zenon DEF Midnight, OtpExpires
  <2>7. Goal
    BY <2>5, <2>6, Zenon DEF AccountsNext
  <2> QED
    BY <2>7 DEF Goal
<1> QED
  BY <1>1, <1>2 DEF OtherOK

\* The other requests keep what they have when one advances.
LEMMA OthersSound == ASSUME AccountsInv, NEW c \in Calls, Advance(c) PROVE CallsOK'
<1>1. ASSUME NEW d \in Calls \ {c} PROVE Sound(call[d])'
  <2>1. Sound(call[d]) /\ call'[d] = call[d] /\ call[d].copy.fraud \in Nat /\ Owed(call[d]) \in Nat
    BY CallFacts DEF AccountsInv, Advance, Owed
  <2>2. /\ Len(codes) \in Nat /\ Len(codes') \in Nat /\ Len(reports) \in Nat /\ Len(reports') \in Nat
        /\ granted \in Nat /\ granted' \in Nat
    BY DEF AccountsInv, Advance, RowsOK
  <2> QED
    BY <2>1, <2>2, SMTT(30) DEF Sound, Advance, Copied, Owed
<1> QED
  BY <1>1 DEF CallsOK, Advance

\* Only the request that takes the step may be under way in an unmixed history.
LEMMA UnmixedStep ==
    ASSUME AccountsInv, NEW c \in Calls, UserStep(c) \/ FraudStep(c), ~mixed'
    PROVE  ~mixed /\ \A d \in Calls \ {c} : ~Busy(d)
<1>0. AccountsTypeOK
  BY TypeFacts DEF AccountsInv
<1>1. CASE \E r \in Call : Begin(c, r)
  <2>1. ~mixed /\ \A d \in Calls : ~Busy(d)
    BY <1>1, Zenon DEF Begin
  <2> QED
    BY <2>1
<1>2. CASE Later(c)
  <2>1. ~mixed /\ Busy(c)
    <3>1. ~mixed
      BY <1>2, Zenon DEF Later, CreateUser, CreateOtp, ReadOtp, ReadUser, SaveOtp, SaveUser,
         CallFails, SaveReport, CountReports, UpdateReport, AddPoints, DecideSuspension, CreateSuspension
    <3>2. Busy(c)
      BY <1>2 DEF Busy, Later, CreateUser, CreateOtp, ReadOtp, ReadUser, SaveOtp, SaveUser,
         CallFails, SaveReport, CountReports, UpdateReport, AddPoints, DecideSuspension, CreateSuspension
    <3> QED
      BY <3>1, <3>2
  <2> QED
    BY <2>1 DEF AccountsInv, AloneInv, OneBusy
<1> QED
  BY <1>0, <1>1, <1>2, Beginnings

LEMMA AloneKeeps == ASSUME AccountsInv, NEW c \in Calls, UserStep(c) \/ FraudStep(c), Advance(c) PROVE AloneInv'
<1> SUFFICES ASSUME ~mixed'
             PROVE  OneBusy' /\ \A e \in Calls : (\A d \in Calls \ {e} : ~Busy(d)') => Alone(call[e])'
  BY DEF AloneInv, Busy
<1>1. ~mixed /\ \A d \in Calls \ {c} : ~Busy(d)
  BY UnmixedStep
<1>2. \A d \in Calls \ {c} : call'[d] = call[d] /\ ~Busy(d)' /\ call'[d].pc = "idle"
  BY <1>1 DEF Advance, Busy
<1>3. Alone(call[c])'
  BY <1>1 DEF AccountsInv, AloneInv, Advance
<1>4. OneBusy'
  BY <1>2 DEF OneBusy, Busy
<1>5. ASSUME NEW e \in Calls \ {c}, \A d \in Calls \ {e} : ~Busy(d)' PROVE Alone(call[e])'
  <2>1. call'[c].pc = "idle" /\ call'[e].pc = "idle"
    BY <1>2, <1>5 DEF Busy
  <2> QED
    BY <1>3, <2>1 DEF Alone, Accurate, Copied, Suspending
<1> QED
  BY <1>3, <1>4, <1>5

LEMMA InvKept == ASSUME AccountsInv, [AccountsNext]_accountsVars PROVE AccountsInv'
<1>1. CASE UNCHANGED accountsVars
  BY <1>1 DEF AccountsInv, RowsOK, OtherOK, CallsOK, AloneInv, OneBusy, Busy, Alone, Accurate, Sound,
     Copied, Suspending, Out, Owed
<1>2. ASSUME NEW c \in Calls, UserStep(c) \/ FraudStep(c) PROVE AccountsInv'
  <2>1. Advance(c)
    BY <1>2, StepAdvances DEF AccountsInv
  <2>2. AccountsNext
    BY <1>2 DEF AccountsNext
  <2>3. RowsOK' /\ OtherOK' /\ CallsOK' /\ AloneInv'
    BY <1>2, <2>1, <2>2, OtherKeeps, OthersSound, AloneKeeps DEF Advance
  <2> QED
    BY <2>3 DEF AccountsInv
<1>3. ASSUME NEW i \in DOMAIN codes, OtpExpires(i) PROVE AccountsInv'
  <2>1. AccountsNext
    BY <1>3 DEF AccountsNext
  <2> QED
    BY <1>3, <2>1, ExpiryKeeps, OtherKeeps DEF AccountsInv
<1>4. ASSUME Midnight PROVE AccountsInv'
  <2>1. AccountsNext
    BY <1>4 DEF AccountsNext
  <2> QED
    BY <1>4, <2>1, MidnightKeeps, OtherKeeps DEF AccountsInv
<1> QED
  BY <1>1, <1>2, <1>3, <1>4 DEF AccountsNext

\* AccountsInv is inductive: in every reachable state the rows and requests
\* are well formed, however requests overlap and fail, and an unmixed history
\* keeps its one request accurate.
THEOREM AccountsInvariant == AccountsSpec => []AccountsInv
  BY InitEstablishes, InvKept, PTL DEF AccountsSpec

\* Every row and every request of every reachable state has its type: a fraud
\* level never leaves the range of the points handed out, a code never counts
\* more than the allowed tries.
THEOREM AccountsTypeCorrect == AccountsSpec => []AccountsTypeOK
<1>1. AccountsInv => AccountsTypeOK
  BY TypeFacts DEF AccountsInv
<1> QED
  BY <1>1, AccountsInvariant, PTL

\* In an unmixed history some request has the rows to itself.
LEMMA SomeoneAlone == ASSUME AccountsInv, ~mixed PROVE \E c \in Calls : Alone(call[c])
<1>1. OneBusy /\ \A c \in Calls : (\A d \in Calls \ {c} : ~Busy(d)) => Alone(call[c])
  BY DEF AccountsInv, AloneInv
<1>2. \E c \in Calls : \A d \in Calls \ {c} : ~Busy(d)
  BY <1>1, AccountsAssumption DEF OneBusy
<1> QED
  BY <1>1, <1>2

\* The fraud level never exceeds the points handed out, whatever overlaps or
\* fails; one request at a time it is exact and the threshold suspends.
THEOREM PointsCounted == AccountsSpec => []FraudCounted
<1>1. AccountsInv => FraudCounted
  <2> SUFFICES ASSUME AccountsInv PROVE FraudCounted
    OBVIOUS
  <2>1. user.fraud <= granted
    BY DEF AccountsInv, RowsOK
  <2>2. ASSUME ~mixed, Quiet PROVE user.fraud = granted /\ (user.fraud >= Threshold => Out(user) \/ pardoned)
    <3>1. PICK c \in Calls : Alone(call[c])
      BY <2>2, SomeoneAlone
    <3>2. call[c].pc = "idle"
      BY <2>2 DEF Quiet, Busy
    <3> QED
      BY <3>1, <3>2 DEF Alone, Suspending
  <2> QED
    BY <2>1, <2>2 DEF FraudCounted
<1> QED
  BY <1>1, AccountsInvariant, PTL

\* No code of an unmixed history is guessed more often than allowed, however
\* purposes, expiry and new codes are combined.
THEOREM TriesBounded == AccountsSpec => []GuessesBounded
<1>1. AccountsInv => GuessesBounded
  <2> SUFFICES ASSUME AccountsInv, ~mixed, NEW i \in DOMAIN codes PROVE guesses[i] <= MaxAttempts
    BY DEF GuessesBounded
  <2>1. PICK c \in Calls : Alone(call[c])
    BY SomeoneAlone
  <2>2. /\ i \in 1..Len(codes) /\ codes[i] \in Otp /\ call[c].otp.attempts \in 0..MaxAttempts
        /\ guesses[i] \in Nat /\ MaxAttempts \in Nat
    <3>1. i \in 1..Len(codes) /\ codes[i] \in Otp /\ Len(codes) \in Nat
      BY TypeFacts DEF AccountsInv
    <3>2. call[c].otp.attempts \in 0..MaxAttempts
      BY CallFacts DEF AccountsInv
    <3>3. Len(codes) <= MaxCodes /\ guesses \in [1..MaxCodes -> Nat]
      BY DEF AccountsInv, RowsOK
    <3>4. MaxAttempts \in Nat /\ MaxCodes \in Nat
      BY AccountsAssumption
    <3> QED
      BY <3>1, <3>2, <3>3, <3>4
  <2>3. codes[i].attempts \in 0..MaxAttempts
    BY <2>2 DEF Otp
  <2>4. CASE guesses[i] <= codes[i].attempts
    BY <2>2, <2>3, <2>4
  <2>5. CASE call[c].pc = "saveCode" /\ call[c].code = i
    BY <2>1, <2>2, <2>5 DEF Alone, Accurate
  <2> QED
    BY <2>1, <2>2, <2>4, <2>5 DEF Alone
<1> QED
  BY <1>1, AccountsInvariant, PTL

\* Only lifting a block brings a blocked or suspended account back while one
\* request runs at a time: no save of a profile, password or report does.
THEOREM OutUntilLifted == AccountsSpec => StaysOut
<1>1. ASSUME AccountsInv, [AccountsNext]_accountsVars, ~mixed', Out(user), ~Out(user')
      PROVE \E c \in Calls : call[c].op = "unblock"
  <2>1. user' # user
    BY <1>1
  <2>2. PICK c \in Calls : UserStep(c) \/ FraudStep(c)
    BY <1>1, <2>1 DEF AccountsNext, Midnight, OtpExpires
  <2>3. Later(c) \/ \E r \in Call : Begin(c, r)
    BY <1>1, <2>2, TypeFacts, Beginnings DEF AccountsInv
  <2>4. CreateUser(c) \/ SaveUser(c)
    BY <2>1, <2>3 DEF Later, Begin, CreateOtp, ReadOtp, ReadUser, SaveOtp,
       CallFails, SaveReport, CountReports, UpdateReport, AddPoints, DecideSuspension, CreateSuspension
  <2>5. CASE CreateUser(c)
    BY <1>1, <2>1, <2>5 DEF CreateUser, Out
  <2>6. CASE SaveUser(c)
    <3>1. Alone(call[c])
      BY <1>1, <2>2, UnmixedStep DEF AccountsInv, AloneInv
    <3>2. user' = call[c].copy /\ call[c].pc = "saveUser"
      BY <2>6 DEF SaveUser
    <3>3. Out(call[c].copy) \/ call[c].op = "unblock"
      BY <1>1, <3>1, <3>2 DEF Alone, Accurate, Copied
    <3> QED
      BY <1>1, <3>2, <3>3
  <2> QED
    BY <2>4, <2>5, <2>6
<1>2. AccountsInv /\ [AccountsNext]_accountsVars =>
         [~mixed' /\ Out(user) /\ ~Out(user') => \E c \in Calls : call[c].op = "unblock"]_accountsVars
  BY <1>1
<1> QED
  BY <1>2, AccountsInvariant, PTL DEF AccountsSpec, StaysOut
=============================================================================
