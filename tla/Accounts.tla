------------------------------ MODULE Accounts ------------------------------
(***************************************************************************)
(* The account behind one e-mail address: registration, one-time codes,    *)
(* password and profile changes, blocking, and the fraud reports that end  *)
(* in a suspension.  Every use case reads the user row (and a code or a    *)
(* report), changes the copy and writes the whole row back: status, fraud  *)
(* level, password and verification go along with a new avatar.            *)
(*                                                                         *)
(* mixed, guesses, granted and pardoned are history variables: two         *)
(* requests were in flight at once or one broke off half-way; the wrong    *)
(* tries of each code; the fraud points handed out; whether an             *)
(* administrator reactivated the account since the last points.            *)
(***************************************************************************)
EXTENDS Integers, Sequences, FiniteSets

CONSTANTS
    Calls,          \* requests that may be in flight at a time
    MaxRequests,    \* bound: requests in all
    MaxAttempts,    \* wrong tries that block a code (3)
    MaxPending,     \* the codes looked at, and allowed, per purpose (3)
    MaxCodes,       \* bound: code rows
    ReportLimit,    \* reports of each type that suspend at once (3)
    MaxReports,     \* bound: report rows
    Points,         \* points of the report levels
    Threshold,      \* FRAUD_SUSPENSION_THRESHOLD
    MaxGranted      \* bound: points handed out

ASSUME AccountsAssumption ==
    /\ {MaxAttempts, MaxPending, ReportLimit, Threshold} \subseteq Nat \ {0}
    /\ {MaxRequests, MaxCodes, MaxReports, MaxGranted} \subseteq Nat
    /\ Points \subseteq Nat \ {0}
    /\ Calls # {}

Purposes == {"VERIFY_EMAIL", "RESET_PASSWORD", "CHANGE_PROFILE_PASSWORD", "EDIT_PROFILE"}

VARIABLES
    user,           \* the user row; status "none" when there is none
    codes,          \* the Otp rows in the order they were made
    reports,        \* the fraud reports against the user
    suspensions,    \* how many UserSuspension rows of each type
    call, requests, \* the requests: where each stands, how many there were
    guesses, granted, pardoned, mixed

fraudVars == <<reports, suspensions, granted>>
codeVars == <<codes, guesses>>
accountsVars == <<user, codeVars, fraudVars, call, requests, pardoned, mixed>>

User == [status : {"none", "ACTIVE", "BLOCKED", "SUSPENDED"}, verified : BOOLEAN,
         local : BOOLEAN, fraud : 0..MaxGranted]
Otp == [purpose : Purposes, status : {"PENDING", "VERIFIED", "BLOCKED"},
        attempts : 0..MaxAttempts, live : BOOLEAN]
Report == [by : {"USER", "SELLER"}, points : Points \cup {0}, today : BOOLEAN,
           status : {"OPEN", "UNDER_REVIEW", "RESOLVED"}]

NoUser == [status |-> "none", verified |-> FALSE, local |-> FALSE, fraud |-> 0]
NoReport == [by |-> "USER", points |-> 0, today |-> FALSE, status |-> "OPEN"]
NoOtp == [purpose |-> "VERIFY_EMAIL", status |-> "PENDING", attempts |-> 0, live |-> FALSE]

\* A request: the copies it works on, the rows they belong to, and what comes
\* after the next save of a code or of the user.
Call == [pc : {"idle", "create", "otp", "code", "user", "saveCode", "saveUser", "report",
               "count", "update", "target", "threshold", "suspend"},
         op : {"none", "register", "google", "send", "verify", "reset", "password", "edit",
               "profile", "block", "unblock", "report", "update", "review"},
         purpose : Purposes, copy : User, code : 0..MaxCodes, otp : Otp,
         report : 0..MaxReports, filed : Report, flag : BOOLEAN,
         then : {"idle", "saveUser", "threshold"}]
Rest == [pc |-> "idle", op |-> "none", purpose |-> "VERIFY_EMAIL", copy |-> NoUser, code |-> 0,
         otp |-> NoOtp, report |-> 0, filed |-> NoReport, flag |-> FALSE, then |-> "idle"]

AccountsTypeOK ==
    /\ user \in User
    /\ codes \in Seq(Otp) /\ Len(codes) <= MaxCodes
    /\ reports \in Seq(Report) /\ Len(reports) <= MaxReports
    /\ suspensions \in [{"TEMPORARY", "PERMANENT"} -> Nat]
    /\ requests \in 0..MaxRequests
    /\ guesses \in [1..MaxCodes -> Nat]
    /\ granted \in Nat
    /\ pardoned \in BOOLEAN /\ mixed \in BOOLEAN
    /\ call \in [Calls -> Call]

\* Nobody has registered, or somebody did long ago.
AccountsInit ==
    /\ user \in {NoUser, [status |-> "ACTIVE", verified |-> TRUE, local |-> TRUE, fraud |-> 0]}
    /\ codes = <<>> /\ reports = <<>>
    /\ suspensions = [t \in {"TEMPORARY", "PERMANENT"} |-> 0]
    /\ call = [c \in Calls |-> Rest] /\ requests = 0
    /\ guesses = [i \in 1..MaxCodes |-> 0]
    /\ granted = 0 /\ pardoned = FALSE /\ mixed = FALSE

-----------------------------------------------------------------------------
\* isBlocked and isSuspended
Out(row) == row.status \in {"BLOCKED", "SUSPENDED"}

\* What the authenticate and authorize middlewares let through.
Authenticated == user.status = "ACTIVE"

CodesOf(p) == { i \in DOMAIN codes : codes[i].purpose = p }

\* findRecentOtpByUserIdAndPurpose: the latest code, 0 when there is none or
\* it has expired, for then Otp.create refuses the row.
RecentOtp(p) ==
    LET latest == { i \in CodesOf(p) : \A j \in CodesOf(p) : j <= i }
    IN  IF \E i \in latest : codes[i].live THEN CHOOSE i \in latest : TRUE ELSE 0

\* findRecentOtpsByUserIdAndPurpose: the last few, none when one has expired.
RecentOtps(p) ==
    LET last == { i \in CodesOf(p) : Cardinality({ j \in CodesOf(p) : j > i }) < MaxPending }
    IN  IF \A i \in last : codes[i].live THEN last ELSE {}

\* OtpPolicyService.canGenerateOtp
CanGenerateOtp(p) ==
    Cardinality({ i \in RecentOtps(p) : codes[i].status = "PENDING" }) < MaxPending

\* Faulty variant: a blocked code only blocks the profile password.
Judge_Unblocked(op, otp, right) ==
    IF op = "password" /\ otp.attempts >= MaxAttempts THEN "block"
    ELSE IF op = "reset" /\ otp.status # "PENDING" THEN "refuse"
    ELSE IF ~right THEN "count"
    ELSE IF op = "verify" /\ otp.status # "PENDING" THEN "refuse" ELSE "accept"

\* What the four use cases that ask for a code make of it.  The profile ones
\* do not look at its status, and nothing they do changes it.
Judge(op, otp, right) ==
    IF otp.attempts >= MaxAttempts THEN IF op = "password" THEN "block" ELSE "refuse"
    ELSE IF op = "reset" /\ otp.status # "PENDING" THEN "refuse"
    ELSE IF ~right THEN "count"
    ELSE IF op = "verify" /\ otp.status # "PENDING" THEN "refuse" ELSE "accept"

Busy(c) == call[c].pc # "idle"

\* The request becomes r; another one in flight makes the history mixed.
Begin(c, r) ==
    /\ ~Busy(c) /\ requests < MaxRequests
    /\ call' = [call EXCEPT ![c] = r]
    /\ requests' = requests + 1
    /\ mixed' = (mixed \/ \E d \in Calls : Busy(d))
    /\ UNCHANGED <<user, codeVars, fraudVars, pardoned>>

Goto(c, pc) == call' = [call EXCEPT ![c].pc = pc]
Finish(c) == call' = [call EXCEPT ![c] = Rest]

-----------------------------------------------------------------------------
(***************************************************************************)
(* Registration and codes                                                  *)
(***************************************************************************)
Register(c) ==
    /\ user.status = "none"
    /\ Begin(c, [Rest EXCEPT !.pc = "create", !.op = "register",
                            !.copy = [NoUser EXCEPT !.status = "ACTIVE", !.local = TRUE]])

\* GoogleAuthUseCase for an address nobody has.
GoogleAuth(c) ==
    /\ user.status = "none"
    /\ Begin(c, [Rest EXCEPT !.pc = "create", !.op = "google",
                            !.copy = [NoUser EXCEPT !.status = "ACTIVE", !.verified = TRUE]])

\* The address is unique: the second of two registrations is refused.
CreateUser(c) ==
    /\ call[c].pc = "create"
    /\ user' = IF user.status = "none" THEN call[c].copy ELSE user
    /\ IF user.status = "none" /\ call[c].op = "register" THEN Goto(c, "otp") ELSE Finish(c)
    /\ UNCHANGED <<codeVars, fraudVars, requests, pardoned, mixed>>

\* SendOtpUsecase, for whichever purpose the request names.
SendOtp(c, p) ==
    /\ user.status # "none" /\ ~Out(user)
    /\ CanGenerateOtp(p)
    /\ Begin(c, [Rest EXCEPT !.pc = "otp", !.op = "send", !.purpose = p])

\* The code is a token here, and nothing limits how many are sent.
ForgotPassword(c) ==
    /\ user.status # "none" /\ user.local /\ ~Out(user)
    /\ Begin(c, [Rest EXCEPT !.pc = "otp", !.op = "send", !.purpose = "RESET_PASSWORD"])

CreateOtp(c) ==
    /\ call[c].pc = "otp" /\ Len(codes) < MaxCodes
    /\ codes' = Append(codes, [purpose |-> call[c].purpose, status |-> "PENDING", attempts |-> 0,
                               live |-> TRUE])
    /\ Finish(c)
    /\ UNCHANGED <<user, guesses, fraudVars, requests, pardoned, mixed>>

\* Ten minutes after it was made; older ones went before.
OtpExpires(i) ==
    /\ codes[i].live /\ \A j \in 1..(i - 1) : ~codes[j].live
    /\ codes' = [codes EXCEPT ![i].live = FALSE]
    /\ UNCHANGED <<user, guesses, fraudVars, call, requests, pardoned, mixed>>

-----------------------------------------------------------------------------
(***************************************************************************)
(* Using a code                                                            *)
(***************************************************************************)
AskCode(c, op, p, copy) ==
    Begin(c, [Rest EXCEPT !.pc = "code", !.op = op, !.purpose = p, !.copy = copy])

\* VerifyCredentialsUseCase, with a code of any purpose.
VerifyCredentials(c, p) ==
    /\ user.status # "none" /\ ~Out(user)
    /\ AskCode(c, "verify", p, [user EXCEPT !.verified = TRUE])

\* ChangePasswordUseCase reads the token first and the user afterwards.
ChangePassword(c) ==
    /\ user.status # "none"
    /\ AskCode(c, "reset", "RESET_PASSWORD", NoUser)

ChangeProfilePassword(c) ==
    Authenticated /\ AskCode(c, "password", "CHANGE_PROFILE_PASSWORD", user)

EditProfile(c) ==
    Authenticated /\ AskCode(c, "edit", "EDIT_PROFILE", user)

\* The code is read and judged.  old says whether the old password given for
\* the profile is right; an account made by Google has none.
ReadOtp(c, right, old) ==
    LET i == RecentOtp(call[c].purpose)
        op == call[c].op
        verdict == IF i = 0 THEN "refuse" ELSE Judge(op, codes[i], right)
        put(pc, otp, then) ==
            call' = [call EXCEPT ![c].pc = pc, ![c].code = i, ![c].otp = otp, ![c].then = then]
    IN  /\ call[c].pc = "code"
        /\ CASE verdict = "refuse" -> Finish(c)
             [] verdict = "block" -> put("saveCode", [codes[i] EXCEPT !.status = "BLOCKED"], "idle")
             [] verdict = "count" -> put("saveCode", [codes[i] EXCEPT !.attempts = @ + 1], "idle")
             [] verdict = "accept" ->
                CASE op = "verify" -> put("saveCode", [codes[i] EXCEPT !.status = "VERIFIED"], "saveUser")
                  [] op = "reset"  -> put("user", [codes[i] EXCEPT !.status = "VERIFIED"], "saveUser")
                  [] op = "edit" \/ (op = "password" /\ old /\ call[c].copy.local) ->
                        put("saveUser", codes[i], "idle")
                  [] OTHER -> Finish(c)
        /\ guesses' = IF verdict = "count" THEN [guesses EXCEPT ![i] = @ + 1] ELSE guesses
        /\ UNCHANGED <<user, codes, fraudVars, requests, pardoned, mixed>>

ReadUser(c) ==
    /\ call[c].pc = "user"
    /\ IF Out(user) THEN Finish(c)
       ELSE call' = [call EXCEPT ![c].copy = user, ![c].pc = "saveCode"]
    /\ UNCHANGED <<user, codeVars, fraudVars, requests, pardoned, mixed>>

\* otpRepository.update writes status and attempts from the copy.
SaveOtp(c) ==
    /\ call[c].pc = "saveCode"
    /\ codes' = [codes EXCEPT ![call[c].code] =
                   [call[c].otp EXCEPT !.live = codes[call[c].code].live]]
    /\ IF call[c].then = "idle" THEN Finish(c)
       ELSE call' = [call EXCEPT ![c].pc = call[c].then, ![c].then = "idle"]
    /\ UNCHANGED <<user, guesses, fraudVars, requests, pardoned, mixed>>

-----------------------------------------------------------------------------
(***************************************************************************)
(* Other writers of the user row                                           *)
(***************************************************************************)
Rewrite(c, op, copy) ==
    Begin(c, [Rest EXCEPT !.pc = "saveUser", !.op = op, !.copy = copy])

\* CompleteProfileUseCase: phone and address.
CompleteProfile(c) == Authenticated /\ Rewrite(c, "profile", user)

\* UpdateAvatarUrlUsecase: the avatar.
UpdateAvatarUrl(c) == Authenticated /\ Rewrite(c, "profile", user)

\* BlockUserUsecase; lifting a block lifts a suspension too.
BlockUser(c, block) ==
    /\ user.status # "none"
    /\ Rewrite(c, IF block THEN "block" ELSE "unblock",
               [user EXCEPT !.status = IF block THEN "BLOCKED" ELSE "ACTIVE"])

\* PrismaUserRepo.save: every column and the roles, from the copy.
SaveUser(c) ==
    /\ call[c].pc = "saveUser"
    /\ user' = call[c].copy
    /\ IF call[c].then = "idle" THEN Finish(c)
       ELSE call' = [call EXCEPT ![c].pc = call[c].then, ![c].then = "idle"]
    /\ granted' = IF call[c].then = "threshold" THEN granted + call[c].filed.points ELSE granted
    /\ pardoned' = (call[c].op = "unblock" \/ (pardoned /\ call[c].then # "threshold"))
    /\ UNCHANGED <<codeVars, reports, suspensions, requests, mixed>>

-----------------------------------------------------------------------------
(***************************************************************************)
(* Fraud reports                                                           *)
(***************************************************************************)
\* CreateFraudReportUsecase reads both users first.
CreateFraudReport(c, by, points) ==
    /\ user.status # "none"
    /\ Begin(c, [Rest EXCEPT !.pc = "report", !.op = "report", !.copy = user,
                             !.filed = [NoReport EXCEPT !.by = by, !.points = points]])

\* today says that the time of day is one the count below includes.
SaveReport(c, today) ==
    /\ call[c].pc = "report" /\ Len(reports) < MaxReports
    /\ reports' = Append(reports, [call[c].filed EXCEPT !.today = today])
    /\ Goto(c, "count")
    /\ UNCHANGED <<user, codeVars, suspensions, granted, requests, pardoned, mixed>>

\* findAllTodayReportsByTragetedUserId: exactly so many of each type suspend
\* the account as it was read at the start; no suspension row is made.
CountReports(c) ==
    LET today(by) == Cardinality({ r \in DOMAIN reports : reports[r].by = by /\ reports[r].today })
    IN  /\ call[c].pc = "count"
        /\ IF today("SELLER") = ReportLimit /\ today("USER") = ReportLimit
           THEN call' = [call EXCEPT ![c].pc = "saveUser", ![c].copy.status = "SUSPENDED"]
           ELSE Finish(c)
        /\ UNCHANGED <<user, codeVars, fraudVars, requests, pardoned, mixed>>

Midnight ==
    /\ \E r \in DOMAIN reports : reports[r].today
    /\ reports' = [r \in DOMAIN reports |-> [reports[r] EXCEPT !.today = FALSE]]
    /\ UNCHANGED <<user, codeVars, suspensions, granted, call, requests, pardoned, mixed>>

OpenReport(c, op, r, filed, verified) ==
    Begin(c, [Rest EXCEPT !.pc = "update", !.op = op, !.report = r, !.filed = filed, !.flag = verified])

\* report.resolve, whether or not the report was resolved already; flag is the
\* verdict FAULT_VERIFIED.
ReviewFraudReport(c, r, verified) ==
    OpenReport(c, "review", r, [reports[r] EXCEPT !.status = "RESOLVED"], verified)

\* A report that is not open is written back as it is.
MarkUnderReview(c, r) ==
    OpenReport(c, "update", r,
               [reports[r] EXCEPT !.status = IF @ = "OPEN" THEN "UNDER_REVIEW" ELSE @], FALSE)

\* Type, level and status are set as the administrator says.
UpdateFraudReport(c, r, by, points, status) ==
    OpenReport(c, "update", r,
               [reports[r] EXCEPT !.by = by, !.points = points, !.status = status], FALSE)

\* updateReport writes the row from the copy, all but the time it was made.
UpdateReport(c) ==
    /\ call[c].pc = "update"
    /\ reports' = [reports EXCEPT ![call[c].report] = [call[c].filed EXCEPT !.today = reports[call[c].report].today]]
    /\ IF call[c].flag THEN Goto(c, "target") ELSE Finish(c)
    /\ UNCHANGED <<user, codeVars, suspensions, granted, requests, pardoned, mixed>>

\* Faulty variant: the user is built anew, with the default status.
AddPoints_Rebuilt(c) ==
    /\ call[c].pc = "target" /\ granted + call[c].filed.points <= MaxGranted
    /\ call' = [call EXCEPT ![c].copy = [user EXCEPT !.fraud = @ + call[c].filed.points, !.status = "ACTIVE"],
                            ![c].pc = "saveUser", ![c].then = "threshold"]
    /\ UNCHANGED <<user, codeVars, fraudVars, requests, pardoned, mixed>>

\* The user is read, the points added.
AddPoints(c) ==
    /\ call[c].pc = "target" /\ granted + call[c].filed.points <= MaxGranted
    /\ call' = [call EXCEPT ![c].copy = [user EXCEPT !.fraud = @ + call[c].filed.points],
                            ![c].pc = "saveUser", ![c].then = "threshold"]
    /\ UNCHANGED <<user, codeVars, fraudVars, requests, pardoned, mixed>>

\* Faulty variant: a level that reaches the threshold is not enough.
ReachesThreshold_Over(c) == call[c].copy.fraud > Threshold

ReachesThreshold(c) == call[c].copy.fraud >= Threshold

\* After the notification: the earlier suspensions are read.
DecideSuspension(c) ==
    /\ call[c].pc = "threshold"
    /\ IF ReachesThreshold(c)
       THEN call' = [call EXCEPT ![c].pc = "suspend",
                                 ![c].flag = (suspensions # [t \in DOMAIN suspensions |-> 0])]
       ELSE Finish(c)
    /\ UNCHANGED <<user, codeVars, fraudVars, requests, pardoned, mixed>>

CreateSuspension(c) ==
    /\ call[c].pc = "suspend"
    /\ suspensions' = [suspensions EXCEPT ![IF call[c].flag THEN "PERMANENT" ELSE "TEMPORARY"] = @ + 1]
    /\ call' = [call EXCEPT ![c].pc = "saveUser", ![c].copy.status = "SUSPENDED"]
    /\ UNCHANGED <<user, codeVars, reports, granted, requests, pardoned, mixed>>

\* A statement throws or the server stops.
CallFails(c) ==
    /\ Busy(c)
    /\ Finish(c)
    /\ mixed' = TRUE
    /\ UNCHANGED <<user, codeVars, fraudVars, requests, pardoned>>

-----------------------------------------------------------------------------
UserStep(c) ==
    \/ Register(c) \/ GoogleAuth(c) \/ CreateUser(c) \/ CreateOtp(c)
    \/ ForgotPassword(c) \/ ChangePassword(c) \/ ChangeProfilePassword(c) \/ EditProfile(c)
    \/ \E p \in Purposes : SendOtp(c, p) \/ VerifyCredentials(c, p)
    \/ \E right, old \in BOOLEAN : ReadOtp(c, right, old)
    \/ ReadUser(c) \/ SaveOtp(c) \/ SaveUser(c)
    \/ CompleteProfile(c) \/ UpdateAvatarUrl(c) \/ CallFails(c)

FraudStep(c) ==
    \/ \E block \in BOOLEAN : BlockUser(c, block)
    \/ \E by \in {"USER", "SELLER"}, points \in Points : CreateFraudReport(c, by, points)
    \/ \E today \in BOOLEAN : SaveReport(c, today)
    \/ CountReports(c) \/ UpdateReport(c) \/ AddPoints(c) \/ DecideSuspension(c) \/ CreateSuspension(c)
    \/ \E r \in DOMAIN reports :
          \/ \E verified \in BOOLEAN : ReviewFraudReport(c, r, verified)
          \/ MarkUnderReview(c, r)
          \/ \E by \in {"USER", "SELLER"}, points \in Points, status \in {"OPEN", "RESOLVED"} :
                UpdateFraudReport(c, r, by, points, status)

AccountsNext ==
    \/ \E c \in Calls : UserStep(c) \/ FraudStep(c)
    \/ \E i \in DOMAIN codes : OtpExpires(i)
    \/ Midnight

AccountsSpec == AccountsInit /\ [][AccountsNext]_accountsVars

-----------------------------------------------------------------------------
(***************************************************************************)
(* Properties                                                              *)
(***************************************************************************)
Quiet == \A c \in Calls : ~Busy(c)

\* One request at a time, none broken off: however purposes, expiry and new
\* codes are combined, a code is guessed at most MaxAttempts times.
GuessesBounded == ~mixed => \A i \in DOMAIN codes : guesses[i] <= MaxAttempts

\* One request at a time: a blocked or suspended account is active again only
\* through an administrator, whatever was under way with codes and profile.
StaysOut ==
    [][~mixed' /\ Out(user) /\ ~Out(user') => \E c \in Calls : call[c].op = "unblock"]_accountsVars

\* Whatever overlaps or fails, the fraud level never exceeds the points handed
\* out; one request at a time it equals them, and an account that reached the
\* threshold is out unless it was reactivated since.
FraudCounted ==
    /\ user.fraud <= granted
    /\ ~mixed /\ Quiet =>
          /\ user.fraud = granted
          /\ user.fraud >= Threshold => Out(user) \/ pardoned
=============================================================================
