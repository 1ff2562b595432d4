--------------------------------- MODULE SignIn --------------------------------
(***************************************************************************)
(* Signing in to one account: password and second factor, setting up and   *)
(* turning off the second factor, and resetting the password by mail.  The *)
(* handlers (server/internal/httpserver, passwordreset, mailer) over the   *)
(* PostgreSQL store (server/internal/storage), one step per statement that *)
(* another request can come between.                                       *)
(*                                                                         *)
(* The locks that matter: the advisory lock of minting ("mint"), the       *)
(* user_totp row ("totp"), the challenge row ("challenge") and the users   *)
(* row ("account"), which a reset locks FOR UPDATE and every INSERT that   *)
(* refers to the account needs FOR KEY SHARE.  A transaction's writes are  *)
(* made when it commits, in its last step.                                 *)
(***************************************************************************)
EXTENDS Integers, Sequences, FiniteSets

CONSTANTS Requests, Origin, NoName, MaxSetupAttempts, MaxChallengeAttempts,
  RecoveryCodeCount, MaxStep,   \* see SignInStore
  SkewSteps,    \* time steps that a code may be early or late
  LoginLimit, CodeLimit, ResetLimit,  \* events that a rate limiter allows in its window
  QueueSize,    \* mails that wait to be sent
  Workloads     \* bound: where the account is at first, and how often each operation is requested

VARIABLES
  totp, codes, challenge, links, password, sessions,   \* see SignInStore
  requireTotp,  \* org_settings.require_totp
  clock,        \* the time step
  outdated,     \* the stored hash of the password is due to be computed anew
  cookies,      \* challenges that a client holds the cookie of
  queued,       \* links in the mail queue
  inbox,        \* links that arrived
  spent,        \* what the rate limiters have counted in their windows
  req,          \* per request: where it is and what it read
  budget,       \* requests still to come, per operation
  tried,        \* history: attempts that should have been counted
  accepted,     \* history: the codes that were accepted, in order
  guesses,      \* history: wrong codes per challenge
  word,         \* the right password that a sign-in presented
  via,          \* history: the sign-in that led to a session
  crossed,      \* history: sign-ins by password that a reset overlapped
  chosen,       \* history: the password that was set last
  revived       \* history: passwords that a sign-in overlapped by the last reset put back

Store == INSTANCE SignInStore

Names == Store!Names
Operations == {"Login", "Code", "Start", "Verify", "Activate", "Disable", "Replace",
               "Mail", "Reset", "Policy", "Expire", "Tick"}
Starts == {"off", "required", "verified", "on", "challenged"}

ASSUME SignInAssumptions ==
  /\ Origin \notin Requests /\ NoName \notin Names
  /\ {MaxSetupAttempts, MaxChallengeAttempts, RecoveryCodeCount, QueueSize, MaxStep} \subseteq Nat \ {0}
  /\ \A w \in Workloads : w.start \in Starts /\ DOMAIN w.ops = Operations

\* on: the challenge or link presented; code: the code presented; now: the
\* time step at which the handler took the time; late: what it is about had
\* expired when its transaction began, which is what now() means in SQL;
\* gated: the enrolment flag of the session to be inserted; seen: links that an
\* UPDATE found; held: its locks.
New  == [at |-> "new", on |-> NoName, code |-> <<>>, now |-> 0, late |-> FALSE, gated |-> FALSE,
         seen |-> {}, held |-> {}]
Over == [New EXCEPT !.at = "over"]

storeVars == <<totp, codes, challenge, links, password, sessions>>
orgVars   == <<requireTotp, clock, outdated>>
mailVars  == <<queued, inbox>>
ghostVars == <<accepted, guesses, word, via, crossed, chosen, revived>>
vars == <<storeVars, orgVars, mailVars, cookies, spent, tried, req, budget, ghostVars>>

NoAttempts == [login |-> 0, address |-> 0, account |-> 0, mail |-> 0, reset |-> 0]

\* The rows and the requests are well formed, and the mail queue keeps to its
\* capacity (SendPasswordReset).
TypeOK ==
  /\ totp \in Store!TotpRow /\ challenge \in Store!ChallengeRow
  /\ codes \subseteq UNION {Store!Batch(n) : n \in Names}
  /\ links \in [Names -> Store!LinkStates] /\ password \in Names
  /\ sessions \in [Names -> Store!Families]
  /\ requireTotp \in BOOLEAN /\ outdated \in BOOLEAN /\ clock \in Store!Steps
  /\ cookies \cup queued \cup inbox \cup crossed \subseteq Names
  /\ Cardinality(queued) <= QueueSize
  /\ DOMAIN spent = DOMAIN NoAttempts /\ DOMAIN tried = DOMAIN NoAttempts
  /\ \A r \in Requests : DOMAIN req[r] = DOMAIN New /\ req[r].held \subseteq {"mint", "totp", "challenge", "account"}

\* The account was signed in to and a reset link has reached its owner; the
\* second factor is off (and required), verified, on, or asked for.
Init == \E w \in Workloads :
  /\ totp = CASE w.start \in {"off", "required"} -> Store!NoTotp
              [] w.start = "verified" -> [Store!Pending(Origin) EXCEPT !.verified = TRUE, !.step = 0]
              [] OTHER -> [Store!Pending(Origin) EXCEPT !.verified = TRUE, !.step = 0, !.active = TRUE]
  /\ codes = IF w.start \in {"off", "required"} THEN {} ELSE Store!Batch(Origin)
  /\ challenge = IF w.start = "challenged" THEN Store!Challenge(Origin) ELSE Store!NoChallenge
  /\ cookies = IF w.start = "challenged" THEN {Origin} ELSE {}
  /\ requireTotp = (w.start \in {"required", "verified"})
  /\ sessions = [n \in Names |-> IF n # Origin THEN "none" ELSE IF requireTotp THEN "gated" ELSE "live"]
  /\ links = [n \in Names |-> IF n = Origin THEN "live" ELSE "none"]
  /\ password = Origin /\ clock = 1 /\ queued = {} /\ inbox = {Origin}
  /\ spent = NoAttempts /\ tried = NoAttempts
  /\ req = [r \in Requests |-> New] /\ budget = w.ops
  /\ accepted = IF totp.verified THEN <<Store!AuthenticatorCode(Origin, 0)>> ELSE <<>>
  /\ guesses = [n \in Names |-> 0]
  /\ word = [n \in Names |-> Origin] /\ via = [n \in Names |-> n] /\ crossed = {}
  /\ chosen = Origin /\ revived = {} /\ outdated \in BOOLEAN

--------------------------------------------------------------------------------
\* A request begins, goes on, and ends.  What ends here unlocks all it held.
Begin(r, op, to) ==
  /\ req[r].at = "new"
  /\ budget[op] > 0
  /\ budget' = [budget EXCEPT ![op] = @ - 1]
  /\ req' = [req EXCEPT ![r] = to]

Go(r, to)  == req' = [req EXCEPT ![r] = to] /\ UNCHANGED budget
Goto(r, a) == Go(r, [req[r] EXCEPT !.at = a])
End(r)     == Go(r, Over)

Free(r, row) == \A q \in Requests \ {r} : row \notin req[q].held

\* The foreign key of an INSERT waits for a reset that has the account locked.
AccountThere(r) == Free(r, "account")

\* pg_advisory_xact_lock, for CreateSession and for ActivateTotp.
lockSessionMint(r) ==
  /\ req[r].at \in {"mint", "activate"}
  /\ Free(r, "mint")
  /\ Go(r, [req[r] EXCEPT !.at = IF @ = "mint" THEN "insert" ELSE "match setup", !.held = {"mint"}])
  /\ UNCHANGED <<storeVars, orgVars, mailVars, cookies, spent, tried, ghostVars>>

\* Fault: the account is not locked.
FindAccount(r) ==
  /\ req[r].at \in {"link", "reset"}
  /\ Goto(r, IF req[r].at = "link" THEN "supersede" ELSE "token")
  /\ UNCHANGED <<storeVars, orgVars, mailVars, cookies, spent, tried, ghostVars>>

\* SELECT id FROM users ... FOR UPDATE
lockAccount(r) ==
  /\ req[r].at \in {"link", "reset"}
  /\ Free(r, "account")
  /\ Go(r, [req[r] EXCEPT !.at = IF @ = "link" THEN "supersede" ELSE "token", !.held = {"account"}])
  /\ UNCHANGED <<storeVars, orgVars, mailVars, cookies, spent, tried, ghostVars>>

--------------------------------------------------------------------------------
\* Signing in: the limiter is asked, and the password is compared with the hash
\* that was read.
Login(r) == \E right \in BOOLEAN :
  /\ spent.login < LoginLimit
  /\ Begin(r, "Login", [New EXCEPT !.at = IF ~right THEN "count login" ELSE IF outdated THEN "rehash" ELSE "two step"])
  /\ word' = [word EXCEPT ![r] = IF right THEN password ELSE NoName]
  /\ tried' = IF right THEN tried ELSE [tried EXCEPT !.login = @ + 1]
  /\ crossed' = IF \E q \in Requests : req[q].at = "sweep" THEN crossed \cup {r} ELSE crossed
  /\ UNCHANGED <<storeVars, orgVars, mailVars, cookies, spent, accepted, guesses, via, chosen, revived>>

\* UpdatePasswordHash stores the password that was presented, whatever is stored
\* by now; a failure is logged only.
rehashPassword(r) ==
  /\ req[r].at = "rehash"
  /\ Goto(r, "two step")
  /\ \/ /\ Free(r, "account")
        /\ password' = word[r] /\ outdated' = FALSE
        /\ revived' = IF r \in crossed THEN revived \cup {word[r]} ELSE revived
     \/ UNCHANGED <<password, outdated, revived>>
  /\ UNCHANGED <<totp, codes, challenge, links, sessions, requireTotp, clock, mailVars, cookies, spent, tried,
                 accepted, guesses, word, via, crossed, chosen>>

\* TotpByUser
startTotpChallenge(r) ==
  /\ req[r].at = "two step"
  /\ Goto(r, IF totp.active THEN "challenge" ELSE "mint")
  /\ UNCHANGED <<storeVars, orgVars, mailVars, cookies, spent, tried, ghostVars>>

\* INSERT ... ON CONFLICT (user_id) DO UPDATE; the client gets the cookie.
CreateTotpChallenge(r) ==
  /\ req[r].at = "challenge"
  /\ Free(r, "challenge")
  /\ challenge.token = NoName => AccountThere(r)
  /\ challenge' = Store!Challenge(r)
  /\ cookies' = cookies \cup {r}
  /\ tried' = [tried EXCEPT !.login = @ + 1]
  /\ Goto(r, "count login")
  /\ UNCHANGED <<totp, codes, links, password, sessions, orgVars, mailVars, spent, ghostVars>>

consumeLoginBudget(r) ==
  /\ req[r].at = "count login"
  /\ spent' = [spent EXCEPT !.login = @ + 1]
  /\ End(r)
  /\ UNCHANGED <<storeVars, orgVars, mailVars, cookies, tried, ghostVars>>

\* The INSERT decides on the enrolment flag from its snapshot, ...
insertSessionFamily(r) ==
  /\ req[r].at = "insert"
  /\ Go(r, [req[r] EXCEPT !.at = "family", !.gated = requireTotp /\ ~totp.active])
  /\ UNCHANGED <<storeVars, orgVars, mailVars, cookies, spent, tried, ghostVars>>

\* ... and then waits for the account.
CreateSession(r) ==
  /\ req[r].at = "family"
  /\ AccountThere(r)
  /\ sessions' = [sessions EXCEPT ![r] = IF req[r].gated THEN "gated" ELSE "live"]
  /\ End(r)
  /\ UNCHANGED <<totp, codes, challenge, links, password, orgVars, mailVars, cookies, spent, tried, ghostVars>>

--------------------------------------------------------------------------------
\* Codes that somebody can present: those of the authenticator, the recovery
\* codes, codes that were used before, and wrong ones.
Known == {Store!AuthenticatorCode(totp.secret, s) : s \in Store!Steps} \cup codes
           \cup {accepted[i] : i \in DOMAIN accepted} \cup {<<"wrong">>}

\* Within the window, and later than the step that was accepted last.
Verify(code, now) ==
  /\ code[1] = "totp" /\ code[2] = totp.secret
  /\ code[3] \in now - SkewSteps .. now + SkewSteps
  /\ code[3] > totp.step

\* An answer to a challenge: the limiters are asked, the one of the account if
\* the challenge is known.
CompleteTotpLogin(r) == \E c \in cookies, code \in Known :
  /\ spent.address < CodeLimit
  /\ challenge.token = c => spent.account < CodeLimit
  /\ Begin(r, "Code", [New EXCEPT !.at = "match", !.on = c, !.code = code, !.now = clock])
  /\ UNCHANGED <<storeVars, orgVars, mailVars, cookies, spent, tried, ghostVars>>

Answerable(c) == challenge.token = c /\ ~challenge.consumed /\ challenge.tries < MaxChallengeAttempts

\* SELECT ... FOR UPDATE finds the row in its snapshot ...
MatchChallenge(r) ==
  /\ req[r].at = "match"
  /\ Goto(r, IF Answerable(req[r].on) /\ ~challenge.late THEN "lock" ELSE "count none")
  /\ UNCHANGED <<storeVars, orgVars, mailVars, cookies, spent, tried, ghostVars>>

\* ... waits for its lock, and tests it again.
LockChallenge(r) ==
  /\ req[r].at = "lock"
  /\ Free(r, "challenge")
  /\ Go(r, IF Answerable(req[r].on) THEN [req[r] EXCEPT !.at = "judge", !.held = {"challenge"}]
           ELSE [req[r] EXCEPT !.at = "count none"])
  /\ UNCHANGED <<storeVars, orgVars, mailVars, cookies, spent, tried, ghostVars>>

\* A second factor that is off ends the challenge.
consumeChallenge(r) ==
  /\ req[r].at = "judge" /\ ~totp.active
  /\ challenge' = Store!Consumed(challenge)
  /\ Go(r, [New EXCEPT !.at = "count none"])
  /\ UNCHANGED <<totp, codes, links, password, sessions, orgVars, mailVars, cookies, spent, tried, ghostVars>>

acceptChallengeCode(code, now) == Verify(code, now) \/ code \in codes

\* The user_totp row is locked, and the code is right.
AcceptCode(r) ==
  /\ req[r].at = "judge" /\ totp.active
  /\ Free(r, "totp")
  /\ acceptChallengeCode(req[r].code, req[r].now)
  /\ Go(r, [req[r] EXCEPT !.at = "session", !.held = @ \cup {"totp"}])
  /\ UNCHANGED <<storeVars, orgVars, mailVars, cookies, spent, tried, ghostVars>>

\* Fault: the refusal is an error of the transaction, which takes the count back.
BurnRolledBack(r) ==
  /\ req[r].at = "judge" /\ totp.active
  /\ Free(r, "totp")
  /\ ~acceptChallengeCode(req[r].code, req[r].now)
  /\ guesses' = [guesses EXCEPT ![challenge.token] = @ + 1]
  /\ tried' = [tried EXCEPT !.account = @ + 1]
  /\ Go(r, [New EXCEPT !.at = "count code"])
  /\ UNCHANGED <<storeVars, orgVars, mailVars, cookies, spent, accepted, word, via, crossed, chosen, revived>>

\* It is wrong.
burnChallengeAttempt(r) ==
  /\ req[r].at = "judge" /\ totp.active
  /\ Free(r, "totp")
  /\ ~acceptChallengeCode(req[r].code, req[r].now)
  /\ challenge' = [challenge EXCEPT !.tries = @ + 1, !.consumed = challenge.tries + 1 >= MaxChallengeAttempts]
  /\ guesses' = [guesses EXCEPT ![challenge.token] = @ + 1]
  /\ tried' = [tried EXCEPT !.account = @ + 1]
  /\ Go(r, [New EXCEPT !.at = "count code"])
  /\ UNCHANGED <<totp, codes, links, password, sessions, orgVars, mailVars, cookies, spent, accepted, word, via, crossed, chosen, revived>>

\* The code and the challenge are spent and the session is there, at once.
CompleteTotpChallenge(r) ==
  LET code == req[r].code IN
  /\ req[r].at = "session"
  /\ AccountThere(r)
  /\ challenge' = Store!Consumed(challenge)
  /\ IF code[1] = "totp" THEN totp' = [totp EXCEPT !.step = code[3]] /\ UNCHANGED codes
                         ELSE codes' = codes \ {code} /\ UNCHANGED totp
  /\ sessions' = [sessions EXCEPT ![r] = "live"]
  /\ via' = [via EXCEPT ![r] = req[r].on]
  /\ accepted' = Append(accepted, code)
  /\ End(r)
  /\ UNCHANGED <<links, password, orgVars, mailVars, cookies, spent, tried, guesses, word, crossed, chosen, revived>>

\* A wrong code counts for the address and the account, an answer to no
\* challenge for the address.
recordTotpFailure(r) ==
  /\ req[r].at \in {"count code", "count none"}
  /\ spent' = [spent EXCEPT !.address = @ + 1,
                            !.account = IF req[r].at = "count code" THEN @ + 1 ELSE @]
  /\ End(r)
  /\ UNCHANGED <<storeVars, orgVars, mailVars, cookies, tried, ghostVars>>
--------------------------------------------------------------------------------
\* Setting up the second factor.  now() is when the transaction began.
Expired(r) == req[r].late /\ totp.late

StartTotpSetup(r) ==
  /\ Begin(r, "Start", [New EXCEPT !.at = "setup"])
  /\ UNCHANGED <<storeVars, orgVars, mailVars, cookies, spent, tried, ghostVars>>

\* SELECT ... FOR UPDATE locks the setup that is there; where there is none,
\* nothing.
LockSetup(r) ==
  /\ req[r].at = "setup"
  /\ Free(r, "totp")
  /\ Go(r, IF totp.active THEN Over
           ELSE [req[r] EXCEPT !.at = "install", !.held = IF totp.secret = NoName THEN {} ELSE {"totp"}])
  /\ UNCHANGED <<storeVars, orgVars, mailVars, cookies, spent, tried, ghostVars>>

\* INSERT ... ON CONFLICT (user_id) DO UPDATE, and the codes go.
InstallSetup(r) ==
  /\ req[r].at = "install"
  /\ Free(r, "totp")
  /\ totp.secret = NoName => AccountThere(r)
  /\ totp' = Store!Pending(r)
  /\ codes' = {}
  /\ End(r)
  /\ UNCHANGED <<challenge, links, password, sessions, orgVars, mailVars, cookies, spent, tried, ghostVars>>

VerifyTotpSetup(r) == \E code \in {k \in Known : k[1] # "recovery"} :
  /\ Begin(r, "Verify", [New EXCEPT !.at = "verify", !.code = code, !.now = clock, !.late = totp.late])
  /\ UNCHANGED <<storeVars, orgVars, mailVars, cookies, spent, tried, ghostVars>>

\* The setup cannot be verified: there is none, it is on, or its attempts are used up.
NoSetup(r) ==
  /\ req[r].at = "verify"
  /\ Free(r, "totp")
  /\ totp.secret = NoName \/ totp.active \/ totp.tries >= MaxSetupAttempts
  /\ End(r)
  /\ UNCHANGED <<storeVars, orgVars, mailVars, cookies, spent, tried, ghostVars>>

Verifiable(r) ==
  /\ req[r].at = "verify"
  /\ Free(r, "totp")
  /\ totp.secret # NoName /\ ~totp.active /\ totp.tries < MaxSetupAttempts

deletePendingSetup(r) ==
  /\ Verifiable(r) /\ Expired(r)
  /\ totp' = Store!NoTotp
  /\ codes' = {}
  /\ End(r)
  /\ UNCHANGED <<challenge, links, password, sessions, orgVars, mailVars, cookies, spent, tried, ghostVars>>

\* The attempt that reaches the limit ends the setup.
burnSetupAttempt(r) ==
  /\ Verifiable(r) /\ ~Expired(r)
  /\ ~Verify(req[r].code, req[r].now)
  /\ IF totp.tries + 1 < MaxSetupAttempts
       THEN totp' = [totp EXCEPT !.tries = @ + 1] /\ UNCHANGED codes
       ELSE totp' = Store!NoTotp /\ codes' = {}
  /\ End(r)
  /\ UNCHANGED <<challenge, links, password, sessions, orgVars, mailVars, cookies, spent, tried, ghostVars>>

AcceptSetup(r) ==
  /\ Verifiable(r) /\ ~Expired(r)
  /\ Verify(req[r].code, req[r].now)
  /\ Go(r, [req[r] EXCEPT !.at = "codes", !.held = {"totp"}])
  /\ UNCHANGED <<storeVars, orgVars, mailVars, cookies, spent, tried, ghostVars>>

\* A batch of recovery codes replaces the one before.
replaceRecoveryCodes(r) ==
  /\ AccountThere(r)
  /\ codes' = Store!Batch(r)

RecordVerification(r) ==
  /\ req[r].at = "codes"
  /\ totp' = [totp EXCEPT !.verified = TRUE, !.step = req[r].code[3], !.tries = 0]
  /\ replaceRecoveryCodes(r)
  /\ accepted' = Append(accepted, req[r].code)
  /\ End(r)
  /\ UNCHANGED <<challenge, links, password, sessions, orgVars, mailVars, cookies, spent, tried, guesses, word, via, crossed, chosen, revived>>

ActivateTotp(r) ==
  /\ Begin(r, "Activate", [New EXCEPT !.at = "activate", !.late = totp.late])
  /\ UNCHANGED <<storeVars, orgVars, mailVars, cookies, spent, tried, ghostVars>>

\* The row on its own is tested again when the UPDATE has its lock; that there
\* are recovery codes is seen in the snapshot only.
Ready(r) == totp.verified /\ ~totp.active /\ ~Expired(r)

MatchSetup(r) ==
  /\ req[r].at = "match setup"
  /\ IF Ready(r) /\ codes # {} THEN Goto(r, "activating") ELSE End(r)
  /\ UNCHANGED <<storeVars, orgVars, mailVars, cookies, spent, tried, ghostVars>>

\* Fault: what was found is switched on as it is now.
ActivateFound(r) ==
  /\ req[r].at = "activating"
  /\ Free(r, "totp")
  /\ totp' = [totp EXCEPT !.active = totp.secret # NoName]
  /\ sessions' = [n \in Names |-> IF sessions[n] = "gated" THEN "live" ELSE sessions[n]]
  /\ End(r)
  /\ UNCHANGED <<codes, challenge, links, password, orgVars, mailVars, cookies, spent, tried, ghostVars>>

\* Sessions that waited for the second factor are free.
SetActivated(r) ==
  /\ req[r].at = "activating"
  /\ Free(r, "totp")
  /\ IF Ready(r)
       THEN /\ totp' = [totp EXCEPT !.active = TRUE]
            /\ sessions' = [n \in Names |-> IF sessions[n] = "gated" THEN "live" ELSE sessions[n]]
       ELSE UNCHANGED <<totp, sessions>>
  /\ End(r)
  /\ UNCHANGED <<codes, challenge, links, password, orgVars, mailVars, cookies, spent, tried, ghostVars>>

\* Turning it off: not where the organisation requires it.
DisableTotp(r) ==
  /\ ~requireTotp
  /\ Begin(r, "Disable", [New EXCEPT !.at = "drop challenge"])
  /\ UNCHANGED <<storeVars, orgVars, mailVars, cookies, spent, tried, ghostVars>>

DropChallenge(r) ==
  /\ req[r].at = "drop challenge"
  /\ Free(r, "challenge")
  /\ Go(r, [req[r] EXCEPT !.at = "drop totp", !.held = IF challenge.token = NoName THEN {} ELSE {"challenge"}])
  /\ UNCHANGED <<storeVars, orgVars, mailVars, cookies, spent, tried, ghostVars>>

\* A second factor that is not on rolls all of it back.
DropTotp(r) ==
  /\ req[r].at = "drop totp"
  /\ Free(r, "totp")
  /\ IF totp.active
       THEN /\ totp' = Store!NoTotp
            /\ codes' = {}
            /\ challenge' = IF "challenge" \in req[r].held THEN Store!NoChallenge ELSE challenge
       ELSE UNCHANGED <<totp, codes, challenge>>
  /\ End(r)
  /\ UNCHANGED <<links, password, sessions, orgVars, mailVars, cookies, spent, tried, ghostVars>>

RegenerateRecoveryCodes(r) ==
  /\ Begin(r, "Replace", [New EXCEPT !.at = "replace"])
  /\ UNCHANGED <<storeVars, orgVars, mailVars, cookies, spent, tried, ghostVars>>

\* Fault: the row is read and not locked.
ReadSecret(r) ==
  /\ req[r].at = "replace"
  /\ IF totp.active THEN Goto(r, "new codes") ELSE End(r)
  /\ UNCHANGED <<storeVars, orgVars, mailVars, cookies, spent, tried, ghostVars>>

LockSecret(r) ==
  /\ req[r].at = "replace"
  /\ Free(r, "totp")
  /\ Go(r, IF totp.active THEN [req[r] EXCEPT !.at = "new codes", !.held = {"totp"}] ELSE Over)
  /\ UNCHANGED <<storeVars, orgVars, mailVars, cookies, spent, tried, ghostVars>>

ReplaceRecoveryCodes(r) ==
  /\ req[r].at = "new codes"
  /\ replaceRecoveryCodes(r)
  /\ End(r)
  /\ UNCHANGED <<totp, challenge, links, password, sessions, orgVars, mailVars, cookies, spent, tried, ghostVars>>

--------------------------------------------------------------------------------
\* Forgetting the password: the limiters, then the link, then the mail.
RequestPasswordReset(r) ==
  /\ spent.mail < ResetLimit
  /\ spent' = [spent EXCEPT !.mail = @ + 1]
  /\ Begin(r, "Mail", [New EXCEPT !.at = "link"])
  /\ UNCHANGED <<storeVars, orgVars, mailVars, cookies, tried, ghostVars>>

\* UPDATE ... WHERE used_at IS NULL: the links that are outstanding now.
Outstanding == {n \in Names : links[n] \in {"live", "late"}}

Supersede(r) ==
  /\ req[r].at = "supersede"
  /\ Go(r, [req[r] EXCEPT !.at = "issue", !.seen = Outstanding])
  /\ UNCHANGED <<storeVars, orgVars, mailVars, cookies, spent, tried, ghostVars>>

CreatePasswordResetToken(r) ==
  /\ req[r].at = "issue"
  /\ links' = [n \in Names |-> IF n = r THEN "live" ELSE IF n \in req[r].seen THEN "used" ELSE links[n]]
  /\ Go(r, [New EXCEPT !.at = "mail"])
  /\ UNCHANGED <<totp, codes, challenge, password, sessions, orgVars, mailVars, cookies, spent, tried, ghostVars>>

\* A full queue drops the mail; the link stays.
SendPasswordReset(r) ==
  /\ req[r].at = "mail"
  /\ queued' = IF Cardinality(queued) < QueueSize THEN queued \cup {r} ELSE queued
  /\ End(r)
  /\ UNCHANGED <<storeVars, orgVars, inbox, cookies, spent, tried, ghostVars>>

\* A worker sends a mail, or fails to; workers overtake each other.
work == \E l \in queued, arrives \in BOOLEAN :
  /\ queued' = queued \ {l}
  /\ inbox' = IF arrives THEN inbox \cup {l} ELSE inbox
  /\ UNCHANGED <<storeVars, orgVars, cookies, spent, tried, req, budget, ghostVars>>

CompletePasswordReset(r) == \E l \in inbox :
  /\ spent.reset < ResetLimit
  /\ spent' = [spent EXCEPT !.reset = @ + 1]
  /\ Begin(r, "Reset", [New EXCEPT !.at = "reset", !.on = l, !.late = links[l] = "late"])
  /\ UNCHANGED <<storeVars, orgVars, mailVars, cookies, tried, ghostVars>>

\* Only a link that is neither used nor expired does anything.
CheckToken(r) ==
  /\ req[r].at = "token"
  /\ IF links[req[r].on] = "used" \/ req[r].late THEN End(r) ELSE Goto(r, "consume")
  /\ UNCHANGED <<storeVars, orgVars, mailVars, cookies, spent, tried, ghostVars>>

SigningIn == {q \in Requests : req[q].at \in {"rehash", "two step", "challenge", "mint", "insert", "family"}}

\* Fault: challenges are left alone.
ResetLeavesChallenge(r) ==
  /\ req[r].at = "consume"
  /\ Goto(r, "sweep")
  /\ crossed' = crossed \cup SigningIn
  /\ UNCHANGED <<storeVars, orgVars, mailVars, cookies, spent, tried, accepted, guesses, word, via, chosen, revived>>

\* UPDATE totp_challenges ... WHERE consumed_at IS NULL locks what it finds.
ConsumeChallenges(r) ==
  /\ req[r].at = "consume"
  /\ ~challenge.consumed => Free(r, "challenge")
  /\ Go(r, [req[r] EXCEPT !.at = "sweep", !.held = @ \cup (IF challenge.consumed THEN {} ELSE {"challenge"})])
  /\ crossed' = crossed \cup SigningIn
  /\ UNCHANGED <<storeVars, orgVars, mailVars, cookies, spent, tried, accepted, guesses, word, via, chosen, revived>>

\* The links, the challenges and the sessions end with the old password.
ConsumePasswordReset(r) ==
  /\ req[r].at = "sweep"
  /\ links' = [n \in Names |-> IF n \in Outstanding THEN "used" ELSE links[n]]
  /\ password' = r /\ outdated' = FALSE /\ chosen' = r /\ revived' = {}
  /\ challenge' = IF "challenge" \in req[r].held THEN Store!Consumed(challenge) ELSE challenge
  /\ sessions' = [n \in Names |-> IF sessions[n] = "none" THEN "none" ELSE "revoked"]
  /\ crossed' = crossed \cup SigningIn
  /\ End(r)
  /\ UNCHANGED <<totp, codes, requireTotp, clock, mailVars, cookies, spent, tried, accepted, guesses, word, via>>

--------------------------------------------------------------------------------
\* The organisation changes its mind about the second factor.
UpdateOrgSettings ==
  /\ budget["Policy"] > 0 /\ budget' = [budget EXCEPT !["Policy"] = @ - 1]
  /\ requireTotp' = ~requireTotp
  /\ UNCHANGED <<storeVars, clock, outdated, mailVars, cookies, spent, tried, req, ghostVars>>

\* A setup, a challenge or a link gets too old.
Expire ==
  /\ budget["Expire"] > 0 /\ budget' = [budget EXCEPT !["Expire"] = @ - 1]
  /\ \/ totp.secret # NoName /\ ~totp.active /\ totp' = [totp EXCEPT !.late = TRUE] /\ UNCHANGED <<challenge, links>>
     \/ challenge.token # NoName /\ challenge' = [challenge EXCEPT !.late = TRUE] /\ UNCHANGED <<totp, links>>
     \/ \E n \in Names : links[n] = "live" /\ links' = [links EXCEPT ![n] = "late"] /\ UNCHANGED <<totp, challenge>>
  /\ UNCHANGED <<codes, password, sessions, orgVars, mailVars, cookies, spent, tried, req, ghostVars>>

Tick ==
  /\ budget["Tick"] > 0 /\ budget' = [budget EXCEPT !["Tick"] = @ - 1]
  /\ clock < MaxStep /\ clock' = clock + 1
  /\ UNCHANGED <<storeVars, requireTotp, outdated, mailVars, cookies, spent, tried, req, ghostVars>>

\* A transaction that holds locks fails: a cut connection, or the victim that
\* PostgreSQL picks when two wait for each other.
Rollback(r) ==
  /\ req[r].held # {}
  /\ End(r)
  /\ UNCHANGED <<storeVars, orgVars, mailVars, cookies, spent, tried, ghostVars>>

SigningInNext(r) ==
  \/ Login(r) \/ rehashPassword(r) \/ startTotpChallenge(r) \/ CreateTotpChallenge(r) \/ consumeLoginBudget(r)
  \/ lockSessionMint(r) \/ insertSessionFamily(r) \/ CreateSession(r)
  \/ CompleteTotpLogin(r) \/ MatchChallenge(r) \/ LockChallenge(r) \/ consumeChallenge(r)
  \/ AcceptCode(r) \/ burnChallengeAttempt(r) \/ CompleteTotpChallenge(r) \/ recordTotpFailure(r)

SecondFactorNext(r) ==
  \/ StartTotpSetup(r) \/ LockSetup(r) \/ InstallSetup(r)
  \/ VerifyTotpSetup(r) \/ NoSetup(r) \/ deletePendingSetup(r) \/ burnSetupAttempt(r)
  \/ AcceptSetup(r) \/ RecordVerification(r)
  \/ ActivateTotp(r) \/ MatchSetup(r) \/ SetActivated(r)
  \/ DisableTotp(r) \/ DropChallenge(r) \/ DropTotp(r)
  \/ RegenerateRecoveryCodes(r) \/ LockSecret(r) \/ ReplaceRecoveryCodes(r)

ResetNext(r) ==
  \/ RequestPasswordReset(r) \/ lockAccount(r) \/ Supersede(r) \/ CreatePasswordResetToken(r)
  \/ SendPasswordReset(r)
  \/ CompletePasswordReset(r) \/ CheckToken(r) \/ ConsumeChallenges(r) \/ ConsumePasswordReset(r)

Next ==
  \/ \E r \in Requests : SigningInNext(r) \/ SecondFactorNext(r) \/ ResetNext(r) \/ Rollback(r)
  \/ work \/ UpdateOrgSettings \/ Expire \/ Tick

Spec == Init /\ [][Next]_vars

--------------------------------------------------------------------------------
\* A reset ends what the old password opened: the password is the one that it
\* set, and no session that is alive after it was let in by another, by a
\* challenge that survived or a session minted in between.  The exceptions are
\* the sign-ins that the reset overlapped: their sessions, and the passwords
\* that they put back when they compute the hash anew.
ResetEndsAccess ==
  /\ password \in {chosen} \cup revived
  /\ \A n \in Names : sessions[n] \in {"live", "gated"} =>
       word[via[n]] \in {chosen} \cup revived \/ via[n] \in crossed

\* The password is the one that was set last, as the test of the reset says
\* ("The new password works and the old one does not.").  It need not be: see
\* rehashPassword.
ResetSticks == password = chosen

\* However requests for a mail and resets interleave, one link works at most.
OneLiveLink == Cardinality(Outstanding) <= 1

\* No code, of the authenticator or for recovery, is accepted twice: not by two
\* requests at once, nor by the setup and then a sign-in.
CodesWorkOnce == \A i, j \in DOMAIN accepted : accepted[i] = accepted[j] => i = j

\* A challenge stands so many wrong codes and no more, however many are
\* presented at once.
GuessesAreBounded == \A n \in Names : guesses[n] <= MaxChallengeAttempts

\* A second factor that is on is one whose owner has shown a code of that very
\* secret: a setup begun meanwhile is not switched on in its place.
SecondFactorIsProven ==
  totp.active => \E i \in DOMAIN accepted : accepted[i][1] = "totp" /\ accepted[i][2] = totp.secret

\* No session is left waiting for a second factor that is on: the sign-in that
\* mints one and the activation that frees them exclude each other.
NobodyWaitsInVain == totp.active => \A n \in Names : sessions[n] # "gated"

\* When nothing is under way every attempt that bought nothing, and every
\* challenge that was bought, has been counted.
EveryAttemptIsCounted ==
  (\A r \in Requests : req[r].at \in {"new", "over"}) =>
    spent.login = tried.login /\ spent.account = tried.account

\* What is meant to be used once is of use once: reset links, codes of the
\* authenticator, recovery codes.
WorksOnce == OneLiveLink /\ CodesWorkOnce

\* Guessing is bounded by the challenge and counted by the limiters, and the
\* mail queue keeps its limit.
AttemptsAreCounted == TypeOK /\ GuessesAreBounded /\ EveryAttemptIsCounted

\* A second factor that is on is its owner's, and holds nobody up.
SecondFactorHolds == SecondFactorIsProven /\ NobodyWaitsInVain

\* A setup that found no row to lock replaces the second factor that another
\* setup has switched on meanwhile, against StartTotpSetup's comment, by which
\* an account whose second factor is on is refused.
Overrun == \E r \in Requests : totp.active /\ "totp" \notin req[r].held /\ InstallSetup(r)

\* The handlers over PostgreSQL do nothing to what is stored that the
\* operations over SQLite, each of them one step, could not, but for a setup
\* that overruns another.
RefinesStore == Store!Init /\ [][Store!Next \/ Overrun]_storeVars
===============================================================================
