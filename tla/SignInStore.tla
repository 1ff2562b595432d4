------------------------------ MODULE SignInStore ------------------------------
(***************************************************************************)
(* What the store promises about signing in to one account: the second     *)
(* factor and its recovery codes, the challenge between password and code, *)
(* the links that reset the password, and the sessions, in the form in     *)
(* which the SQLite store keeps that promise (server/internal/sqlitestore): *)
(* an operation is one step.  SignIn.tla implements this specification.    *)
(*                                                                         *)
(* What a request mints (a secret, a batch of codes, a challenge, a link,  *)
(* a password, a session) is random, and is named after the request.       *)
(***************************************************************************)
EXTENDS Integers

CONSTANTS
  Requests,              \* requests, each of which runs once
  Origin,                \* who minted what is there at first
  NoName,                \* nothing
  MaxSetupAttempts,      \* wrong codes that end a setup
  MaxChallengeAttempts,  \* wrong codes that end a challenge
  RecoveryCodeCount,     \* recovery codes of a batch
  MaxStep                \* bound: time steps of an authenticator

VARIABLES
  totp,       \* the user_totp row
  codes,      \* the user_recovery_codes that are not used
  challenge,  \* the totp_challenges row
  links,      \* the password_reset_tokens
  password,   \* users.password_hash
  sessions    \* the session families

storeVars == <<totp, codes, challenge, links, password, sessions>>

Names == Requests \cup {Origin}
Steps == 0 .. MaxStep

TotpRow == [secret : Names \cup {NoName}, verified : BOOLEAN, active : BOOLEAN, late : BOOLEAN,
            tries : 0 .. MaxSetupAttempts, step : {-1} \cup Steps]
NoTotp == [secret |-> NoName, verified |-> FALSE, active |-> FALSE, late |-> FALSE, tries |-> 0, step |-> -1]
Pending(n) == [NoTotp EXCEPT !.secret = n]

ChallengeRow == [token : Names \cup {NoName}, consumed : BOOLEAN, late : BOOLEAN, tries : 0 .. MaxChallengeAttempts]
NoChallenge  == [token |-> NoName, consumed |-> TRUE, late |-> FALSE, tries |-> 0]
Challenge(n) == [NoChallenge EXCEPT !.token = n, !.consumed = FALSE]
Consumed(c)  == [c EXCEPT !.consumed = TRUE]

AuthenticatorCode(n, s) == <<"totp", n, s>>
Batch(n)   == {<<"recovery", n, i>> : i \in 1 .. RecoveryCodeCount}
LinkStates == {"none", "live", "late", "used"}
Families   == {"none", "live", "gated", "revoked"}   \* gated: totp_enrollment_required

Init ==
  /\ totp \in TotpRow /\ codes \in SUBSET Batch(Origin)
  /\ challenge \in {NoChallenge, Challenge(Origin)}
  /\ links \in [Names -> LinkStates] /\ password = Origin
  /\ sessions \in [Names -> Families]

\* Setting up the second factor.
deletePendingSetup == totp' = NoTotp /\ codes' = {}

StartTotpSetup(n) ==
  /\ ~totp.active
  /\ totp' = Pending(n)
  /\ codes' = {}
  /\ UNCHANGED <<challenge, links, password, sessions>>

VerifyTotpSetup(n, s) ==
  /\ totp.secret # NoName /\ ~totp.active
  /\ s > totp.step
  /\ totp' = [totp EXCEPT !.verified = TRUE, !.step = s, !.tries = 0]
  /\ codes' = Batch(n)
  /\ UNCHANGED <<challenge, links, password, sessions>>

\* The wrong code that reaches the limit ends the setup.
burnSetupAttempt ==
  /\ totp.secret # NoName /\ ~totp.active
  /\ IF totp.tries + 1 < MaxSetupAttempts
       THEN totp' = [totp EXCEPT !.tries = @ + 1] /\ UNCHANGED codes
       ELSE deletePendingSetup
  /\ UNCHANGED <<challenge, links, password, sessions>>

SetupIsOver ==
  /\ totp.late /\ ~totp.active
  /\ deletePendingSetup
  /\ UNCHANGED <<challenge, links, password, sessions>>

\* Sessions that were waiting for the second factor wait no longer.
ActivateTotp ==
  /\ totp.verified /\ ~totp.active /\ codes # {}
  /\ totp' = [totp EXCEPT !.active = TRUE]
  /\ sessions' = [n \in Names |-> IF sessions[n] = "gated" THEN "live" ELSE sessions[n]]
  /\ UNCHANGED <<codes, challenge, links, password>>

\* The challenge goes too, unless it was begun beside this operation.
DisableTotp ==
  /\ totp.active
  /\ totp' = NoTotp
  /\ codes' = {}
  /\ challenge' \in {NoChallenge, challenge}
  /\ UNCHANGED <<links, password, sessions>>

ReplaceRecoveryCodes(n) ==
  /\ totp.active
  /\ codes' = Batch(n)
  /\ UNCHANGED <<totp, challenge, links, password, sessions>>

\* Signing in.  There is one challenge; the next one replaces it.
CreateTotpChallenge(n) ==
  /\ challenge' = Challenge(n)
  /\ UNCHANGED <<totp, codes, links, password, sessions>>

insertSessionFamily(n, gated) ==
  /\ sessions[n] = "none"
  /\ sessions' = [sessions EXCEPT ![n] = IF gated THEN "gated" ELSE "live"]

CreateSession(n, gated) ==
  /\ gated => ~totp.active
  /\ insertSessionFamily(n, gated)
  /\ UNCHANGED <<totp, codes, challenge, links, password>>

\* A code is spent with the challenge, and buys a session.
acceptChallengeCode ==
  \/ \E s \in Steps : s > totp.step /\ totp' = [totp EXCEPT !.step = s] /\ UNCHANGED codes
  \/ \E k \in codes : codes' = codes \ {k} /\ UNCHANGED totp

burnChallengeAttempt ==
  challenge' = [challenge EXCEPT !.tries = @ + 1, !.consumed = challenge.tries + 1 >= MaxChallengeAttempts]

CompleteTotpChallenge(n) ==
  /\ ~challenge.consumed /\ challenge.tries < MaxChallengeAttempts
  /\ \/ totp.active /\ acceptChallengeCode /\ challenge' = Consumed(challenge) /\ insertSessionFamily(n, FALSE)
     \/ totp.active /\ burnChallengeAttempt /\ UNCHANGED <<totp, codes, sessions>>
     \/ ~totp.active /\ challenge' = Consumed(challenge) /\ UNCHANGED <<totp, codes, sessions>>
  /\ UNCHANGED <<links, password>>

\* Resetting the password.  A new link ends those before it.
UseAll == [n \in Names |-> IF links[n] = "none" THEN "none" ELSE "used"]

CreatePasswordResetToken(n) ==
  /\ links[n] = "none"
  /\ links' = [UseAll EXCEPT ![n] = "live"]
  /\ UNCHANGED <<totp, codes, challenge, password, sessions>>

\* The challenge goes with the sessions, unless it was begun beside the reset.
ConsumePasswordReset(n) ==
  /\ \E l \in Names : links[l] \in {"live", "late"}
  /\ links' = UseAll
  /\ password' = n
  /\ challenge' \in {Consumed(challenge), challenge}
  /\ sessions' = [m \in Names |-> IF sessions[m] = "none" THEN "none" ELSE "revoked"]
  /\ UNCHANGED <<totp, codes>>

\* The hash is computed anew, from a password that was right when it was read.
UpdatePasswordHash(n) ==
  /\ password' = n
  /\ UNCHANGED <<totp, codes, challenge, links, sessions>>

\* Time passes.
Expire ==
  /\ \/ totp' = [totp EXCEPT !.late = TRUE] /\ UNCHANGED <<challenge, links>>
     \/ challenge' = [challenge EXCEPT !.late = TRUE] /\ UNCHANGED <<totp, links>>
     \/ \E n \in Names : links[n] = "live" /\ links' = [links EXCEPT ![n] = "late"] /\ UNCHANGED <<totp, challenge>>
  /\ UNCHANGED <<codes, password, sessions>>

Operation ==
  \/ \E n \in Names : \/ StartTotpSetup(n) \/ ReplaceRecoveryCodes(n)
                      \/ CreateTotpChallenge(n) \/ CompleteTotpChallenge(n)
                      \/ CreatePasswordResetToken(n) \/ ConsumePasswordReset(n) \/ UpdatePasswordHash(n)
                      \/ \E s \in Steps : VerifyTotpSetup(n, s)
                      \/ \E gated \in BOOLEAN : CreateSession(n, gated)
  \/ burnSetupAttempt \/ SetupIsOver \/ ActivateTotp \/ DisableTotp
  \/ Expire

\* Every step that changes the store is one of its operations.
Next == storeVars' # storeVars /\ Operation

Spec == Init /\ [][Next]_storeVars
===============================================================================
