------------------------------ MODULE SignInProofs -----------------------------
(***************************************************************************)
(* For any number of requests: a reset of the password ends what the old   *)
(* one opened, codes and links work once, guessing is bounded and counted, *)
(* and a second factor that is on was shown by its owner and holds nobody  *)
(* up; what is stored is what the operations do as single steps, but for   *)
(* a setup that overruns another.                                          *)
(***************************************************************************)
EXTENDS SignIn, FiniteSetTheorems, SequenceTheorems, WellFoundedInduction, TLAPS

Signing   == {"rehash", "two step", "challenge", "mint", "insert", "family"}
Answering == {"match", "lock", "judge", "session", "verify", "codes"}
Resetting == {"reset", "token", "consume", "sweep"}
Places == Signing \cup Answering \cup Resetting
            \cup {"new", "over", "count login", "count code", "count none", "setup", "install", "activate",
                  "match setup", "activating", "drop challenge", "drop totp", "replace", "new codes",
                  "link", "supersede", "issue", "mail"}
Locks == {"mint", "totp", "challenge", "account"}

\* Codes that can be shown, and those that can be accepted.
TotpCodes   == {"totp"} \X Names \X Store!Steps
BackupCodes == {"recovery"} \X Names \X (1 .. RecoveryCodeCount)
Shown == {<<"wrong">>} \cup TotpCodes \cup ({"totp"} \X {NoName} \X Store!Steps) \cup BackupCodes

Request == [at : Places, on : Names \cup {NoName}, code : {<<>>} \cup Shown, now : Store!Steps, late : BOOLEAN,
            gated : BOOLEAN, seen : SUBSET Names, held : SUBSET Locks]

\* The tables, and what the history variables collect.
Attempts == [login : Nat, address : Nat, account : Nat, mail : Nat, reset : Nat]
Tables ==
  /\ totp \in Store!TotpRow /\ challenge \in Store!ChallengeRow
  /\ codes \subseteq BackupCodes
  /\ links \in [Names -> Store!LinkStates] /\ password \in Names
  /\ sessions \in [Names -> Store!Families]
  /\ requireTotp \in BOOLEAN /\ outdated \in BOOLEAN /\ clock \in Store!Steps
  /\ cookies \subseteq Names /\ queued \subseteq Names /\ inbox \subseteq Names
  /\ spent \in Attempts /\ tried \in Attempts
Histories ==
  /\ accepted \in Seq(TotpCodes \cup BackupCodes) /\ guesses \in [Names -> Nat]
  /\ word \in [Names -> Names \cup {NoName}] /\ via \in [Names -> Names] /\ crossed \subseteq Names
  /\ chosen \in Names /\ revived \subseteq Names

-------------------------------------------------------------------------------
(* What a request knows by where it is.                                    *)

\* The locks that it has.
KnowsLocks(r) ==
  /\ r.at \in {"insert", "family", "match setup", "activating"} => r.held = {"mint"}
  /\ r.at = "judge" => r.held = {"challenge"}
  /\ r.at = "session" => r.held = {"challenge", "totp"}
  /\ r.at \in {"codes", "new codes"} => r.held = {"totp"}
  /\ r.at = "install" => r.held \in {{}, {"totp"}}
  /\ r.at = "drop totp" => r.held \in {{}, {"challenge"}}
  /\ r.at \in {"supersede", "issue", "token", "consume"} => r.held = {"account"}
  /\ r.at = "sweep" => r.held \in {{"account"}, {"account", "challenge"}}
  /\ r.at \notin {"insert", "family", "match setup", "activating", "judge", "session", "codes", "new codes",
                  "install", "drop totp", "supersede", "issue", "token", "consume", "sweep"} => r.held = {}

\* A sign-in that was let in by the password that was set last or one put back
\* since, or that a reset overlapped.
Word(n) == word[n] \in Names /\ (word[n] \in {chosen} \cup revived \/ n \in crossed)

\* What is named after the request is still to come.
KnowsOwn(p, r) ==
  /\ r.at # "over" => sessions[p] = "none"
  /\ r.at \notin {"mail", "over"} => links[p] = "none"
  /\ r.at = "mail" => links[p] # "none"
  /\ r.at \in {"new", "rehash", "two step", "challenge"} => guesses[p] = 0
  /\ r.at \in Signing => Word(p)

\* An answer that has the challenge's row can still be given.  A sweep has the
\* row, or it found the challenge consumed and there is none but one that
\* overlaps it.
KnowsChallenge(r) ==
  /\ r.at \in {"judge", "session"} => r.on \in Names /\ Answerable(r.on)
  /\ r.at = "sweep" => "challenge" \in r.held \/ challenge.consumed \/ challenge.token \in crossed

\* A code that was found right is right until it is spent.
Later(code) == code[1] = "totp" /\ code[2] = totp.secret /\ code[3] > totp.step
KnowsFactor(r) ==
  /\ r.at \in Answering => r.code \in Shown
  /\ r.at = "session" => totp.active /\ (Later(r.code) \/ r.code \in codes)
  /\ r.at = "codes" => totp.secret # NoName /\ ~totp.active /\ Later(r.code)
  /\ r.at = "new codes" => totp.active
  /\ r.at = "family" /\ r.gated => ~totp.active
  /\ r.at = "install" /\ "totp" \in r.held => ~totp.active

\* Who issues a link has seen all that are outstanding.
KnowsLinks(r) ==
  /\ r.at = "issue" => Outstanding \subseteq r.seen /\ \A n \in r.seen : links[n] # "none"
  /\ r.at \in Resetting => r.on \in Names /\ links[r.on] # "none"
  /\ r.at \in {"consume", "sweep"} => r.on \in Outstanding

Knows(p, r) ==
  KnowsLocks(r) /\ KnowsOwn(p, r) /\ KnowsChallenge(r) /\ KnowsFactor(r) /\ KnowsLinks(r)

\* No lock is held twice, and a sign-in that a sweep meets is known to overlap it.
Apart ==
  /\ \A p, q \in Requests : p # q => req[p].held \cap req[q].held = {}
  /\ \A p, q \in Requests : req[p].at = "sweep" /\ req[q].at \in Signing => q \in crossed

-------------------------------------------------------------------------------
(* What the tables tell.                                                   *)

\* The request that minted it is over, or has only its attempt to count.
Made(n)   == n \in Requests => req[n].at = "over"
Issued(n) == n \in Requests => req[n].at \in {"count login", "over"}

Proven == totp.verified => \E i \in DOMAIN accepted : accepted[i][1] = "totp" /\ accepted[i][2] = totp.secret
Factor ==
  /\ totp.secret # NoName => Made(totp.secret)
  /\ totp.active => totp.verified
  /\ totp.verified => totp.secret # NoName
  /\ totp.verified /\ ~totp.active => codes # {}
  /\ Proven

\* What was accepted cannot be presented again.
Spent ==
  /\ \A i \in DOMAIN accepted : Made(accepted[i][2]) /\ accepted[i] \notin codes
  /\ \A i \in DOMAIN accepted :
       accepted[i][1] = "totp" /\ accepted[i][2] = totp.secret => accepted[i][3] <= totp.step
  /\ \A k \in codes : Made(k[2])
  /\ CodesWorkOnce

Challenged ==
  /\ challenge.token = NoName => challenge.consumed
  /\ challenge.token # NoName => Issued(challenge.token) /\ guesses[challenge.token] = challenge.tries
  /\ ~challenge.consumed => Word(challenge.token)
  /\ GuessesAreBounded

Entered ==
  /\ \A n \in Names : IF sessions[n] = "none" THEN via[n] = n ELSE Issued(via[n])
  /\ ResetEndsAccess /\ NobodyWaitsInVain

Linked ==
  /\ \A m, n \in Outstanding : m = n
  /\ \A n \in queued \cup inbox : links[n] # "none"

\* What is tried and not yet counted is on its way to be.
Counting(at) == {p \in Requests : req[p].at = at}
Counted ==
  /\ IsFiniteSet(Counting("count login")) /\ IsFiniteSet(Counting("count code"))
  /\ tried.login = spent.login + Cardinality(Counting("count login"))
  /\ tried.account = spent.account + Cardinality(Counting("count code"))

Mailing == IsFiniteSet(queued) /\ Cardinality(queued) <= QueueSize

IInv ==
  /\ Tables /\ Histories /\ req \in [Requests -> Request]
  /\ \A p \in Requests : Knows(p, req[p])
  /\ Apart /\ Factor /\ Spent /\ Challenged /\ Entered /\ Linked /\ Counted /\ Mailing

-------------------------------------------------------------------------------
(* The step of one request, and what it leaves to the others.              *)

\* The constants, as the proofs use them.
LEMMA Constants ==
  /\ Names = Requests \cup {Origin} /\ Origin \notin Requests /\ NoName \notin Names
  /\ MaxSetupAttempts \in Nat \ {0} /\ MaxChallengeAttempts \in Nat \ {0} /\ RecoveryCodeCount \in Nat \ {0}
  /\ QueueSize \in Nat \ {0} /\ MaxStep \in Nat \ {0} /\ Store!Steps = 0 .. MaxStep
BY SignInAssumptions DEF Names, Store!Names, Store!Steps

LEMMA Zero == 0 \in 0 .. MaxSetupAttempts /\ 0 \in 0 .. MaxChallengeAttempts
BY Constants

\* A request is one, and knows what it should.
LEMMA AtHand == ASSUME IInv, NEW p \in Requests PROVE req[p] \in Request /\ Knows(p, req[p])
BY DEF IInv

\* A request that is one step further; the others stay.
LEMMA Moved ==
  ASSUME IInv, NEW p \in Requests, NEW r \in Request, req' = [req EXCEPT ![p] = r]
  PROVE  req' \in [Requests -> Request] /\ req'[p] = r /\ \A q \in Requests \ {p} : req'[q] = req[q]
BY DEF IInv

\* What is over stays over, and a sign-in that is to be counted ends then.
Onward(p, r) == req[p].at # "over" /\ (req[p].at = "count login" => r.at = "over")

LEMMA MadeStays ==
  ASSUME IInv, NEW p \in Requests, NEW r \in Request, req' = [req EXCEPT ![p] = r], Onward(p, r), NEW n
  PROVE  (Made(n) => Made(n)') /\ (Issued(n) => Issued(n)')
<1>1. req'[p] = r /\ \A q \in Requests \ {p} : req'[q] = req[q]
  BY Moved
<1> QED BY <1>1 DEF Made, Issued, Onward

\* A lock that a request has, or finds free, is no other's.
LEMMA HasIt ==
  ASSUME IInv, NEW p \in Requests, NEW l, l \in req[p].held \/ Free(p, l)
  PROVE  \A q \in Requests \ {p} : l \notin req[q].held
BY DEF IInv, Apart, Free

\* What another request knows stays true, if the step touches only what that
\* request has no lock on.
LEMMA OtherKnows ==
  ASSUME NEW q \in Requests, NEW s \in Request, Knows(q, s),
         (totp' = totp /\ codes' = codes)
           \/ ("totp" \notin s.held /\ (totp'.active => totp.active \/ "mint" \notin s.held)),
         (challenge' = challenge /\ crossed \subseteq crossed')
           \/ ("challenge" \notin s.held /\ (s.at = "sweep" => challenge'.consumed \/ challenge'.token \in crossed')),
         sessions[q] = "none" => sessions'[q] = "none", links[q] = "none" => links'[q] = "none",
         s.at \in {"new", "rehash", "two step", "challenge"} => guesses'[q] = guesses[q],
         s.at \in Signing => Word(q)',
         \A n \in Names : links[n] # "none" => links'[n] # "none",
         Outstanding' = Outstanding \/ "account" \notin s.held
  PROVE  Knows(q, s)'
<1>1. KnowsLocks(s)
  BY DEF Knows
<1>2. KnowsOwn(q, s)'
  BY Constants DEF Knows, KnowsOwn
<1>3. KnowsChallenge(s)'
  BY <1>1 DEF Knows, KnowsChallenge, KnowsLocks, Answerable
<1>4. KnowsFactor(s)'
  <2>1. CASE totp' = totp /\ codes' = codes
    BY <2>1 DEF Knows, KnowsFactor, Later
  <2>2. CASE "totp" \notin s.held /\ (totp'.active => totp.active \/ "mint" \notin s.held)
    <3>1. s.at \notin {"session", "codes", "new codes"}
      BY <1>1, <2>2 DEF KnowsLocks
    <3>2. s.at = "family" => "mint" \in s.held
      BY <1>1 DEF KnowsLocks
    <3> QED BY <2>2, <3>1, <3>2 DEF Knows, KnowsFactor
  <2> QED BY <2>1, <2>2
<1>5. KnowsLinks(s)'
  <2>1. "account" \notin s.held => s.at \notin {"issue", "token", "consume", "sweep"}
    BY <1>1 DEF KnowsLocks
  <2>2. KnowsLinks(s)
    BY DEF Knows
  <2>3. s.at = "issue" => s.seen \subseteq Names
    BY DEF Request
  <2> QED BY <2>1, <2>2, <2>3 DEF KnowsLinks, Resetting
<1> QED BY <1>1, <1>2, <1>3, <1>4, <1>5 DEF Knows

\* Locks stay apart, and sweeps know of the sign-ins they overlap.
LEMMA ApartStays ==
  ASSUME IInv, NEW p \in Requests, NEW r \in Request, req' = [req EXCEPT ![p] = r], crossed \subseteq crossed',
         \A q \in Requests \ {p} : r.held \cap req[q].held = {},
         r.at = "sweep" => \A q \in Requests : req[q].at \in Signing => q \in crossed',
         r.at \in Signing => req[p].at \in Signing \/ p \in crossed' \/ \A q \in Requests : req[q].at # "sweep"
  PROVE  Apart'
<1>1. req'[p] = r /\ \A q \in Requests \ {p} : req'[q] = req[q]
  BY Moved
<1>2. Apart
  BY DEF IInv
<1>3. ASSUME NEW a \in Requests, NEW b \in Requests, a # b PROVE req'[a].held \cap req'[b].held = {}
  BY <1>1, <1>2, <1>3 DEF Apart
<1>4. ASSUME NEW a \in Requests, NEW b \in Requests, req'[a].at = "sweep", req'[b].at \in Signing PROVE b \in crossed'
  <2>0. "sweep" \notin Signing
    BY DEF Signing
  <2>1. CASE a = p
    BY <1>1, <1>4, <2>0, <2>1
  <2>2. CASE a # p /\ b = p
    BY <1>1, <1>2, <1>4, <2>2 DEF Apart
  <2>3. CASE a # p /\ b # p
    BY <1>1, <1>2, <1>4, <2>3 DEF Apart
  <2> QED BY <2>1, <2>2, <2>3
<1> QED BY <1>3, <1>4 DEF Apart

\* Facts that a step which leaves their tables alone does not disturb.
LEMMA FactorStays ==
  ASSUME IInv, NEW p \in Requests, NEW r \in Request, req' = [req EXCEPT ![p] = r], Onward(p, r),
         UNCHANGED <<totp, codes, accepted>>
  PROVE  Factor' /\ Spent'
<1>1. \A n : Made(n) => Made(n)'
  BY MadeStays
<1>2. Factor'
  BY <1>1 DEF IInv, Factor, Proven
<1>3. Spent'
  BY <1>1 DEF IInv, Spent, CodesWorkOnce
<1> QED BY <1>2, <1>3

LEMMA ChallengedStays ==
  ASSUME IInv, NEW p \in Requests, NEW r \in Request, req' = [req EXCEPT ![p] = r], Onward(p, r),
         UNCHANGED <<challenge, guesses, word, chosen>>, crossed \subseteq crossed', revived \subseteq revived'
  PROVE  Challenged'
<1>1. \A n : Issued(n) => Issued(n)'
  BY MadeStays
<1> QED BY <1>1 DEF IInv, Challenged, Word, GuessesAreBounded

LEMMA EnteredStays ==
  ASSUME IInv, NEW p \in Requests, NEW r \in Request, req' = [req EXCEPT ![p] = r], Onward(p, r),
         UNCHANGED <<sessions, via, word, chosen>>, totp'.active => totp.active, crossed \subseteq crossed',
         revived \subseteq revived', password' = password \/ password' \in {chosen} \cup revived'
  PROVE  Entered'
<1>1. \A n : Issued(n) => Issued(n)'
  BY MadeStays
<1> QED BY <1>1 DEF IInv, Entered, ResetEndsAccess, NobodyWaitsInVain

LEMMA LinkedStays ==
  ASSUME IInv, UNCHANGED <<links, queued, inbox>>
  PROVE  Linked' /\ Mailing' /\ Outstanding' = Outstanding
BY DEF IInv, Linked, Mailing, Outstanding

\* A step that counts nothing.
LEMMA CountedStays ==
  ASSUME IInv, NEW p \in Requests, NEW r \in Request, req' = [req EXCEPT ![p] = r],
         \A at \in {"count login", "count code"} : req[p].at # at /\ r.at # at,
         UNCHANGED tried, spent'.login = spent.login, spent'.account = spent.account
  PROVE  Counted'
<1>1. req'[p] = r /\ \A q \in Requests \ {p} : req'[q] = req[q]
  BY Moved
<1>2. ASSUME NEW at \in {"count login", "count code"} PROVE Counting(at)' = Counting(at)
  BY <1>1 DEF Counting
<1> QED BY <1>2 DEF IInv, Counted

\* A step that only moves the request on.
LEMMA MoveKeeps ==
  ASSUME IInv, NEW p \in Requests, NEW r \in Request, req' = [req EXCEPT ![p] = r], Onward(p, r),
         UNCHANGED <<storeVars, mailVars, ghostVars>>, Tables', Counted', Knows(p, r),
         \A q \in Requests \ {p} : r.held \cap req[q].held = {},
         r.at # "sweep", r.at \in Signing => req[p].at \in Signing
  PROVE  IInv'
<1>0. /\ UNCHANGED <<totp, codes, challenge, links, password, sessions>> /\ UNCHANGED <<queued, inbox>>
      /\ UNCHANGED <<accepted, guesses, word, via, crossed, chosen, revived>>
  BY DEF storeVars, mailVars, ghostVars
<1>1. req' \in [Requests -> Request] /\ req'[p] = r /\ \A q \in Requests \ {p} : req'[q] = req[q]
  BY Moved
<1>2. ASSUME NEW q \in Requests, NEW s \in Request, Knows(q, s) PROVE Knows(q, s)'
  <2>1. s.at \in Signing => Word(q)'
    BY <1>0, <1>2 DEF Knows, KnowsOwn, Word
  <2>2. Outstanding' = Outstanding
    BY <1>0 DEF Outstanding
  <2> QED BY <1>0, <1>2, <2>1, <2>2, OtherKnows
<1>3. ASSUME NEW q \in Requests PROVE Knows(q, req[q])'
  <2>1. CASE q = p
    BY <1>1, <1>2, <2>1
  <2>2. CASE q # p
    BY <1>1, <1>2, <2>2, AtHand
  <2> QED BY <2>1, <2>2
<1>4. Apart'
  BY <1>0, ApartStays
<1>5. Factor' /\ Spent' /\ Challenged' /\ Entered'
  BY <1>0, FactorStays, ChallengedStays, EnteredStays
<1>6. Linked' /\ Mailing'
  BY <1>0, LinkedStays
<1>7. Histories'
  BY <1>0 DEF IInv, Histories
<1> QED BY <1>1, <1>3, <1>4, <1>5, <1>6, <1>7 DEF IInv

\* What is named after a request stays to come when it goes on.
LEMMA OwnGoes ==
  ASSUME NEW p \in Requests, NEW s, NEW r, KnowsOwn(p, s), s.at \notin {"over", "mail"}, r.at # "mail",
         r.at \in {"new", "rehash", "two step", "challenge"} => s.at \in {"new", "rehash", "two step", "challenge"},
         r.at \in Signing => s.at \in Signing
  PROVE  KnowsOwn(p, r)
BY DEF KnowsOwn

\* The same when nothing is counted.
LEMMA QuietKeeps ==
  ASSUME IInv, NEW p \in Requests, NEW r \in Request, req' = [req EXCEPT ![p] = r],
         req[p].at \notin {"over", "mail", "count login", "count code"},
         r.at \notin {"new", "rehash", "two step", "count login", "count code", "sweep", "mail"},
         r.at = "challenge" => req[p].at = "two step", r.at \in Signing => req[p].at \in Signing,
         UNCHANGED <<storeVars, mailVars, ghostVars, tried>>, Tables',
         spent'.login = spent.login, spent'.account = spent.account,
         KnowsLocks(r), KnowsChallenge(r), KnowsFactor(r), KnowsLinks(r),
         \A q \in Requests \ {p} : r.held \cap req[q].held = {}
  PROVE  IInv'
<1>1. Onward(p, r)
  BY DEF Onward
<1>2. Counted'
  BY CountedStays
<1>3. Knows(p, r)
  BY AtHand, OwnGoes DEF Knows
<1> QED BY <1>1, <1>2, <1>3, MoveKeeps

\* The records that begin and end a request.
LEMMA NewOK ==
  /\ New \in Request /\ New.at = "new" /\ New.on = NoName /\ New.code = <<>> /\ New.late = FALSE
  /\ New.gated = FALSE /\ New.seen = {} /\ New.held = {}
  /\ Over \in Request /\ Over.at = "over" /\ Over.held = {} /\ \A p \in Requests : Knows(p, Over)
<1>1. 0 \in Store!Steps
  BY Constants
<1>2. /\ New \in Request /\ New.at = "new" /\ New.on = NoName /\ New.code = <<>> /\ New.late = FALSE
      /\ New.gated = FALSE /\ New.seen = {} /\ New.held = {}
  BY <1>1 DEF New, Request, Places
<1>3. Over \in Request /\ Over.at = "over" /\ Over.held = {}
  BY <1>2 DEF Over, Request, Places
<1>4. ASSUME NEW p \in Requests PROVE Knows(p, Over)
  BY <1>3 DEF Knows, KnowsLocks, KnowsOwn, KnowsChallenge, KnowsFactor, KnowsLinks, Signing, Answering, Resetting
<1> QED BY <1>2, <1>3, <1>4

\* A request that ends without a word.
LEMMA EndKeeps ==
  ASSUME IInv, NEW p \in Requests, req' = [req EXCEPT ![p] = Over],
         req[p].at \notin {"over", "count login", "count code"},
         UNCHANGED <<storeVars, mailVars, ghostVars, tried>>, Tables',
         spent'.login = spent.login, spent'.account = spent.account
  PROVE  IInv'
<1>1. Onward(p, Over)
  BY NewOK DEF Onward
<1>2. Counted'
  BY NewOK, CountedStays
<1> QED BY <1>1, <1>2, NewOK, MoveKeeps DEF Signing

\* Tables that nothing is done to.
LEMMA TablesStay ==
  ASSUME IInv, UNCHANGED <<storeVars, orgVars, mailVars, cookies, spent, tried>>
  PROVE  Tables' /\ spent'.login = spent.login /\ spent'.account = spent.account
BY DEF IInv, Tables, storeVars, orgVars, mailVars

-------------------------------------------------------------------------------
(* Steps that read, lock or refuse.                                        *)

\* A request that goes on with the locks it has.
LEMMA AtOK ==
  ASSUME NEW s \in Request, NEW a \in Places, NEW r, r = [s EXCEPT !.at = a]
  PROVE  /\ r \in Request /\ r.at = a /\ r.held = s.held /\ r.on = s.on /\ r.code = s.code
         /\ r.late = s.late /\ r.gated = s.gated /\ r.seen = s.seen
<1>1. r \in Request
  BY DEF Request
<1>2. /\ r.at = a /\ r.held = s.held /\ r.on = s.on /\ r.code = s.code
      /\ r.late = s.late /\ r.gated = s.gated /\ r.seen = s.seen
  BY DEF Request
<1> QED BY <1>1, <1>2

\* Places at which a request knows nothing but its own.
Bare == {"two step", "challenge", "mint", "count login", "count code", "count none", "setup", "activate", "drop challenge",
         "replace", "link", "mail"}
LEMMA BareKnows ==
  ASSUME NEW r, r.at \in Bare, r.held = {}
  PROVE  KnowsLocks(r) /\ KnowsChallenge(r) /\ KnowsFactor(r) /\ KnowsLinks(r)
BY DEF Bare, KnowsLocks, KnowsChallenge, KnowsFactor, KnowsLinks, Answering, Resetting

\* The advisory lock of minting.
LEMMA MintKeeps == ASSUME IInv, NEW p \in Requests, lockSessionMint(p) PROVE IInv'
<1>1. /\ req[p].at \in {"mint", "activate"} /\ Free(p, "mint")
      /\ UNCHANGED <<storeVars, orgVars, mailVars, cookies, spent, tried, ghostVars>>
  BY DEF lockSessionMint
<1>2. PICK a : a = IF req[p].at = "mint" THEN "insert" ELSE "match setup"
  OBVIOUS
<1>3. PICK r : r = [req[p] EXCEPT !.at = a, !.held = {"mint"}]
  OBVIOUS
<1>4. req' = [req EXCEPT ![p] = r]
  BY <1>2, <1>3 DEF lockSessionMint, Go
<1>5. a \in Places /\ {"mint"} \in SUBSET Locks
  BY <1>2 DEF Places, Signing, Locks
<1>6. r \in Request /\ r.at = a /\ r.held = {"mint"}
  <2>1. req[p] \in Request
    BY AtHand
  <2> QED BY <1>3, <1>5, <2>1 DEF Request
<1>7. KnowsLocks(r) /\ KnowsChallenge(r) /\ KnowsFactor(r) /\ KnowsLinks(r)
  BY <1>2, <1>6 DEF KnowsLocks, KnowsChallenge, KnowsFactor, KnowsLinks, Answering, Resetting
<1>8. \A q \in Requests \ {p} : r.held \cap req[q].held = {}
  BY <1>1, <1>6, HasIt
<1> QED BY <1>1, <1>2, <1>4, <1>6, <1>7, <1>8, QuietKeeps, TablesStay DEF Signing

\* The row of the account.
LEMMA AccountKeeps == ASSUME IInv, NEW p \in Requests, lockAccount(p) PROVE IInv'
<1>1. /\ req[p].at \in {"link", "reset"} /\ Free(p, "account")
      /\ UNCHANGED <<storeVars, orgVars, mailVars, cookies, spent, tried, ghostVars>>
  BY DEF lockAccount
<1>2. PICK a : a = IF req[p].at = "link" THEN "supersede" ELSE "token"
  OBVIOUS
<1>3. PICK r : r = [req[p] EXCEPT !.at = a, !.held = {"account"}]
  OBVIOUS
<1>4. req' = [req EXCEPT ![p] = r]
  BY <1>2, <1>3 DEF lockAccount, Go
<1>5. a \in Places /\ {"account"} \in SUBSET Locks
  BY <1>2 DEF Places, Resetting, Locks
<1>6. r \in Request /\ r.at = a /\ r.held = {"account"} /\ r.on = req[p].on
  <2>1. req[p] \in Request
    BY AtHand
  <2> QED BY <1>3, <1>5, <2>1 DEF Request
<1>7. KnowsLocks(r) /\ KnowsChallenge(r) /\ KnowsFactor(r)
  BY <1>2, <1>6 DEF KnowsLocks, KnowsChallenge, KnowsFactor, Answering
<1>8. KnowsLinks(r)
  BY <1>1, <1>2, <1>6, AtHand DEF Knows, KnowsLinks, Resetting
<1>9. \A q \in Requests \ {p} : r.held \cap req[q].held = {}
  BY <1>1, <1>6, HasIt
<1> QED BY <1>1, <1>2, <1>4, <1>6, <1>7, <1>8, <1>9, QuietKeeps, TablesStay DEF Signing

\* TotpByUser.
LEMMA TwoStepKeeps == ASSUME IInv, NEW p \in Requests, startTotpChallenge(p) PROVE IInv'
<1>1. req[p].at = "two step" /\ UNCHANGED <<storeVars, orgVars, mailVars, cookies, spent, tried, ghostVars>>
  BY DEF startTotpChallenge
<1>2. PICK a : a = IF totp.active THEN "challenge" ELSE "mint"
  OBVIOUS
<1>3. PICK r : r = [req[p] EXCEPT !.at = a]
  OBVIOUS
<1>4. req' = [req EXCEPT ![p] = r]
  BY <1>2, <1>3 DEF startTotpChallenge, Goto, Go
<1>5. a \in Places /\ a \in Bare
  BY <1>2 DEF Places, Signing, Bare
<1>6. req[p].held = {}
  BY <1>1, AtHand DEF Knows, KnowsLocks
<1>7. r \in Request /\ r.at = a /\ r.held = {}
  BY <1>3, <1>5, <1>6, AtHand, AtOK
<1> QED BY <1>1, <1>2, <1>4, <1>5, <1>7, BareKnows, QuietKeeps, TablesStay DEF Signing

\* The enrolment flag, from the snapshot.
LEMMA FlagKeeps == ASSUME IInv, NEW p \in Requests, insertSessionFamily(p) PROVE IInv'
<1>1. req[p].at = "insert" /\ UNCHANGED <<storeVars, orgVars, mailVars, cookies, spent, tried, ghostVars>>
  BY DEF insertSessionFamily
<1>2. PICK g : g = (requireTotp /\ ~totp.active)
  OBVIOUS
<1>3. PICK r : r = [req[p] EXCEPT !.at = "family", !.gated = g]
  OBVIOUS
<1>4. req' = [req EXCEPT ![p] = r]
  BY <1>2, <1>3 DEF insertSessionFamily, Go
<1>5. req[p] \in Request /\ req[p].held = {"mint"}
  BY <1>1, AtHand DEF Knows, KnowsLocks
<1>6. "family" \in Places /\ g \in BOOLEAN
  BY <1>2 DEF Places, Signing
<1>7. r \in Request /\ r.at = "family" /\ r.held = {"mint"} /\ r.gated = g
  BY <1>3, <1>5, <1>6 DEF Request
<1>8. KnowsLocks(r) /\ KnowsChallenge(r) /\ KnowsFactor(r) /\ KnowsLinks(r)
  BY <1>2, <1>7 DEF KnowsLocks, KnowsChallenge, KnowsFactor, KnowsLinks, Answering, Resetting
<1>9. \A q \in Requests \ {p} : r.held \cap req[q].held = {}
  BY <1>5, <1>7, HasIt
<1> QED BY <1>1, <1>4, <1>7, <1>8, <1>9, QuietKeeps, TablesStay DEF Signing

\* Whatever is presented can be shown.
LEMMA KnownIsShown == ASSUME IInv PROVE Known \subseteq Shown
<1>1. ASSUME NEW s \in Store!Steps PROVE Store!AuthenticatorCode(totp.secret, s) \in Shown
  <2>1. totp.secret \in Names \cup {NoName}
    BY DEF IInv, Tables, Store!TotpRow, Names
  <2> QED BY <2>1 DEF Store!AuthenticatorCode, Shown, TotpCodes
<1>2. codes \subseteq Shown
  BY DEF IInv, Tables, Shown
<1>3. \A i \in DOMAIN accepted : accepted[i] \in Shown
  BY DEF IInv, Histories, Shown
<1>4. <<"wrong">> \in Shown
  BY DEF Shown
<1> QED BY <1>1, <1>2, <1>3, <1>4 DEF Known

\* A request that begins with nothing at hand.
LEMMA BareBegins ==
  ASSUME IInv, NEW p \in Requests, NEW op, NEW a \in Bare \ {"two step", "challenge", "mint", "count login", "count code", "mail"},
         NEW b \in BOOLEAN, Begin(p, op, [New EXCEPT !.at = a, !.late = b]),
         UNCHANGED <<storeVars, mailVars, ghostVars, tried>>, Tables',
         spent'.login = spent.login, spent'.account = spent.account
  PROVE  IInv'
<1>1. PICK r : r = [New EXCEPT !.at = a, !.late = b]
  OBVIOUS
<1>2. req[p].at = "new" /\ req' = [req EXCEPT ![p] = r]
  BY <1>1 DEF Begin
<1>3. a \in Places
  BY DEF Bare, Places
<1>4. r \in Request /\ r.at = a /\ r.held = {}
  <2>1. New \in Request /\ New.held = {}
    BY NewOK
  <2> QED BY <1>1, <1>3, <2>1 DEF Request
<1>5. KnowsLocks(r) /\ KnowsChallenge(r) /\ KnowsFactor(r) /\ KnowsLinks(r)
  BY <1>4, BareKnows
<1>6. \A q \in Requests \ {p} : r.held \cap req[q].held = {}
  BY <1>4
<1>7. r.at \notin {"new", "rehash", "two step", "count login", "count code", "sweep", "challenge"} /\ r.at \notin Signing
  BY <1>4 DEF Bare, Signing
<1> QED BY <1>2, <1>4, <1>5, <1>6, <1>7, QuietKeeps

\* The setup, the switch and the codes: requests that begin so.
LEMMA BeginnersKeep ==
  ASSUME IInv, NEW p \in Requests,
         \/ StartTotpSetup(p) \/ ActivateTotp(p) \/ DisableTotp(p) \/ RegenerateRecoveryCodes(p)
         \/ RequestPasswordReset(p)
  PROVE  IInv'
<1>0. totp.late \in BOOLEAN /\ New.late = FALSE /\ New \in Request
  BY NewOK DEF IInv, Tables, Store!TotpRow
<1>1. ASSUME NEW a PROVE [New EXCEPT !.at = a, !.late = FALSE] = [New EXCEPT !.at = a]
  BY <1>0 DEF New
<1>2. /\ "setup" \in Bare /\ "activate" \in Bare /\ "drop challenge" \in Bare /\ "replace" \in Bare /\ "link" \in Bare
  BY DEF Bare
<1>3. CASE StartTotpSetup(p)
  <2>1. Begin(p, "Start", [New EXCEPT !.at = "setup", !.late = FALSE])
    BY <1>1, <1>3 DEF StartTotpSetup
  <2>2. UNCHANGED <<storeVars, orgVars, mailVars, cookies, spent, tried, ghostVars>>
    BY <1>3 DEF StartTotpSetup
  <2> QED BY <1>2, <2>1, <2>2, TablesStay, BareBegins
<1>4. CASE ActivateTotp(p)
  <2>1. Begin(p, "Activate", [New EXCEPT !.at = "activate", !.late = totp.late])
    BY <1>4 DEF ActivateTotp
  <2>2. UNCHANGED <<storeVars, orgVars, mailVars, cookies, spent, tried, ghostVars>>
    BY <1>4 DEF ActivateTotp
  <2> QED BY <1>0, <1>2, <2>1, <2>2, TablesStay, BareBegins
<1>5. CASE DisableTotp(p)
  <2>1. Begin(p, "Disable", [New EXCEPT !.at = "drop challenge", !.late = FALSE])
    BY <1>1, <1>5 DEF DisableTotp
  <2>2. UNCHANGED <<storeVars, orgVars, mailVars, cookies, spent, tried, ghostVars>>
    BY <1>5 DEF DisableTotp
  <2> QED BY <1>2, <2>1, <2>2, TablesStay, BareBegins
<1>6. CASE RegenerateRecoveryCodes(p)
  <2>1. Begin(p, "Replace", [New EXCEPT !.at = "replace", !.late = FALSE])
    BY <1>1, <1>6 DEF RegenerateRecoveryCodes
  <2>2. UNCHANGED <<storeVars, orgVars, mailVars, cookies, spent, tried, ghostVars>>
    BY <1>6 DEF RegenerateRecoveryCodes
  <2> QED BY <1>2, <2>1, <2>2, TablesStay, BareBegins
<1>7. CASE RequestPasswordReset(p)
  <2>1. Begin(p, "Mail", [New EXCEPT !.at = "link", !.late = FALSE])
    BY <1>1, <1>7 DEF RequestPasswordReset
  <2>2. /\ UNCHANGED <<storeVars, orgVars, mailVars, cookies, tried, ghostVars>>
        /\ spent' = [spent EXCEPT !.mail = @ + 1]
    BY <1>7 DEF RequestPasswordReset
  <2>3. spent' \in Attempts /\ spent'.login = spent.login /\ spent'.account = spent.account
    BY <2>2 DEF IInv, Tables, Attempts
  <2>4. Tables'
    BY <2>2, <2>3 DEF IInv, Tables, storeVars, orgVars, mailVars
  <2> QED BY <1>2, <2>1, <2>2, <2>3, <2>4, BareBegins
<1> QED BY <1>3, <1>4, <1>5, <1>6, <1>7

\* An answer to a challenge, or to a setup, comes with a code.
LEMMA AnswersKeep ==
  ASSUME IInv, NEW p \in Requests, CompleteTotpLogin(p) \/ VerifyTotpSetup(p)
  PROVE  IInv'
<1>0. New \in Request /\ New.held = {} /\ clock \in Store!Steps /\ "match" \in Places /\ "verify" \in Places
  BY NewOK DEF IInv, Tables, Places, Answering
<1>1. PICK r \in Request : /\ r.at \in {"match", "verify"} /\ r.code \in Shown /\ r.held = {}
                          /\ req[p].at = "new" /\ req' = [req EXCEPT ![p] = r]
  <2>1. CASE CompleteTotpLogin(p)
    <3>1. PICK c \in cookies, code \in Known :
            Begin(p, "Code", [New EXCEPT !.at = "match", !.on = c, !.code = code, !.now = clock])
      BY <2>1 DEF CompleteTotpLogin
    <3>2. PICK r : r = [New EXCEPT !.at = "match", !.on = c, !.code = code, !.now = clock]
      OBVIOUS
    <3>3. c \in Names /\ code \in Shown
      BY KnownIsShown DEF IInv, Tables
    <3>4. r \in Request
      BY <1>0, <3>2, <3>3 DEF Request
    <3>5. r.at = "match" /\ r.code = code /\ r.held = {}
      BY <1>0, <3>2 DEF Request
    <3> QED BY <3>1, <3>2, <3>3, <3>4, <3>5 DEF Begin
  <2>2. CASE VerifyTotpSetup(p)
    <3>1. PICK code \in Known :
            Begin(p, "Verify", [New EXCEPT !.at = "verify", !.code = code, !.now = clock, !.late = totp.late])
      BY <2>2 DEF VerifyTotpSetup
    <3>2. PICK r : r = [New EXCEPT !.at = "verify", !.code = code, !.now = clock, !.late = totp.late]
      OBVIOUS
    <3>3. totp.late \in BOOLEAN /\ code \in Shown
      BY KnownIsShown DEF IInv, Tables, Store!TotpRow
    <3>4. r \in Request
      BY <1>0, <3>2, <3>3 DEF Request
    <3>5. r.at = "verify" /\ r.code = code /\ r.held = {}
      BY <1>0, <3>2 DEF Request
    <3> QED BY <3>1, <3>2, <3>3, <3>4, <3>5 DEF Begin
  <2> QED BY <2>1, <2>2
<1>2. UNCHANGED <<storeVars, orgVars, mailVars, cookies, spent, tried, ghostVars>>
  BY DEF CompleteTotpLogin, VerifyTotpSetup
<1>5. KnowsLocks(r) /\ KnowsChallenge(r) /\ KnowsFactor(r) /\ KnowsLinks(r)
  BY <1>1 DEF KnowsLocks, KnowsChallenge, KnowsFactor, KnowsLinks, Resetting
<1>6. \A q \in Requests \ {p} : r.held \cap req[q].held = {}
  BY <1>1
<1> QED BY <1>1, <1>2, <1>5, <1>6, QuietKeeps, TablesStay DEF Signing

\* The challenge is found.
LEMMA MatchKeeps == ASSUME IInv, NEW p \in Requests, MatchChallenge(p) PROVE IInv'
<1>1. req[p].at = "match" /\ UNCHANGED <<storeVars, orgVars, mailVars, cookies, spent, tried, ghostVars>>
  BY DEF MatchChallenge
<1>2. PICK a \in {"lock", "count none"} : req' = [req EXCEPT ![p] = [req[p] EXCEPT !.at = a]]
  BY DEF MatchChallenge, Goto, Go
<1>3. PICK r : r = [req[p] EXCEPT !.at = a]
  OBVIOUS
<1>4. req[p] \in Request /\ req[p].held = {} /\ req[p].code \in Shown /\ a \in Places
  BY <1>1, AtHand DEF Knows, KnowsLocks, KnowsFactor, Answering, Places
<1>5. r \in Request /\ r.at = a /\ r.held = {} /\ r.code = req[p].code
  BY <1>3, <1>4 DEF Request
<1>6. KnowsLocks(r) /\ KnowsChallenge(r) /\ KnowsFactor(r) /\ KnowsLinks(r)
  BY <1>4, <1>5 DEF KnowsLocks, KnowsChallenge, KnowsFactor, KnowsLinks, Resetting
<1>7. \A q \in Requests \ {p} : r.held \cap req[q].held = {}
  BY <1>5
<1> QED BY <1>1, <1>2, <1>3, <1>5, <1>6, <1>7, QuietKeeps, TablesStay DEF Signing

\* The challenge is locked and tested again.
LEMMA LockChallengeKeeps == ASSUME IInv, NEW p \in Requests, LockChallenge(p) PROVE IInv'
<1>1. /\ req[p].at = "lock" /\ Free(p, "challenge")
      /\ UNCHANGED <<storeVars, orgVars, mailVars, cookies, spent, tried, ghostVars>>
  BY DEF LockChallenge
<1>2. req[p] \in Request /\ req[p].held = {} /\ req[p].code \in Shown /\ "judge" \in Places /\ "count none" \in Places
  BY <1>1, AtHand DEF Knows, KnowsLocks, KnowsFactor, Answering, Places
<1>3. CASE Answerable(req[p].on)
  <2>1. PICK r : r = [req[p] EXCEPT !.at = "judge", !.held = {"challenge"}]
    OBVIOUS
  <2>2. req' = [req EXCEPT ![p] = r]
    BY <1>3, <2>1 DEF LockChallenge, Go
  <2>3. {"challenge"} \in SUBSET Locks
    BY DEF Locks
  <2>4. r \in Request /\ r.at = "judge" /\ r.held = {"challenge"} /\ r.code = req[p].code /\ r.on = req[p].on
    BY <1>2, <2>1, <2>3 DEF Request
  <2>5. r.on \in Names
    <3>1. r.on \in Names \cup {NoName}
      BY <2>4 DEF Request
    <3>2. challenge.token = NoName => challenge.consumed
      BY DEF IInv, Challenged
    <3> QED BY <1>3, <2>4, <3>1, <3>2 DEF Answerable
  <2>6. KnowsLocks(r) /\ KnowsChallenge(r) /\ KnowsFactor(r) /\ KnowsLinks(r)
    BY <1>2, <1>3, <2>4, <2>5 DEF KnowsLocks, KnowsChallenge, KnowsFactor, KnowsLinks, Resetting
  <2>7. \A q \in Requests \ {p} : r.held \cap req[q].held = {}
    BY <1>1, <2>4, HasIt
  <2> QED BY <1>1, <2>2, <2>4, <2>6, <2>7, QuietKeeps, TablesStay DEF Signing
<1>4. CASE ~Answerable(req[p].on)
  <2>1. PICK r : r = [req[p] EXCEPT !.at = "count none"]
    OBVIOUS
  <2>2. req' = [req EXCEPT ![p] = r]
    BY <1>4, <2>1 DEF LockChallenge, Go
  <2>3. r \in Request /\ r.at = "count none" /\ r.held = {}
    BY <1>2, <2>1 DEF Request
  <2>4. KnowsLocks(r) /\ KnowsChallenge(r) /\ KnowsFactor(r) /\ KnowsLinks(r)
    <3>1. r.at \in Bare
      BY <2>3 DEF Bare
    <3> QED BY <2>3, <3>1, BareKnows
  <2>5. \A q \in Requests \ {p} : r.held \cap req[q].held = {}
    BY <2>3
  <2> QED BY <1>1, <2>2, <2>3, <2>4, <2>5, QuietKeeps, TablesStay DEF Signing
<1> QED BY <1>3, <1>4

\* A code that is right.
LEMMA VerifiedIsLater == ASSUME NEW code, NEW now, Verify(code, now) PROVE Later(code)
BY DEF Verify, Later

LEMMA AcceptKeeps == ASSUME IInv, NEW p \in Requests, AcceptCode(p) PROVE IInv'
<1>1. /\ req[p].at = "judge" /\ totp.active /\ Free(p, "totp") /\ acceptChallengeCode(req[p].code, req[p].now)
      /\ UNCHANGED <<storeVars, orgVars, mailVars, cookies, spent, tried, ghostVars>>
  BY DEF AcceptCode
<1>2. /\ req[p] \in Request /\ req[p].held = {"challenge"} /\ req[p].code \in Shown
      /\ req[p].on \in Names /\ Answerable(req[p].on) /\ "session" \in Places
  BY <1>1, AtHand DEF Knows, KnowsLocks, KnowsFactor, KnowsChallenge, Answering, Places
<1>3. PICK h : h = {"challenge", "totp"}
  OBVIOUS
<1>4. PICK r : r = [req[p] EXCEPT !.at = "session", !.held = h]
  OBVIOUS
<1>5. req' = [req EXCEPT ![p] = r]
  BY <1>2, <1>3, <1>4 DEF AcceptCode, Go
<1>6. h \in SUBSET Locks
  BY <1>3 DEF Locks
<1>7. r \in Request /\ r.at = "session" /\ r.held = h /\ r.code = req[p].code /\ r.on = req[p].on
  BY <1>2, <1>4, <1>6 DEF Request
<1>8. Later(r.code) \/ r.code \in codes
  BY <1>1, <1>7, VerifiedIsLater DEF acceptChallengeCode
<1>9. KnowsLocks(r) /\ KnowsChallenge(r) /\ KnowsFactor(r) /\ KnowsLinks(r)
  BY <1>1, <1>2, <1>3, <1>7, <1>8 DEF KnowsLocks, KnowsChallenge, KnowsFactor, KnowsLinks, Resetting
<1>10. \A q \in Requests \ {p} : r.held \cap req[q].held = {}
  <2>1. \A q \in Requests \ {p} : "challenge" \notin req[q].held /\ "totp" \notin req[q].held
    BY <1>1, <1>2, HasIt
  <2> QED BY <1>3, <1>7, <2>1
<1> QED BY <1>1, <1>5, <1>7, <1>9, <1>10, QuietKeeps, TablesStay DEF Signing

LEMMA AcceptSetupKeeps == ASSUME IInv, NEW p \in Requests, AcceptSetup(p) PROVE IInv'
<1>1. /\ req[p].at = "verify" /\ Free(p, "totp") /\ totp.secret # NoName /\ ~totp.active
      /\ Verify(req[p].code, req[p].now)
      /\ UNCHANGED <<storeVars, orgVars, mailVars, cookies, spent, tried, ghostVars>>
  BY DEF AcceptSetup, Verifiable
<1>2. req[p] \in Request /\ req[p].code \in Shown /\ "codes" \in Places /\ {"totp"} \in SUBSET Locks
  BY <1>1, AtHand DEF Knows, KnowsFactor, Answering, Places, Locks
<1>3. PICK r : r = [req[p] EXCEPT !.at = "codes", !.held = {"totp"}]
  OBVIOUS
<1>4. req' = [req EXCEPT ![p] = r]
  BY <1>3 DEF AcceptSetup, Go
<1>5. r \in Request /\ r.at = "codes" /\ r.held = {"totp"} /\ r.code = req[p].code
  BY <1>2, <1>3 DEF Request
<1>6. KnowsLocks(r) /\ KnowsChallenge(r) /\ KnowsLinks(r)
  BY <1>5 DEF KnowsLocks, KnowsChallenge, KnowsLinks, Resetting
<1>7. KnowsFactor(r)
  BY <1>1, <1>2, <1>5, VerifiedIsLater DEF KnowsFactor
<1>8. \A q \in Requests \ {p} : r.held \cap req[q].held = {}
  BY <1>1, <1>5, HasIt
<1> QED BY <1>1, <1>4, <1>5, <1>6, <1>7, <1>8, QuietKeeps, TablesStay DEF Signing

\* The row of the second factor is locked for a setup, or for new codes.
LEMMA LockFactorKeeps == ASSUME IInv, NEW p \in Requests, LockSetup(p) \/ LockSecret(p) PROVE IInv'
<1>1. /\ req[p].at \in {"setup", "replace"} /\ Free(p, "totp")
      /\ UNCHANGED <<storeVars, orgVars, mailVars, cookies, spent, tried, ghostVars>>
  BY DEF LockSetup, LockSecret
<1>2. req[p] \in Request /\ "install" \in Places /\ "new codes" \in Places
  BY AtHand DEF Places
<1>3. CASE req' = [req EXCEPT ![p] = Over]
  BY <1>1, <1>3, EndKeeps, TablesStay
<1>4. CASE \E a \in {"install", "new codes"}, h \in {{}, {"totp"}} :
             /\ req' = [req EXCEPT ![p] = [req[p] EXCEPT !.at = a, !.held = h]]
             /\ (a = "install" /\ ~totp.active) \/ (a = "new codes" /\ totp.active /\ h = {"totp"})
  <2>1. PICK a \in {"install", "new codes"}, h \in {{}, {"totp"}} :
          /\ req' = [req EXCEPT ![p] = [req[p] EXCEPT !.at = a, !.held = h]]
          /\ (a = "install" /\ ~totp.active) \/ (a = "new codes" /\ totp.active /\ h = {"totp"})
    BY <1>4
  <2>2. PICK r : r = [req[p] EXCEPT !.at = a, !.held = h]
    OBVIOUS
  <2>3. h \in SUBSET Locks
    BY DEF Locks
  <2>4. r \in Request /\ r.at = a /\ r.held = h
    BY <1>2, <2>2, <2>3 DEF Request
  <2>5. KnowsLocks(r) /\ KnowsChallenge(r) /\ KnowsFactor(r) /\ KnowsLinks(r)
    BY <2>1, <2>4 DEF KnowsLocks, KnowsChallenge, KnowsFactor, KnowsLinks, Answering, Resetting
  <2>6. \A q \in Requests \ {p} : r.held \cap req[q].held = {}
    BY <1>1, <2>4, HasIt
  <2> QED BY <1>1, <2>1, <2>2, <2>4, <2>5, <2>6, QuietKeeps, TablesStay DEF Signing
<1>5. CASE LockSetup(p)
  BY <1>3, <1>4, <1>5 DEF LockSetup, Go
<1>6. CASE LockSecret(p)
  BY <1>3, <1>4, <1>6 DEF LockSecret, Go
<1> QED BY <1>5, <1>6

\* The challenge goes with the second factor: its row is locked, if there is one.
LEMMA DropChallengeKeeps == ASSUME IInv, NEW p \in Requests, DropChallenge(p) PROVE IInv'
<1>1. /\ req[p].at = "drop challenge" /\ Free(p, "challenge")
      /\ UNCHANGED <<storeVars, orgVars, mailVars, cookies, spent, tried, ghostVars>>
  BY DEF DropChallenge
<1>2. PICK h \in {{}, {"challenge"}} : req' = [req EXCEPT ![p] = [req[p] EXCEPT !.at = "drop totp", !.held = h]]
  BY DEF DropChallenge, Go
<1>3. PICK r : r = [req[p] EXCEPT !.at = "drop totp", !.held = h]
  OBVIOUS
<1>4. req[p] \in Request /\ h \in SUBSET Locks /\ "drop totp" \in Places
  BY AtHand DEF Locks, Places
<1>5. r \in Request /\ r.at = "drop totp" /\ r.held = h
  BY <1>3, <1>4 DEF Request
<1>6. KnowsLocks(r) /\ KnowsChallenge(r) /\ KnowsFactor(r) /\ KnowsLinks(r)
  BY <1>5 DEF KnowsLocks, KnowsChallenge, KnowsFactor, KnowsLinks, Answering, Resetting
<1>7. \A q \in Requests \ {p} : r.held \cap req[q].held = {}
  BY <1>1, <1>5, HasIt
<1> QED BY <1>1, <1>2, <1>3, <1>5, <1>6, <1>7, QuietKeeps, TablesStay DEF Signing

\* A setup that is ready is found.
LEMMA MatchSetupKeeps == ASSUME IInv, NEW p \in Requests, MatchSetup(p) PROVE IInv'
<1>1. /\ req[p].at = "match setup" /\ UNCHANGED <<storeVars, orgVars, mailVars, cookies, spent, tried, ghostVars>>
  BY DEF MatchSetup
<1>2. req[p] \in Request /\ req[p].held = {"mint"} /\ "activating" \in Places
  BY <1>1, AtHand DEF Knows, KnowsLocks, Places
<1>3. CASE End(p)
  BY <1>1, <1>3, EndKeeps, TablesStay DEF End, Go
<1>4. CASE Goto(p, "activating")
  <2>1. PICK r : r = [req[p] EXCEPT !.at = "activating"]
    OBVIOUS
  <2>2. req' = [req EXCEPT ![p] = r]
    BY <1>4, <2>1 DEF Goto, Go
  <2>3. r \in Request /\ r.at = "activating" /\ r.held = {"mint"}
    BY <1>2, <2>1 DEF Request
  <2>4. KnowsLocks(r) /\ KnowsChallenge(r) /\ KnowsFactor(r) /\ KnowsLinks(r)
    BY <2>3 DEF KnowsLocks, KnowsChallenge, KnowsFactor, KnowsLinks, Answering, Resetting
  <2>5. \A q \in Requests \ {p} : r.held \cap req[q].held = {}
    BY <1>2, <2>3, HasIt
  <2> QED BY <1>1, <2>2, <2>3, <2>4, <2>5, QuietKeeps, TablesStay DEF Signing
<1> QED BY <1>3, <1>4 DEF MatchSetup

\* The links that are outstanding, and nobody else's while the account is locked.
LEMMA SupersedeKeeps == ASSUME IInv, NEW p \in Requests, Supersede(p) PROVE IInv'
<1>1. /\ req[p].at = "supersede" /\ UNCHANGED <<storeVars, orgVars, mailVars, cookies, spent, tried, ghostVars>>
  BY DEF Supersede
<1>2. req[p] \in Request /\ req[p].held = {"account"} /\ "issue" \in Places
  BY <1>1, AtHand DEF Knows, KnowsLocks, Places
<1>3. PICK o : o = Outstanding
  OBVIOUS
<1>4. o \subseteq Names /\ \A n \in o : links[n] # "none"
  BY <1>3 DEF Outstanding
<1>5. PICK r : r = [req[p] EXCEPT !.at = "issue", !.seen = o]
  OBVIOUS
<1>6. req' = [req EXCEPT ![p] = r]
  BY <1>3, <1>5 DEF Supersede, Go
<1>7. r \in Request /\ r.at = "issue" /\ r.held = {"account"} /\ r.seen = o
  BY <1>2, <1>4, <1>5 DEF Request
<1>8. KnowsLocks(r) /\ KnowsChallenge(r) /\ KnowsFactor(r)
  BY <1>7 DEF KnowsLocks, KnowsChallenge, KnowsFactor, Answering
<1>9. KnowsLinks(r)
  BY <1>3, <1>4, <1>7 DEF KnowsLinks, Resetting
<1>10. \A q \in Requests \ {p} : r.held \cap req[q].held = {}
  BY <1>2, <1>7, HasIt
<1> QED BY <1>1, <1>6, <1>7, <1>8, <1>9, <1>10, QuietKeeps, TablesStay DEF Signing

\* A link that arrived is presented.
LEMMA PresentKeeps == ASSUME IInv, NEW p \in Requests, CompletePasswordReset(p) PROVE IInv'
<1>1. PICK l \in inbox : Begin(p, "Reset", [New EXCEPT !.at = "reset", !.on = l, !.late = links[l] = "late"])
  BY DEF CompletePasswordReset
<1>2. /\ UNCHANGED <<storeVars, orgVars, mailVars, cookies, tried, ghostVars>>
      /\ spent' = [spent EXCEPT !.reset = @ + 1]
  BY DEF CompletePasswordReset
<1>3. spent' \in Attempts /\ spent'.login = spent.login /\ spent'.account = spent.account
  BY <1>2 DEF IInv, Tables, Attempts
<1>4. Tables'
  BY <1>2, <1>3 DEF IInv, Tables, storeVars, orgVars, mailVars
<1>5. PICK b \in BOOLEAN : b = (links[l] = "late")
  OBVIOUS
<1>6. PICK r : r = [New EXCEPT !.at = "reset", !.on = l, !.late = b]
  OBVIOUS
<1>7. req[p].at = "new" /\ req' = [req EXCEPT ![p] = r]
  BY <1>1, <1>5, <1>6 DEF Begin
<1>8. l \in Names /\ links[l] # "none" /\ "reset" \in Places /\ New \in Request /\ New.held = {}
  BY NewOK DEF IInv, Tables, Linked, Places, Resetting
<1>9. r \in Request /\ r.at = "reset" /\ r.on = l /\ r.held = {}
  BY <1>6, <1>8 DEF Request
<1>10. KnowsLocks(r) /\ KnowsChallenge(r) /\ KnowsFactor(r)
  BY <1>9 DEF KnowsLocks, KnowsChallenge, KnowsFactor, Answering
<1>11. KnowsLinks(r)
  BY <1>8, <1>9 DEF KnowsLinks
<1>12. \A q \in Requests \ {p} : r.held \cap req[q].held = {}
  BY <1>9
<1> QED BY <1>2, <1>3, <1>4, <1>7, <1>9, <1>10, <1>11, <1>12, QuietKeeps DEF Signing

\* It is tested with the account locked.
LEMMA CheckKeeps == ASSUME IInv, NEW p \in Requests, CheckToken(p) PROVE IInv'
<1>1. /\ req[p].at = "token" /\ UNCHANGED <<storeVars, orgVars, mailVars, cookies, spent, tried, ghostVars>>
  BY DEF CheckToken
<1>2. /\ req[p] \in Request /\ req[p].held = {"account"} /\ "consume" \in Places
      /\ req[p].on \in Names /\ links[req[p].on] # "none"
  BY <1>1, AtHand DEF Knows, KnowsLocks, KnowsLinks, Resetting, Places
<1>3. CASE End(p)
  BY <1>1, <1>3, EndKeeps, TablesStay DEF End, Go
<1>4. CASE links[req[p].on] # "used" /\ Goto(p, "consume")
  <2>1. PICK r : r = [req[p] EXCEPT !.at = "consume"]
    OBVIOUS
  <2>2. req' = [req EXCEPT ![p] = r]
    BY <1>4, <2>1 DEF Goto, Go
  <2>3. r \in Request /\ r.at = "consume" /\ r.held = {"account"} /\ r.on = req[p].on
    BY <1>2, <2>1 DEF Request
  <2>4. KnowsLocks(r) /\ KnowsChallenge(r) /\ KnowsFactor(r)
    BY <2>3 DEF KnowsLocks, KnowsChallenge, KnowsFactor, Answering
  <2>5. KnowsLinks(r)
    <3>1. links[req[p].on] \in Store!LinkStates
      BY <1>2 DEF IInv, Tables
    <3> QED BY <1>2, <1>4, <2>3, <3>1 DEF KnowsLinks, Outstanding, Store!LinkStates
  <2>6. \A q \in Requests \ {p} : r.held \cap req[q].held = {}
    BY <1>2, <2>3, HasIt
  <2> QED BY <1>1, <2>2, <2>3, <2>4, <2>5, <2>6, QuietKeeps, TablesStay DEF Signing
<1> QED BY <1>3, <1>4 DEF CheckToken

\* A setup that cannot be verified, and a transaction that fails.
LEMMA EndsKeep == ASSUME IInv, NEW p \in Requests, NoSetup(p) \/ Rollback(p) PROVE IInv'
<1>1. /\ req' = [req EXCEPT ![p] = Over] /\ UNCHANGED <<storeVars, orgVars, mailVars, cookies, spent, tried, ghostVars>>
      /\ req[p].at = "verify" \/ req[p].held # {}
  BY DEF NoSetup, Rollback, End, Go
<1>2. req[p].at \notin {"over", "count login", "count code"}
  BY <1>1, AtHand DEF Knows, KnowsLocks
<1> QED BY <1>1, <1>2, EndKeeps, TablesStay

-------------------------------------------------------------------------------
(* Steps that are counted.                                                 *)

\* A set that differs from another in one element at most.
LEMMA OneMore ==
  ASSUME NEW K, NEW M, NEW x, IsFiniteSet(K), \A y : y # x => (y \in M <=> y \in K)
  PROVE  /\ Cardinality(K) \in Nat /\ IsFiniteSet(M)
         /\ x \notin K /\ x \in M => Cardinality(M) = Cardinality(K) + 1
         /\ x \in K /\ x \notin M => Cardinality(M) = Cardinality(K) - 1
         /\ (x \in K <=> x \in M) => M = K
<1>1. Cardinality(K) \in Nat
  BY FS_CardinalityType
<1>2. CASE x \notin K /\ x \in M
  <2>1. M = K \cup {x}
    BY <1>2
  <2> QED BY <1>1, <1>2, <2>1, FS_AddElement
<1>3. CASE x \in K /\ x \notin M
  <2>1. M = K \ {x}
    BY <1>3
  <2> QED BY <1>1, <1>3, <2>1, FS_RemoveElement
<1>4. CASE x \in K <=> x \in M
  <2>1. M = K
    BY <1>4
  <2> QED BY <1>1, <1>4, <2>1
<1> QED BY <1>2, <1>3, <1>4

\* How many are on their way to be counted.
LEMMA CountingMoves ==
  ASSUME IInv, NEW p \in Requests, NEW r \in Request, req' = [req EXCEPT ![p] = r],
         NEW at, at \in {"count login", "count code"}
  PROVE  /\ Cardinality(Counting(at)) \in Nat /\ IsFiniteSet(Counting(at)')
         /\ req[p].at # at /\ r.at = at => Cardinality(Counting(at)') = Cardinality(Counting(at)) + 1
         /\ req[p].at = at /\ r.at # at => Cardinality(Counting(at)') = Cardinality(Counting(at)) - 1
         /\ req[p].at # at /\ r.at # at => Counting(at)' = Counting(at)
<1>1. req'[p] = r /\ \A q \in Requests \ {p} : req'[q] = req[q]
  BY Moved
<1>2. PICK K, M : K = Counting(at) /\ M = Counting(at)'
  OBVIOUS
<1>3. IsFiniteSet(K)
  BY <1>2 DEF IInv, Counted
<1>4. (p \in K <=> req[p].at = at) /\ (p \in M <=> r.at = at)
  BY <1>1, <1>2 DEF Counting
<1>5. ASSUME NEW y, y # p PROVE y \in M <=> y \in K
  BY <1>1, <1>2, <1>5 DEF Counting
<1>6. /\ Cardinality(K) \in Nat /\ IsFiniteSet(M)
      /\ p \notin K /\ p \in M => Cardinality(M) = Cardinality(K) + 1
      /\ p \in K /\ p \notin M => Cardinality(M) = Cardinality(K) - 1
      /\ (p \in K <=> p \in M) => M = K
  BY <1>3, <1>5, OneMore
<1> QED BY <1>2, <1>4, <1>6

\* The limiters are told.
LEMMA TellKeeps == ASSUME IInv, NEW p \in Requests, consumeLoginBudget(p) \/ recordTotpFailure(p) PROVE IInv'
<1>0. spent \in Attempts /\ tried \in Attempts
  BY DEF IInv, Tables
<1>1. /\ req' = [req EXCEPT ![p] = Over] /\ UNCHANGED <<storeVars, orgVars, mailVars, cookies, tried, ghostVars>>
      /\ req[p].at \in {"count login", "count code", "count none"}
      /\ spent' = IF req[p].at = "count login" THEN [spent EXCEPT !.login = @ + 1]
                  ELSE [spent EXCEPT !.address = @ + 1, !.account = IF req[p].at = "count code" THEN @ + 1 ELSE @]
  <2>1. CASE consumeLoginBudget(p)
    BY <2>1 DEF consumeLoginBudget, End, Go
  <2>2. CASE recordTotpFailure(p)
    BY <2>2 DEF recordTotpFailure, End, Go
  <2> QED BY <2>1, <2>2
<1>2. /\ spent' \in Attempts
      /\ spent'.login = IF req[p].at = "count login" THEN spent.login + 1 ELSE spent.login
      /\ spent'.account = IF req[p].at = "count code" THEN spent.account + 1 ELSE spent.account
  <2>1. CASE req[p].at = "count login"
    <3>1. spent' = [spent EXCEPT !.login = @ + 1]
      BY <1>1, <2>1
    <3>2. spent' \in Attempts /\ spent'.login = spent.login + 1 /\ spent'.account = spent.account
      BY <1>0, <3>1 DEF Attempts
    <3> QED BY <2>1, <3>2
  <2>2. CASE req[p].at = "count code"
    <3>1. PICK a, c : a = spent.address + 1 /\ c = spent.account + 1
      OBVIOUS
    <3>2. spent' = [spent EXCEPT !.address = a, !.account = c]
      BY <1>1, <2>2, <3>1
    <3>3. a \in Nat /\ c \in Nat
      BY <1>0, <3>1 DEF Attempts
    <3>4. spent' \in Attempts /\ spent'.login = spent.login /\ spent'.account = c
      BY <1>0, <3>2, <3>3 DEF Attempts
    <3> QED BY <2>2, <3>1, <3>4
  <2>3. CASE req[p].at = "count none"
    <3>1. PICK a, c : a = spent.address + 1 /\ c = spent.account
      OBVIOUS
    <3>2. spent' = [spent EXCEPT !.address = a, !.account = c]
      BY <1>1, <2>3, <3>1
    <3>3. a \in Nat /\ c \in Nat
      BY <1>0, <3>1 DEF Attempts
    <3>4. spent' \in Attempts /\ spent'.login = spent.login /\ spent'.account = c
      BY <1>0, <3>2, <3>3 DEF Attempts
    <3> QED BY <2>3, <3>1, <3>4
  <2> QED BY <1>1, <2>1, <2>2, <2>3
<1>3. Tables'
  BY <1>1, <1>2 DEF IInv, Tables, storeVars, orgVars, mailVars
<1>4. Counted'
  <2>1. /\ Cardinality(Counting("count login")) \in Nat /\ IsFiniteSet(Counting("count login")')
        /\ Cardinality(Counting("count login")') = IF req[p].at = "count login" THEN Cardinality(Counting("count login")) - 1
                                                  ELSE Cardinality(Counting("count login"))
    BY <1>1, NewOK, CountingMoves
  <2>2. /\ Cardinality(Counting("count code")) \in Nat /\ IsFiniteSet(Counting("count code")')
        /\ Cardinality(Counting("count code")') = IF req[p].at = "count code" THEN Cardinality(Counting("count code")) - 1
                                                 ELSE Cardinality(Counting("count code"))
    BY <1>1, NewOK, CountingMoves
  <2>3. spent.login \in Nat /\ spent.account \in Nat /\ tried' = tried
    BY <1>0, <1>1 DEF Attempts
  <2>4. tried'.login = spent'.login + Cardinality(Counting("count login")')
    <3>1. tried.login = spent.login + Cardinality(Counting("count login"))
      BY DEF IInv, Counted
    <3>2. CASE req[p].at = "count login"
      <4>1. spent'.login = spent.login + 1 /\ Cardinality(Counting("count login")') = Cardinality(Counting("count login")) - 1
        BY <1>2, <2>1, <3>2
      <4>2. PICK a \in Nat, b \in Nat : a = spent.login /\ b = Cardinality(Counting("count login"))
        BY <2>1, <2>3
      <4>3. a + b = (a + 1) + (b - 1)
        OBVIOUS
      <4> QED BY <2>3, <3>1, <4>1, <4>2, <4>3
    <3>3. CASE req[p].at # "count login"
      <4>1. spent'.login = spent.login /\ Cardinality(Counting("count login")') = Cardinality(Counting("count login"))
        BY <1>2, <2>1, <3>3
      <4> QED BY <2>3, <3>1, <4>1
    <3> QED BY <3>2, <3>3
  <2>5. tried'.account = spent'.account + Cardinality(Counting("count code")')
    <3>1. tried.account = spent.account + Cardinality(Counting("count code"))
      BY DEF IInv, Counted
    <3>2. CASE req[p].at = "count code"
      <4>1. spent'.account = spent.account + 1 /\ Cardinality(Counting("count code")') = Cardinality(Counting("count code")) - 1
        BY <1>2, <2>2, <3>2
      <4>2. PICK a \in Nat, b \in Nat : a = spent.account /\ b = Cardinality(Counting("count code"))
        BY <2>2, <2>3
      <4>3. a + b = (a + 1) + (b - 1)
        OBVIOUS
      <4> QED BY <2>3, <3>1, <4>1, <4>2, <4>3
    <3>3. CASE req[p].at # "count code"
      <4>1. spent'.account = spent.account /\ Cardinality(Counting("count code")') = Cardinality(Counting("count code"))
        BY <1>2, <2>2, <3>3
      <4> QED BY <2>3, <3>1, <4>1
    <3> QED BY <3>2, <3>3
  <2> QED BY <2>1, <2>2, <2>4, <2>5 DEF Counted
<1>5. Onward(p, Over)
  BY <1>1, NewOK DEF Onward
<1> QED BY <1>1, <1>3, <1>4, <1>5, NewOK, MoveKeeps DEF Signing

\* A password is shown, right or wrong.
LEMMA LoginKeeps == ASSUME IInv, NEW p \in Requests, Login(p) PROVE IInv'
<1>0. PICK right \in BOOLEAN :
        /\ req[p].at = "new"
        /\ req' = [req EXCEPT ![p] = [New EXCEPT !.at = IF ~right THEN "count login" ELSE IF outdated THEN "rehash" ELSE "two step"]]
        /\ word' = [word EXCEPT ![p] = IF right THEN password ELSE NoName]
        /\ tried' = IF right THEN tried ELSE [tried EXCEPT !.login = @ + 1]
  BY DEF Login, Begin
<1>a. PICK a : a = IF ~right THEN "count login" ELSE IF outdated THEN "rehash" ELSE "two step"
  OBVIOUS
<1>b. a \in {"count login", "rehash", "two step"} /\ (a = "count login" <=> ~right)
  BY <1>a
<1>1. PICK r :
        /\ r = [New EXCEPT !.at = a]
        /\ req[p].at = "new" /\ req' = [req EXCEPT ![p] = r]
        /\ word' = [word EXCEPT ![p] = IF right THEN password ELSE NoName]
        /\ tried' = IF right THEN tried ELSE [tried EXCEPT !.login = @ + 1]
  BY <1>0, <1>a
<1>2. /\ crossed' = IF \E q \in Requests : req[q].at = "sweep" THEN crossed \cup {p} ELSE crossed
      /\ UNCHANGED <<storeVars, orgVars, mailVars, cookies, spent, accepted, guesses, via, chosen, revived>>
  BY DEF Login
<1>3. UNCHANGED <<totp, codes, challenge, links, password, sessions, queued, inbox>>
  BY <1>2 DEF storeVars, mailVars
<1>4. r \in Request /\ r.held = {} /\ r.at = a
  <2>1. New \in Request /\ New.held = {} /\ a \in Places
    BY <1>b, NewOK DEF Places, Signing
  <2> QED BY <1>1, <2>1 DEF Request
<1>5. req' \in [Requests -> Request] /\ req'[p] = r /\ \A q \in Requests \ {p} : req'[q] = req[q]
  BY <1>1, <1>4, Moved
<1>6. p \in Names /\ crossed' \subseteq Names /\ crossed \subseteq crossed' /\ password \in Names
  BY <1>2, Constants DEF IInv, Tables, Histories
<1>7. word' \in [Names -> Names \cup {NoName}] /\ word'[p] = (IF right THEN password ELSE NoName)
        /\ \A n \in Names \ {p} : word'[n] = word[n]
  BY <1>1, <1>6 DEF IInv, Histories
<1>8. Onward(p, r)
  BY <1>1 DEF Onward
<1>9. ASSUME NEW n \in Names, n # p, Word(n) PROVE Word(n)'
  BY <1>2, <1>3, <1>6, <1>7, <1>9 DEF Word
<1>10. ASSUME NEW q \in Requests PROVE Knows(q, req[q])'
  <2>1. CASE q # p
    <3>1. PICK s \in Request : s = req[q] /\ Knows(q, s)
      BY AtHand
    <3>2. s.at \in Signing => Word(q)'
      <4>1. q \in Names
        BY Constants
      <4> QED BY <1>9, <2>1, <3>1, <4>1 DEF Knows, KnowsOwn
    <3>3. Outstanding' = Outstanding
      BY <1>3 DEF Outstanding
    <3>4. Knows(q, s)'
      BY <1>2, <1>3, <1>6, <3>1, <3>2, <3>3, OtherKnows
    <3> QED BY <1>5, <2>1, <3>1, <3>4
  <2>2. CASE q = p
    <3>1. KnowsLocks(r) /\ KnowsChallenge(r)' /\ KnowsFactor(r)' /\ KnowsLinks(r)'
      BY <1>b, <1>4 DEF KnowsLocks, KnowsChallenge, KnowsFactor, KnowsLinks, Answering, Resetting
    <3>2. sessions[p] = "none" /\ links[p] = "none" /\ guesses[p] = 0
      BY <1>1, AtHand DEF Knows, KnowsOwn
    <3>3. r.at \in Signing => Word(p)'
      <4>1. password \in {chosen} \cup revived
        BY DEF IInv, Entered, ResetEndsAccess
      <4> QED BY <1>b, <1>2, <1>3, <1>4, <1>6, <1>7, <4>1 DEF Signing, Word
    <3>4. KnowsOwn(p, r)'
      BY <1>b, <1>2, <1>3, <1>4, <3>2, <3>3 DEF KnowsOwn
    <3>5. Knows(p, r)'
      BY <3>1, <3>4 DEF Knows, KnowsLocks
    <3> QED BY <1>5, <2>2, <3>5
  <2> QED BY <2>1, <2>2
<1>11. Apart'
  <2>1. \A q \in Requests \ {p} : r.held \cap req[q].held = {}
    BY <1>4
  <2>2. r.at # "sweep"
    BY <1>b, <1>4
  <2>3. p \in crossed' \/ \A q \in Requests : req[q].at # "sweep"
    BY <1>2
  <2> QED BY <1>1, <1>4, <1>6, <2>1, <2>2, <2>3, ApartStays
<1>12. Factor' /\ Spent' /\ Linked' /\ Mailing'
  BY <1>1, <1>2, <1>3, <1>4, <1>8, FactorStays, LinkedStays
<1>13. Challenged'
  <2>1. \A n : Issued(n) => Issued(n)'
    BY <1>1, <1>4, <1>8, MadeStays
  <2>2. challenge.token # NoName => challenge.token # p /\ challenge.token \in Names
    <3>1. challenge.token # NoName => Issued(challenge.token) /\ challenge.token \in Names
      BY DEF IInv, Challenged, Tables, Store!ChallengeRow, Names
    <3> QED BY <1>1, <3>1 DEF Issued
  <2>3. ~challenge.consumed => challenge.token # NoName /\ Word(challenge.token)
    BY DEF IInv, Challenged
  <2>4. ~challenge.consumed => Word(challenge.token)'
    BY <1>2, <1>3, <1>6, <1>7, <2>2, <2>3 DEF Word
  <2> QED BY <1>2, <1>3, <2>1, <2>4 DEF IInv, Challenged, GuessesAreBounded
<1>14. Entered'
  <2>1. \A n : Issued(n) => Issued(n)'
    BY <1>1, <1>4, <1>8, MadeStays
  <2>2. \A n \in Names : sessions[n] # "none" => via[n] # p /\ via[n] \in Names
    <3>1. \A n \in Names : sessions[n] # "none" => Issued(via[n]) /\ via[n] \in Names
      BY DEF IInv, Entered, Histories
    <3> QED BY <1>1, <3>1 DEF Issued
  <2>3. ResetEndsAccess'
    <3>1. ResetEndsAccess
      BY DEF IInv, Entered
    <3> QED BY <1>2, <1>3, <1>6, <1>7, <2>2, <3>1 DEF ResetEndsAccess
  <2> QED BY <1>2, <1>3, <2>1, <2>3 DEF IInv, Entered, NobodyWaitsInVain
<1>15. /\ tried' \in Attempts /\ tried'.account = tried.account
       /\ tried'.login = IF right THEN tried.login ELSE tried.login + 1
  <2>1. tried \in Attempts
    BY DEF IInv, Tables
  <2>2. CASE right
    BY <1>1, <2>1, <2>2 DEF Attempts
  <2>3. CASE ~right
    <3>1. tried' = [tried EXCEPT !.login = @ + 1]
      BY <1>1, <2>3
    <3>2. tried' \in Attempts /\ tried'.account = tried.account /\ tried'.login = tried.login + 1
      BY <2>1, <3>1 DEF Attempts
    <3> QED BY <2>3, <3>2
  <2> QED BY <2>2, <2>3
<1>16. Tables'
  BY <1>2, <1>3, <1>15 DEF IInv, Tables, orgVars
<1>17. Histories'
  BY <1>2, <1>6, <1>7 DEF IInv, Histories
<1>18. Counted'
  <2> DEFINE L == Counting("count login")
             C == Counting("count code")
  <2>1. /\ IsFiniteSet(L') /\ Cardinality(L) \in Nat
        /\ Cardinality(L') = IF right THEN Cardinality(L) ELSE Cardinality(L) + 1
    <3>1. req[p].at # "count login" /\ r \in Request /\ req' = [req EXCEPT ![p] = r]
      BY <1>1, <1>4
    <3>2. r.at = "count login" <=> ~right
      BY <1>b, <1>4
    <3> QED BY <3>1, <3>2, CountingMoves
  <2>2. IsFiniteSet(C') /\ Cardinality(C) \in Nat /\ Cardinality(C') = Cardinality(C)
    <3>1. req[p].at = "new" /\ r.at \in {"rehash", "two step", "count login"}
      BY <1>b, <1>1, <1>4
    <3> QED BY <1>1, <1>4, <3>1, CountingMoves
  <2>3. tried.login = spent.login + Cardinality(L) /\ tried.account = spent.account + Cardinality(C)
    BY DEF IInv, Counted
  <2>4. spent.login \in Nat /\ spent.account \in Nat /\ spent' = spent
    BY <1>2 DEF IInv, Tables, Attempts
  <2> HIDE DEF L, C
  <2>5. tried'.login = spent'.login + Cardinality(L') /\ tried'.account = spent'.account + Cardinality(C')
    BY <1>15, <2>1, <2>2, <2>3, <2>4
  <2> QED BY <2>1, <2>2, <2>5 DEF Counted, L, C
<1> QED BY <1>5, <1>10, <1>11, <1>12, <1>13, <1>14, <1>16, <1>17, <1>18 DEF IInv

\* Addition, on its own.
LEMMA Regroup == ASSUME NEW a \in Nat, NEW b \in Nat PROVE (a + b) + 1 = a + (b + 1)
OBVIOUS

\* One more is to be counted.
LEMMA OneToCount ==
  ASSUME IInv, NEW p \in Requests, NEW r \in Request, req' = [req EXCEPT ![p] = r], UNCHANGED spent,
         req[p].at \notin {"count login", "count code"}, r.at \in {"count login", "count code"},
         r.at = "count login" => tried'.account = tried.account /\ tried'.login = tried.login + 1,
         r.at = "count code"  => tried'.login = tried.login /\ tried'.account = tried.account + 1
  PROVE  Counted'
<1>1. /\ Cardinality(Counting("count login")) \in Nat /\ IsFiniteSet(Counting("count login")')
      /\ r.at = "count login" => Cardinality(Counting("count login")') = Cardinality(Counting("count login")) + 1
      /\ r.at = "count code"  => Cardinality(Counting("count login")') = Cardinality(Counting("count login"))
  BY CountingMoves
<1>2. /\ Cardinality(Counting("count code")) \in Nat /\ IsFiniteSet(Counting("count code")')
      /\ r.at = "count code"  => Cardinality(Counting("count code")') = Cardinality(Counting("count code")) + 1
      /\ r.at = "count login" => Cardinality(Counting("count code")') = Cardinality(Counting("count code"))
  BY CountingMoves
<1>3. /\ tried.login = spent.login + Cardinality(Counting("count login"))
      /\ tried.account = spent.account + Cardinality(Counting("count code"))
  BY DEF IInv, Counted
<1>4. spent.login \in Nat /\ spent.account \in Nat
  BY DEF IInv, Tables, Attempts
<1>5. /\ tried'.login = spent'.login + Cardinality(Counting("count login")')
      /\ tried'.account = spent'.account + Cardinality(Counting("count code")')
  <2>1. CASE r.at = "count login"
    <3>1. tried'.login = (spent.login + Cardinality(Counting("count login"))) + 1
      BY <1>3, <2>1
    <3>2. PICK a \in Nat, b \in Nat : a = spent.login /\ b = Cardinality(Counting("count login"))
      BY <1>1, <1>4
    <3>3. (a + b) + 1 = a + (b + 1)
      BY Regroup
    <3> QED BY <1>1, <1>2, <1>3, <2>1, <3>1, <3>2, <3>3
  <2>2. CASE r.at = "count code"
    <3>1. tried'.account = (spent.account + Cardinality(Counting("count code"))) + 1
      BY <1>3, <2>2
    <3>2. PICK a \in Nat, b \in Nat : a = spent.account /\ b = Cardinality(Counting("count code"))
      BY <1>2, <1>4
    <3>3. (a + b) + 1 = a + (b + 1)
      BY Regroup
    <3> QED BY <1>1, <1>2, <1>3, <2>2, <3>1, <3>2, <3>3
  <2> QED BY <2>1, <2>2
<1> QED BY <1>1, <1>2, <1>5 DEF Counted

-------------------------------------------------------------------------------
(* Steps that write.                                                       *)

\* All know what they should after a step of one.
LEMMA AllKnow ==
  ASSUME IInv, NEW p \in Requests, NEW r \in Request, req' = [req EXCEPT ![p] = r], Knows(p, r)',
         \A q \in Requests \ {p}, s \in Request : s = req[q] /\ Knows(q, s) => Knows(q, s)'
  PROVE  req' \in [Requests -> Request] /\ \A q \in Requests : Knows(q, req[q])'
<1>1. req' \in [Requests -> Request] /\ req'[p] = r /\ \A q \in Requests \ {p} : req'[q] = req[q]
  BY Moved
<1>2. ASSUME NEW q \in Requests PROVE Knows(q, req[q])'
  <2>1. CASE q = p
    BY <1>1, <2>1
  <2>2. CASE q # p
    <3>1. req[q] \in Request /\ Knows(q, req[q])
      BY AtHand
    <3> QED BY <1>1, <2>2, <3>1
  <2> QED BY <2>1, <2>2
<1> QED BY <1>1, <1>2

\* A request that is over knows nothing.
LEMMA OverKnows == ASSUME NEW p \in Requests PROVE Knows(p, Over)'
<1>1. Over.at = "over" /\ Over.held = {}
  BY NewOK
<1> QED BY <1>1 DEF Knows, KnowsLocks, KnowsOwn, KnowsChallenge, KnowsFactor, KnowsLinks, Signing, Answering, Resetting

\* The hash is computed anew: the password is one that was set last or put back,
\* or its sign-in puts it back now.
LEMMA RehashKeeps == ASSUME IInv, NEW p \in Requests, rehashPassword(p) PROVE IInv'
<1>1. /\ req[p].at = "rehash"
      /\ UNCHANGED <<totp, codes, challenge, links, sessions, requireTotp, clock, queued, inbox, cookies, spent, tried>>
      /\ UNCHANGED <<accepted, guesses, word, via, crossed, chosen>>
  BY DEF rehashPassword, mailVars
<1>2. Word(p) /\ req[p].held = {} /\ guesses[p] = 0 /\ sessions[p] = "none" /\ links[p] = "none"
  BY <1>1, AtHand DEF Knows, KnowsOwn, KnowsLocks, Signing
<1>3. /\ revived \subseteq revived' /\ revived' \subseteq Names
      /\ password' \in Names /\ (password' = password \/ password' \in {chosen} \cup revived')
  <2>1. password \in Names /\ revived \subseteq Names
    BY DEF IInv, Tables, Histories
  <2>2. CASE UNCHANGED <<password, outdated, revived>>
    BY <2>1, <2>2
  <2>3. CASE password' = word[p] /\ revived' = IF p \in crossed THEN revived \cup {word[p]} ELSE revived
    BY <1>2, <2>1, <2>3 DEF Word
  <2> QED BY <2>2, <2>3 DEF rehashPassword
<1>4. outdated' \in BOOLEAN
  BY DEF rehashPassword, IInv, Tables
<1>5. PICK r : r = [req[p] EXCEPT !.at = "two step"]
  OBVIOUS
<1>6. req' = [req EXCEPT ![p] = r]
  BY <1>5 DEF rehashPassword, Goto, Go
<1>7. r \in Request /\ r.at = "two step" /\ r.held = {}
  <2>1. "two step" \in Places
    BY DEF Places, Signing
  <2>2. req[p] \in Request
    BY AtHand
  <2> QED BY <1>2, <1>5, <2>1, <2>2 DEF Request
<1>8. Onward(p, r)
  BY <1>1 DEF Onward
<1>9. \A n : Word(n) => Word(n)'
  BY <1>1, <1>3 DEF Word
<1>10. Outstanding' = Outstanding
  BY <1>1 DEF Outstanding
<1>11. ASSUME NEW q \in Requests \ {p}, NEW s \in Request, s = req[q], Knows(q, s) PROVE Knows(q, s)'
  <2>1. s.at \in Signing => Word(q)'
    BY <1>9, <1>11 DEF Knows, KnowsOwn
  <2> QED BY <1>1, <1>10, <1>11, <2>1, OtherKnows
<1>12. Knows(p, r)'
  <2>1. KnowsOwn(p, r)'
    BY <1>1, <1>2, <1>7, <1>9 DEF KnowsOwn
  <2>2. KnowsLocks(r)' /\ KnowsChallenge(r)' /\ KnowsFactor(r)' /\ KnowsLinks(r)'
    BY <1>7 DEF KnowsLocks, KnowsChallenge, KnowsFactor, KnowsLinks, Answering, Resetting
  <2> QED BY <2>1, <2>2 DEF Knows
<1>13. req' \in [Requests -> Request] /\ \A q \in Requests : Knows(q, req[q])'
  BY <1>6, <1>7, <1>11, <1>12, AllKnow
<1>14. Apart'
  BY <1>1, <1>6, <1>7, ApartStays DEF Signing
<1>15. Factor' /\ Spent' /\ Challenged' /\ Linked' /\ Mailing'
  BY <1>1, <1>3, <1>6, <1>7, <1>8, FactorStays, ChallengedStays, LinkedStays
<1>16. Entered'
  BY <1>1, <1>3, <1>6, <1>7, <1>8, EnteredStays
<1>17. Counted'
  BY <1>1, <1>6, <1>7, CountedStays
<1>18. Tables' /\ Histories'
  <2>1. Tables'
    BY <1>1, <1>3, <1>4 DEF IInv, Tables
  <2>2. Histories'
    BY <1>1, <1>3 DEF IInv, Histories
  <2> QED BY <2>1, <2>2
<1> QED BY <1>13, <1>14, <1>15, <1>16, <1>17, <1>18 DEF IInv

\* The challenge replaces the one before.
LEMMA ChallengeKeeps == ASSUME IInv, NEW p \in Requests, CreateTotpChallenge(p) PROVE IInv'
<1>1. /\ req[p].at = "challenge" /\ Free(p, "challenge") /\ challenge' = Store!Challenge(p)
      /\ UNCHANGED <<totp, codes, links, password, sessions, queued, inbox, requireTotp, clock, outdated, spent>>
      /\ UNCHANGED <<accepted, guesses, word, via, crossed, chosen, revived>>
  BY DEF CreateTotpChallenge, orgVars, mailVars, ghostVars
<1>2. cookies' = cookies \cup {p} /\ tried' = [tried EXCEPT !.login = @ + 1]
  BY DEF CreateTotpChallenge
<1>3. PICK r : r = [req[p] EXCEPT !.at = "count login"]
  OBVIOUS
<1>4. req' = [req EXCEPT ![p] = r]
  BY <1>3 DEF CreateTotpChallenge, Goto, Go
<1>5. req[p] \in Request /\ req[p].held = {} /\ "count login" \in Places
  BY <1>1, AtHand DEF Knows, KnowsLocks, Places
<1>6. r \in Request /\ r.at = "count login" /\ r.held = {}
  BY <1>3, <1>5 DEF Request
<1>7. Onward(p, r) /\ p \in Names /\ p # NoName
  BY <1>1, <1>6, Constants DEF Onward
<1>8. challenge'.token = p /\ challenge'.consumed = FALSE /\ challenge'.tries = 0 /\ challenge' \in Store!ChallengeRow
  <2>1. 0 \in 0 .. MaxChallengeAttempts
    BY Zero
  <2>2. challenge' = [token |-> p, consumed |-> FALSE, late |-> FALSE, tries |-> 0]
    BY <1>1 DEF Store!Challenge, Store!NoChallenge
  <2> QED BY <1>7, <2>1, <2>2 DEF Store!ChallengeRow, Names
<1>9. sessions[p] = "none" /\ links[p] = "none" /\ guesses[p] = 0 /\ Word(p)
  BY <1>1, AtHand DEF Knows, KnowsOwn, Signing
<1>10. ASSUME NEW q \in Requests \ {p}, NEW s \in Request, s = req[q], Knows(q, s) PROVE Knows(q, s)'
  <2>1. "challenge" \notin s.held
    BY <1>1, <1>10, HasIt
  <2>2. s.at = "sweep" => challenge'.token \in crossed'
    BY <1>1, <1>8, <1>10 DEF IInv, Apart, Signing
  <2>3. s.at \in Signing => Word(q)'
    BY <1>1, <1>10 DEF Knows, KnowsOwn, Word
  <2>4. Outstanding' = Outstanding
    BY <1>1 DEF Outstanding
  <2> QED BY <1>1, <1>10, <2>1, <2>2, <2>3, <2>4, OtherKnows
<1>11. Knows(p, r)'
  <2>1. KnowsOwn(p, r)'
    BY <1>1, <1>6, <1>9 DEF KnowsOwn, Signing
  <2>2. KnowsLocks(r)' /\ KnowsChallenge(r)' /\ KnowsFactor(r)' /\ KnowsLinks(r)'
    BY <1>6 DEF KnowsLocks, KnowsChallenge, KnowsFactor, KnowsLinks, Answering, Resetting
  <2> QED BY <2>1, <2>2 DEF Knows
<1>12. req' \in [Requests -> Request] /\ \A q \in Requests : Knows(q, req[q])'
  BY <1>4, <1>6, <1>10, <1>11, AllKnow
<1>13. Apart'
  BY <1>1, <1>4, <1>6, ApartStays DEF Signing
<1>14. Factor' /\ Spent' /\ Entered' /\ Linked' /\ Mailing'
  BY <1>1, <1>4, <1>6, <1>7, FactorStays, EnteredStays, LinkedStays
<1>15. Challenged'
  <2>1. Issued(p)'
    BY <1>4, <1>6, Moved DEF Issued
  <2>2. Word(p)'
    BY <1>1, <1>9 DEF Word
  <2> QED BY <1>1, <1>7, <1>8, <1>9, <2>1, <2>2 DEF IInv, Challenged, GuessesAreBounded
<1>16. tried' \in Attempts /\ tried'.account = tried.account /\ tried'.login = tried.login + 1
  BY <1>2 DEF IInv, Tables, Attempts
<1>17. Tables'
  BY <1>1, <1>2, <1>7, <1>8, <1>16 DEF IInv, Tables
<1>18. Histories'
  BY <1>1 DEF IInv, Histories
<1>19. Counted'
  BY <1>1, <1>4, <1>6, <1>16, OneToCount
<1> QED BY <1>12, <1>13, <1>14, <1>15, <1>17, <1>18, <1>19 DEF IInv

\* The session is there.
LEMMA SessionKeeps == ASSUME IInv, NEW p \in Requests, CreateSession(p) PROVE IInv'
<1>1. /\ req[p].at = "family" /\ req' = [req EXCEPT ![p] = Over]
      /\ UNCHANGED <<totp, codes, challenge, links, password, queued, inbox, requireTotp, clock, outdated, cookies, spent, tried>>
      /\ UNCHANGED <<accepted, guesses, word, via, crossed, chosen, revived>>
  BY DEF CreateSession, End, Go, orgVars, mailVars, ghostVars
<1>2. PICK x \in {"live", "gated"} : sessions' = [sessions EXCEPT ![p] = x] /\ (x = "gated" => req[p].gated)
  BY DEF CreateSession
<1>3. Over \in Request /\ Over.at = "over" /\ Over.held = {} /\ p \in Names
  BY NewOK, Constants
<1>4. sessions \in [Names -> Store!Families] /\ x \in Store!Families
  BY DEF IInv, Tables, Store!Families
<1>5. /\ sessions' \in [Names -> Store!Families] /\ sessions'[p] = x
      /\ \A n \in Names \ {p} : sessions'[n] = sessions[n]
  BY <1>2, <1>3, <1>4
<1>6. /\ sessions[p] = "none" /\ Word(p) /\ (req[p].gated => ~totp.active)
  BY <1>1, AtHand DEF Knows, KnowsOwn, KnowsFactor, Signing
<1>7. Onward(p, Over)
  BY <1>1, <1>3 DEF Onward
<1>8. ASSUME NEW q \in Requests \ {p}, NEW s \in Request, s = req[q], Knows(q, s) PROVE Knows(q, s)'
  <2>1. s.at \in Signing => Word(q)'
    BY <1>1, <1>8 DEF Knows, KnowsOwn, Word
  <2>2. Outstanding' = Outstanding
    BY <1>1 DEF Outstanding
  <2>3. sessions'[q] = sessions[q]
    BY <1>5, Constants
  <2> QED BY <1>1, <1>8, <2>1, <2>2, <2>3, OtherKnows
<1>9. req' \in [Requests -> Request] /\ \A q \in Requests : Knows(q, req[q])'
  BY <1>1, <1>3, <1>8, OverKnows, AllKnow
<1>10. Apart'
  BY <1>1, <1>3, ApartStays DEF Signing
<1>11. Factor' /\ Spent' /\ Challenged' /\ Linked' /\ Mailing'
  BY <1>1, <1>3, <1>7, FactorStays, ChallengedStays, LinkedStays
<1>12. Entered'
  <2>1. Entered
    BY DEF IInv
  <2>2. \A n : Issued(n) => Issued(n)'
    BY <1>1, <1>3, <1>7, MadeStays
  <2>3. Issued(p)' /\ via[p] = p
    BY <1>1, <1>3, <1>6, <2>1, Moved DEF Issued, Entered
  <2>4. \A n \in Names : (IF sessions[n] = "none" THEN via[n] = n ELSE Issued(via[n]))'
    BY <1>1, <1>5, <2>1, <2>2, <2>3 DEF Entered
  <2>5. ResetEndsAccess'
    BY <1>1, <1>5, <1>6, <2>1, <2>3 DEF Entered, ResetEndsAccess, Word
  <2>6. NobodyWaitsInVain'
    BY <1>1, <1>2, <1>5, <1>6, <2>1 DEF Entered, NobodyWaitsInVain
  <2> QED BY <2>4, <2>5, <2>6 DEF Entered
<1>13. Counted'
  BY <1>1, <1>3, CountedStays
<1>14. Tables' /\ Histories'
  BY <1>1, <1>5 DEF IInv, Tables, Histories
<1> QED BY <1>9, <1>10, <1>11, <1>12, <1>13, <1>14 DEF IInv

\* A second factor that is off ends the challenge.
LEMMA SpendKeeps == ASSUME IInv, NEW p \in Requests, consumeChallenge(p) PROVE IInv'
<1>1. /\ req[p].at = "judge" /\ challenge' = Store!Consumed(challenge)
      /\ UNCHANGED <<totp, codes, links, password, sessions, queued, inbox, requireTotp, clock, outdated, cookies, spent, tried>>
      /\ UNCHANGED <<accepted, guesses, word, via, crossed, chosen, revived>>
  BY DEF consumeChallenge, orgVars, mailVars, ghostVars
<1>2. PICK r : r = [New EXCEPT !.at = "count none"]
  OBVIOUS
<1>3. req' = [req EXCEPT ![p] = r]
  BY <1>2 DEF consumeChallenge, Go
<1>4. r \in Request /\ r.at = "count none" /\ r.held = {}
  <2>1. New \in Request /\ New.held = {} /\ "count none" \in Places
    BY NewOK DEF Places
  <2> QED BY <1>2, <2>1 DEF Request
<1>5. /\ challenge' \in Store!ChallengeRow /\ challenge'.consumed = TRUE /\ challenge'.token = challenge.token
      /\ challenge'.tries = challenge.tries
  BY <1>1 DEF IInv, Tables, Store!ChallengeRow, Store!Consumed
<1>6. Onward(p, r)
  BY <1>1 DEF Onward
<1>7. ASSUME NEW q \in Requests \ {p}, NEW s \in Request, s = req[q], Knows(q, s) PROVE Knows(q, s)'
  <2>1. "challenge" \in req[p].held
    BY <1>1, AtHand DEF Knows, KnowsLocks
  <2>2. "challenge" \notin s.held
    BY <1>7, <2>1, HasIt
  <2>3. s.at \in Signing => Word(q)'
    BY <1>1, <1>7 DEF Knows, KnowsOwn, Word
  <2>4. Outstanding' = Outstanding
    BY <1>1 DEF Outstanding
  <2> QED BY <1>1, <1>5, <1>7, <2>2, <2>3, <2>4, OtherKnows
<1>8. Knows(p, r)'
  <2>1. sessions[p] = "none" /\ links[p] = "none"
    BY <1>1, AtHand DEF Knows, KnowsOwn
  <2>2. KnowsOwn(p, r)'
    BY <1>1, <1>4, <2>1 DEF KnowsOwn, Signing
  <2>3. KnowsLocks(r)' /\ KnowsChallenge(r)' /\ KnowsFactor(r)' /\ KnowsLinks(r)'
    BY <1>4 DEF KnowsLocks, KnowsChallenge, KnowsFactor, KnowsLinks, Answering, Resetting
  <2> QED BY <2>2, <2>3 DEF Knows
<1>9. req' \in [Requests -> Request] /\ \A q \in Requests : Knows(q, req[q])'
  BY <1>3, <1>4, <1>7, <1>8, AllKnow
<1>10. Apart'
  BY <1>1, <1>3, <1>4, ApartStays DEF Signing
<1>11. Factor' /\ Spent' /\ Entered' /\ Linked' /\ Mailing'
  BY <1>1, <1>3, <1>4, <1>6, FactorStays, EnteredStays, LinkedStays
<1>12. Challenged'
  <2>1. \A n : Issued(n) => Issued(n)'
    BY <1>3, <1>4, <1>6, MadeStays
  <2> QED BY <1>1, <1>5, <2>1 DEF IInv, Challenged, GuessesAreBounded
<1>13. Counted'
  BY <1>1, <1>3, <1>4, CountedStays
<1>14. Tables' /\ Histories'
  BY <1>1, <1>5 DEF IInv, Tables, Histories
<1> QED BY <1>9, <1>10, <1>11, <1>12, <1>13, <1>14 DEF IInv

\* A wrong code is counted by the challenge.
LEMMA BurnKeeps == ASSUME IInv, NEW p \in Requests, burnChallengeAttempt(p) PROVE IInv'
<1>1. /\ req[p].at = "judge"
      /\ UNCHANGED <<totp, codes, links, password, sessions, queued, inbox, requireTotp, clock, outdated, cookies, spent>>
      /\ UNCHANGED <<accepted, word, via, crossed, chosen, revived>>
  BY DEF burnChallengeAttempt, orgVars, mailVars
<1>2. /\ guesses' = [guesses EXCEPT ![challenge.token] = @ + 1] /\ tried' = [tried EXCEPT !.account = @ + 1]
  BY DEF burnChallengeAttempt
<1>3. PICK r : r = [New EXCEPT !.at = "count code"]
  OBVIOUS
<1>4. req' = [req EXCEPT ![p] = r]
  BY <1>3 DEF burnChallengeAttempt, Go
<1>5. r \in Request /\ r.at = "count code" /\ r.held = {}
  <2>1. New \in Request /\ New.held = {} /\ "count code" \in Places
    BY NewOK DEF Places
  <2> QED BY <1>3, <2>1 DEF Request
<1>6. PICK c, k : c = challenge.token /\ k = challenge.tries + 1
  OBVIOUS
<1>7. c \in Names /\ c # NoName /\ ~challenge.consumed /\ challenge.tries < MaxChallengeAttempts
  BY <1>1, <1>6, AtHand, Constants DEF Knows, KnowsChallenge, Answerable
<1>8. challenge \in Store!ChallengeRow /\ challenge.tries \in Nat
  BY Constants DEF IInv, Tables, Store!ChallengeRow
<1>9. k \in 0 .. MaxChallengeAttempts /\ k \in Nat /\ k <= MaxChallengeAttempts
  BY <1>6, <1>7, <1>8, Constants
<1>10. PICK b \in BOOLEAN : challenge' = [challenge EXCEPT !.tries = k, !.consumed = b]
  <2>1. PICK b : b = (k >= MaxChallengeAttempts)
    OBVIOUS
  <2>2. challenge' = [challenge EXCEPT !.tries = k, !.consumed = b]
    BY <1>6, <2>1 DEF burnChallengeAttempt
  <2>3. b \in BOOLEAN
    BY <2>1
  <2> QED BY <2>2, <2>3
<1>11. challenge' \in Store!ChallengeRow /\ challenge'.token = c /\ challenge'.tries = k
  BY <1>6, <1>8, <1>9, <1>10 DEF Store!ChallengeRow
<1>12. /\ guesses \in [Names -> Nat] /\ guesses[c] = challenge.tries /\ Issued(c) /\ Word(c)
  BY <1>6, <1>7 DEF IInv, Histories, Challenged
<1>13. /\ guesses' \in [Names -> Nat] /\ guesses'[c] = k /\ \A n \in Names \ {c} : guesses'[n] = guesses[n]
  <2>1. guesses' = [guesses EXCEPT ![c] = k]
    BY <1>2, <1>6, <1>12
  <2> QED BY <1>7, <1>9, <1>12, <2>1
<1>14. Onward(p, r)
  BY <1>1 DEF Onward
<1>15. ASSUME NEW q \in Requests \ {p}, NEW s \in Request, s = req[q], Knows(q, s) PROVE Knows(q, s)'
  <2>1. "challenge" \in req[p].held
    BY <1>1, AtHand DEF Knows, KnowsLocks
  <2>2. "challenge" \notin s.held
    BY <1>15, <2>1, HasIt
  <2>3. s.at = "sweep" => challenge'.token \in crossed'
    BY <1>1, <1>6, <1>7, <1>11, <1>15, <2>2 DEF Knows, KnowsChallenge
  <2>4. s.at \in Signing => Word(q)'
    BY <1>1, <1>15 DEF Knows, KnowsOwn, Word
  <2>5. Outstanding' = Outstanding
    BY <1>1 DEF Outstanding
  <2>6. s.at \in {"new", "rehash", "two step", "challenge"} => guesses'[q] = guesses[q]
    BY <1>12, <1>13, <1>15, Constants DEF Issued
  <2> QED BY <1>1, <1>15, <2>2, <2>3, <2>4, <2>5, <2>6, OtherKnows
<1>16. Knows(p, r)'
  <2>1. sessions[p] = "none" /\ links[p] = "none"
    BY <1>1, AtHand DEF Knows, KnowsOwn
  <2>2. KnowsOwn(p, r)'
    BY <1>1, <1>5, <2>1 DEF KnowsOwn, Signing
  <2>3. KnowsLocks(r)' /\ KnowsChallenge(r)' /\ KnowsFactor(r)' /\ KnowsLinks(r)'
    BY <1>5 DEF KnowsLocks, KnowsChallenge, KnowsFactor, KnowsLinks, Answering, Resetting
  <2> QED BY <2>2, <2>3 DEF Knows
<1>17. req' \in [Requests -> Request] /\ \A q \in Requests : Knows(q, req[q])'
  BY <1>4, <1>5, <1>15, <1>16, AllKnow
<1>18. Apart'
  BY <1>1, <1>4, <1>5, ApartStays DEF Signing
<1>19. Factor' /\ Spent' /\ Entered' /\ Linked' /\ Mailing'
  BY <1>1, <1>4, <1>5, <1>14, FactorStays, EnteredStays, LinkedStays
<1>20. Challenged'
  <2>1. Issued(c)'
    BY <1>4, <1>5, <1>12, <1>14, MadeStays
  <2>2. Word(c)'
    BY <1>1, <1>12 DEF Word
  <2>3. GuessesAreBounded'
    BY <1>9, <1>13 DEF IInv, Challenged, GuessesAreBounded
  <2> QED BY <1>7, <1>11, <1>13, <2>1, <2>2, <2>3 DEF Challenged
<1>21. tried' \in Attempts /\ tried'.login = tried.login /\ tried'.account = tried.account + 1
  BY <1>2 DEF IInv, Tables, Attempts
<1>22. Counted'
  BY <1>1, <1>4, <1>5, <1>21, OneToCount
<1>23. Tables' /\ Histories'
  BY <1>1, <1>11, <1>13, <1>21 DEF IInv, Tables, Histories
<1> QED BY <1>17, <1>18, <1>19, <1>20, <1>22, <1>23 DEF IInv

\* A code that can be accepted, with what is kept of it.
LEMMA AcceptedIsNew ==
  ASSUME IInv, NEW code \in Shown, totp.secret # NoName, Later(code) \/ code \in codes
  PROVE  /\ code \in TotpCodes \cup BackupCodes /\ Made(code[2]) /\ (code[1] = "totp" <=> Later(code))
         /\ (code[1] = "totp" => code \in TotpCodes) /\ (code[1] # "totp" => code \in codes)
         /\ \A i \in DOMAIN accepted : accepted[i] # code
<1>1. totp \in Store!TotpRow /\ totp.secret \in Names /\ totp.step \in Int /\ codes \subseteq BackupCodes
  BY Constants DEF IInv, Tables, Store!TotpRow, Names
<1>2. /\ \A k \in BackupCodes : k[1] = "recovery"
      /\ \A k \in TotpCodes : k[1] = "totp" /\ k[2] \in Names /\ k[3] \in Nat
  BY Constants DEF BackupCodes, TotpCodes
<1>3. CASE Later(code)
  <2>1. code[1] = "totp" /\ code[2] = totp.secret /\ code[3] > totp.step
    BY <1>3 DEF Later
  <2>2. code \in TotpCodes
    <3>1. code # <<"wrong">>
      BY <2>1
    <3>2. code \notin {"totp"} \X {NoName} \X Store!Steps
      BY <2>1
    <3>3. code \notin BackupCodes
      BY <1>2, <2>1
    <3> QED BY <3>1, <3>2, <3>3 DEF Shown
  <2>3. Made(code[2])
    BY <2>1 DEF IInv, Factor
  <2>4. ASSUME NEW i \in DOMAIN accepted PROVE accepted[i] # code
    <3>1. accepted[i][1] = "totp" /\ accepted[i][2] = totp.secret => accepted[i][3] <= totp.step
      BY DEF IInv, Spent
    <3>2. code[3] \in Int /\ ~(code[3] <= totp.step)
      BY <1>1, <1>2, <2>1, <2>2
    <3> QED BY <2>1, <3>1, <3>2
  <2> QED BY <1>3, <2>1, <2>2, <2>3, <2>4
<1>4. CASE ~Later(code)
  <2>1. code \in codes /\ code \in BackupCodes /\ code[1] = "recovery"
    BY <1>1, <1>2, <1>4
  <2>2. Made(code[2]) /\ \A i \in DOMAIN accepted : accepted[i] # code
    BY <2>1 DEF IInv, Spent
  <2> QED BY <1>4, <2>1, <2>2
<1> QED BY <1>3, <1>4

\* The codes that were accepted, and one more.
Grown(s, t, x) ==
  /\ DOMAIN s \subseteq DOMAIN t /\ \A i \in DOMAIN s : t[i] = s[i]
  /\ \E m \in DOMAIN t : t[m] = x /\ \A i \in DOMAIN t : i = m \/ i \in DOMAIN s

LEMMA OneMoreAccepted ==
  ASSUME NEW S, NEW s \in Seq(S), NEW x \in S, NEW t, t = Append(s, x)
  PROVE  t \in Seq(S) /\ Grown(s, t, x)
<1>1. t \in Seq(S) /\ Len(s) \in Nat /\ DOMAIN s = 1 .. Len(s) /\ DOMAIN t = 1 .. Len(s) + 1
  BY AppendProperties
<1>2. t[Len(s) + 1] = x /\ \A i \in 1 .. Len(s) : t[i] = s[i]
  BY AppendProperties
<1>3. Len(s) + 1 \in DOMAIN t /\ \A i \in DOMAIN t : i = Len(s) + 1 \/ i \in DOMAIN s
  BY <1>1
<1>4. DOMAIN s \subseteq DOMAIN t
  BY <1>1
<1> QED BY <1>1, <1>2, <1>3, <1>4 DEF Grown

\* What codes are made of.
LEMMA CodeTypes ==
  ASSUME IInv
  PROVE  /\ totp.step \in Int /\ (\A k \in TotpCodes : k[3] \in Int) /\ (\A k \in BackupCodes : k[1] = "recovery")
         /\ \A i \in DOMAIN accepted : accepted[i] \in TotpCodes \cup BackupCodes
<1>1. totp.step \in Int
  BY Constants DEF IInv, Tables, Store!TotpRow
<1>2. \A k \in TotpCodes : k[3] \in Int
  BY Constants DEF TotpCodes
<1>3. \A k \in BackupCodes : k[1] = "recovery"
  BY DEF BackupCodes
<1>4. \A i \in DOMAIN accepted : accepted[i] \in TotpCodes \cup BackupCodes
  BY DEF IInv, Histories
<1> QED BY <1>1, <1>2, <1>3, <1>4

\* What is at most a number is at most a greater one.
LEMMA AtMost == ASSUME NEW a \in Int, NEW b \in Int, NEW c \in Int, a <= b, c > b PROVE a <= c
OBVIOUS
LEMMA NotMore == ASSUME NEW a \in Int PROVE a <= a
OBVIOUS

\* A code is accepted by a request that is over then.
Takes(p, code) ==
  /\ accepted' = Append(accepted, code) /\ totp'.secret = totp.secret
  /\ code[1] = "totp" => totp'.step = code[3]
  /\ code[1] # "totp" => totp'.step = totp.step
  /\ \A k \in codes' : (k \in codes /\ k # code) \/ k[2] = p

LEMMA AcceptedIsSpent ==
  ASSUME IInv, NEW p \in Requests, req' = [req EXCEPT ![p] = Over], req[p].at \notin {"over", "count login"},
         NEW code \in Shown, totp.secret # NoName, Later(code) \/ code \in codes, Takes(p, code)
  PROVE  Spent' /\ accepted' \in Seq(TotpCodes \cup BackupCodes) /\ ((totp'.verified => totp.verified \/ code[1] = "totp") => Proven')
<1>1. /\ code \in TotpCodes \cup BackupCodes /\ Made(code[2]) /\ (code[1] = "totp" <=> Later(code))
      /\ (code[1] = "totp" => code \in TotpCodes) /\ (code[1] # "totp" => code \in codes)
      /\ \A i \in DOMAIN accepted : accepted[i] # code
  BY AcceptedIsNew
<1>2. totp \in Store!TotpRow /\ Spent /\ Proven
  BY DEF IInv, Tables, Factor
<1>3. PICK a : a = accepted'
  OBVIOUS
<1>4. a \in Seq(TotpCodes \cup BackupCodes) /\ Grown(accepted, a, code)
  <2>1. accepted \in Seq(TotpCodes \cup BackupCodes)
    BY DEF IInv, Histories
  <2>2. a = Append(accepted, code)
    BY <1>3 DEF Takes
  <2> QED BY <1>1, <2>1, <2>2, OneMoreAccepted
<1>5. PICK m \in DOMAIN a : /\ DOMAIN accepted \subseteq DOMAIN a /\ \A i \in DOMAIN accepted : a[i] = accepted[i]
                           /\ a[m] = code /\ \A i \in DOMAIN a : i = m \/ i \in DOMAIN accepted
  BY <1>4 DEF Grown
<1>0. /\ code[1] = "totp" => totp'.step = code[3]
      /\ code[1] # "totp" => totp'.step = totp.step
      /\ totp'.secret = totp.secret
      /\ \A k \in codes' : (k \in codes /\ k # code) \/ k[2] = p
  BY DEF Takes
<1>6. ~Made(p) /\ Made(p)' /\ \A n : Made(n) => Made(n)'
  <2>1. Over \in Request /\ Over.at = "over"
    BY NewOK
  <2>2. Onward(p, Over)
    BY <2>1 DEF Onward
  <2> QED BY <2>1, <2>2, Moved, MadeStays DEF Made
<1>7. ASSUME NEW i \in DOMAIN a PROVE Made(a[i][2])' /\ a[i] \notin codes'
  <2>1. CASE i = m
    <3>1. a[i] = code
      BY <1>5, <2>1
    <3>2. Made(a[i][2]) /\ code[2] # p
      BY <1>1, <1>6, <3>1
    <3> QED BY <1>0, <1>6, <3>1, <3>2
  <2>2. CASE i \in DOMAIN accepted
    <3>1. a[i] = accepted[i] /\ Made(a[i][2]) /\ a[i] \notin codes
      BY <1>2, <1>5, <2>2 DEF Spent
    <3>2. a[i][2] # p
      BY <1>6, <3>1
    <3> QED BY <1>0, <1>6, <3>1, <3>2
  <2> QED BY <1>5, <2>1, <2>2
<1>8. ASSUME NEW i \in DOMAIN a, a[i][1] = "totp", a[i][2] = totp.secret PROVE a[i][3] <= totp'.step
  <2>1. code[1] = "totp" => code[3] \in Int /\ code[3] > totp.step
    BY <1>1, CodeTypes DEF Later
  <2>2. CASE i = m
    <3>1. code[1] = "totp" /\ a[i][3] = code[3] /\ totp'.step = code[3]
      BY <1>0, <1>5, <1>8, <2>2
    <3>2. PICK x : x = code[3]
      OBVIOUS
    <3>3. x \in Int
      BY <2>1, <3>1, <3>2
    <3>4. x <= x
      BY <3>3, NotMore
    <3> QED BY <3>1, <3>2, <3>4
  <2>3. CASE i \in DOMAIN accepted
    <3>1. a[i] = accepted[i] /\ a[i][3] <= totp.step
      BY <1>2, <1>5, <1>8, <2>3 DEF Spent
    <3>2. a[i] \in TotpCodes
      <4>1. a[i] \in TotpCodes \cup BackupCodes
        BY <2>3, <3>1, CodeTypes
      <4> QED BY <1>8, <4>1, CodeTypes
    <3>3. a[i][3] \in Int /\ totp.step \in Int
      BY <3>2, CodeTypes
    <3>4. CASE code[1] = "totp"
      <4>1. PICK x, y, z : x = a[i][3] /\ y = totp.step /\ z = code[3]
        OBVIOUS
      <4>2. x \in Int /\ y \in Int /\ z \in Int /\ x <= y /\ z > y
        BY <2>1, <3>1, <3>3, <3>4, <4>1
      <4>3. x <= z
        BY <4>2, AtMost
      <4> QED BY <1>0, <3>4, <4>1, <4>3
    <3>5. CASE code[1] # "totp"
      BY <1>0, <3>1, <3>5
    <3> QED BY <3>4, <3>5
  <2> QED BY <1>5, <2>2, <2>3
<1>9. \A k \in codes' : Made(k[2])'
  BY <1>0, <1>2, <1>6 DEF Spent
<1>10. ASSUME NEW i \in DOMAIN a, NEW j \in DOMAIN a, a[i] = a[j] PROVE i = j
  <2>1. CASE i \in DOMAIN accepted /\ j \in DOMAIN accepted
    <3>1. accepted[i] = accepted[j]
      BY <1>5, <1>10, <2>1
    <3> QED BY <1>2, <2>1, <3>1 DEF Spent, CodesWorkOnce
  <2>2. i \in DOMAIN accepted => a[i] # code
    BY <1>1, <1>5
  <2>3. j \in DOMAIN accepted => a[j] # code
    BY <1>1, <1>5
  <2> QED BY <1>5, <1>10, <2>1, <2>2, <2>3
<1>11. Spent'
  BY <1>0, <1>3, <1>7, <1>8, <1>9, <1>10 DEF Spent, CodesWorkOnce
<1>12. ASSUME totp.verified \/ code[1] = "totp" PROVE \E i \in DOMAIN a : a[i][1] = "totp" /\ a[i][2] = totp.secret
  <2>1. CASE code[1] = "totp"
    BY <1>1, <1>5, <2>1 DEF Later
  <2>2. CASE totp.verified
    BY <1>2, <1>5, <2>2 DEF Proven
  <2> QED BY <1>12, <2>1, <2>2
<1>13. (totp'.verified => totp.verified \/ code[1] = "totp") => Proven'
  BY <1>0, <1>3, <1>12 DEF Proven
<1> QED BY <1>3, <1>4, <1>11, <1>13

\* The code and the challenge are spent, and the session is there.
LEMMA CompleteKeeps == ASSUME IInv, NEW p \in Requests, CompleteTotpChallenge(p) PROVE IInv'
<1>1. /\ req[p].at = "session" /\ challenge' = Store!Consumed(challenge) /\ req' = [req EXCEPT ![p] = Over]
      /\ UNCHANGED <<links, password, queued, inbox, requireTotp, clock, outdated, cookies, spent, tried, guesses, word, crossed, chosen, revived>>
  BY DEF CompleteTotpChallenge, End, Go, orgVars, mailVars
<1>2. PICK code, on : code = req[p].code /\ on = req[p].on
  OBVIOUS
<1>3. /\ IF code[1] = "totp" THEN totp' = [totp EXCEPT !.step = code[3]] /\ UNCHANGED codes
                             ELSE codes' = codes \ {code} /\ UNCHANGED totp
      /\ sessions' = [sessions EXCEPT ![p] = "live"] /\ via' = [via EXCEPT ![p] = on]
      /\ accepted' = Append(accepted, code)
  BY <1>2 DEF CompleteTotpChallenge
<1>4. /\ code \in Shown /\ totp.active /\ (Later(code) \/ code \in codes) /\ on \in Names /\ challenge.token = on
      /\ ~challenge.consumed /\ sessions[p] = "none"
  BY <1>1, <1>2, AtHand DEF Knows, KnowsFactor, KnowsChallenge, KnowsOwn, Answerable, Answering
<1>5. req[p].held = {"challenge", "totp"}
  BY <1>1, AtHand DEF Knows, KnowsLocks
<1>6. Over \in Request /\ Over.at = "over" /\ Over.held = {} /\ p \in Names /\ on # NoName
  BY <1>4, NewOK, Constants
<1>7. totp.secret # NoName /\ totp.verified
  BY <1>4 DEF IInv, Factor
<1>8. (code[1] = "totp" => code \in TotpCodes) /\ (code[1] # "totp" => code \in codes)
  BY <1>4, <1>7, AcceptedIsNew
<1>9. /\ totp' \in Store!TotpRow /\ totp'.secret = totp.secret /\ totp'.active = totp.active
      /\ totp'.verified = totp.verified /\ totp'.step = (IF code[1] = "totp" THEN code[3] ELSE totp.step)
      /\ codes' \subseteq codes /\ (code[1] # "totp" => codes' = codes \ {code})
  <2>1. totp \in Store!TotpRow
    BY DEF IInv, Tables
  <2>2. CASE code[1] = "totp"
    <3>1. PICK x : x = code[3]
      OBVIOUS
    <3>2. x \in Store!Steps
      BY <1>8, <2>2, <3>1 DEF TotpCodes
    <3>3. totp' = [totp EXCEPT !.step = x] /\ codes' = codes
      BY <1>3, <2>2, <3>1
    <3>4. /\ totp' \in Store!TotpRow /\ totp'.secret = totp.secret /\ totp'.active = totp.active
          /\ totp'.verified = totp.verified /\ totp'.step = x
      BY <2>1, <3>2, <3>3 DEF Store!TotpRow
    <3> QED BY <2>2, <3>1, <3>3, <3>4
  <2>3. CASE code[1] # "totp"
    BY <1>3, <2>1, <2>3
  <2> QED BY <2>2, <2>3
<1>10. codes' \subseteq BackupCodes /\ code \notin codes'
  <2>1. codes \subseteq BackupCodes /\ \A k \in BackupCodes : k[1] # "totp"
    BY DEF IInv, Tables, BackupCodes
  <2> QED BY <1>9, <2>1
<1>11. /\ challenge' \in Store!ChallengeRow /\ challenge'.consumed = TRUE /\ challenge'.token = on
       /\ challenge'.tries = challenge.tries
  BY <1>1, <1>4 DEF IInv, Tables, Store!ChallengeRow, Store!Consumed
<1>12. /\ sessions' \in [Names -> Store!Families] /\ sessions'[p] = "live"
       /\ \A n \in Names \ {p} : sessions'[n] = sessions[n]
  BY <1>3, <1>6 DEF IInv, Tables, Store!Families
<1>13. via' \in [Names -> Names] /\ via'[p] = on /\ \A n \in Names \ {p} : via'[n] = via[n]
  BY <1>3, <1>4, <1>6 DEF IInv, Histories
<1>14. Onward(p, Over)
  BY <1>1, <1>6 DEF Onward
<1>15. ASSUME NEW q \in Requests \ {p}, NEW s \in Request, s = req[q], Knows(q, s) PROVE Knows(q, s)'
  <2>1. "challenge" \notin s.held /\ "totp" \notin s.held
    BY <1>5, <1>15, HasIt
  <2>2. s.at \in Signing => Word(q)'
    BY <1>1, <1>15 DEF Knows, KnowsOwn, Word
  <2>3. Outstanding' = Outstanding
    BY <1>1 DEF Outstanding
  <2>4. sessions'[q] = sessions[q]
    BY <1>12, Constants
  <2> QED BY <1>1, <1>9, <1>11, <1>15, <2>1, <2>2, <2>3, <2>4, OtherKnows
<1>16. req' \in [Requests -> Request] /\ \A q \in Requests : Knows(q, req[q])'
  BY <1>1, <1>6, <1>15, OverKnows, AllKnow
<1>17. Apart'
  BY <1>1, <1>6, ApartStays DEF Signing
<1>18. Spent' /\ accepted' \in Seq(TotpCodes \cup BackupCodes) /\ Proven'
  <2>1. \A k \in codes' : (k \in codes /\ k # code) \/ k[2] = p
    BY <1>9, <1>10
  <2>2. req[p].at \notin {"over", "count login"}
    BY <1>1
  <2>3. Takes(p, code)
    BY <1>3, <1>9, <2>1 DEF Takes
  <2>4. req' = [req EXCEPT ![p] = Over] /\ totp.secret # NoName /\ code \in Shown /\ (Later(code) \/ code \in codes)
    BY <1>1, <1>4, <1>7
  <2>5. Spent' /\ accepted' \in Seq(TotpCodes \cup BackupCodes) /\ ((totp'.verified => totp.verified \/ code[1] = "totp") => Proven')
    BY <2>2, <2>3, <2>4, AcceptedIsSpent
  <2> QED BY <1>9, <2>5
<1>19. \A n : (Made(n) => Made(n)') /\ (Issued(n) => Issued(n)')
  BY <1>1, <1>6, <1>14, MadeStays
<1>20. Factor'
  BY <1>4, <1>7, <1>9, <1>18, <1>19 DEF IInv, Factor
<1>21. Challenged'
  BY <1>1, <1>4, <1>6, <1>11, <1>19 DEF IInv, Challenged, GuessesAreBounded
<1>22. Entered'
  <2>1. Entered /\ Issued(on) /\ Word(on)
    BY <1>4, <1>6 DEF IInv, Challenged
  <2>2. \A n \in Names : (IF sessions[n] = "none" THEN via[n] = n ELSE Issued(via[n]))'
    BY <1>12, <1>13, <1>19, <2>1 DEF Entered
  <2>3. ResetEndsAccess'
    BY <1>1, <1>12, <1>13, <2>1 DEF Entered, ResetEndsAccess, Word
  <2>4. NobodyWaitsInVain'
    BY <1>4, <1>9, <1>12, <2>1 DEF Entered, NobodyWaitsInVain
  <2> QED BY <2>2, <2>3, <2>4 DEF Entered
<1>23. Linked' /\ Mailing'
  BY <1>1, LinkedStays
<1>24. Counted'
  BY <1>1, <1>6, CountedStays
<1>25. Tables' /\ Histories'
  BY <1>1, <1>9, <1>10, <1>11, <1>12, <1>13, <1>18 DEF IInv, Tables, Histories
<1> QED BY <1>16, <1>17, <1>18, <1>20, <1>21, <1>22, <1>23, <1>24, <1>25 DEF IInv

\* The second factor goes, or another secret takes its place; the codes go, and
\* the challenge may.
LEMMA FactorGoes ==
  ASSUME IInv, NEW p \in Requests, req' = [req EXCEPT ![p] = Over],
         req[p].at \notin {"over", "mail", "count login", "count code"}, Free(p, "totp"), codes' = {},
         totp' = Store!NoTotp \/ totp' = Store!Pending(p),
         challenge' = challenge \/ (challenge' = Store!NoChallenge /\ "challenge" \in req[p].held),
         UNCHANGED <<links, password, sessions, orgVars, mailVars, cookies, spent, tried, ghostVars>>
  PROVE  IInv'
<1>1. /\ UNCHANGED <<links, password, sessions, queued, inbox, requireTotp, clock, outdated, cookies, spent, tried>>
      /\ UNCHANGED <<accepted, guesses, word, via, crossed, chosen, revived>>
  BY DEF orgVars, mailVars, ghostVars
<1>2. Over \in Request /\ Over.at = "over" /\ Over.held = {} /\ p \in Names /\ NoName \notin Names /\ Onward(p, Over)
  BY NewOK, Constants DEF Onward
<1>3. PICK x \in {NoName, p} : totp' = [secret |-> x, verified |-> FALSE, active |-> FALSE, late |-> FALSE, tries |-> 0, step |-> -1]
  BY DEF Store!NoTotp, Store!Pending
<1>4. totp' \in Store!TotpRow /\ totp'.secret = x /\ totp'.verified = FALSE /\ totp'.active = FALSE
  <2>1. x \in Store!Names \cup {NoName} /\ 0 \in 0 .. MaxSetupAttempts
    BY <1>2, Zero DEF Names
  <2> QED BY <1>3, <2>1 DEF Store!TotpRow
<1>5. \A n : (Made(n) => Made(n)') /\ (Issued(n) => Issued(n)')
  BY <1>2, MadeStays
<1>6. Made(p)' /\ ~Made(p)
  BY <1>2, Moved DEF Made
<1>7. challenge' = challenge \/ (challenge'.token = NoName /\ challenge'.consumed = TRUE /\ challenge' \in Store!ChallengeRow)
  <2>1. 0 \in 0 .. MaxChallengeAttempts
    BY Zero
  <2>2. Store!NoChallenge.token = NoName /\ Store!NoChallenge.consumed = TRUE /\ Store!NoChallenge \in Store!ChallengeRow
    BY <2>1 DEF Store!NoChallenge, Store!ChallengeRow
  <2> QED BY <2>2
<1>8. ASSUME NEW q \in Requests \ {p}, NEW s \in Request, s = req[q], Knows(q, s) PROVE Knows(q, s)'
  <2>1. "totp" \notin s.held
    BY <1>8, HasIt
  <2>2. s.at \in Signing => Word(q)'
    BY <1>1, <1>8 DEF Knows, KnowsOwn, Word
  <2>3. Outstanding' = Outstanding
    BY <1>1 DEF Outstanding
  <2>4. \/ challenge' = challenge /\ crossed \subseteq crossed'
        \/ "challenge" \notin s.held /\ (s.at = "sweep" => challenge'.consumed \/ challenge'.token \in crossed')
    <3>1. CASE challenge' = challenge
      BY <1>1, <3>1
    <3>2. CASE challenge' # challenge
      <4>1. "challenge" \in req[p].held /\ challenge'.consumed = TRUE
        BY <1>7, <3>2
      <4>2. "challenge" \notin s.held
        BY <1>8, <4>1, HasIt
      <4> QED BY <4>1, <4>2
    <3> QED BY <3>1, <3>2
  <2> QED BY <1>1, <1>4, <1>8, <2>1, <2>2, <2>3, <2>4, OtherKnows
<1>9. req' \in [Requests -> Request] /\ \A q \in Requests : Knows(q, req[q])'
  BY <1>2, <1>8, OverKnows, AllKnow
<1>10. Apart'
  BY <1>1, <1>2, ApartStays DEF Signing
<1>11. Factor'
  BY <1>4, <1>6 DEF Factor, Proven
<1>12. Spent'
  <2>1. \A i \in DOMAIN accepted : Made(accepted[i][2]) /\ accepted[i][2] \in Names
    <3>1. \A k \in TotpCodes \cup BackupCodes : k[2] \in Names
      BY DEF TotpCodes, BackupCodes
    <3> QED BY <3>1, CodeTypes DEF IInv, Spent
  <2>2. \A i \in DOMAIN accepted : accepted[i][2] # x
    BY <1>2, <1>3, <1>6, <2>1
  <2> QED BY <1>1, <1>4, <1>5, <2>1, <2>2 DEF IInv, Spent, CodesWorkOnce
<1>13. Challenged'
  <2>1. Challenged
    BY DEF IInv
  <2>2. CASE challenge' = challenge
    BY <1>1, <1>2, <2>2, ChallengedStays
  <2>3. CASE challenge'.token = NoName /\ challenge'.consumed = TRUE
    BY <1>1, <2>1, <2>3 DEF Challenged, GuessesAreBounded
  <2> QED BY <1>7, <2>2, <2>3
<1>14. Entered' /\ Linked' /\ Mailing'
  BY <1>1, <1>2, <1>4, EnteredStays, LinkedStays
<1>15. Counted'
  BY <1>1, <1>2, CountedStays
<1>16. Tables' /\ Histories'
  BY <1>1, <1>4, <1>7 DEF IInv, Tables, Histories
<1> QED BY <1>9, <1>10, <1>11, <1>12, <1>13, <1>14, <1>15, <1>16 DEF IInv

\* A setup replaces the one before, is too old, or is turned off.
LEMMA InstallKeeps == ASSUME IInv, NEW p \in Requests, InstallSetup(p) \/ deletePendingSetup(p) PROVE IInv'
<1>1. req[p].at \in {"install", "verify"} /\ Free(p, "totp") /\ codes' = {} /\ req' = [req EXCEPT ![p] = Over]
  BY DEF InstallSetup, deletePendingSetup, Verifiable, End, Go
<1>2. /\ totp' = Store!NoTotp \/ totp' = Store!Pending(p)
      /\ challenge' = challenge
      /\ UNCHANGED <<links, password, sessions, orgVars, mailVars, cookies, spent, tried, ghostVars>>
  BY DEF InstallSetup, deletePendingSetup
<1> QED BY <1>1, <1>2, FactorGoes

LEMMA DropKeeps == ASSUME IInv, NEW p \in Requests, DropTotp(p) PROVE IInv'
<1>1. /\ req[p].at = "drop totp" /\ Free(p, "totp") /\ req' = [req EXCEPT ![p] = Over]
      /\ UNCHANGED <<links, password, sessions, orgVars, mailVars, cookies, spent, tried, ghostVars>>
  BY DEF DropTotp, End, Go
<1>2. CASE totp.active
  <2>1. /\ totp' = Store!NoTotp /\ codes' = {}
        /\ challenge' = challenge \/ (challenge' = Store!NoChallenge /\ "challenge" \in req[p].held)
    BY <1>2 DEF DropTotp
  <2> QED BY <1>1, <2>1, FactorGoes
<1>3. CASE ~totp.active
  <2>1. UNCHANGED <<storeVars, orgVars, mailVars, cookies, spent, tried, ghostVars>>
    BY <1>1, <1>3 DEF DropTotp, storeVars
  <2> QED BY <1>1, <2>1, EndKeeps, TablesStay
<1> QED BY <1>2, <1>3

\* Steps at whose end the row is the one it was but for what is on, shown or
\* counted in it.
Same == totp' \in Store!TotpRow /\ totp'.secret = totp.secret /\ totp'.step = totp.step

\* A wrong code is counted by the setup.
LEMMA BurnSetupKeeps == ASSUME IInv, NEW p \in Requests, burnSetupAttempt(p) PROVE IInv'
<1>1. /\ req[p].at = "verify" /\ Free(p, "totp") /\ req' = [req EXCEPT ![p] = Over] /\ UNCHANGED challenge
      /\ UNCHANGED <<links, password, sessions, orgVars, mailVars, cookies, spent, tried, ghostVars>>
  BY DEF burnSetupAttempt, Verifiable, End, Go
<1>2. CASE totp' = Store!NoTotp /\ codes' = {}
  BY <1>1, <1>2, FactorGoes
<1>3. CASE totp' = [totp EXCEPT !.tries = @ + 1] /\ codes' = codes /\ totp.tries + 1 < MaxSetupAttempts
  <2>1. /\ UNCHANGED <<links, password, sessions, queued, inbox, requireTotp, clock, outdated, cookies, spent, tried>>
        /\ UNCHANGED <<accepted, guesses, word, via, crossed, chosen, revived>>
    BY <1>1 DEF orgVars, mailVars, ghostVars
  <2>2. Over \in Request /\ Over.at = "over" /\ Over.held = {} /\ Onward(p, Over)
    BY <1>1, NewOK DEF Onward
  <2>3. PICK k : k = totp.tries + 1
    OBVIOUS
  <2>4. totp \in Store!TotpRow /\ totp.tries \in Nat
    BY Constants DEF IInv, Tables, Store!TotpRow
  <2>5. k \in 0 .. MaxSetupAttempts
    BY <1>3, <2>3, <2>4, Constants
  <2>6. totp' = [totp EXCEPT !.tries = k]
    BY <1>3, <2>3
  <2>7. Same /\ totp'.verified = totp.verified /\ totp'.active = totp.active
    BY <2>4, <2>5, <2>6 DEF Same, Store!TotpRow
  <2>8. ASSUME NEW q \in Requests \ {p}, NEW s \in Request, s = req[q], Knows(q, s) PROVE Knows(q, s)'
    <3>1. "totp" \notin s.held
      BY <1>1, <2>8, HasIt
    <3>2. s.at \in Signing => Word(q)'
      BY <2>1, <2>8 DEF Knows, KnowsOwn, Word
    <3>3. Outstanding' = Outstanding
      BY <2>1 DEF Outstanding
    <3> QED BY <1>1, <2>1, <2>7, <2>8, <3>1, <3>2, <3>3, OtherKnows
  <2>9. req' \in [Requests -> Request] /\ \A q \in Requests : Knows(q, req[q])'
    BY <1>1, <2>2, <2>8, OverKnows, AllKnow
  <2>10. Apart'
    BY <1>1, <2>1, <2>2, ApartStays DEF Signing
  <2>11. \A n : Made(n) => Made(n)'
    BY <1>1, <2>2, MadeStays
  <2>12. Factor'
    BY <1>3, <2>1, <2>7, <2>11 DEF IInv, Factor, Proven, Same
  <2>13. Spent'
    BY <1>3, <2>1, <2>7, <2>11 DEF IInv, Spent, CodesWorkOnce, Same
  <2>14. Challenged' /\ Entered' /\ Linked' /\ Mailing'
    BY <1>1, <2>1, <2>2, <2>7, ChallengedStays, EnteredStays, LinkedStays
  <2>15. Counted'
    BY <1>1, <2>1, <2>2, CountedStays
  <2>16. Tables' /\ Histories'
    BY <1>1, <1>3, <2>1, <2>7 DEF IInv, Tables, Histories, Same
  <2> QED BY <2>9, <2>10, <2>12, <2>13, <2>14, <2>15, <2>16 DEF IInv
<1> QED BY <1>2, <1>3 DEF burnSetupAttempt

\* A batch of codes that is nobody else's.
LEMMA BatchIsNew ==
  ASSUME NEW p \in Requests
  PROVE  /\ Store!Batch(p) \subseteq BackupCodes /\ Store!Batch(p) # {}
         /\ \A k \in Store!Batch(p) : k[1] = "recovery" /\ k[2] = p
<1>1. 1 \in 1 .. RecoveryCodeCount /\ p \in Names
  BY Constants
<1>2. <<"recovery", p, 1>> \in Store!Batch(p)
  BY <1>1 DEF Store!Batch
<1>3. Store!Batch(p) \subseteq BackupCodes
  BY <1>1 DEF Store!Batch, BackupCodes
<1>4. \A k \in Store!Batch(p) : k[1] = "recovery" /\ k[2] = p
  BY DEF Store!Batch
<1> QED BY <1>2, <1>3, <1>4

\* A code of the setup is shown: it is verified, and has recovery codes.
LEMMA RecordKeeps == ASSUME IInv, NEW p \in Requests, RecordVerification(p) PROVE IInv'
<1>1. /\ req[p].at = "codes" /\ req' = [req EXCEPT ![p] = Over] /\ codes' = Store!Batch(p)
      /\ UNCHANGED <<challenge, links, password, sessions, queued, inbox, requireTotp, clock, outdated, cookies, spent, tried>>
      /\ UNCHANGED <<guesses, word, via, crossed, chosen, revived>>
  BY DEF RecordVerification, replaceRecoveryCodes, End, Go, orgVars, mailVars
<1>2. PICK code, x : code = req[p].code /\ x = code[3]
  OBVIOUS
<1>3. totp' = [totp EXCEPT !.verified = TRUE, !.step = x, !.tries = 0] /\ accepted' = Append(accepted, code)
  BY <1>2 DEF RecordVerification
<1>4. code \in Shown /\ totp.secret # NoName /\ ~totp.active /\ Later(code) /\ code[1] = "totp"
  BY <1>1, <1>2, AtHand DEF Knows, KnowsFactor, Answering, Later
<1>5. req[p].held = {"totp"} /\ req[p].at \notin {"over", "count login"}
  BY <1>1, AtHand DEF Knows, KnowsLocks
<1>6. Over \in Request /\ Over.at = "over" /\ Over.held = {} /\ Onward(p, Over)
  BY <1>1, NewOK DEF Onward
<1>7. /\ totp' \in Store!TotpRow /\ totp'.secret = totp.secret /\ totp'.active = totp.active
      /\ totp'.verified = TRUE /\ totp'.step = x
  <2>1. code \in TotpCodes
    BY <1>4, AcceptedIsNew
  <2>2. x \in Store!Steps
    BY <1>2, <2>1 DEF TotpCodes
  <2>3. totp \in Store!TotpRow /\ 0 \in 0 .. MaxSetupAttempts
    BY Zero DEF IInv, Tables
  <2> QED BY <1>3, <2>2, <2>3 DEF Store!TotpRow
<1>8. codes' \subseteq BackupCodes /\ codes' # {} /\ \A k \in codes' : k[1] = "recovery" /\ k[2] = p
  BY <1>1, BatchIsNew
<1>9. Spent' /\ accepted' \in Seq(TotpCodes \cup BackupCodes) /\ Proven'
  <2>1. Takes(p, code)
    BY <1>2, <1>3, <1>4, <1>7, <1>8 DEF Takes
  <2>2. Spent' /\ accepted' \in Seq(TotpCodes \cup BackupCodes) /\ ((totp'.verified => totp.verified \/ code[1] = "totp") => Proven')
    BY <1>1, <1>4, <1>5, <2>1, AcceptedIsSpent
  <2> QED BY <1>4, <2>2
<1>10. ASSUME NEW q \in Requests \ {p}, NEW s \in Request, s = req[q], Knows(q, s) PROVE Knows(q, s)'
  <2>1. "totp" \notin s.held
    BY <1>5, <1>10, HasIt
  <2>2. s.at \in Signing => Word(q)'
    BY <1>1, <1>10 DEF Knows, KnowsOwn, Word
  <2>3. Outstanding' = Outstanding
    BY <1>1 DEF Outstanding
  <2> QED BY <1>1, <1>7, <1>10, <2>1, <2>2, <2>3, OtherKnows
<1>11. req' \in [Requests -> Request] /\ \A q \in Requests : Knows(q, req[q])'
  BY <1>1, <1>6, <1>10, OverKnows, AllKnow
<1>12. Apart'
  BY <1>1, <1>6, ApartStays DEF Signing
<1>13. Factor'
  <2>1. \A n : Made(n) => Made(n)'
    BY <1>1, <1>6, MadeStays
  <2> QED BY <1>4, <1>7, <1>8, <1>9, <2>1 DEF IInv, Factor
<1>14. Challenged' /\ Entered' /\ Linked' /\ Mailing'
  BY <1>1, <1>6, <1>7, ChallengedStays, EnteredStays, LinkedStays
<1>15. Counted'
  BY <1>1, <1>6, CountedStays
<1>16. Tables' /\ Histories'
  BY <1>1, <1>7, <1>8, <1>9 DEF IInv, Tables, Histories
<1> QED BY <1>9, <1>11, <1>12, <1>13, <1>14, <1>15, <1>16 DEF IInv

\* Recovery codes for a second factor that is on.
LEMMA ReplaceKeeps == ASSUME IInv, NEW p \in Requests, ReplaceRecoveryCodes(p) PROVE IInv'
<1>1. /\ req[p].at = "new codes" /\ req' = [req EXCEPT ![p] = Over] /\ codes' = Store!Batch(p)
      /\ UNCHANGED <<totp, challenge, links, password, sessions, queued, inbox, requireTotp, clock, outdated, cookies, spent, tried>>
      /\ UNCHANGED <<accepted, guesses, word, via, crossed, chosen, revived>>
  BY DEF ReplaceRecoveryCodes, replaceRecoveryCodes, End, Go, orgVars, mailVars, ghostVars
<1>2. req[p].held = {"totp"} /\ totp.active
  BY <1>1, AtHand DEF Knows, KnowsLocks, KnowsFactor
<1>3. Over \in Request /\ Over.at = "over" /\ Over.held = {} /\ Onward(p, Over)
  BY <1>1, NewOK DEF Onward
<1>4. codes' \subseteq BackupCodes /\ codes' # {} /\ \A k \in codes' : k[1] = "recovery" /\ k[2] = p
  BY <1>1, BatchIsNew
<1>5. ASSUME NEW q \in Requests \ {p}, NEW s \in Request, s = req[q], Knows(q, s) PROVE Knows(q, s)'
  <2>1. "totp" \notin s.held
    BY <1>2, <1>5, HasIt
  <2>2. s.at \in Signing => Word(q)'
    BY <1>1, <1>5 DEF Knows, KnowsOwn, Word
  <2>3. Outstanding' = Outstanding
    BY <1>1 DEF Outstanding
  <2> QED BY <1>1, <1>5, <2>1, <2>2, <2>3, OtherKnows
<1>6. req' \in [Requests -> Request] /\ \A q \in Requests : Knows(q, req[q])'
  BY <1>1, <1>3, <1>5, OverKnows, AllKnow
<1>7. Apart'
  BY <1>1, <1>3, ApartStays DEF Signing
<1>8. (\A n : Made(n) => Made(n)') /\ Made(p)' /\ ~Made(p)
  <2>1. \A n : Made(n) => Made(n)'
    BY <1>1, <1>3, MadeStays
  <2> QED BY <1>1, <1>3, <2>1, Moved DEF Made
<1>9. Factor'
  BY <1>1, <1>2, <1>8 DEF IInv, Factor, Proven
<1>10. Spent'
  BY <1>1, <1>4, <1>8 DEF IInv, Spent, CodesWorkOnce
<1>11. Challenged' /\ Entered' /\ Linked' /\ Mailing'
  BY <1>1, <1>3, ChallengedStays, EnteredStays, LinkedStays
<1>12. Counted'
  BY <1>1, <1>3, CountedStays
<1>13. Tables' /\ Histories'
  BY <1>1, <1>4 DEF IInv, Tables, Histories
<1> QED BY <1>6, <1>7, <1>9, <1>10, <1>11, <1>12, <1>13 DEF IInv

\* The second factor is on, and sessions that waited for it are free.
LEMMA ActivateKeeps == ASSUME IInv, NEW p \in Requests, SetActivated(p) PROVE IInv'
<1>1. /\ req[p].at = "activating" /\ Free(p, "totp") /\ req' = [req EXCEPT ![p] = Over]
      /\ UNCHANGED <<codes, challenge, links, password, queued, inbox, requireTotp, clock, outdated, cookies, spent, tried>>
      /\ UNCHANGED <<accepted, guesses, word, via, crossed, chosen, revived>>
  BY DEF SetActivated, End, Go, orgVars, mailVars, ghostVars
<1>2. CASE ~Ready(p)
  <2>1. UNCHANGED <<storeVars, orgVars, mailVars, cookies, spent, tried, ghostVars>>
    BY <1>1, <1>2 DEF SetActivated, storeVars, orgVars, mailVars, ghostVars
  <2> QED BY <1>1, <2>1, EndKeeps, TablesStay
<1>3. CASE Ready(p)
  <2>1. /\ totp' = [totp EXCEPT !.active = TRUE] /\ totp.verified
        /\ sessions' = [n \in Names |-> IF sessions[n] = "gated" THEN "live" ELSE sessions[n]]
    BY <1>3 DEF SetActivated, Ready
  <2>2. Over \in Request /\ Over.at = "over" /\ Over.held = {} /\ Onward(p, Over)
    BY <1>1, NewOK DEF Onward
  <2>3. /\ Same /\ totp'.verified = totp.verified /\ totp'.active = TRUE
    BY <2>1 DEF IInv, Tables, Same, Store!TotpRow
  <2>4. /\ sessions' \in [Names -> Store!Families]
        /\ \A n \in Names : /\ sessions'[n] # "gated"
                            /\ sessions'[n] = "none" <=> sessions[n] = "none"
                            /\ sessions'[n] = "live" => sessions[n] \in {"live", "gated"}
    BY <2>1 DEF IInv, Tables, Store!Families
  <2>5. ASSUME NEW q \in Requests \ {p}, NEW s \in Request, s = req[q], Knows(q, s) PROVE Knows(q, s)'
    <3>1. "mint" \in req[p].held
      BY <1>1, AtHand DEF Knows, KnowsLocks
    <3>2. "totp" \notin s.held /\ "mint" \notin s.held
      BY <1>1, <2>5, <3>1, HasIt
    <3>3. s.at \in Signing => Word(q)'
      BY <1>1, <2>5 DEF Knows, KnowsOwn, Word
    <3>4. Outstanding' = Outstanding
      BY <1>1 DEF Outstanding
    <3>5. sessions[q] = "none" => sessions'[q] = "none"
      BY <2>4, Constants
    <3> QED BY <1>1, <2>5, <3>2, <3>3, <3>4, <3>5, OtherKnows
  <2>6. req' \in [Requests -> Request] /\ \A q \in Requests : Knows(q, req[q])'
    BY <1>1, <2>2, <2>5, OverKnows, AllKnow
  <2>7. Apart'
    BY <1>1, <2>2, ApartStays DEF Signing
  <2>8. \A n : (Made(n) => Made(n)') /\ (Issued(n) => Issued(n)')
    BY <1>1, <2>2, MadeStays
  <2>9. Factor'
    BY <1>1, <2>1, <2>3, <2>8 DEF IInv, Factor, Proven, Same
  <2>10. Spent'
    BY <1>1, <2>3, <2>8 DEF IInv, Spent, CodesWorkOnce, Same
  <2>11. Entered'
    <3>1. Entered
      BY DEF IInv
    <3>2. \A n \in Names : (IF sessions[n] = "none" THEN via[n] = n ELSE Issued(via[n]))'
      BY <1>1, <2>4, <2>8, <3>1 DEF Entered
    <3>3. ResetEndsAccess'
      BY <1>1, <2>4, <3>1 DEF Entered, ResetEndsAccess
    <3>4. NobodyWaitsInVain'
      BY <2>4 DEF NobodyWaitsInVain
    <3> QED BY <3>2, <3>3, <3>4 DEF Entered
  <2>12. Challenged' /\ Linked' /\ Mailing'
    BY <1>1, <2>2, ChallengedStays, LinkedStays
  <2>13. Counted'
    BY <1>1, <2>2, CountedStays
  <2>14. Tables' /\ Histories'
    BY <1>1, <2>3, <2>4 DEF IInv, Tables, Histories, Same
  <2> QED BY <2>6, <2>7, <2>9, <2>10, <2>11, <2>12, <2>13, <2>14 DEF IInv
<1> QED BY <1>2, <1>3

-------------------------------------------------------------------------------
(* Links, and what a reset ends.                                           *)

\* The link replaces those before.
LEMMA IssueKeeps == ASSUME IInv, NEW p \in Requests, CreatePasswordResetToken(p) PROVE IInv'
<1>1. /\ req[p].at = "issue"
      /\ UNCHANGED <<totp, codes, challenge, password, sessions, queued, inbox, requireTotp, clock, outdated, cookies, spent, tried>>
      /\ UNCHANGED <<accepted, guesses, word, via, crossed, chosen, revived>>
  BY DEF CreatePasswordResetToken, orgVars, mailVars, ghostVars
<1>2. PICK seen : seen = req[p].seen
  OBVIOUS
<1>3. links' = [n \in Names |-> IF n = p THEN "live" ELSE IF n \in seen THEN "used" ELSE links[n]]
  BY <1>2 DEF CreatePasswordResetToken
<1>4. PICK r : r = [New EXCEPT !.at = "mail"]
  OBVIOUS
<1>5. req' = [req EXCEPT ![p] = r]
  BY <1>4 DEF CreatePasswordResetToken, Go
<1>6. r \in Request /\ r.at = "mail" /\ r.held = {}
  <2>1. New \in Request /\ New.held = {} /\ "mail" \in Places
    BY NewOK DEF Places
  <2> QED BY <1>4, <2>1 DEF Request
<1>7. /\ Outstanding \subseteq seen /\ (\A n \in seen : links[n] # "none") /\ sessions[p] = "none"
      /\ req[p].held = {"account"}
  BY <1>1, <1>2, AtHand DEF Knows, KnowsLinks, KnowsOwn, KnowsLocks
<1>8. p \in Names /\ Onward(p, r)
  BY <1>1, Constants DEF Onward
<1>9. /\ links' \in [Names -> Store!LinkStates] /\ links'[p] = "live"
      /\ \A n \in Names : links[n] # "none" => links'[n] # "none"
      /\ \A n \in Names \ {p} : links[n] = "none" => links'[n] = "none"
  BY <1>3, <1>7, <1>8 DEF IInv, Tables, Store!LinkStates
<1>10. Outstanding' \subseteq {p}
  BY <1>3, <1>7, <1>8 DEF Outstanding
<1>11. ASSUME NEW q \in Requests \ {p}, NEW s \in Request, s = req[q], Knows(q, s) PROVE Knows(q, s)'
  <2>1. "account" \notin s.held
    BY <1>7, <1>11, HasIt
  <2>2. s.at \in Signing => Word(q)'
    BY <1>1, <1>11 DEF Knows, KnowsOwn, Word
  <2>3. links[q] = "none" => links'[q] = "none"
    BY <1>9, Constants
  <2> QED BY <1>1, <1>9, <1>11, <2>1, <2>2, <2>3, OtherKnows
<1>12. Knows(p, r)'
  <2>1. KnowsOwn(p, r)'
    BY <1>1, <1>6, <1>7, <1>9 DEF KnowsOwn, Signing
  <2>2. KnowsLocks(r)' /\ KnowsChallenge(r)' /\ KnowsFactor(r)' /\ KnowsLinks(r)'
    BY <1>6 DEF KnowsLocks, KnowsChallenge, KnowsFactor, KnowsLinks, Answering, Resetting
  <2> QED BY <2>1, <2>2 DEF Knows
<1>13. req' \in [Requests -> Request] /\ \A q \in Requests : Knows(q, req[q])'
  BY <1>5, <1>6, <1>11, <1>12, AllKnow
<1>14. Apart'
  BY <1>1, <1>5, <1>6, ApartStays DEF Signing
<1>15. Factor' /\ Spent' /\ Challenged' /\ Entered'
  BY <1>1, <1>5, <1>6, <1>8, FactorStays, ChallengedStays, EnteredStays
<1>16. Linked' /\ Mailing'
  <2>1. queued \subseteq Names /\ inbox \subseteq Names
    BY DEF IInv, Tables
  <2> QED BY <1>1, <1>9, <1>10, <2>1 DEF IInv, Linked, Mailing
<1>17. Counted'
  BY <1>1, <1>5, <1>6, CountedStays
<1>18. Tables' /\ Histories'
  BY <1>1, <1>9 DEF IInv, Tables, Histories
<1> QED BY <1>13, <1>14, <1>15, <1>16, <1>17, <1>18 DEF IInv

\* The queue, which may be full.
LEMMA QueueGrows ==
  ASSUME NEW Q, NEW x, IsFiniteSet(Q), Cardinality(Q) <= QueueSize,
         NEW R, R = IF Cardinality(Q) < QueueSize THEN Q \cup {x} ELSE Q
  PROVE  IsFiniteSet(R) /\ Cardinality(R) <= QueueSize
<1>1. Cardinality(Q) \in Nat /\ QueueSize \in Nat
  BY FS_CardinalityType, Constants
<1>2. CASE Cardinality(Q) < QueueSize
  <2>1. R = Q \cup {x}
    BY <1>2
  <2>2. IsFiniteSet(R) /\ (Cardinality(R) = Cardinality(Q) \/ Cardinality(R) = Cardinality(Q) + 1)
    BY <2>1, FS_AddElement
  <2> QED BY <1>1, <1>2, <2>2
<1>3. CASE ~(Cardinality(Q) < QueueSize)
  BY <1>3
<1> QED BY <1>2, <1>3

LEMMA SendKeeps == ASSUME IInv, NEW p \in Requests, SendPasswordReset(p) PROVE IInv'
<1>1. /\ req[p].at = "mail" /\ req' = [req EXCEPT ![p] = Over]
      /\ queued' = IF Cardinality(queued) < QueueSize THEN queued \cup {p} ELSE queued
      /\ UNCHANGED <<totp, codes, challenge, links, password, sessions, inbox, requireTotp, clock, outdated, cookies, spent, tried>>
      /\ UNCHANGED <<accepted, guesses, word, via, crossed, chosen, revived>>
  BY DEF SendPasswordReset, End, Go, storeVars, orgVars, ghostVars
<1>2. Over \in Request /\ Over.at = "over" /\ Over.held = {} /\ Onward(p, Over) /\ p \in Names
  BY <1>1, NewOK, Constants DEF Onward
<1>3. links[p] # "none"
  BY <1>1, AtHand DEF Knows, KnowsOwn
<1>4. ASSUME NEW q \in Requests \ {p}, NEW s \in Request, s = req[q], Knows(q, s) PROVE Knows(q, s)'
  <2>1. s.at \in Signing => Word(q)'
    BY <1>1, <1>4 DEF Knows, KnowsOwn, Word
  <2>2. Outstanding' = Outstanding
    BY <1>1 DEF Outstanding
  <2> QED BY <1>1, <1>4, <2>1, <2>2, OtherKnows
<1>5. req' \in [Requests -> Request] /\ \A q \in Requests : Knows(q, req[q])'
  BY <1>1, <1>2, <1>4, OverKnows, AllKnow
<1>6. Apart'
  BY <1>1, <1>2, ApartStays DEF Signing
<1>7. Factor' /\ Spent' /\ Challenged' /\ Entered'
  BY <1>1, <1>2, FactorStays, ChallengedStays, EnteredStays
<1>8. queued' \subseteq queued \cup {p}
  BY <1>1
<1>9. Linked'
  BY <1>1, <1>3, <1>8 DEF IInv, Linked, Outstanding
<1>10. Mailing'
  <2>1. IsFiniteSet(queued) /\ Cardinality(queued) <= QueueSize
    BY DEF IInv, Mailing
  <2>2. PICK R : R = queued'
    OBVIOUS
  <2>3. R = IF Cardinality(queued) < QueueSize THEN queued \cup {p} ELSE queued
    BY <1>1, <2>2
  <2>4. IsFiniteSet(R) /\ Cardinality(R) <= QueueSize
    BY <2>1, <2>3, QueueGrows
  <2> QED BY <2>2, <2>4 DEF Mailing
<1>11. Counted'
  BY <1>1, <1>2, CountedStays
<1>12. Tables' /\ Histories'
  BY <1>1, <1>2, <1>8 DEF IInv, Tables, Histories
<1> QED BY <1>5, <1>6, <1>7, <1>9, <1>10, <1>11, <1>12 DEF IInv

\* A reset finds the challenge, and meets sign-ins.
LEMMA MeetKeeps == ASSUME IInv, NEW p \in Requests, ConsumeChallenges(p) PROVE IInv'
<1>1. /\ req[p].at = "consume" /\ (~challenge.consumed => Free(p, "challenge")) /\ crossed' = crossed \cup SigningIn
      /\ UNCHANGED <<totp, codes, challenge, links, password, sessions, queued, inbox, requireTotp, clock, outdated, cookies>>
      /\ UNCHANGED <<spent, tried, accepted, guesses, word, via, chosen, revived>>
  BY DEF ConsumeChallenges, storeVars, orgVars, mailVars
<1>2. req[p] \in Request /\ req[p].held = {"account"} /\ sessions[p] = "none" /\ links[p] = "none"
  BY <1>1, AtHand DEF Knows, KnowsLocks, KnowsOwn
<1>3. PICK h : h = req[p].held \cup (IF challenge.consumed THEN {} ELSE {"challenge"})
  OBVIOUS
<1>4. PICK r : r = [req[p] EXCEPT !.at = "sweep", !.held = h]
  OBVIOUS
<1>5. req' = [req EXCEPT ![p] = r]
  BY <1>3, <1>4 DEF ConsumeChallenges, Go
<1>6. /\ h \in {{"account"}, {"account", "challenge"}}
      /\ "challenge" \in h \/ challenge.consumed
      /\ "challenge" \in h => ~challenge.consumed
  BY <1>2, <1>3
<1>7. h \in SUBSET Locks /\ "sweep" \in Places
  BY <1>6 DEF Locks, Places, Resetting
<1>8. r \in Request /\ r.at = "sweep" /\ r.held = h /\ r.on = req[p].on
  BY <1>2, <1>4, <1>7 DEF Request
<1>9. Onward(p, r) /\ crossed \subseteq crossed' /\ crossed' \subseteq Names
  BY <1>1, Constants DEF Onward, SigningIn, IInv, Histories
<1>10. ASSUME NEW q \in Requests \ {p}, NEW s \in Request, s = req[q], Knows(q, s) PROVE Knows(q, s)'
  <2>1. s.at \in Signing => Word(q)'
    BY <1>1, <1>9, <1>10 DEF Knows, KnowsOwn, Word
  <2>2. Outstanding' = Outstanding
    BY <1>1 DEF Outstanding
  <2> QED BY <1>1, <1>9, <1>10, <2>1, <2>2, OtherKnows
<1>11. Knows(p, r)'
  <2>1. KnowsOwn(p, r)'
    BY <1>1, <1>2, <1>8 DEF KnowsOwn, Signing
  <2>2. KnowsLocks(r)'
    BY <1>6, <1>8 DEF KnowsLocks
  <2>3. KnowsChallenge(r)' /\ KnowsFactor(r)'
    BY <1>1, <1>6, <1>8 DEF KnowsChallenge, KnowsFactor, Answering
  <2>4. req[p].on \in Names /\ links[req[p].on] # "none" /\ req[p].on \in Outstanding
    BY <1>1, AtHand DEF Knows, KnowsLinks, Resetting
  <2>5. Outstanding' = Outstanding
    BY <1>1 DEF Outstanding
  <2>6. KnowsLinks(r)'
    BY <1>1, <1>8, <2>4, <2>5 DEF KnowsLinks
  <2> QED BY <2>1, <2>2, <2>3, <2>6 DEF Knows
<1>12. req' \in [Requests -> Request] /\ \A q \in Requests : Knows(q, req[q])'
  BY <1>5, <1>8, <1>10, <1>11, AllKnow
<1>13. Apart'
  <2>1. \A q \in Requests \ {p} : "account" \notin req[q].held
    BY <1>2, HasIt
  <2>2. "challenge" \in h => \A q \in Requests \ {p} : "challenge" \notin req[q].held
    BY <1>1, <1>6, HasIt
  <2>3. \A q \in Requests \ {p} : r.held \cap req[q].held = {}
    BY <1>6, <1>8, <2>1, <2>2
  <2>4. \A q \in Requests : req[q].at \in Signing => q \in crossed'
    BY <1>1 DEF SigningIn, Signing
  <2>5. r.at \notin Signing
    BY <1>8 DEF Signing
  <2> QED BY <1>5, <1>8, <1>9, <2>3, <2>4, <2>5, ApartStays
<1>14. Factor' /\ Spent' /\ Challenged' /\ Entered' /\ Linked' /\ Mailing'
  BY <1>1, <1>5, <1>8, <1>9, FactorStays, ChallengedStays, EnteredStays, LinkedStays
<1>15. Counted'
  BY <1>1, <1>5, <1>8, CountedStays
<1>16. Tables' /\ Histories'
  BY <1>1, <1>9 DEF IInv, Tables, Histories
<1> QED BY <1>12, <1>13, <1>14, <1>15, <1>16 DEF IInv

\* The old password ends, and what it opened.
LEMMA ResetKeeps == ASSUME IInv, NEW p \in Requests, ConsumePasswordReset(p) PROVE IInv'
<1>1. /\ req[p].at = "sweep" /\ req' = [req EXCEPT ![p] = Over] /\ crossed' = crossed \cup SigningIn
      /\ password' = p /\ outdated' = FALSE /\ chosen' = p /\ revived' = {}
      /\ UNCHANGED <<totp, codes, queued, inbox, requireTotp, clock, cookies, spent, tried, accepted, guesses, word, via>>
  BY DEF ConsumePasswordReset, End, Go, orgVars, mailVars
<1>2. /\ links' = [n \in Names |-> IF n \in Outstanding THEN "used" ELSE links[n]]
      /\ challenge' = IF "challenge" \in req[p].held THEN Store!Consumed(challenge) ELSE challenge
      /\ sessions' = [n \in Names |-> IF sessions[n] = "none" THEN "none" ELSE "revoked"]
  BY DEF ConsumePasswordReset
<1>3. /\ "account" \in req[p].held
      /\ "challenge" \in req[p].held \/ challenge.consumed \/ challenge.token \in crossed
  BY <1>1, AtHand DEF Knows, KnowsLocks, KnowsChallenge
<1>4. Over \in Request /\ Over.at = "over" /\ Over.held = {} /\ Onward(p, Over) /\ p \in Names
  BY <1>1, NewOK, Constants DEF Onward
<1>5. /\ links' \in [Names -> Store!LinkStates] /\ Outstanding' = {}
      /\ \A n \in Names : links[n] = "none" <=> links'[n] = "none"
  <2>1. links \in [Names -> Store!LinkStates]
    BY DEF IInv, Tables
  <2>2. \A n \in Names : links'[n] = IF links[n] \in {"live", "late"} THEN "used" ELSE links[n]
    BY <1>2 DEF Outstanding
  <2> QED BY <1>2, <2>1, <2>2 DEF Outstanding, Store!LinkStates
<1>6. /\ sessions' \in [Names -> Store!Families] /\ \A n \in Names : sessions'[n] \in {"none", "revoked"}
      /\ \A n \in Names : sessions[n] = "none" <=> sessions'[n] = "none"
  BY <1>2 DEF Store!Families
<1>7. /\ challenge' \in Store!ChallengeRow /\ challenge'.token = challenge.token /\ challenge'.tries = challenge.tries
      /\ ~challenge'.consumed => ~challenge.consumed /\ challenge.token \in crossed
      /\ challenge' = challenge \/ ("challenge" \in req[p].held /\ challenge'.consumed = TRUE)
  <2>1. challenge \in Store!ChallengeRow
    BY DEF IInv, Tables
  <2>2. CASE "challenge" \in req[p].held
    <3>1. challenge' = [challenge EXCEPT !.consumed = TRUE]
      BY <1>2, <2>2 DEF Store!Consumed
    <3> QED BY <2>1, <2>2, <3>1 DEF Store!ChallengeRow
  <2>3. CASE "challenge" \notin req[p].held
    BY <1>2, <1>3, <2>1, <2>3
  <2> QED BY <2>2, <2>3
<1>8. crossed \subseteq crossed' /\ crossed' \subseteq Names
  BY <1>1, Constants DEF SigningIn, IInv, Histories
<1>9. ASSUME NEW q \in Requests \ {p}, NEW s \in Request, s = req[q], Knows(q, s) PROVE Knows(q, s)'
  <2>1. "account" \notin s.held
    BY <1>3, <1>9, HasIt
  <2>2. s.at # "sweep"
    BY <1>9, <2>1 DEF Knows, KnowsLocks
  <2>3. s.at \in Signing => Word(q)'
    BY <1>1, <1>9 DEF SigningIn, Signing, Word, Knows, KnowsOwn
  <2>4. challenge' = challenge \/ "challenge" \notin s.held
    BY <1>7, <1>9, HasIt
  <2>5. sessions[q] = "none" => sessions'[q] = "none"
    BY <1>6, Constants
  <2>6. links[q] = "none" => links'[q] = "none"
    BY <1>5, Constants
  <2> QED BY <1>1, <1>5, <1>8, <1>9, <2>1, <2>2, <2>3, <2>4, <2>5, <2>6, OtherKnows
<1>10. req' \in [Requests -> Request] /\ \A q \in Requests : Knows(q, req[q])'
  BY <1>1, <1>4, <1>9, OverKnows, AllKnow
<1>11. Apart'
  BY <1>1, <1>4, <1>8, ApartStays DEF Signing
<1>12. Factor' /\ Spent'
  BY <1>1, <1>4, FactorStays
<1>13. \A n : Issued(n) => Issued(n)'
  BY <1>1, <1>4, MadeStays
<1>14. Challenged'
  BY <1>1, <1>7, <1>8, <1>13 DEF IInv, Challenged, GuessesAreBounded, Word
<1>15. Entered'
  <2>1. \A n \in Names : (IF sessions[n] = "none" THEN via[n] = n ELSE Issued(via[n]))'
    BY <1>1, <1>6, <1>13 DEF IInv, Entered
  <2>2. ResetEndsAccess' /\ NobodyWaitsInVain'
    BY <1>1, <1>6 DEF ResetEndsAccess, NobodyWaitsInVain
  <2> QED BY <2>1, <2>2 DEF Entered
<1>16. Linked' /\ Mailing'
  <2>1. queued \subseteq Names /\ inbox \subseteq Names
    BY DEF IInv, Tables
  <2> QED BY <1>1, <1>5, <2>1 DEF IInv, Linked, Mailing
<1>17. Counted'
  BY <1>1, <1>4, CountedStays
<1>18. Tables' /\ Histories'
  BY <1>1, <1>4, <1>5, <1>6, <1>7, <1>8 DEF IInv, Tables, Histories
<1> QED BY <1>10, <1>11, <1>12, <1>14, <1>15, <1>16, <1>17, <1>18 DEF IInv

-------------------------------------------------------------------------------
(* Steps of nobody's request, and the whole.                               *)

\* What requests know when none of them moves.
LEMMA NobodyMoves ==
  ASSUME IInv, req' = req, UNCHANGED <<codes, password, sessions, accepted, guesses, word, via, crossed, chosen, revived, spent, tried>>,
         totp'.secret = totp.secret, totp'.verified = totp.verified, totp'.active = totp.active, totp'.step = totp.step,
         challenge'.token = challenge.token, challenge'.consumed = challenge.consumed, challenge'.tries = challenge.tries,
         Outstanding' = Outstanding, \A n \in Names : links[n] = "none" <=> links'[n] = "none",
         Tables', Linked', Mailing'
  PROVE  IInv'
<1>1. ASSUME NEW q \in Requests PROVE Knows(q, req[q])'
  <2>1. PICK s \in Request : s = req[q] /\ Knows(q, s)
    BY AtHand
  <2>2. KnowsLocks(s)
    BY <2>1 DEF Knows
  <2>3. KnowsOwn(q, s)'
    BY <2>1, Constants DEF Knows, KnowsOwn, Word
  <2>4. KnowsChallenge(s)'
    BY <2>1 DEF Knows, KnowsChallenge, Answerable
  <2>5. KnowsFactor(s)'
    BY <2>1 DEF Knows, KnowsFactor, Later
  <2>6. KnowsLinks(s)'
    <3>1. s.seen \subseteq Names
      BY DEF Request
    <3> QED BY <2>1, <3>1 DEF Knows, KnowsLinks
  <2>7. Knows(q, s)'
    BY <2>2, <2>3, <2>4, <2>5, <2>6 DEF Knows, KnowsLocks
  <2> QED BY <2>1, <2>7
<1>2. \A n : (Made(n) <=> Made(n)') /\ (Issued(n) <=> Issued(n)')
  BY DEF Made, Issued
<1>3. Apart' /\ Counted' /\ Histories'
  BY DEF IInv, Apart, Counted, Counting, Histories
<1>4. Factor' /\ Spent'
  <2>1. Factor'
    BY <1>2 DEF IInv, Factor, Proven
  <2>2. Spent'
    BY <1>2 DEF IInv, Spent, CodesWorkOnce
  <2> QED BY <2>1, <2>2
<1>5. Challenged'
  BY <1>2 DEF IInv, Challenged, GuessesAreBounded, Word
<1>6. Entered'
  BY <1>2 DEF IInv, Entered, ResetEndsAccess, NobodyWaitsInVain
<1>7. req' \in [Requests -> Request]
  BY DEF IInv
<1> QED BY <1>1, <1>3, <1>4, <1>5, <1>6, <1>7 DEF IInv

\* A mail is sent, or is not.
LEMMA WorkKeeps == ASSUME IInv, work PROVE IInv'
<1>1. PICK l \in queued : queued' = queued \ {l} /\ inbox' \in {inbox, inbox \cup {l}}
  BY DEF work
<1>2. /\ UNCHANGED <<totp, codes, challenge, links, password, sessions, requireTotp, clock, outdated, cookies, spent, tried, req>>
      /\ UNCHANGED <<accepted, guesses, word, via, crossed, chosen, revived>>
  BY DEF work, storeVars, orgVars, ghostVars
<1>3. Outstanding' = Outstanding
  BY <1>2 DEF Outstanding
<1>4. queued' \cup inbox' \subseteq queued \cup inbox
  BY <1>1
<1>5. Linked'
  BY <1>2, <1>3, <1>4 DEF IInv, Linked
<1>6. Mailing'
  <2>1. IsFiniteSet(queued) /\ Cardinality(queued) <= QueueSize /\ Cardinality(queued) \in Nat /\ QueueSize \in Nat
    BY FS_CardinalityType, Constants DEF IInv, Mailing
  <2>2. PICK R : R = queued'
    OBVIOUS
  <2>3. R = queued \ {l}
    BY <1>1, <2>2
  <2>4. IsFiniteSet(R) /\ Cardinality(R) = Cardinality(queued) - 1
    BY <2>1, <2>3, FS_RemoveElement
  <2>5. Cardinality(R) <= QueueSize
    BY <2>1, <2>4
  <2> QED BY <2>2, <2>4, <2>5 DEF Mailing
<1>7. Tables'
  BY <1>2, <1>4 DEF IInv, Tables
<1> QED BY <1>2, <1>3, <1>5, <1>6, <1>7, NobodyMoves

\* The organisation changes its mind, and time goes by.
LEMMA PassingKeeps == ASSUME IInv, UpdateOrgSettings \/ Tick PROVE IInv'
<1>1. /\ UNCHANGED <<totp, codes, challenge, links, password, sessions, queued, inbox, cookies, spent, tried, req>>
      /\ UNCHANGED <<accepted, guesses, word, via, crossed, chosen, revived>>
  BY DEF UpdateOrgSettings, Tick, storeVars, mailVars, ghostVars
<1>2. requireTotp' \in BOOLEAN /\ outdated' = outdated /\ clock' \in Store!Steps
  <2>1. requireTotp \in BOOLEAN /\ clock \in 0 .. MaxStep /\ MaxStep \in Nat
    BY Constants DEF IInv, Tables
  <2>2. CASE UpdateOrgSettings
    BY <2>1, <2>2, Constants DEF UpdateOrgSettings
  <2>3. CASE Tick
    <3>1. requireTotp' = requireTotp /\ outdated' = outdated /\ clock < MaxStep /\ clock' = clock + 1
      BY <2>3 DEF Tick
    <3>2. clock + 1 \in 0 .. MaxStep
      BY <2>1, <3>1
    <3> QED BY <2>1, <3>1, <3>2, Constants
  <2> QED BY <2>2, <2>3
<1>3. Outstanding' = Outstanding
  BY <1>1 DEF Outstanding
<1>4. Linked' /\ Mailing'
  BY <1>1, LinkedStays
<1>5. Tables'
  BY <1>1, <1>2 DEF IInv, Tables
<1> QED BY <1>1, <1>3, <1>4, <1>5, NobodyMoves

\* Something gets too old.
LEMMA ExpireKeeps == ASSUME IInv, Expire PROVE IInv'
<1>1. UNCHANGED <<codes, password, sessions, queued, inbox, requireTotp, clock, outdated, cookies, spent, tried, req,
                  accepted, guesses, word, via, crossed, chosen, revived>>
  BY DEF Expire, orgVars, mailVars, ghostVars
<1>2. totp \in Store!TotpRow /\ challenge \in Store!ChallengeRow /\ links \in [Names -> Store!LinkStates]
  BY DEF IInv, Tables
<1>3. CASE totp' = [totp EXCEPT !.late = TRUE] /\ UNCHANGED <<challenge, links>>
  <2>1. /\ totp' \in Store!TotpRow /\ totp'.secret = totp.secret /\ totp'.verified = totp.verified
        /\ totp'.active = totp.active /\ totp'.step = totp.step
    BY <1>2, <1>3 DEF Store!TotpRow
  <2>2. Linked' /\ Mailing' /\ Outstanding' = Outstanding
    BY <1>1, <1>3, LinkedStays
  <2>3. Tables'
    BY <1>1, <1>3, <2>1 DEF IInv, Tables
  <2> QED BY <1>1, <1>3, <2>1, <2>2, <2>3, NobodyMoves
<1>4. CASE challenge' = [challenge EXCEPT !.late = TRUE] /\ UNCHANGED <<totp, links>>
  <2>1. /\ challenge' \in Store!ChallengeRow /\ challenge'.token = challenge.token
        /\ challenge'.consumed = challenge.consumed /\ challenge'.tries = challenge.tries
    BY <1>2, <1>4 DEF Store!ChallengeRow
  <2>2. Linked' /\ Mailing' /\ Outstanding' = Outstanding
    BY <1>1, <1>4, LinkedStays
  <2>3. Tables'
    BY <1>1, <1>4, <2>1 DEF IInv, Tables
  <2> QED BY <1>1, <1>4, <2>1, <2>2, <2>3, NobodyMoves
<1>5. ASSUME NEW n \in Names, links[n] = "live", links' = [links EXCEPT ![n] = "late"], UNCHANGED <<totp, challenge>>
      PROVE  IInv'
  <2>1. links' \in [Names -> Store!LinkStates]
    BY <1>2, <1>5 DEF Store!LinkStates
  <2>2. links'[n] = "late" /\ \A x \in Names \ {n} : links'[x] = links[x]
    BY <1>2, <1>5
  <2>3. (\A x \in Names : links[x] = "none" <=> links'[x] = "none") /\ Outstanding' = Outstanding
    BY <1>5, <2>2 DEF Outstanding
  <2>4. Linked' /\ Mailing'
    <3>1. queued \subseteq Names /\ inbox \subseteq Names
      BY DEF IInv, Tables
    <3> QED BY <1>1, <2>3, <3>1 DEF IInv, Linked, Mailing
  <2>5. Tables'
    BY <1>1, <1>5, <2>1 DEF IInv, Tables
  <2> QED BY <1>1, <1>5, <2>3, <2>4, <2>5, NobodyMoves
<1> QED BY <1>3, <1>4, <1>5 DEF Expire

\* Every step keeps the inductive invariant.
LEMMA StepKeeps == ASSUME IInv, [Next]_vars PROVE IInv'
<1>1. CASE UNCHANGED vars
  <2>1. /\ UNCHANGED <<totp, codes, challenge, links, password, sessions, queued, inbox, cookies, spent, tried, req>>
        /\ UNCHANGED <<accepted, guesses, word, via, crossed, chosen, revived, requireTotp, clock, outdated>>
    BY <1>1 DEF vars, storeVars, orgVars, mailVars, ghostVars
  <2>2. Linked' /\ Mailing' /\ Outstanding' = Outstanding
    BY <2>1, LinkedStays
  <2>3. Tables'
    BY <2>1 DEF IInv, Tables
  <2> QED BY <2>1, <2>2, <2>3, NobodyMoves
<1>2. ASSUME NEW p \in Requests, SigningInNext(p) PROVE IInv'
  BY <1>2, LoginKeeps, RehashKeeps, TwoStepKeeps, ChallengeKeeps, TellKeeps, MintKeeps, FlagKeeps, SessionKeeps, AnswersKeep,
     MatchKeeps, LockChallengeKeeps, SpendKeeps, AcceptKeeps, BurnKeeps, CompleteKeeps DEF SigningInNext
<1>3. ASSUME NEW p \in Requests, SecondFactorNext(p) PROVE IInv'
  BY <1>3, BeginnersKeep, LockFactorKeeps, InstallKeeps, AnswersKeep, EndsKeep, BurnSetupKeeps, AcceptSetupKeeps,
     RecordKeeps, MatchSetupKeeps, ActivateKeeps, DropChallengeKeeps, DropKeeps, ReplaceKeeps DEF SecondFactorNext
<1>4. ASSUME NEW p \in Requests, ResetNext(p) PROVE IInv'
  BY <1>4, BeginnersKeep, AccountKeeps, SupersedeKeeps, IssueKeeps, SendKeeps, PresentKeeps, CheckKeeps, MeetKeeps,
     ResetKeeps DEF ResetNext
<1>5. ASSUME NEW p \in Requests, Rollback(p) PROVE IInv'
  BY <1>5, EndsKeep
<1>6. CASE work \/ UpdateOrgSettings \/ Expire \/ Tick
  BY <1>6, WorkKeeps, PassingKeeps, ExpireKeeps
<1> QED BY <1>1, <1>2, <1>3, <1>4, <1>5, <1>6 DEF Next

\* What a request may find at first.
LEMMA InitOK == ASSUME Init PROVE IInv
<1>1. PICK w \in Workloads :
        /\ totp = CASE w.start \in {"off", "required"} -> Store!NoTotp
                    [] w.start = "verified" -> [Store!Pending(Origin) EXCEPT !.verified = TRUE, !.step = 0]
                    [] OTHER -> [Store!Pending(Origin) EXCEPT !.verified = TRUE, !.step = 0, !.active = TRUE]
        /\ codes = IF w.start \in {"off", "required"} THEN {} ELSE Store!Batch(Origin)
        /\ challenge = IF w.start = "challenged" THEN Store!Challenge(Origin) ELSE Store!NoChallenge
        /\ cookies = IF w.start = "challenged" THEN {Origin} ELSE {}
        /\ requireTotp = (w.start \in {"required", "verified"})
  BY DEF Init
<1>2. /\ sessions = [n \in Names |-> IF n # Origin THEN "none" ELSE IF requireTotp THEN "gated" ELSE "live"]
      /\ links = [n \in Names |-> IF n = Origin THEN "live" ELSE "none"]
      /\ password = Origin /\ clock = 1 /\ queued = {} /\ inbox = {Origin}
      /\ spent = NoAttempts /\ tried = NoAttempts /\ req = [r \in Requests |-> New]
  BY DEF Init
<1>3. /\ accepted = IF totp.verified THEN <<Store!AuthenticatorCode(Origin, 0)>> ELSE <<>>
      /\ guesses = [n \in Names |-> 0] /\ word = [n \in Names |-> Origin] /\ via = [n \in Names |-> n] /\ crossed = {}
      /\ chosen = Origin /\ revived = {} /\ outdated \in BOOLEAN
  BY DEF Init
<1>4. /\ Origin \in Names /\ NoName \notin Names /\ Origin # NoName /\ Origin \notin Requests
      /\ 0 \in Store!Steps /\ 1 \in Store!Steps
  BY Constants
<1>5. PICK on \in BOOLEAN, shown \in BOOLEAN :
        /\ totp = [secret |-> IF shown THEN Origin ELSE NoName, verified |-> shown, active |-> on, late |-> FALSE,
                   tries |-> 0, step |-> IF shown THEN 0 ELSE -1]
        /\ codes = (IF shown THEN Store!Batch(Origin) ELSE {}) /\ (on => shown) /\ (on => ~requireTotp)
  <2>1. CASE w.start \in {"off", "required"}
    <3>1. totp = Store!NoTotp /\ codes = {}
      BY <1>1, <2>1
    <3> QED BY <3>1 DEF Store!NoTotp
  <2>2. CASE w.start = "verified"
    <3>1. totp = [Store!Pending(Origin) EXCEPT !.verified = TRUE, !.step = 0] /\ codes = Store!Batch(Origin)
      BY <1>1, <2>2
    <3>2. totp = [secret |-> Origin, verified |-> TRUE, active |-> FALSE, late |-> FALSE, tries |-> 0, step |-> 0]
      BY <3>1 DEF Store!Pending, Store!NoTotp
    <3> QED BY <3>1, <3>2
  <2>3. CASE w.start \notin {"off", "required", "verified"}
    <3>1. /\ totp = [Store!Pending(Origin) EXCEPT !.verified = TRUE, !.step = 0, !.active = TRUE]
          /\ codes = Store!Batch(Origin) /\ ~requireTotp
      BY <1>1, <2>3
    <3>2. totp = [secret |-> Origin, verified |-> TRUE, active |-> TRUE, late |-> FALSE, tries |-> 0, step |-> 0]
      BY <3>1 DEF Store!Pending, Store!NoTotp
    <3> QED BY <3>1, <3>2
  <2> QED BY <2>1, <2>2, <2>3
<1>6. /\ totp \in Store!TotpRow /\ totp.verified = shown /\ totp.active = on
      /\ totp.secret = (IF shown THEN Origin ELSE NoName) /\ (shown => totp.step = 0)
  <2>1. (IF shown THEN Origin ELSE NoName) \in Store!Names \cup {NoName}
    BY <1>4 DEF Names
  <2>2. (IF shown THEN 0 ELSE -1) \in {-1} \cup Store!Steps
    BY <1>4
  <2>3. PICK a, b : a = (IF shown THEN Origin ELSE NoName) /\ b = (IF shown THEN 0 ELSE -1)
    OBVIOUS
  <2>4. totp = [secret |-> a, verified |-> shown, active |-> on, late |-> FALSE, tries |-> 0, step |-> b]
    BY <1>5, <2>3
  <2>5. totp \in Store!TotpRow
    BY <2>1, <2>2, <2>3, <2>4, Zero DEF Store!TotpRow
  <2>6. totp.verified = shown /\ totp.active = on /\ totp.secret = a /\ totp.step = b
    BY <2>4
  <2> QED BY <2>3, <2>5, <2>6
<1>7. PICK asked \in BOOLEAN : challenge = [token |-> IF asked THEN Origin ELSE NoName, consumed |-> ~asked, late |-> FALSE, tries |-> 0]
  <2>1. CASE w.start = "challenged"
    <3>1. challenge = [token |-> Origin, consumed |-> FALSE, late |-> FALSE, tries |-> 0]
      BY <1>1, <2>1 DEF Store!Challenge, Store!NoChallenge
    <3> QED BY <3>1
  <2>2. CASE w.start # "challenged"
    <3>1. challenge = [token |-> NoName, consumed |-> TRUE, late |-> FALSE, tries |-> 0]
      BY <1>1, <2>2 DEF Store!NoChallenge
    <3> QED BY <3>1
  <2> QED BY <2>1, <2>2
<1>8. /\ challenge \in Store!ChallengeRow /\ challenge.token = (IF asked THEN Origin ELSE NoName)
      /\ challenge.consumed = ~asked /\ challenge.tries = 0
  <2>1. PICK a : a = (IF asked THEN Origin ELSE NoName)
    OBVIOUS
  <2>2. a \in Store!Names \cup {NoName}
    BY <1>4, <2>1 DEF Names
  <2>3. PICK b \in BOOLEAN : b = ~asked
    OBVIOUS
  <2>4. challenge = [token |-> a, consumed |-> b, late |-> FALSE, tries |-> 0]
    BY <1>7, <2>1, <2>3
  <2>5. challenge \in Store!ChallengeRow
    BY <2>2, <2>4, Zero DEF Store!ChallengeRow
  <2>6. challenge.token = a /\ challenge.consumed = b /\ challenge.tries = 0
    BY <2>4
  <2> QED BY <2>1, <2>3, <2>5, <2>6
<1>9. codes \subseteq BackupCodes /\ (shown => codes # {}) /\ \A k \in codes : k[1] = "recovery" /\ k[2] = Origin
  <2>1. 1 \in 1 .. RecoveryCodeCount
    BY Constants
  <2>2. <<"recovery", Origin, 1>> \in Store!Batch(Origin)
    BY <2>1 DEF Store!Batch
  <2>3. Store!Batch(Origin) \subseteq BackupCodes
    BY <1>4 DEF Store!Batch, BackupCodes
  <2>4. \A k \in Store!Batch(Origin) : k[1] = "recovery" /\ k[2] = Origin
    BY DEF Store!Batch
  <2> QED BY <1>5, <2>2, <2>3, <2>4
<1>10. /\ sessions \in [Names -> Store!Families] /\ (\A n \in Names \ {Origin} : sessions[n] = "none")
       /\ sessions[Origin] # "none" /\ (on => sessions[Origin] # "gated")
  BY <1>2, <1>4, <1>5 DEF Store!Families
<1>11. /\ links \in [Names -> Store!LinkStates] /\ links[Origin] = "live" /\ (\A n \in Names \ {Origin} : links[n] = "none")
       /\ Outstanding = {Origin}
  <2>1. links \in [Names -> Store!LinkStates] /\ links[Origin] = "live" /\ (\A n \in Names \ {Origin} : links[n] = "none")
    BY <1>2, <1>4 DEF Store!LinkStates
  <2> QED BY <1>4, <2>1 DEF Outstanding
<1>12. Tables
  <2>1. spent \in Attempts /\ tried \in Attempts
    BY <1>2 DEF NoAttempts, Attempts
  <2>2. cookies \subseteq Names /\ requireTotp \in BOOLEAN
    BY <1>1, <1>4
  <2> QED BY <1>2, <1>3, <1>4, <1>6, <1>8, <1>9, <1>10, <1>11, <2>1, <2>2 DEF Tables
<1>13. PICK k : k = Store!AuthenticatorCode(Origin, 0)
  OBVIOUS
<1>14. k \in TotpCodes /\ k[1] = "totp" /\ k[2] = Origin /\ k[3] = 0
  BY <1>4, <1>13 DEF Store!AuthenticatorCode, TotpCodes
<1>15. /\ accepted \in Seq(TotpCodes \cup BackupCodes) /\ (~shown => DOMAIN accepted = {})
       /\ (shown => DOMAIN accepted = {1} /\ accepted[1] = k)
  <2>1. CASE shown
    <3>1. accepted = <<k>>
      BY <1>3, <1>6, <1>13, <2>1
    <3> QED BY <1>14, <2>1, <3>1
  <2>2. CASE ~shown
    <3>1. accepted = <<>>
      BY <1>3, <1>6, <2>2
    <3> QED BY <2>2, <3>1
  <2> QED BY <2>1, <2>2
<1>16. Histories
  BY <1>3, <1>4, <1>15 DEF Histories
<1>17. \A p \in Requests : req[p] = New /\ req[p].at = "new" /\ req[p].held = {}
  BY <1>2, NewOK
<1>18. req \in [Requests -> Request]
  BY <1>2, NewOK
<1>19. ASSUME NEW p \in Requests PROVE Knows(p, req[p])
  <2>1. p \in Names /\ p # Origin
    BY <1>4, Constants
  <2>2. sessions[p] = "none" /\ links[p] = "none" /\ guesses[p] = 0
    BY <1>3, <1>10, <1>11, <2>1
  <2>3. KnowsOwn(p, req[p])
    BY <1>17, <2>2 DEF KnowsOwn, Signing
  <2>4. KnowsLocks(req[p]) /\ KnowsChallenge(req[p]) /\ KnowsFactor(req[p]) /\ KnowsLinks(req[p])
    BY <1>17 DEF KnowsLocks, KnowsChallenge, KnowsFactor, KnowsLinks, Answering, Resetting
  <2> QED BY <2>3, <2>4 DEF Knows
<1>20. Apart
  BY <1>17 DEF Apart
<1>21. Made(Origin) /\ Issued(Origin) /\ Word(Origin)
  BY <1>2, <1>3, <1>4 DEF Made, Issued, Word
<1>22. Factor
  <2>1. Proven
    BY <1>6, <1>14, <1>15 DEF Proven
  <2> QED BY <1>4, <1>5, <1>6, <1>9, <1>21, <2>1 DEF Factor
<1>23. Spent
  <2>1. 0 <= 0
    OBVIOUS
  <2>2. k \notin codes
    BY <1>9, <1>14
  <2>3. ASSUME NEW i \in DOMAIN accepted PROVE i = 1 /\ shown /\ accepted[i] = k
    BY <1>15
  <2>4. \A i \in DOMAIN accepted : Made(accepted[i][2]) /\ accepted[i] \notin codes /\ accepted[i][3] <= totp.step
    BY <1>6, <1>14, <1>21, <2>1, <2>2, <2>3
  <2>5. CodesWorkOnce
    BY <2>3 DEF CodesWorkOnce
  <2> QED BY <1>9, <1>21, <2>4, <2>5 DEF Spent
<1>24. Challenged
  <2>1. 0 <= MaxChallengeAttempts
    BY Constants
  <2>2. GuessesAreBounded /\ guesses[Origin] = 0
    BY <1>3, <1>4, <2>1 DEF GuessesAreBounded
  <2> QED BY <1>4, <1>8, <1>21, <2>2 DEF Challenged
<1>25. Entered
  <2>1. \A n \in Names : IF sessions[n] = "none" THEN via[n] = n ELSE Issued(via[n])
    BY <1>3, <1>10, <1>21
  <2>2. ResetEndsAccess
    BY <1>2, <1>3 DEF ResetEndsAccess
  <2>3. NobodyWaitsInVain
    BY <1>6, <1>10 DEF NobodyWaitsInVain
  <2> QED BY <2>1, <2>2, <2>3 DEF Entered
<1>26. Linked
  BY <1>2, <1>11 DEF Linked
<1>27. Counted /\ Mailing
  <2>1. Counting("count login") = {} /\ Counting("count code") = {}
    BY <1>17 DEF Counting
  <2>2. IsFiniteSet({}) /\ Cardinality({}) = 0
    BY FS_EmptySet
  <2>3. spent.login = 0 /\ spent.account = 0 /\ tried.login = 0 /\ tried.account = 0
    BY <1>2 DEF NoAttempts
  <2>4. 0 = 0 + 0 /\ 0 <= QueueSize
    BY Constants
  <2> QED BY <1>2, <2>1, <2>2, <2>3, <2>4 DEF Counted, Mailing
<1> QED BY <1>12, <1>16, <1>18, <1>19, <1>20, <1>22, <1>23, <1>24, <1>25, <1>26, <1>27 DEF IInv

\* The inductive invariant holds in every state.
LEMMA InvariantAlways == Spec => []IInv
BY InitOK, StepKeeps, PTL DEF Spec

-------------------------------------------------------------------------------
(* What it is for.                                                         *)

\* For any number of requests, the rows and the requests are well formed and
\* the mail queue keeps to its capacity.
LEMMA IsTyped == ASSUME IInv PROVE TypeOK
<1>1. codes \subseteq UNION {Store!Batch(n) : n \in Names}
  <2>1. codes \subseteq BackupCodes
    BY DEF IInv, Tables
  <2>2. ASSUME NEW k \in BackupCodes PROVE k \in UNION {Store!Batch(n) : n \in Names}
    <3>1. PICK n \in Names, i \in 1 .. RecoveryCodeCount : k = <<"recovery", n, i>>
      BY DEF BackupCodes
    <3>2. k \in Store!Batch(n)
      BY <3>1 DEF Store!Batch
    <3> QED BY <3>2
  <2> QED BY <2>1, <2>2
<1>2. DOMAIN spent = DOMAIN NoAttempts /\ DOMAIN tried = DOMAIN NoAttempts
  BY DEF IInv, Tables, Attempts, NoAttempts
<1>3. ASSUME NEW r \in Requests PROVE DOMAIN req[r] = DOMAIN New /\ req[r].held \subseteq {"mint", "totp", "challenge", "account"}
  <2>1. req[r] \in Request /\ New \in Request
    BY AtHand, NewOK
  <2> QED BY <2>1 DEF Request, Locks
<1>4. Cardinality(queued) <= QueueSize
  BY DEF IInv, Mailing
<1> QED BY <1>1, <1>2, <1>3, <1>4 DEF IInv, Tables, Histories, TypeOK

\* A reset of the password ends what the old one opened (ConsumePasswordReset),
\* however many sign-ins, challenges and resets there are and however they
\* interleave: the password is the one that was set last, and it let in every
\* session that is alive; the exceptions are the sign-ins that a reset
\* overlapped, and the password that one of them put back (rehashPassword).
THEOREM ResetEndsAccessAlways == Spec => []ResetEndsAccess
<1>1. IInv => ResetEndsAccess
  BY DEF IInv, Entered
<1> QED BY <1>1, InvariantAlways, PTL

\* Of all links that were mailed one works at most (CreatePasswordResetToken,
\* ConsumePasswordReset), and no code of the authenticator or for recovery is
\* accepted twice (VerifyTotpSetup, CompleteTotpChallenge).
THEOREM WorksOnceAlways == Spec => []WorksOnce
<1>1. IInv => OneLiveLink
  <2>1. SUFFICES ASSUME IInv PROVE OneLiveLink
    OBVIOUS
  <2>2. \A m, n \in Outstanding : m = n
    BY <2>1 DEF IInv, Linked
  <2>3. CASE Outstanding = {}
    BY <2>3, FS_EmptySet DEF OneLiveLink
  <2>4. CASE Outstanding # {}
    <3>1. PICK n : Outstanding = {n}
      BY <2>2, <2>4
    <3> QED BY <3>1, FS_Singleton DEF OneLiveLink
  <2> QED BY <2>3, <2>4
<1>2. IInv => WorksOnce
  BY <1>1 DEF IInv, Spent, WorksOnce
<1> QED BY <1>2, InvariantAlways, PTL

\* Guessing is bounded by the challenge (burnChallengeAttempt), and when nothing
\* is under way the limiters have counted every attempt that bought nothing and
\* every challenge that was bought (consumeLoginBudget, recordTotpFailure).
THEOREM AttemptsAreCountedAlways == Spec => []AttemptsAreCounted
<1>1. IInv => EveryAttemptIsCounted
  <2>1. SUFFICES ASSUME IInv, \A r \in Requests : req[r].at \in {"new", "over"}
                 PROVE  spent.login = tried.login /\ spent.account = tried.account
    BY DEF EveryAttemptIsCounted
  <2>2. Counting("count login") = {} /\ Counting("count code") = {}
    BY <2>1 DEF Counting
  <2>3. spent.login \in Nat /\ spent.account \in Nat
    BY <2>1 DEF IInv, Tables, Attempts
  <2>4. tried.login = spent.login + 0 /\ tried.account = spent.account + 0
    BY <2>1, <2>2, FS_EmptySet DEF IInv, Counted
  <2> QED BY <2>3, <2>4
<1>2. IInv => AttemptsAreCounted
  BY <1>1, IsTyped DEF IInv, Challenged, AttemptsAreCounted
<1> QED BY <1>2, InvariantAlways, PTL

\* A second factor that is on is one whose owner has shown a code of that secret
\* (ActivateTotp tests the row again when it has the lock), and no session waits
\* for a second factor that is on (lockSessionMint).
THEOREM SecondFactorHoldsAlways == Spec => []SecondFactorHolds
<1>1. IInv => SecondFactorHolds
  BY DEF IInv, Factor, Proven, Entered, SecondFactorHolds, SecondFactorIsProven
<1> QED BY <1>1, InvariantAlways, PTL

-------------------------------------------------------------------------------
(* Each step that writes is one operation of the store.                    *)

LEMMA InitRefines == Init => Store!Init
<1>1. SUFFICES ASSUME Init PROVE Store!Init
  OBVIOUS
<1>2. Tables
  BY <1>1, InitOK DEF IInv
<1>3. codes \in SUBSET Store!Batch(Origin) /\ challenge \in {Store!NoChallenge, Store!Challenge(Origin)} /\ password = Origin
  BY <1>1 DEF Init
<1> QED BY <1>2, <1>3 DEF Tables, Store!Init, Names

\* Signing in, by password and by code.
LEMMA SignInRefines ==
  ASSUME IInv, NEW p \in Requests, SigningInNext(p) PROVE Store!Operation \/ UNCHANGED storeVars
<1>1. p \in Store!Names /\ req[p] \in Request /\ Knows(p, req[p])
  BY Constants, AtHand DEF Names
<1>0. CASE rehashPassword(p)
  <2>1. word[p] \in Store!Names
    BY <1>0, <1>1 DEF rehashPassword, Knows, KnowsOwn, Signing, Word, Names
  <2>2. CASE password' = word[p]
    <3>1. Store!UpdatePasswordHash(word[p])
      BY <1>0, <2>2 DEF rehashPassword, Store!UpdatePasswordHash
    <3> QED BY <2>1, <3>1 DEF Store!Operation
  <2>3. CASE password' = password
    BY <1>0, <2>3 DEF rehashPassword, storeVars
  <2> QED BY <1>0, <2>2, <2>3 DEF rehashPassword
<1>2. CASE CreateTotpChallenge(p)
  <2>1. Store!CreateTotpChallenge(p)
    BY <1>2 DEF CreateTotpChallenge, Store!CreateTotpChallenge
  <2> QED BY <1>1, <2>1 DEF Store!Operation
<1>3. CASE CreateSession(p)
  <2>1. req[p].at = "family" /\ req[p].gated \in BOOLEAN /\ sessions[p] = "none"
    BY <1>1, <1>3 DEF CreateSession, Request, Knows, KnowsOwn
  <2>2. req[p].gated => ~totp.active
    BY <1>1, <2>1 DEF Knows, KnowsFactor
  <2>3. Store!CreateSession(p, req[p].gated)
    BY <1>3, <2>1, <2>2 DEF CreateSession, Store!CreateSession, Store!insertSessionFamily
  <2> QED BY <1>1, <2>1, <2>3 DEF Store!Operation
<1>4. CASE consumeChallenge(p)
  <2>1. ~totp.active /\ Answerable(req[p].on)
    BY <1>1, <1>4 DEF consumeChallenge, Knows, KnowsChallenge
  <2>2. Store!CompleteTotpChallenge(p)
    BY <1>4, <2>1 DEF consumeChallenge, Answerable, Store!CompleteTotpChallenge
  <2> QED BY <1>1, <2>2 DEF Store!Operation
<1>5. CASE burnChallengeAttempt(p)
  <2>1. totp.active /\ Answerable(req[p].on)
    BY <1>1, <1>5 DEF burnChallengeAttempt, Knows, KnowsChallenge
  <2>2. Store!CompleteTotpChallenge(p)
    BY <1>5, <2>1 DEF burnChallengeAttempt, Answerable, Store!CompleteTotpChallenge, Store!burnChallengeAttempt
  <2> QED BY <1>1, <2>2 DEF Store!Operation
<1>6. CASE CompleteTotpChallenge(p)
  <2>1. req[p].at = "session" /\ sessions[p] = "none" /\ Answerable(req[p].on) /\ totp.active
    BY <1>1, <1>6 DEF CompleteTotpChallenge, Knows, KnowsOwn, KnowsChallenge, KnowsFactor
  <2>2. PICK code : code = req[p].code
    OBVIOUS
  <2>3. code \in Shown /\ (Later(code) \/ code \in codes) /\ codes \subseteq BackupCodes
    BY <1>1, <2>1, <2>2 DEF IInv, Tables, Knows, KnowsFactor, Answering
  <2>4. Store!acceptChallengeCode
    <3>1. CASE code[1] = "totp"
      <4>1. totp' = [totp EXCEPT !.step = code[3]] /\ UNCHANGED codes
        BY <1>6, <2>2, <3>1 DEF CompleteTotpChallenge
      <4>2. code \notin codes
        BY <2>3, <3>1 DEF BackupCodes
      <4>3. code[3] > totp.step /\ code[3] \in Store!Steps
        BY <2>3, <3>1, <4>2 DEF Later, Shown, TotpCodes, BackupCodes
      <4> QED BY <4>1, <4>3 DEF Store!acceptChallengeCode
    <3>2. CASE code[1] # "totp"
      <4>1. codes' = codes \ {code} /\ UNCHANGED totp
        BY <1>6, <2>2, <3>2 DEF CompleteTotpChallenge
      <4>2. code \in codes
        BY <2>3, <3>2 DEF Later
      <4> QED BY <4>1, <4>2 DEF Store!acceptChallengeCode
    <3> QED BY <3>1, <3>2
  <2>5. Store!insertSessionFamily(p, FALSE)
    BY <1>6, <2>1 DEF CompleteTotpChallenge, Store!insertSessionFamily
  <2>6. Store!CompleteTotpChallenge(p)
    BY <1>6, <2>1, <2>4, <2>5 DEF CompleteTotpChallenge, Answerable, Store!CompleteTotpChallenge
  <2> QED BY <1>1, <2>6 DEF Store!Operation
<1>7. CASE \/ Login(p) \/ startTotpChallenge(p) \/ consumeLoginBudget(p) \/ lockSessionMint(p) \/ insertSessionFamily(p)
           \/ CompleteTotpLogin(p) \/ MatchChallenge(p) \/ LockChallenge(p) \/ AcceptCode(p) \/ recordTotpFailure(p)
  BY <1>7 DEF Login, startTotpChallenge, consumeLoginBudget, lockSessionMint, insertSessionFamily, CompleteTotpLogin,
     MatchChallenge, LockChallenge, AcceptCode, recordTotpFailure
<1> QED BY <1>0, <1>2, <1>3, <1>4, <1>5, <1>6, <1>7 DEF SigningInNext

\* The second factor.  Who holds no lock may overrun another setup.
LEMMA FactorRefines ==
  ASSUME IInv, NEW p \in Requests, SecondFactorNext(p) PROVE Store!Operation \/ Overrun \/ UNCHANGED storeVars
<1>1. p \in Store!Names /\ req[p] \in Request /\ Knows(p, req[p]) /\ totp \in Store!TotpRow
  BY Constants, AtHand DEF Names, IInv, Tables
<1>2. CASE InstallSetup(p)
  <2>1. CASE totp.active
    <3>1. "totp" \notin req[p].held
      BY <1>1, <1>2, <2>1 DEF InstallSetup, Knows, KnowsFactor
    <3> QED BY <1>2, <2>1, <3>1 DEF Overrun
  <2>2. CASE ~totp.active
    <3>1. Store!StartTotpSetup(p)
      BY <1>2, <2>2 DEF InstallSetup, Store!StartTotpSetup
    <3> QED BY <1>1, <3>1 DEF Store!Operation
  <2> QED BY <2>1, <2>2
<1>3. CASE deletePendingSetup(p)
  <2>1. Store!SetupIsOver
    BY <1>3 DEF deletePendingSetup, Verifiable, Expired, Store!SetupIsOver, Store!deletePendingSetup
  <2> QED BY <2>1 DEF Store!Operation
<1>4. CASE burnSetupAttempt(p)
  <2>1. Store!burnSetupAttempt
    BY <1>4 DEF burnSetupAttempt, Verifiable, Store!burnSetupAttempt, Store!deletePendingSetup
  <2> QED BY <2>1 DEF Store!Operation
<1>5. CASE RecordVerification(p)
  <2>1. PICK s : s = req[p].code[3]
    OBVIOUS
  <2>2. totp.secret # NoName /\ ~totp.active /\ Later(req[p].code) /\ req[p].code \in Shown
    BY <1>1, <1>5 DEF RecordVerification, Knows, KnowsFactor, Answering
  <2>3. s > totp.step /\ s \in Store!Steps
    BY <2>1, <2>2 DEF Later, Shown, TotpCodes, BackupCodes
  <2>4. Store!VerifyTotpSetup(p, s)
    BY <1>5, <2>1, <2>2, <2>3 DEF RecordVerification, replaceRecoveryCodes, Store!VerifyTotpSetup
  <2> QED BY <1>1, <2>3, <2>4 DEF Store!Operation
<1>6. CASE SetActivated(p)
  <2>1. CASE Ready(p)
    <3>1. totp.verified /\ ~totp.active /\ codes # {}
      BY <2>1 DEF Ready, IInv, Factor
    <3>2. Store!ActivateTotp
      BY <1>6, <2>1, <3>1 DEF SetActivated, Store!ActivateTotp, Names
    <3> QED BY <3>2 DEF Store!Operation
  <2>2. CASE ~Ready(p)
    BY <1>6, <2>2 DEF SetActivated, storeVars
  <2> QED BY <2>1, <2>2
<1>7. CASE DropTotp(p)
  <2>1. CASE totp.active
    <3>1. Store!DisableTotp
      BY <1>7, <2>1 DEF DropTotp, Store!DisableTotp
    <3> QED BY <3>1 DEF Store!Operation
  <2>2. CASE ~totp.active
    BY <1>7, <2>2 DEF DropTotp, storeVars
  <2> QED BY <2>1, <2>2
<1>8. CASE ReplaceRecoveryCodes(p)
  <2>1. totp.active
    BY <1>1, <1>8 DEF ReplaceRecoveryCodes, Knows, KnowsFactor
  <2>2. Store!ReplaceRecoveryCodes(p)
    BY <1>8, <2>1 DEF ReplaceRecoveryCodes, replaceRecoveryCodes, Store!ReplaceRecoveryCodes
  <2> QED BY <1>1, <2>2 DEF Store!Operation
<1>9. CASE \/ StartTotpSetup(p) \/ LockSetup(p) \/ VerifyTotpSetup(p) \/ NoSetup(p) \/ AcceptSetup(p)
           \/ ActivateTotp(p) \/ MatchSetup(p) \/ DisableTotp(p) \/ DropChallenge(p)
           \/ RegenerateRecoveryCodes(p) \/ LockSecret(p)
  BY <1>9 DEF StartTotpSetup, LockSetup, VerifyTotpSetup, NoSetup, AcceptSetup, ActivateTotp, MatchSetup,
     DisableTotp, DropChallenge, RegenerateRecoveryCodes, LockSecret
<1> QED BY <1>2, <1>3, <1>4, <1>5, <1>6, <1>7, <1>8, <1>9 DEF SecondFactorNext

\* Resetting the password.  The links that were seen outstanding are all there are.
LEMMA ResetRefines ==
  ASSUME IInv, NEW p \in Requests, ResetNext(p) \/ Rollback(p) PROVE Store!Operation \/ UNCHANGED storeVars
<1>1. p \in Store!Names /\ req[p] \in Request /\ Knows(p, req[p]) /\ links \in [Names -> Store!LinkStates]
  BY Constants, AtHand DEF Names, IInv, Tables
<1>2. \A n \in Names : links[n] # "none" => links[n] = "used" \/ n \in Outstanding
  BY <1>1 DEF Outstanding, Store!LinkStates
<1>3. CASE CreatePasswordResetToken(p)
  <2>1. PICK seen : seen = req[p].seen
    OBVIOUS
  <2>2. Outstanding \subseteq seen /\ (\A n \in seen : links[n] # "none") /\ links[p] = "none"
    BY <1>1, <1>3, <2>1 DEF CreatePasswordResetToken, Knows, KnowsOwn, KnowsLinks
  <2>3. links' = [n \in Names |-> IF n = p THEN "live" ELSE IF n \in seen THEN "used" ELSE links[n]]
    BY <1>3, <2>1 DEF CreatePasswordResetToken
  <2>4. links' = [Store!UseAll EXCEPT ![p] = "live"]
    BY <1>1, <1>2, <2>2, <2>3 DEF Store!UseAll, Names
  <2>5. Store!CreatePasswordResetToken(p)
    BY <1>3, <2>2, <2>4 DEF CreatePasswordResetToken, Store!CreatePasswordResetToken
  <2> QED BY <1>1, <2>5 DEF Store!Operation
<1>4. CASE ConsumePasswordReset(p)
  <2>1. req[p].on \in Names /\ links[req[p].on] \in {"live", "late"}
    BY <1>1, <1>4 DEF ConsumePasswordReset, Knows, KnowsLinks, Outstanding
  <2>2. links' = Store!UseAll
    <3>1. links' = [n \in Names |-> IF n \in Outstanding THEN "used" ELSE links[n]]
      BY <1>4 DEF ConsumePasswordReset
    <3>2. \A n \in Outstanding : links[n] # "none"
      BY DEF Outstanding
    <3> QED BY <1>2, <3>1, <3>2 DEF Store!UseAll, Names
  <2>3. Store!ConsumePasswordReset(p)
    BY <1>4, <2>1, <2>2 DEF ConsumePasswordReset, Store!ConsumePasswordReset, Names
  <2> QED BY <1>1, <2>3 DEF Store!Operation
<1>5. CASE \/ RequestPasswordReset(p) \/ lockAccount(p) \/ Supersede(p) \/ SendPasswordReset(p)
           \/ CompletePasswordReset(p) \/ CheckToken(p) \/ ConsumeChallenges(p) \/ Rollback(p)
  BY <1>5 DEF RequestPasswordReset, lockAccount, Supersede, SendPasswordReset, CompletePasswordReset, CheckToken,
     ConsumeChallenges, Rollback
<1> QED BY <1>3, <1>4, <1>5 DEF ResetNext

LEMMA StepRefines == IInv /\ [Next]_vars => [Store!Next \/ Overrun]_storeVars
<1>1. SUFFICES ASSUME IInv, [Next]_vars PROVE Store!Operation \/ Overrun \/ UNCHANGED storeVars
  BY DEF Store!Next, Store!storeVars, storeVars
<1>2. CASE \E p \in Requests : SigningInNext(p) \/ SecondFactorNext(p) \/ ResetNext(p) \/ Rollback(p)
  BY <1>1, <1>2, SignInRefines, FactorRefines, ResetRefines
<1>3. CASE Expire
  <2>1. Store!Expire
    BY <1>3 DEF Expire, Store!Expire, Names
  <2> QED BY <2>1 DEF Store!Operation
<1>4. CASE work \/ UpdateOrgSettings \/ Tick \/ UNCHANGED vars
  BY <1>4 DEF work, UpdateOrgSettings, Tick, vars
<1> QED BY <1>1, <1>2, <1>3, <1>4 DEF Next

\* What a sign-in, an answer to a challenge, a setup, an activation or a reset
\* does on PostgreSQL, statement by statement and with others in between, is
\* what the operation does as one step on SQLite (server/internal/sqlitestore,
\* totp.go and passwordreset.go); the one exception is a setup that found no row
\* to lock, and installs itself over a second factor that is on (StartTotpSetup).
THEOREM RefinesStoreAlways == Spec => RefinesStore
BY InvariantAlways, InitRefines, StepRefines, PTL DEF Spec, RefinesStore
===============================================================================
