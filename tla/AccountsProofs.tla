----------------------------- MODULE AccountsProofs ----------------------------
(***************************************************************************)
(* For any number of requests, people and names: where there are accounts  *)
(* somebody administers them, an invitation and a person come by one       *)
(* account each, the audit log is one chain that holds every change, pages *)
(* miss nothing, and the statements on PostgreSQL do what the single steps *)
(* of AccountStore do.                                                     *)
(***************************************************************************)
EXTENDS Accounts, FiniteSetTheorems, SequenceTheorems, WellFoundedInduction, TLAPS

Places == {"new", "over", "record", "seal", "insert", "revoke", "match", "lock invite", "insert invited", "accept",
           "lock admins", "update", "commit", "force", "replace", "callback", "login", "link", "adopt", "by email",
           "provision", "insert sso", "insert identity", "raced", "session", "signed in", "unlink", "users",
           "invites", "audit", "listed"}
Entries == {"invite.created", "invite.revoked", "invite.redeemed", "user.promoted", "user.demoted",
            "user.reactivated", "user.deactivated", "user.password_reset_forced", "user.signed_in",
            "scim.user.created", "scim.user.updated", "sso.linked", "sso.unlinked", "sso.user.created"}
\* An administrator's account leaves no entry.
Changes == Entries \cup {"user.created"}
Wishes == {"keep", "yes", "no"}
Ends == {"over", "replace", "session", "signed in"}
Locks == {"chain", "admins", "account", "invite"} \X Nat
AllKeys == {"name", "email", "external", "scim"} \X (Usernames \cup Store!Maybe)
States == {<<>>} \cup (Requests \X Nat)
Request == [at : Places, op : Operations \cup {"none"}, on : Nat, row : Store!Row,
            want : [admin : Wishes, active : Wishes], who : Store!Maybe, mail : Store!Maybe,
            state : States, todo : Seq(Entries), then : Ends, tail : Nat,
            keys : SUBSET AllKeys, held : SUBSET Locks, same : BOOLEAN, cursor : Nat,
            got : SUBSET Nat, stay : SUBSET Nat, twice : BOOLEAN]

\* The tables, and what the history variables collect.
Came == [invite : Nat, was : {"open", "late"}]
AuditRow == [id : Requests, what : Entries, prev : Nat, at : Nat]
Tables ==
  /\ users \in Seq(Store!Row) /\ identities \in Seq(Store!Maybe) /\ cameBy \in Seq(Came)
  /\ Len(identities) = Len(users) /\ Len(cameBy) = Len(users)
  /\ linkRequests \subseteq Requests \X DOMAIN users /\ signedIn \subseteq DOMAIN users
  /\ invites \in Seq(Store!InviteStates) /\ audit \in Seq(AuditRow)
  /\ owed \subseteq Requests \X Changes /\ lost \subseteq Requests \X Changes

-------------------------------------------------------------------------------
(* What a request knows by where it is.                                    *)

SsoPlaces == {"callback", "login", "link", "adopt", "by email", "provision", "insert sso", "insert identity",
              "raced", "session", "signed in"}
Landing == {"session", "signed in"}
Lands(r) == r.at \in Landing \/ r.then \in Landing

\* What it is about is there.
KnowsOn(r) ==
  /\ r.at \in {"lock admins", "update", "commit", "replace", "force", "link", "adopt", "unlink"} => r.on \in DOMAIN users
  /\ r.then # "over" => r.on \in DOMAIN users
  /\ r.then \in Landing => r.at \in {"record", "seal"} \cup Landing
  /\ r.at \in {"revoke", "match", "lock invite", "insert invited", "accept"} => r.on \in DOMAIN invites
  /\ r.at = "callback" => r.state \in Requests \X DOMAIN users
  /\ r.at \in SsoPlaces \/ r.then \in Landing => r.who \in Persons
  /\ r.at = "insert" /\ users = <<>> => r.row.admin /\ r.row.active
  /\ r.at \in {"insert sso", "insert identity"} => users # <<>>

\* The locks and the keys it has.
KnowsLocks(r) ==
  /\ r.held = IF r.at = "seal" THEN {<<"chain", 0>>} ELSE IF r.at = "update" THEN {<<"admins", 0>>}
              ELSE IF r.at = "commit" THEN {<<"admins", 0>>, <<"account", r.on>>}
              ELSE IF r.at \in {"insert invited", "accept"} THEN {<<"invite", r.on>>} ELSE {}
  /\ r.keys = IF r.at \in {"accept", "insert identity"} THEN Store!Keys(r.row) ELSE {}
  /\ r.at \in {"record", "seal"} => r.todo # <<>>

\* What its locks keep as it was: the keys it inserts are new, the invitation
\* can be accepted, an administrator is left, the chain ends where it ended.
Leaves(r, a) == IF a = r.on THEN Wanted(r.want.admin, users[a].admin) /\ Wanted(r.want.active, users[a].active)
                ELSE users[a].admin /\ users[a].active
KnowsRow(r) == r.at \in {"accept", "insert identity"} => ~Store!Taken(r.row)
KnowsInvite(r) == r.at \in {"insert invited", "accept"} => invites[r.on] \in {"open", "late"}
KnowsAdmins(r) == r.at = "commit" => \E a \in DOMAIN users : Leaves(r, a)
KnowsTail(r) == r.at = "seal" => r.tail = Len(audit)

\* Who has signed in, or is about to, is linked to the account.
KnowsWho(r) == Lands(r) => r.on \in DOMAIN users /\ (r.who \in unlinked \/ identities[r.on] = r.who)

\* A walk has listed what is before its cursor, and nothing behind it.
Rows(kind) == IF kind = "users" THEN DOMAIN users ELSE IF kind = "invites" THEN DOMAIN invites ELSE DOMAIN audit
Before(kind, x, y) == IF kind = "audit" THEN y < x ELSE x < y
KnowsWalk(r) ==
  /\ r.at \in Kinds =>
       /\ ~r.twice
       /\ IF r.cursor = 0 THEN r.got = {} ELSE r.cursor \in Rows(r.at)
       /\ \A x \in r.got : x = r.cursor \/ Before(r.at, x, r.cursor)
       /\ \A x \in r.stay : x \in Rows(r.at) /\ (x \in r.got \/ r.cursor = 0 \/ Before(r.at, r.cursor, x))
  /\ r.at = "listed" => r.stay \subseteq r.got /\ ~r.twice

Knows(r) ==
  /\ KnowsOn(r) /\ KnowsLocks(r) /\ KnowsRow(r) /\ KnowsInvite(r) /\ KnowsAdmins(r) /\ KnowsTail(r)
  /\ KnowsWho(r) /\ KnowsWalk(r)

\* What two requests hold goes together.
Apart(r, s) == r.held \cap s.held = {} /\ r.keys \cap s.keys = {}

InvitesComeLater == invites # <<>> => users # <<>>
OneIdentityEach == \A a, b \in DOMAIN users : identities[a] = identities[b] /\ identities[a] # Nobody => a = b

\* An invitation that was accepted has its account, no other has one.
Invited ==
  /\ \A a \in DOMAIN users : cameBy[a].invite # 0 =>
       cameBy[a].invite \in DOMAIN invites /\ invites[cameBy[a].invite] = "accepted"
  /\ \A a, b \in DOMAIN users : cameBy[a].invite = cameBy[b].invite /\ cameBy[a].invite # 0 => a = b
  /\ \A i \in DOMAIN invites : invites[i] = "accepted" => \E a \in DOMAIN users : cameBy[a].invite = i

Times == \A i, j \in DOMAIN audit : i <= j => audit[i].at <= audit[j].at

\* A change is in the audit log, was lost, or is still to be appended.
InLog(p, e) == \E i \in DOMAIN audit : audit[i].id = p /\ audit[i].what = e
Pending(r, e) == r.at \in {"record", "seal"} /\ \E i \in DOMAIN r.todo : r.todo[i] = e
Audited == \A p \in Requests, e \in Entries :
  <<p, e>> \in owed => <<p, e>> \in lost \/ InLog(p, e) \/ Pending(req[p], e)

Facts ==
  /\ AdminRemains /\ InvitesComeLater /\ OneIdentityEach /\ Invited
  /\ ChainDoesNotFork /\ Times /\ NoFalseAlarm

IInv ==
  /\ Tables /\ req \in [Requests -> Request] /\ Facts /\ Audited
  /\ \A p \in Requests : Knows(req[p])
  /\ \A p, q \in Requests : p # q => Apart(req[p], req[q])
-------------------------------------------------------------------------------
(* Sequences, and the facts about the constants.                           *)

\* The constants, as the proofs use them.
LEMMA Constants ==
  /\ Nobody \notin Persons /\ Usernames \subseteq Nat /\ {0, 1, 2, 3} \subseteq Usernames
  /\ MaxAttempts \in Nat \ {0} /\ PageLimit \in Nat \ {0} /\ Clocks \subseteq Nat
  /\ \A n \in Nat : n < MaxAttempts => n \in Usernames
<1>1. /\ Nobody \notin Persons /\ Usernames \subseteq Nat /\ {0, 1, 2, 3} \subseteq Usernames
      /\ MaxAttempts \in Nat \ {0} /\ PageLimit \in Nat \ {0} /\ Clocks \subseteq Nat
  BY AccountsAssumptions
<1>2. ASSUME NEW n \in Nat, n < MaxAttempts PROVE n \in Usernames
  <2>1. n \in 0 .. MaxAttempts - 1
    BY <1>1, <1>2
  <2> QED BY <2>1, AccountsAssumptions
<1> QED BY <1>1, <1>2

\* A sequence with one more row.
LEMMA Longer ==
  ASSUME NEW S, NEW s \in Seq(S), NEW x \in S, NEW t, t = Append(s, x)
  PROVE  /\ t \in Seq(S) /\ Len(s) \in Nat /\ Len(t) = Len(s) + 1
         /\ DOMAIN s = 1 .. Len(s) /\ DOMAIN t = 1 .. Len(s) + 1 /\ DOMAIN s \subseteq DOMAIN t
         /\ \A i \in DOMAIN t : i \in DOMAIN s \/ i = Len(s) + 1
         /\ Len(s) + 1 \in DOMAIN t /\ Len(s) + 1 \notin DOMAIN s
         /\ t[Len(s) + 1] = x /\ \A i \in DOMAIN s : t[i] = s[i]
         /\ t # <<>>
<1>1. /\ t \in Seq(S) /\ Len(t) = Len(s) + 1 /\ t[Len(s) + 1] = x /\ \A i \in 1 .. Len(s) : t[i] = s[i]
      /\ t # <<>>
  BY AppendProperties
<1>2. Len(s) \in Nat /\ DOMAIN s = 1 .. Len(s)
  BY LenProperties
<1>3. DOMAIN t = 1 .. Len(t)
  BY <1>1, LenProperties
<1> QED BY <1>1, <1>2, <1>3

\* A sequence with one row replaced.
LEMMA Replaced ==
  ASSUME NEW S, NEW s \in Seq(S), NEW i \in DOMAIN s, NEW x \in S, NEW t, t = [s EXCEPT ![i] = x]
  PROVE  /\ t \in Seq(S) /\ Len(t) = Len(s) /\ DOMAIN t = DOMAIN s
         /\ t[i] = x /\ \A j \in DOMAIN s : j # i => t[j] = s[j]
<1>1. Len(s) \in Nat /\ DOMAIN s = 1 .. Len(s)
  BY LenProperties
<1>2. t \in Seq(S) /\ Len(t) = Len(s)
  BY <1>1, ExceptSeq
<1>3. DOMAIN t = DOMAIN s /\ t[i] = x /\ \A j \in DOMAIN s : j # i => t[j] = s[j]
  OBVIOUS
<1> QED BY <1>2, <1>3

\* A sequence is empty where it has no row.
LEMMA Empty ==
  ASSUME NEW S, NEW s \in Seq(S)
  PROVE  s # <<>> <=> \E i \in DOMAIN s : TRUE
<1>1. Len(s) \in Nat /\ DOMAIN s = 1 .. Len(s)
  BY LenProperties
<1>2. CASE s = <<>>
  BY <1>2
<1>3. CASE s # <<>>
  <2>1. Len(s) \in Nat \ {0}
    BY <1>3, EmptySeq
  <2>2. 1 \in DOMAIN s
    BY <1>1, <2>1
  <2> QED BY <1>3, <2>2
<1> QED BY <1>2, <1>3

-------------------------------------------------------------------------------
(* A step of one request.                                                  *)

\* The account that is filled in is one.
LEMMA BlankOK == Blank \in Store!Row /\ Blank.active = TRUE /\ Blank.name = 0
BY Constants DEF Blank, Store!Row, Store!Maybe

\* A request that has not begun, or is over, knows and holds nothing.
LEMMA NewOK ==
  /\ New \in Request /\ New.at = "new" /\ New.then = "over" /\ New.held = {} /\ New.keys = {} /\ New.cursor = 0
  /\ New.got = {} /\ New.stay = {} /\ New.twice = FALSE /\ New.row = Blank
<1>1. New.todo \in Seq(Entries) /\ New.state = <<>>
  BY EmptySeq DEF New
<1>2. /\ New.at = "new" /\ New.then = "over" /\ New.held = {} /\ New.keys = {} /\ New.cursor = 0
      /\ New.got = {} /\ New.stay = {} /\ New.twice = FALSE /\ New.row = Blank
  BY DEF New
<1>3. New \in Request
  BY <1>1, BlankOK, Constants DEF New, Request, States, Places, Operations, Wishes, Ends, Store!Maybe
<1> QED BY <1>2, <1>3

\* So is one that ended.
LEMMA OverOK == Over \in Request /\ Over.at = "over" /\ Over.then = "over" /\ Over.held = {} /\ Over.keys = {}
BY NewOK DEF Over, Request, Places

\* It knows what is true of nothing.
LEMMA KnowsNothing == Knows(New) /\ Knows(Over)
<1>1. Knows(New)
  BY NewOK DEF Knows, KnowsOn, KnowsLocks, KnowsRow, KnowsInvite, KnowsAdmins, KnowsTail, KnowsWho, KnowsWalk,
               Lands, Landing, SsoPlaces, Kinds
<1>2. Knows(Over)
  BY OverOK DEF Knows, KnowsOn, KnowsLocks, KnowsRow, KnowsInvite, KnowsAdmins, KnowsTail, KnowsWho, KnowsWalk,
                Lands, Landing, SsoPlaces, Kinds
<1> QED BY <1>1, <1>2

\* The invariant after a step of one request, from its parts.
LEMMA StepKeeps ==
  ASSUME IInv, NEW p \in Requests, NEW r \in Request, req' = [req EXCEPT ![p] = r],
         Tables', Facts', Audited', Knows(r)',
         \A q \in Requests \ {p} : Knows(req[q])' /\ Apart(r, req[q])
  PROVE  IInv'
<1>1. req' \in [Requests -> Request] /\ req'[p] = r /\ \A q \in Requests \ {p} : req'[q] = req[q]
  BY DEF IInv
<1>2. ASSUME NEW q \in Requests PROVE Knows(req[q])'
  <2>1. CASE q = p
    BY <1>1, <2>1
  <2>2. CASE q # p
    BY <2>2
  <2> QED BY <2>1, <2>2
<1>3. ASSUME NEW q \in Requests, NEW s \in Requests, q # s PROVE Apart(req[q], req[s])'
  <2>1. Apart(req[q], req[s])
    BY <1>3 DEF IInv
  <2> QED BY <1>1, <1>3, <2>1 DEF Apart
<1> QED BY <1>1, <1>2, <1>3 DEF IInv

\* What is there stays there.
LEMMA OnStays ==
  ASSUME NEW r, KnowsOn(r), DOMAIN users \subseteq DOMAIN users', DOMAIN invites \subseteq DOMAIN invites',
         users # <<>> => users' # <<>>
  PROVE  KnowsOn(r)'
BY DEF KnowsOn, SsoPlaces, Landing

\* Keys that a request holds stay new, whoever else writes accounts.
LEMMA RowStays ==
  ASSUME NEW r, KnowsLocks(r), KnowsRow(r),
         \A b \in DOMAIN users' \ {0} : \/ b \in DOMAIN users /\ Store!Keys(users'[b]) = Store!Keys(users[b])
                                        \/ Store!Keys(users'[b]) \cap r.keys = {}
  PROVE  KnowsRow(r)'
<1> SUFFICES ASSUME r.at \in {"accept", "insert identity"}, NEW b \in DOMAIN users' \ {0}
             PROVE  Store!Keys(users'[b]) \cap Store!Keys(r.row) = {}
  BY DEF KnowsRow, Store!Taken, Store!TakenBut, Store!Keys
<1>1. r.keys = Store!Keys(r.row)
  BY DEF KnowsLocks
<1>2. \A c \in DOMAIN users \ {0} : Store!Keys(users[c]) \cap Store!Keys(r.row) = {}
  BY DEF KnowsRow, Store!Taken, Store!TakenBut
<1> QED BY <1>1, <1>2

\* Who is linked stays linked, or is among those who were unlinked.
LEMMA WhoStays ==
  ASSUME NEW r, KnowsWho(r), KnowsOn(r), unlinked \subseteq unlinked', Nobody \notin Persons,
         DOMAIN users \subseteq DOMAIN users',
         \A a \in DOMAIN users : identities'[a] = identities[a] \/ identities[a] \in unlinked' \cup {Nobody}
  PROVE  KnowsWho(r)'
BY DEF KnowsWho, KnowsOn, Lands, Landing, SsoPlaces

\* Lists only grow, apart from what is no longer open.
LEMMA WalkStays ==
  ASSUME NEW r, KnowsWalk(r), DOMAIN users \subseteq DOMAIN users', DOMAIN invites \subseteq DOMAIN invites',
         DOMAIN audit \subseteq DOMAIN audit'
  PROVE  KnowsWalk(r)'
<1>1. ASSUME NEW kind PROVE Rows(kind) \subseteq Rows(kind)'
  BY DEF Rows
<1>2. ASSUME r.at \in Kinds
      PROVE  /\ ~r.twice
             /\ IF r.cursor = 0 THEN r.got = {} ELSE r.cursor \in Rows(r.at)'
             /\ \A x \in r.got : x = r.cursor \/ Before(r.at, x, r.cursor)
             /\ \A x \in r.stay : x \in Rows(r.at)' /\ (x \in r.got \/ r.cursor = 0 \/ Before(r.at, r.cursor, x))
  BY <1>1, <1>2 DEF KnowsWalk
<1> QED BY <1>2 DEF KnowsWalk, Before

\* What a request knows is about the tables.
LEMMA KnowsStays ==
  ASSUME NEW r, Knows(r), UNCHANGED <<users, identities, invites, audit, unlinked>>
  PROVE  Knows(r)'
<1>1. KnowsOn(r)' /\ KnowsLocks(r)'
  BY DEF Knows, KnowsOn, KnowsLocks
<1>2. KnowsRow(r)' /\ KnowsInvite(r)' /\ KnowsAdmins(r)' /\ KnowsTail(r)'
  BY DEF Knows, KnowsRow, KnowsInvite, KnowsAdmins, KnowsTail, Store!Taken, Store!TakenBut, Leaves
<1>3. KnowsWho(r)' /\ KnowsWalk(r)'
  BY WalkStays DEF Knows, KnowsWho
<1> QED BY <1>1, <1>2, <1>3 DEF Knows

\* Changes stay audited when those of the request that moves are.
LEMMA AuditedStays ==
  ASSUME IInv, NEW p \in Requests, NEW r \in Request, req' = [req EXCEPT ![p] = r], lost \subseteq lost',
         \A q \in Requests, e \in Entries : InLog(q, e) => InLog(q, e)',
         \A q \in Requests \ {p}, e \in Entries : <<q, e>> \in owed' => <<q, e>> \in owed,
         \A e \in Entries : <<p, e>> \in owed' => <<p, e>> \in lost' \/ InLog(p, e)' \/ Pending(r, e)
  PROVE  Audited'
<1>1. req'[p] = r /\ \A q \in Requests \ {p} : req'[q] = req[q]
  BY DEF IInv
<1> SUFFICES ASSUME NEW q \in Requests, NEW e \in Entries, <<q, e>> \in owed'
             PROVE  <<q, e>> \in lost' \/ InLog(q, e)' \/ Pending(req'[q], e)
  BY DEF Audited, Pending
<1>2. CASE q = p
  BY <1>1, <1>2
<1>3. CASE q # p
  <2>1. <<q, e>> \in lost \/ InLog(q, e) \/ Pending(req[q], e)
    BY <1>3 DEF IInv, Audited
  <2> QED BY <1>1, <1>3, <2>1
<1> QED BY <1>2, <1>3

\* A request that owes no entry owes none when it moves.
LEMMA QuietIsAudited ==
  ASSUME IInv, NEW p \in Requests, NEW r \in Request, req' = [req EXCEPT ![p] = r],
         req[p].at \notin {"record", "seal"}, UNCHANGED <<lost, audit>>, owed' \subseteq owed \cup {<<p, "user.created">>}
  PROVE  Audited'
<1>1. \A q \in Requests, e \in Entries : InLog(q, e) => InLog(q, e)'
  BY DEF InLog
<1>2. \A q \in Requests, e \in Entries : <<q, e>> \in owed' => <<q, e>> \in owed
  BY DEF Entries
<1>3. ASSUME NEW e \in Entries, <<p, e>> \in owed' PROVE <<p, e>> \in lost' \/ InLog(p, e)'
  <2>1. <<p, e>> \in lost \/ InLog(p, e) \/ Pending(req[p], e)
    BY <1>2, <1>3 DEF IInv, Audited
  <2> QED BY <1>1, <2>1 DEF Pending
<1> QED BY <1>1, <1>2, <1>3, AuditedStays

\* A request that makes a change owes the entries it is about to append.
LEMMA RecordIsAudited ==
  ASSUME IInv, NEW p \in Requests, NEW r \in Request, req' = [req EXCEPT ![p] = r],
         req[p].at \notin {"record", "seal"}, r.at = "record", UNCHANGED <<lost, audit>>,
         owed' = owed \cup {<<p, r.todo[i]>> : i \in DOMAIN r.todo}
  PROVE  Audited' /\ owed' \subseteq Requests \X Changes
<1>1. \A q \in Requests, e \in Entries : InLog(q, e) => InLog(q, e)'
  BY DEF InLog
<1>2. ASSUME NEW e \in Entries, <<p, e>> \in owed' PROVE <<p, e>> \in lost' \/ InLog(p, e)' \/ Pending(r, e)
  <2>1. CASE <<p, e>> \in owed
    <3>1. <<p, e>> \in lost \/ InLog(p, e) \/ Pending(req[p], e)
      BY <2>1 DEF IInv, Audited
    <3> QED BY <1>1, <3>1 DEF Pending
  <2>2. CASE \E i \in DOMAIN r.todo : <<p, e>> = <<p, r.todo[i]>>
    BY <2>2 DEF Pending
  <2> QED BY <1>2, <2>1, <2>2
<1>3. \A q \in Requests \ {p}, e \in Entries : <<q, e>> \in owed' => <<q, e>> \in owed
  OBVIOUS
<1>4. ASSUME NEW i \in DOMAIN r.todo PROVE r.todo[i] \in Entries
  <2>1. r.todo \in Seq(Entries)
    BY DEF Request
  <2> QED BY <2>1
<1>5. owed' \subseteq Requests \X Changes
  BY <1>4 DEF IInv, Tables, Changes
<1> QED BY <1>1, <1>2, <1>3, <1>5, AuditedStays

Shared == <<users, identities, linkRequests, signedIn, invites, audit, cameBy, unlinked, alarm>>

\* The tables tell the same as long as they are the same.
LEMMA FactsStay == ASSUME Facts, UNCHANGED Shared PROVE Facts'
BY DEF Facts, Shared, AdminRemains, InvitesComeLater, OneIdentityEach, Invited, ChainDoesNotFork, Times,
       NoFalseAlarm, Store!Admins

\* When one request moves, leaves the tables alone and knows the truth, and
\* what it holds goes with what the others hold, the invariant stays.
LEMMA MoveKeeps ==
  ASSUME IInv, NEW p \in Requests, NEW r \in Request, req' = [req EXCEPT ![p] = r], UNCHANGED Shared,
         owed' \cup lost' \subseteq Requests \X Changes, Audited', Knows(r),
         \A q \in Requests \ {p} : Apart(r, req[q])
  PROVE  IInv'
<1>1. Tables' /\ Facts'
  BY FactsStay DEF IInv, Shared, Tables
<1>2. \A q \in Requests \ {p} : req'[q] = req[q] /\ Knows(req[q])
  BY DEF IInv
<1>3. Knows(r)'
  BY KnowsStays DEF Shared
<1>4. ASSUME NEW q \in Requests \ {p} PROVE Knows(req[q])'
  BY <1>2, KnowsStays DEF Shared
<1> QED BY <1>1, <1>3, <1>4, StepKeeps

\* A request that holds nothing goes with the others.
LEMMA HoldsNothing ==
  ASSUME NEW r, r.held = {}, r.keys = {}, NEW s
  PROVE  Apart(r, s)
BY DEF Apart

\* A move that changes nothing else, of a request that appends nothing.
LEMMA PlainKeeps ==
  ASSUME IInv, NEW p \in Requests, NEW r \in Request, req' = [req EXCEPT ![p] = r], UNCHANGED <<storeVars, ghostVars>>,
         req[p].at \notin {"record", "seal"}, Knows(r), \A q \in Requests \ {p} : Apart(r, req[q])
  PROVE  IInv'
<1>1. UNCHANGED <<Shared, owed, lost>>
  BY DEF storeVars, ghostVars, Shared
<1>2. Audited'
  BY <1>1, QuietIsAudited DEF Shared
<1>3. owed' \cup lost' \subseteq Requests \X Changes
  BY <1>1 DEF IInv, Tables
<1> QED BY <1>1, <1>2, <1>3, MoveKeeps

\* A request ends.
LEMMA EndKeeps ==
  ASSUME IInv, NEW p \in Requests, End(p), UNCHANGED <<storeVars, ghostVars>>, req[p].at \notin {"record", "seal"}
  PROVE  IInv'
BY OverOK, KnowsNothing, HoldsNothing, PlainKeeps DEF End, Go

\* Most places ask for no more than that what the request is about is there.
Plain == {"new", "over", "insert", "revoke", "match", "lock invite", "lock admins", "force", "replace", "callback",
          "login", "link", "adopt", "by email", "provision", "insert sso", "raced", "unlink"}

\* There, a request that knows what it is about knows all it has to.
LEMMA PlainKnows ==
  ASSUME NEW r, r.at \in Plain, r.then \notin Landing, r.held = {}, r.keys = {}, KnowsOn(r)
  PROVE  Knows(r)
BY DEF Plain, Knows, KnowsLocks, KnowsRow, KnowsInvite, KnowsAdmins, KnowsTail, KnowsWho, KnowsWalk, Lands, Landing,
       Kinds

\* A request comes.
LEMMA BeginKeeps ==
  ASSUME IInv, NEW p \in Requests, NEW op \in Operations, NEW to \in Request, Begin(p, op, to),
         Knows(to), to.held = {}, to.keys = {}, UNCHANGED <<storeVars, ghostVars>>
  PROVE  IInv'
<1> DEFINE r == [to EXCEPT !.op = op]
<1>1. req[p].at = "new" /\ req' = [req EXCEPT ![p] = r]
  BY DEF Begin
<1>2. /\ r \in Request /\ r.at = to.at /\ r.on = to.on /\ r.row = to.row /\ r.want = to.want /\ r.who = to.who
      /\ r.state = to.state /\ r.todo = to.todo /\ r.then = to.then /\ r.tail = to.tail /\ r.keys = to.keys
      /\ r.held = to.held /\ r.cursor = to.cursor /\ r.got = to.got /\ r.stay = to.stay /\ r.twice = to.twice
  BY DEF Request
<1> HIDE DEF r
<1>3. Knows(r)
  <2>1. KnowsOn(r) /\ KnowsLocks(r)
    BY <1>2 DEF Knows, KnowsOn, KnowsLocks
  <2>2. KnowsRow(r) /\ KnowsInvite(r) /\ KnowsTail(r) /\ KnowsWho(r)
    BY <1>2 DEF Knows, KnowsRow, KnowsInvite, KnowsTail, KnowsWho, Lands
  <2>3. KnowsAdmins(r)
    BY <1>2 DEF Knows, KnowsAdmins, Leaves
  <2>4. KnowsWalk(r)
    BY <1>2 DEF Knows, KnowsWalk
  <2> QED BY <2>1, <2>2, <2>3, <2>4 DEF Knows
<1>4. \A q \in Requests \ {p} : Apart(r, req[q])
  BY <1>2, HoldsNothing
<1> QED BY <1>1, <1>2, <1>3, <1>4, PlainKeeps

\* A request moves to a place that asks for no lock.
LEMMA GoKeeps ==
  ASSUME IInv, NEW p \in Requests, NEW r \in Request, Go(p, r), r.at \in Plain, r.then \notin Landing,
         r.held = {}, r.keys = {}, KnowsOn(r), req[p].at \notin {"record", "seal"}, UNCHANGED <<storeVars, ghostVars>>
  PROVE  IInv'
BY PlainKnows, HoldsNothing, PlainKeeps DEF Go

-------------------------------------------------------------------------------
(* The requests that begin.                                                *)

\* The first administrator is one.
LEMMA EnsureAdminKeeps == ASSUME IInv, NEW p \in Requests, EnsureAdmin(p) PROVE IInv'
<1> DEFINE row == [Blank EXCEPT !.admin = TRUE, !.password = "temporary"]
           to == [New EXCEPT !.at = "insert", !.row = row]
<1>1. Begin(p, "Boot", to) /\ UNCHANGED <<storeVars, ghostVars>>
  BY DEF EnsureAdmin
<1>2. row \in Store!Row /\ row.admin = TRUE /\ row.active = TRUE
  BY BlankOK DEF Store!Row
<1> HIDE DEF row
<1>3. to \in Request /\ to.at = "insert" /\ to.then = "over" /\ to.held = {} /\ to.keys = {} /\ to.row = row
  BY <1>2, NewOK DEF Request, Places
<1> HIDE DEF to
<1>4. KnowsOn(to)
  BY <1>2, <1>3 DEF KnowsOn, SsoPlaces, Landing
<1>5. Knows(to)
  <2>1. to.at \in Plain /\ to.then \notin Landing
    BY <1>3 DEF Plain, Landing
  <2> QED BY <1>3, <1>4, <2>1, PlainKnows
<1> QED BY <1>1, <1>3, <1>5, BeginKeeps DEF Operations

\* An account whose row is there already, so that a further one need not be an
\* administrator's.
LEMMA InsertKeeps ==
  ASSUME IInv, NEW p \in Requests, NEW op \in Operations, NEW row \in Store!Row, users # <<>>,
         Begin(p, op, [New EXCEPT !.at = "insert", !.row = row]), UNCHANGED <<storeVars, ghostVars>>
  PROVE  IInv'
<1> DEFINE to == [New EXCEPT !.at = "insert", !.row = row]
<1>3. to \in Request /\ to.at = "insert" /\ to.then = "over" /\ to.held = {} /\ to.keys = {} /\ to.row = row
  BY NewOK DEF Request, Places
<1>0. Begin(p, op, to)
  OBVIOUS
<1> HIDE DEF to
<1>4. KnowsOn(to)
  BY <1>3 DEF KnowsOn, SsoPlaces, Landing
<1>5. Knows(to)
  <2>1. to.at \in Plain /\ to.then \notin Landing
    BY <1>3 DEF Plain, Landing
  <2> QED BY <1>3, <1>4, <2>1, PlainKnows
<1> QED BY <1>0, <1>3, <1>5, BeginKeeps

\* Somebody administers only where there are accounts.
LEMMA AdministratorIsThere ==
  ASSUME IInv, Administrator # {} PROVE users # <<>>
<1>1. users \in Seq(Store!Row)
  BY DEF IInv, Tables
<1>2. \E a \in DOMAIN users : TRUE
  BY DEF Administrator, Store!Admins
<1> QED BY <1>1, <1>2, Empty

\* An administrator makes an account.
LEMMA AdminCreateUserKeeps == ASSUME IInv, NEW p \in Requests, AdminCreateUser(p) PROVE IInv'
<1>1. PICK name \in Usernames, mail \in Store!Maybe, admin \in BOOLEAN :
        /\ Administrator # {}
        /\ Begin(p, "Create", [New EXCEPT !.at = "insert",
             !.row = [Blank EXCEPT !.name = name, !.email = mail, !.admin = admin, !.password = "temporary"]])
        /\ UNCHANGED <<storeVars, ghostVars>>
  BY DEF AdminCreateUser
<1> DEFINE row == [Blank EXCEPT !.name = name, !.email = mail, !.admin = admin, !.password = "temporary"]
<1>2. row \in Store!Row
  BY BlankOK DEF Store!Row
<1>3. Begin(p, "Create", [New EXCEPT !.at = "insert", !.row = row])
  BY <1>1
<1> HIDE DEF row
<1> QED BY <1>1, <1>2, <1>3, AdministratorIsThere, InsertKeeps DEF Operations

\* The directory makes an account.
LEMMA createUserKeeps == ASSUME IInv, NEW p \in Requests, createUser(p) PROVE IInv'
<1>1. PICK user \in Persons, active \in BOOLEAN, external \in Store!Maybe, mail \in Store!Maybe :
        /\ users # <<>>
        /\ Begin(p, "ScimCreate", [New EXCEPT !.at = "insert",
             !.row = [Blank EXCEPT !.scim = user, !.external = external, !.email = mail, !.active = active]])
        /\ UNCHANGED <<storeVars, ghostVars>>
  BY DEF createUser
<1> DEFINE row == [Blank EXCEPT !.scim = user, !.external = external, !.email = mail, !.active = active]
<1>2. row \in Store!Row
  BY BlankOK DEF Store!Row, Store!Maybe
<1>3. Begin(p, "ScimCreate", [New EXCEPT !.at = "insert", !.row = row])
  BY <1>1
<1> HIDE DEF row
<1> QED BY <1>1, <1>2, <1>3, InsertKeeps DEF Operations

\* A request comes to a place that asks for no lock.
LEMMA BeginPlain ==
  ASSUME IInv, NEW p \in Requests, NEW op \in Operations, NEW to \in Request, Begin(p, op, to),
         to.at \in Plain, to.then \notin Landing, to.held = {}, to.keys = {}, KnowsOn(to),
         UNCHANGED <<storeVars, ghostVars>>
  PROVE  IInv'
BY PlainKnows, BeginKeeps

\* The rows of the tables have numbers.
LEMMA Numbered ==
  ASSUME IInv
  PROVE  DOMAIN users \subseteq Nat \ {0} /\ DOMAIN invites \subseteq Nat \ {0} /\ DOMAIN audit \subseteq Nat \ {0}
<1>1. Len(users) \in Nat /\ DOMAIN users = 1 .. Len(users)
  BY LenProperties DEF IInv, Tables
<1>2. Len(invites) \in Nat /\ DOMAIN invites = 1 .. Len(invites)
  BY LenProperties DEF IInv, Tables
<1>3. Len(audit) \in Nat /\ DOMAIN audit = 1 .. Len(audit)
  BY LenProperties DEF IInv, Tables
<1> QED BY <1>1, <1>2, <1>3

\* A revocation names an invitation.
LEMMA RevokeInviteKeeps == ASSUME IInv, NEW p \in Requests, RevokeInvite(p) PROVE IInv'
<1>1. PICK i \in DOMAIN invites :
        /\ Begin(p, "Revoke", [New EXCEPT !.at = "revoke", !.on = i])
        /\ UNCHANGED <<storeVars, ghostVars>>
  BY DEF RevokeInvite
<1> DEFINE to == [New EXCEPT !.at = "revoke", !.on = i]
<1>2. to \in Request /\ to.at = "revoke" /\ to.then = "over" /\ to.held = {} /\ to.keys = {} /\ to.on = i
  BY NewOK, Numbered DEF Request, Places
<1>3. Begin(p, "Revoke", to)
  BY <1>1
<1> HIDE DEF to
<1>4. KnowsOn(to) /\ to.at \in Plain /\ to.then \notin Landing
  BY <1>2 DEF KnowsOn, SsoPlaces, Landing, Plain
<1> QED BY <1>1, <1>2, <1>3, <1>4, BeginPlain DEF Operations

\* So does a redemption.
LEMMA RedeemInviteKeeps == ASSUME IInv, NEW p \in Requests, RedeemInvite(p) PROVE IInv'
<1>1. PICK i \in DOMAIN invites, name \in Usernames, mail \in Store!Maybe :
        /\ Begin(p, "Redeem", [New EXCEPT !.at = "match", !.on = i,
             !.row = [Blank EXCEPT !.name = name, !.email = mail, !.password = "own"]])
        /\ UNCHANGED <<storeVars, ghostVars>>
  BY DEF RedeemInvite
<1> DEFINE row == [Blank EXCEPT !.name = name, !.email = mail, !.password = "own"]
           to == [New EXCEPT !.at = "match", !.on = i, !.row = row]
<1>0. row \in Store!Row
  BY BlankOK DEF Store!Row
<1>3. Begin(p, "Redeem", to)
  BY <1>1
<1> HIDE DEF row
<1>2. to \in Request /\ to.at = "match" /\ to.then = "over" /\ to.held = {} /\ to.keys = {} /\ to.on = i
  BY <1>0, NewOK, Numbered DEF Request, Places
<1> HIDE DEF to
<1>4. KnowsOn(to) /\ to.at \in Plain /\ to.then \notin Landing
  BY <1>2 DEF KnowsOn, SsoPlaces, Landing, Plain
<1> QED BY <1>1, <1>2, <1>3, <1>4, BeginPlain DEF Operations

\* An update names an account.
LEMMA UpdateUserAdminKeeps == ASSUME IInv, NEW p \in Requests, UpdateUserAdmin(p) PROVE IInv'
<1>1. PICK a \in DOMAIN users, admin \in {"keep", "yes", "no"}, active \in {"keep", "yes", "no"} :
        /\ Begin(p, "Update", [New EXCEPT !.at = "lock admins", !.on = a,
                                          !.want = [admin |-> admin, active |-> active]])
        /\ UNCHANGED <<storeVars, ghostVars>>
  BY DEF UpdateUserAdmin
<1> DEFINE want == [admin |-> admin, active |-> active]
           to == [New EXCEPT !.at = "lock admins", !.on = a, !.want = want]
<1>0. want \in [admin : Wishes, active : Wishes]
  BY DEF Wishes
<1>3. Begin(p, "Update", to)
  BY <1>1
<1> HIDE DEF want
<1>2. to \in Request /\ to.at = "lock admins" /\ to.then = "over" /\ to.held = {} /\ to.keys = {} /\ to.on = a
  BY <1>0, NewOK, Numbered DEF Request, Places
<1> HIDE DEF to
<1>4. KnowsOn(to) /\ to.at \in Plain /\ to.then \notin Landing
  BY <1>2 DEF KnowsOn, SsoPlaces, Landing, Plain
<1> QED BY <1>1, <1>2, <1>3, <1>4, BeginPlain DEF Operations

\* So does a forced reset.
LEMMA ForcePasswordResetKeeps == ASSUME IInv, NEW p \in Requests, ForcePasswordReset(p) PROVE IInv'
<1>1. PICK a \in DOMAIN users :
        /\ Begin(p, "Force", [New EXCEPT !.at = "force", !.on = a])
        /\ UNCHANGED <<storeVars, ghostVars>>
  BY DEF ForcePasswordReset
<1> DEFINE to == [New EXCEPT !.at = "force", !.on = a]
<1>3. Begin(p, "Force", to)
  BY <1>1
<1>2. to \in Request /\ to.at = "force" /\ to.then = "over" /\ to.held = {} /\ to.keys = {} /\ to.on = a
  BY NewOK, Numbered DEF Request, Places
<1> HIDE DEF to
<1>4. KnowsOn(to) /\ to.at \in Plain /\ to.then \notin Landing
  BY <1>2 DEF KnowsOn, SsoPlaces, Landing, Plain
<1> QED BY <1>1, <1>2, <1>3, <1>4, BeginPlain DEF Operations

\* So does what the directory writes ...
LEMMA commitKeeps == ASSUME IInv, NEW p \in Requests, commit(p) PROVE IInv'
<1>1. PICK a \in DOMAIN users, active \in BOOLEAN, external \in Store!Maybe, mail \in Store!Maybe :
        \E user \in Persons \cup {userNameOf(users[a])} :
        LET flag == [New.want EXCEPT !.active = IF active = users[a].active THEN "keep"
                                                ELSE IF active THEN "yes" ELSE "no"]
            old  == [users[a] EXCEPT !.scim = userNameOf(users[a])]
            row  == [users[a] EXCEPT !.scim = user, !.external = external, !.email = mail]
        IN
        /\ Begin(p, "ScimWrite", [New EXCEPT !.at = IF flag.active = "keep" THEN "replace" ELSE "lock admins",
             !.on = a, !.want = flag, !.then = "replace", !.row = row, !.same = row = old])
        /\ UNCHANGED <<storeVars, ghostVars>>
  BY DEF commit
<1>0. PICK user \in Persons \cup {userNameOf(users[a])} :
        LET flag == [New.want EXCEPT !.active = IF active = users[a].active THEN "keep"
                                                ELSE IF active THEN "yes" ELSE "no"]
            old  == [users[a] EXCEPT !.scim = userNameOf(users[a])]
            row  == [users[a] EXCEPT !.scim = user, !.external = external, !.email = mail]
        IN
        /\ Begin(p, "ScimWrite", [New EXCEPT !.at = IF flag.active = "keep" THEN "replace" ELSE "lock admins",
             !.on = a, !.want = flag, !.then = "replace", !.row = row, !.same = row = old])
        /\ UNCHANGED <<storeVars, ghostVars>>
  BY <1>1
<1> DEFINE flag == [New.want EXCEPT !.active = IF active = users[a].active THEN "keep"
                                               ELSE IF active THEN "yes" ELSE "no"]
           place == IF flag.active = "keep" THEN "replace" ELSE "lock admins"
           row == [users[a] EXCEPT !.scim = user, !.external = external, !.email = mail]
           same == row = [users[a] EXCEPT !.scim = userNameOf(users[a])]
           to == [New EXCEPT !.at = place, !.on = a, !.want = flag, !.then = "replace", !.row = row, !.same = same]
<1>3. Begin(p, "ScimWrite", to)
  BY <1>0
<1>5. flag \in [admin : Wishes, active : Wishes]
  BY DEF New, Wishes
<1>6. row \in Store!Row
  <2>1. users[a] \in Store!Row
    BY ElementOfSeq DEF IInv, Tables
  <2>2. user \in Store!Maybe \cup Usernames
    BY <1>0, <2>1 DEF userNameOf, Store!Row, Store!Maybe
  <2> QED BY <2>1, <2>2 DEF Store!Row
<1> HIDE DEF flag, row
<1>7. place \in {"replace", "lock admins"} /\ same \in BOOLEAN
  OBVIOUS
<1> HIDE DEF place, same
<1>2. to \in Request /\ to.at = place /\ to.then = "replace" /\ to.held = {} /\ to.keys = {} /\ to.on = a
  <2>1. PICK b \in BOOLEAN : b = same
    BY <1>7
  <2>2. place \in Places /\ a \in Nat /\ "replace" \in Ends
    BY <1>7, Numbered DEF Places, Ends
  <2>3. to = [New EXCEPT !.at = place, !.on = a, !.want = flag, !.then = "replace", !.row = row, !.same = b]
    BY <2>1
  <2> HIDE DEF to
  <2> QED BY <1>5, <1>6, <2>2, <2>3, NewOK DEF Request
<1> HIDE DEF to
<1>4. KnowsOn(to) /\ to.at \in Plain /\ to.then \notin Landing
  BY <1>2, <1>7 DEF KnowsOn, SsoPlaces, Landing, Plain
<1> QED BY <1>0, <1>2, <1>3, <1>4, BeginPlain DEF Operations

\* ... and what it deletes.
LEMMA deleteUserKeeps == ASSUME IInv, NEW p \in Requests, deleteUser(p) PROVE IInv'
<1>1. PICK a \in DOMAIN users :
        /\ Begin(p, "ScimDelete", [New EXCEPT !.at = "lock admins", !.on = a, !.want.active = "no"])
        /\ UNCHANGED <<storeVars, ghostVars>>
  BY DEF deleteUser
<1> DEFINE to == [New EXCEPT !.at = "lock admins", !.on = a, !.want.active = "no"]
<1>3. Begin(p, "ScimDelete", to)
  BY <1>1
<1>2. to \in Request /\ to.at = "lock admins" /\ to.then = "over" /\ to.held = {} /\ to.keys = {} /\ to.on = a
  BY NewOK, Numbered DEF Request, Places, Wishes
<1> HIDE DEF to
<1>4. KnowsOn(to) /\ to.at \in Plain /\ to.then \notin Landing
  BY <1>2 DEF KnowsOn, SsoPlaces, Landing, Plain
<1> QED BY <1>1, <1>2, <1>3, <1>4, BeginPlain DEF Operations

\* The provider answers for a person.
LEMMA CompleteOidcSignInKeeps == ASSUME IInv, NEW p \in Requests, CompleteOidcSignIn(p) PROVE IInv'
<1>1. PICK who \in Persons, addressed \in BOOLEAN, q \in linkRequests \cup {<<>>} :
        /\ Begin(p, "Sso", [New EXCEPT !.at = IF q = <<>> THEN "login" ELSE "callback", !.state = q, !.who = who,
                                       !.mail = IF addressed THEN who ELSE Nobody])
        /\ UNCHANGED <<storeVars, ghostVars>>
  BY DEF CompleteOidcSignIn
<1> DEFINE place == IF q = <<>> THEN "login" ELSE "callback"
           mail == IF addressed THEN who ELSE Nobody
           to == [New EXCEPT !.at = place, !.state = q, !.who = who, !.mail = mail]
<1>3. Begin(p, "Sso", to)
  BY <1>1
<1>5. place = "callback" => q \in Requests \X DOMAIN users
  BY DEF IInv, Tables
<1>6. q \in States
  BY Numbered DEF IInv, Tables, States
<1>7. place \in {"login", "callback"} /\ mail \in Store!Maybe /\ who \in Store!Maybe
  BY DEF Store!Maybe
<1> HIDE DEF place, mail
<1>2. /\ to \in Request /\ to.at = place /\ to.then = "over" /\ to.held = {} /\ to.keys = {} /\ to.state = q
      /\ to.who = who
  BY <1>6, <1>7, NewOK DEF Request, Places
<1> HIDE DEF to
<1>4. KnowsOn(to) /\ to.at \in Plain /\ to.then \notin Landing
  BY <1>2, <1>5, <1>7 DEF KnowsOn, SsoPlaces, Landing, Plain
<1> QED BY <1>1, <1>2, <1>3, <1>4, BeginPlain DEF Operations

\* An identity that is to go is of an account.
LEMMA UnlinkOidcIdentityKeeps == ASSUME IInv, NEW p \in Requests, UnlinkOidcIdentity(p) PROVE IInv'
<1>1. PICK a \in DOMAIN users :
        /\ Begin(p, "Unlink", [New EXCEPT !.at = "unlink", !.on = a])
        /\ UNCHANGED <<storeVars, ghostVars>>
  BY DEF UnlinkOidcIdentity
<1> DEFINE to == [New EXCEPT !.at = "unlink", !.on = a]
<1>3. Begin(p, "Unlink", to)
  BY <1>1
<1>2. to \in Request /\ to.at = "unlink" /\ to.then = "over" /\ to.held = {} /\ to.keys = {} /\ to.on = a
  BY NewOK, Numbered DEF Request, Places
<1> HIDE DEF to
<1>4. KnowsOn(to) /\ to.at \in Plain /\ to.then \notin Landing
  BY <1>2 DEF KnowsOn, SsoPlaces, Landing, Plain
<1> QED BY <1>1, <1>2, <1>3, <1>4, BeginPlain DEF Operations

\* A list is walked from its beginning.
LEMMA ListKeeps == ASSUME IInv, NEW p \in Requests, List(p) PROVE IInv'
<1>1. PICK kind \in Kinds : /\ Begin(p, "List", [New EXCEPT !.at = kind, !.stay = Listed(kind)])
                            /\ UNCHANGED <<storeVars, ghostVars>>
  BY DEF List
<1> DEFINE to == [New EXCEPT !.at = kind, !.stay = Listed(kind)]
<1>3. Begin(p, "List", to)
  BY <1>1
<1>5. Listed(kind) \subseteq Rows(kind) /\ Listed(kind) \subseteq Nat
  BY Numbered DEF Listed, Rows, Kinds
<1>2. /\ to \in Request /\ to.at = kind /\ to.then = "over" /\ to.held = {} /\ to.keys = {}
      /\ to.stay = Listed(kind) /\ to.got = {} /\ to.twice = FALSE /\ to.cursor = 0
  BY <1>5, NewOK DEF Request, Places, Kinds
<1> HIDE DEF to
<1>4. KnowsWalk(to)
  BY <1>2, <1>5 DEF KnowsWalk, Kinds
<1>6. /\ KnowsOn(to) /\ KnowsLocks(to) /\ KnowsRow(to) /\ KnowsInvite(to) /\ KnowsAdmins(to) /\ KnowsTail(to)
      /\ KnowsWho(to)
  BY <1>2 DEF KnowsOn, KnowsLocks, KnowsRow, KnowsInvite, KnowsAdmins, KnowsTail, KnowsWho, Kinds, SsoPlaces,
              Landing, Lands
<1>7. Knows(to)
  BY <1>4, <1>6 DEF Knows
<1> QED BY <1>1, <1>2, <1>3, <1>7, BeginKeeps DEF Operations

-------------------------------------------------------------------------------
(* The requests that look, and lock.                                       *)

\* What is known of a request, at hand.
LEMMA AtHand ==
  ASSUME IInv, NEW p \in Requests
  PROVE  req[p] \in Request /\ Knows(req[p]) /\ \A q \in Requests \ {p} : Apart(req[p], req[q]) /\ Knows(req[q])
BY DEF IInv

\* A request at a place that asks for no lock goes to another with what it has.
LEMMA GotoKeeps ==
  ASSUME IInv, NEW p \in Requests, req[p].at \in Plain, NEW a \in Plain, Goto(p, a), UNCHANGED <<storeVars, ghostVars>>,
         a \in {"lock admins", "replace", "force", "link", "adopt", "unlink"} => req[p].on \in DOMAIN users,
         a \in {"revoke", "match", "lock invite"} => req[p].on \in DOMAIN invites,
         a \in SsoPlaces => req[p].who \in Persons, a \notin {"callback", "insert", "insert sso"}
  PROVE  IInv'
<1> DEFINE r == [req[p] EXCEPT !.at = a]
<1>1. req[p] \in Request /\ KnowsOn(req[p]) /\ KnowsLocks(req[p])
  BY AtHand DEF Knows
<1>2. Go(p, r)
  BY DEF Goto
<1>3. /\ r \in Request /\ r.at = a /\ r.on = req[p].on /\ r.then = req[p].then /\ r.held = req[p].held
      /\ r.keys = req[p].keys /\ r.who = req[p].who
  <2>1. a \in Places
    BY DEF Plain, Places
  <2>2. r \in Request
    BY <1>1, <2>1 DEF Request
  <2>3. /\ r.at = a /\ r.on = req[p].on /\ r.then = req[p].then /\ r.held = req[p].held
        /\ r.keys = req[p].keys /\ r.who = req[p].who
    BY <1>1 DEF Request
  <2> QED BY <2>2, <2>3
<1> HIDE DEF r
<1>4. req[p].held = {} /\ req[p].keys = {} /\ req[p].at \notin {"record", "seal"}
  BY <1>1 DEF KnowsLocks, Plain
<1>5. r.then \notin Landing
  BY <1>1, <1>3 DEF KnowsOn, Plain, Landing
<1>6. KnowsOn(r)
  BY <1>1, <1>3, <1>5 DEF KnowsOn, Plain
<1> QED BY <1>2, <1>3, <1>4, <1>5, <1>6, GoKeeps

\* The snapshot shows the invitation, or not.
LEMMA MatchInviteKeeps == ASSUME IInv, NEW p \in Requests, MatchInvite(p) PROVE IInv'
<1>1. /\ req[p].at = "match" /\ (Goto(p, "lock invite") \/ End(p))
      /\ UNCHANGED <<storeVars, ghostVars>>
  BY DEF MatchInvite
<1>2. req[p].on \in DOMAIN invites
  BY <1>1, AtHand DEF Knows, KnowsOn
<1>3. CASE End(p)
  BY <1>1, <1>3, EndKeeps
<1>4. CASE Goto(p, "lock invite")
  BY <1>1, <1>2, <1>4, GotoKeeps DEF Plain, SsoPlaces
<1> QED BY <1>1, <1>3, <1>4

\* The locks that nobody else has go with what the others have.
LEMMA FreeIsApart ==
  ASSUME IInv, NEW p \in Requests, NEW r, NEW lock, Free(p, lock), r.held \subseteq req[p].held \cup {lock}, r.keys = {},
         NEW q \in Requests \ {p}
  PROVE  Apart(r, req[q])
<1>1. req[p].held \cap req[q].held = {}
  BY AtHand DEF Apart
<1>2. lock \notin req[q].held
  BY DEF Free
<1> QED BY <1>1, <1>2 DEF Apart

\* The invitation is locked.
LEMMA LockInviteKeeps == ASSUME IInv, NEW p \in Requests, LockInvite(p) PROVE IInv'
<1> DEFINE lock == <<"invite", req[p].on>>
           r == [req[p] EXCEPT !.at = "insert invited", !.held = {lock}]
<1>1. /\ req[p].at = "lock invite" /\ Free(p, lock) /\ UNCHANGED <<storeVars, ghostVars>>
      /\ (invites[req[p].on] \in {"open", "late"} /\ Go(p, r)) \/ End(p)
  BY DEF LockInvite
<1>2. CASE End(p)
  BY <1>1, <1>2, EndKeeps
<1>3. CASE invites[req[p].on] \in {"open", "late"} /\ Go(p, r)
  <2>1. req[p] \in Request /\ KnowsOn(req[p]) /\ KnowsLocks(req[p])
    BY AtHand DEF Knows
  <2>2. lock \in Locks
    BY <2>1 DEF Request, Locks
  <2>3. /\ r \in Request /\ r.at = "insert invited" /\ r.on = req[p].on /\ r.then = req[p].then /\ r.held = {lock}
        /\ r.keys = req[p].keys /\ r.who = req[p].who
    BY <2>1, <2>2 DEF Request, Places
  <2>4. req' = [req EXCEPT ![p] = r] /\ Free(p, lock) /\ lock = <<"invite", r.on>>
    BY <1>1, <1>3, <2>3 DEF Go
  <2> HIDE DEF r, lock
  <2>5. req[p].keys = {} /\ r.then \notin Landing /\ req[p].on \in DOMAIN invites
    BY <1>1, <2>1, <2>3 DEF KnowsLocks, KnowsOn, Landing
  <2>6. KnowsOn(r) /\ KnowsLocks(r)
    BY <2>1, <2>3, <2>4, <2>5 DEF KnowsOn, KnowsLocks, SsoPlaces
  <2>7. KnowsRow(r) /\ KnowsInvite(r) /\ KnowsAdmins(r) /\ KnowsTail(r) /\ KnowsWho(r) /\ KnowsWalk(r)
    BY <1>3, <2>3, <2>5 DEF KnowsRow, KnowsInvite, KnowsAdmins, KnowsTail, KnowsWho, KnowsWalk, Kinds, Lands, Landing
  <2>8. Knows(r)
    BY <2>6, <2>7 DEF Knows
  <2>9. \A q \in Requests \ {p} : Apart(r, req[q])
    BY <2>3, <2>4, <2>5, FreeIsApart
  <2> QED BY <1>1, <2>3, <2>4, <2>8, <2>9, PlainKeeps
<1> QED BY <1>1, <1>2, <1>3

\* The keys of an account, and those that nobody else has.
LEMMA KeysAreKeys == ASSUME NEW row \in Store!Row PROVE Store!Keys(row) \subseteq AllKeys
<1>1. /\ row.name \in Usernames /\ row.email \in Store!Maybe /\ row.external \in Store!Maybe
      /\ row.scim \in Store!Maybe \cup Usernames
  BY DEF Store!Row
<1> QED BY <1>1 DEF Store!Keys, AllKeys

\* The account of an invitation is inserted, and waits for the commit.
LEMMA InsertInvitedKeeps == ASSUME IInv, NEW p \in Requests, InsertInvited(p) PROVE IInv'
<1> DEFINE keys == Store!Keys(req[p].row)
           r == [req[p] EXCEPT !.at = "accept", !.keys = keys]
<1>1. /\ req[p].at = "insert invited" /\ ~KeyHeld(p, req[p].row) /\ UNCHANGED <<storeVars, ghostVars>>
      /\ (~Store!Taken(req[p].row) /\ Go(p, r)) \/ End(p)
  BY DEF InsertInvited
<1>2. CASE End(p)
  BY <1>1, <1>2, EndKeeps
<1>3. CASE ~Store!Taken(req[p].row) /\ Go(p, r)
  <2>1. req[p] \in Request /\ KnowsOn(req[p]) /\ KnowsLocks(req[p]) /\ KnowsInvite(req[p])
    BY AtHand DEF Knows
  <2>2. keys \subseteq AllKeys
    BY <2>1, KeysAreKeys DEF Request
  <2>3. /\ r \in Request /\ r.at = "accept" /\ r.on = req[p].on /\ r.then = req[p].then /\ r.held = req[p].held
        /\ r.keys = keys /\ r.who = req[p].who /\ r.row = req[p].row
    BY <2>1, <2>2 DEF Request, Places
  <2>4. req' = [req EXCEPT ![p] = r] /\ keys = Store!Keys(r.row) /\ ~Store!Taken(r.row)
    BY <1>1, <1>3, <2>3 DEF Go
  <2>5. ASSUME NEW q \in Requests \ {p} PROVE keys \cap req[q].keys = {}
    BY <1>1 DEF KeyHeld
  <2> HIDE DEF r, keys
  <2>6. req[p].held = {<<"invite", r.on>>} /\ r.then \notin Landing /\ r.on \in DOMAIN invites
    BY <1>1, <2>1, <2>3 DEF KnowsLocks, KnowsOn, Landing
  <2>7. KnowsOn(r) /\ KnowsLocks(r)
    BY <2>1, <2>3, <2>4, <2>6 DEF KnowsOn, KnowsLocks, SsoPlaces
  <2>8. KnowsRow(r) /\ KnowsInvite(r) /\ KnowsAdmins(r) /\ KnowsTail(r) /\ KnowsWho(r) /\ KnowsWalk(r)
    BY <1>1, <2>1, <2>3, <2>4, <2>6 DEF KnowsRow, KnowsInvite, KnowsAdmins, KnowsTail, KnowsWho, KnowsWalk, Kinds,
         Lands, Landing
  <2>9. Knows(r)
    BY <2>7, <2>8 DEF Knows
  <2>10. \A q \in Requests \ {p} : Apart(r, req[q])
    BY <2>3, <2>5, AtHand DEF Apart
  <2> QED BY <1>1, <2>3, <2>4, <2>9, <2>10, PlainKeeps
<1> QED BY <1>1, <1>2, <1>3

\* The set of administrators is locked.
LEMMA LockAdminsKeeps == ASSUME IInv, NEW p \in Requests, LockAdmins(p) PROVE IInv'
<1> DEFINE lock == <<"admins", 0>>
           r == [req[p] EXCEPT !.at = "update", !.held = {lock}]
<1>1. /\ req[p].at = "lock admins" /\ Free(p, lock) /\ UNCHANGED <<storeVars, ghostVars>> /\ Go(p, r)
  BY DEF LockAdmins
<1>2. req[p] \in Request /\ KnowsOn(req[p]) /\ KnowsLocks(req[p])
  BY AtHand DEF Knows
<1>3. lock \in Locks
  BY DEF Locks
<1>4. /\ r \in Request /\ r.at = "update" /\ r.on = req[p].on /\ r.then = req[p].then /\ r.held = {lock}
      /\ r.keys = req[p].keys /\ r.who = req[p].who
  BY <1>2, <1>3 DEF Request, Places
<1>5. req' = [req EXCEPT ![p] = r] /\ r.held = {<<"admins", 0>>}
  BY <1>1, <1>4 DEF Go
<1> HIDE DEF r, lock
<1>6. req[p].keys = {} /\ r.then \notin Landing /\ r.on \in DOMAIN users
  BY <1>1, <1>2, <1>4 DEF KnowsLocks, KnowsOn, Landing
<1>7. KnowsOn(r) /\ KnowsLocks(r)
  BY <1>2, <1>4, <1>5, <1>6 DEF KnowsOn, KnowsLocks, SsoPlaces
<1>8. KnowsRow(r) /\ KnowsInvite(r) /\ KnowsAdmins(r) /\ KnowsTail(r) /\ KnowsWho(r) /\ KnowsWalk(r)
  BY <1>4, <1>6 DEF KnowsRow, KnowsInvite, KnowsAdmins, KnowsTail, KnowsWho, KnowsWalk, Kinds, Lands, Landing
<1>9. Knows(r)
  BY <1>7, <1>8 DEF Knows
<1>10. \A q \in Requests \ {p} : Apart(r, req[q])
  BY <1>1, <1>4, <1>6, FreeIsApart
<1> QED BY <1>1, <1>4, <1>5, <1>9, <1>10, PlainKeeps

\* The account is locked, and an administrator would be left.
LEMMA CountAdminsKeeps == ASSUME IInv, NEW p \in Requests, CountAdmins(p) PROVE IInv'
<1> DEFINE a == req[p].on
           row == [users[a] EXCEPT !.admin = Wanted(req[p].want.admin, @), !.active = Wanted(req[p].want.active, @)]
           lock == <<"account", a>>
           r == [req[p] EXCEPT !.at = "commit", !.held = @ \cup {lock}]
<1>1. /\ req[p].at = "update" /\ Free(p, lock) /\ UNCHANGED <<storeVars, ghostVars>>
      /\ (Store!Admins([users EXCEPT ![a] = row]) # {} /\ Go(p, r)) \/ End(p)
  BY DEF CountAdmins
<1>2. CASE End(p)
  BY <1>1, <1>2, EndKeeps
<1>3. CASE Store!Admins([users EXCEPT ![a] = row]) # {} /\ Go(p, r)
  <2>1. req[p] \in Request /\ KnowsOn(req[p]) /\ KnowsLocks(req[p])
    BY AtHand DEF Knows
  <2>2. lock \in Locks /\ a \in DOMAIN users
    BY <1>1, <2>1 DEF Request, Locks, KnowsOn
  <2>3. /\ r \in Request /\ r.at = "commit" /\ r.on = a /\ r.then = req[p].then /\ r.held = req[p].held \cup {lock}
        /\ r.keys = req[p].keys /\ r.who = req[p].who /\ r.want = req[p].want
    BY <2>1, <2>2 DEF Request, Places
  <2>4. req[p].held = {<<"admins", 0>>} /\ req[p].keys = {} /\ r.then \notin Landing
    BY <1>1, <2>1, <2>3 DEF KnowsLocks, KnowsOn, Landing
  <2>5. req' = [req EXCEPT ![p] = r] /\ r.held = {<<"admins", 0>>, <<"account", r.on>>}
    BY <1>3, <2>3, <2>4 DEF Go
  <2>6. users \in Seq(Store!Row) /\ users[a] \in Store!Row
    BY <2>2, ElementOfSeq DEF IInv, Tables
  <2>7. row.admin = Wanted(r.want.admin, users[a].admin) /\ row.active = Wanted(r.want.active, users[a].active)
    BY <2>3, <2>6 DEF Store!Row
  <2>8. PICK b \in DOMAIN [users EXCEPT ![a] = row] : [users EXCEPT ![a] = row][b].admin /\ [users EXCEPT ![a] = row][b].active
    BY <1>3 DEF Store!Admins
  <2> HIDE DEF r, lock, row
  <2>9. b \in DOMAIN users /\ Leaves(r, b)
    <3>1. b \in DOMAIN users
      BY <2>8
    <3>2. CASE b = a
      <4>1. row.admin /\ row.active
        BY <2>2, <2>8, <3>2
      <4>2. Wanted(r.want.admin, users[a].admin) /\ Wanted(r.want.active, users[a].active)
        BY <2>7, <4>1
      <4> QED BY <2>3, <3>1, <3>2, <4>2 DEF Leaves
    <3>3. CASE b # a
      <4>1. users[b].admin /\ users[b].active
        BY <2>8, <3>1, <3>3
      <4> QED BY <2>3, <3>1, <3>3, <4>1 DEF Leaves
    <3> QED BY <3>2, <3>3
  <2>10. KnowsOn(r) /\ KnowsLocks(r)
    BY <2>1, <2>2, <2>3, <2>4, <2>5 DEF KnowsOn, KnowsLocks, SsoPlaces
  <2>11. KnowsRow(r) /\ KnowsInvite(r) /\ KnowsTail(r) /\ KnowsWho(r) /\ KnowsWalk(r)
    BY <2>3, <2>4 DEF KnowsRow, KnowsInvite, KnowsTail, KnowsWho, KnowsWalk, Kinds, Lands, Landing
  <2>12. Knows(r)
    BY <2>9, <2>10, <2>11 DEF Knows, KnowsAdmins
  <2>13. \A q \in Requests \ {p} : Apart(r, req[q])
    BY <1>1, <2>3, <2>4, FreeIsApart
  <2> QED BY <1>1, <2>3, <2>5, <2>12, <2>13, PlainKeeps
<1> QED BY <1>1, <1>2, <1>3

\* A person whose identity is linked goes on to a session of the account.
LEMMA SignInToKeeps ==
  ASSUME IInv, NEW p \in Requests, req[p].at \in {"login", "raced"}, NEW a \in Linked(req[p].who), SignInTo(p, a),
         UNCHANGED <<storeVars, ghostVars>>
  PROVE  IInv'
<1> DEFINE r == [req[p] EXCEPT !.at = "session", !.on = a]
<1>1. Go(p, r) \/ End(p)
  BY DEF SignInTo
<1>2. CASE End(p)
  BY <1>2, EndKeeps
<1>3. CASE Go(p, r)
  <2>1. req[p] \in Request /\ KnowsOn(req[p]) /\ KnowsLocks(req[p])
    BY AtHand DEF Knows
  <2>2. a \in DOMAIN users /\ identities[a] = req[p].who /\ a \in Nat
    BY Numbered DEF Linked
  <2>3. /\ r \in Request /\ r.at = "session" /\ r.on = a /\ r.then = req[p].then /\ r.held = req[p].held
        /\ r.keys = req[p].keys /\ r.who = req[p].who
    BY <2>1, <2>2 DEF Request, Places
  <2>4. req' = [req EXCEPT ![p] = r]
    BY <1>3 DEF Go
  <2> HIDE DEF r
  <2>5. r.keys = {} /\ r.held = {} /\ r.who \in Persons
    BY <2>1, <2>3 DEF KnowsLocks, KnowsOn, SsoPlaces
  <2>6. KnowsOn(r) /\ KnowsLocks(r)
    BY <2>1, <2>2, <2>3, <2>5 DEF KnowsOn, KnowsLocks, SsoPlaces, Landing
  <2>7. KnowsRow(r) /\ KnowsInvite(r) /\ KnowsAdmins(r) /\ KnowsTail(r) /\ KnowsWho(r) /\ KnowsWalk(r)
    BY <2>2, <2>3 DEF KnowsRow, KnowsInvite, KnowsAdmins, KnowsTail, KnowsWho, KnowsWalk, Kinds
  <2>8. Knows(r)
    BY <2>6, <2>7 DEF Knows
  <2>9. \A q \in Requests \ {p} : Apart(r, req[q])
    BY <2>5, HoldsNothing
  <2> QED BY <2>3, <2>4, <2>8, <2>9, PlainKeeps
<1> QED BY <1>1, <1>2, <1>3

\* Whom the provider vouches for is looked up by identity ...
LEMMA completeOidcLoginKeeps == ASSUME IInv, NEW p \in Requests, completeOidcLogin(p) PROVE IInv'
<1>1. req[p].at = "login" /\ UNCHANGED <<storeVars, ghostVars>> /\ req[p].who \in Persons
  BY AtHand DEF completeOidcLogin, Knows, KnowsOn, SsoPlaces
<1>2. CASE \E a \in Linked(req[p].who) : SignInTo(p, a)
  BY <1>1, <1>2, SignInToKeeps
<1>3. CASE Goto(p, "provision")
  BY <1>1, <1>3, GotoKeeps DEF Plain
<1>4. CASE Goto(p, "by email")
  BY <1>1, <1>4, GotoKeeps DEF Plain
<1> QED BY <1>2, <1>3, <1>4 DEF completeOidcLogin

\* ... or joins the one who came first.
LEMMA JoinWinnerKeeps == ASSUME IInv, NEW p \in Requests, JoinWinner(p) PROVE IInv'
<1>1. req[p].at = "raced" /\ UNCHANGED <<storeVars, ghostVars>>
  BY DEF JoinWinner
<1>2. CASE \E a \in Linked(req[p].who) : SignInTo(p, a)
  BY <1>1, <1>2, SignInToKeeps
<1>3. CASE End(p)
  BY <1>1, <1>3, EndKeeps
<1> QED BY <1>2, <1>3 DEF JoinWinner

\* ... by address ...
LEMMA adoptOrRefuseKeeps == ASSUME IInv, NEW p \in Requests, adoptOrRefuse(p) PROVE IInv'
<1>1. req[p].at = "by email" /\ UNCHANGED <<storeVars, ghostVars>> /\ req[p].who \in Persons
  BY AtHand DEF adoptOrRefuse, Knows, KnowsOn, SsoPlaces
<1>2. CASE Goto(p, "provision")
  BY <1>1, <1>2, GotoKeeps DEF Plain
<1>3. CASE End(p)
  BY <1>1, <1>3, EndKeeps
<1>4. CASE \E a \in DOMAIN users : Go(p, [req[p] EXCEPT !.at = "adopt", !.on = a])
  <2>1. PICK a \in DOMAIN users : Go(p, [req[p] EXCEPT !.at = "adopt", !.on = a])
    BY <1>4
  <2> DEFINE r == [req[p] EXCEPT !.at = "adopt", !.on = a]
  <2>2. req[p] \in Request /\ KnowsOn(req[p]) /\ KnowsLocks(req[p]) /\ a \in Nat
    BY AtHand, Numbered DEF Knows
  <2>3. /\ r \in Request /\ r.at = "adopt" /\ r.on = a /\ r.then = req[p].then /\ r.held = req[p].held
        /\ r.keys = req[p].keys /\ r.who = req[p].who
    BY <2>2 DEF Request, Places
  <2>4. Go(p, r)
    BY <2>1
  <2> HIDE DEF r
  <2>5. r.keys = {} /\ r.held = {} /\ r.then \notin Landing /\ r.at \in Plain
    BY <1>1, <2>2, <2>3 DEF KnowsLocks, KnowsOn, SsoPlaces, Landing, Plain
  <2>6. KnowsOn(r)
    BY <1>1, <2>2, <2>3, <2>5 DEF KnowsOn, SsoPlaces
  <2> QED BY <1>1, <2>3, <2>4, <2>5, <2>6, GoKeeps
<1>5. Goto(p, "provision") \/ End(p) \/ \E a \in DOMAIN users : Go(p, [req[p] EXCEPT !.at = "adopt", !.on = a])
  BY DEF adoptOrRefuse
<1> QED BY <1>2, <1>3, <1>4, <1>5

\* ... and provisioned, if the organisation does that.
LEMMA provisionIdentityKeeps == ASSUME IInv, NEW p \in Requests, provisionIdentity(p) PROVE IInv'
<1> DEFINE row == [Blank EXCEPT !.email = req[p].mail]
           r == [req[p] EXCEPT !.at = "insert sso", !.row = row]
<1>1. /\ req[p].at = "provision" /\ UNCHANGED <<storeVars, ghostVars>>
      /\ (users # <<>> /\ Go(p, r)) \/ End(p)
  BY DEF provisionIdentity
<1>2. CASE End(p)
  BY <1>1, <1>2, EndKeeps
<1>3. CASE users # <<>> /\ Go(p, r)
  <2>1. req[p] \in Request /\ KnowsOn(req[p]) /\ KnowsLocks(req[p])
    BY AtHand DEF Knows
  <2>2. row \in Store!Row
    BY <2>1, BlankOK DEF Request, Store!Row
  <2> HIDE DEF row
  <2>3. /\ r \in Request /\ r.at = "insert sso" /\ r.on = req[p].on /\ r.then = req[p].then /\ r.held = req[p].held
        /\ r.keys = req[p].keys /\ r.who = req[p].who
    BY <2>1, <2>2 DEF Request, Places
  <2> HIDE DEF r
  <2>5. r.keys = {} /\ r.held = {} /\ r.then \notin Landing /\ r.at \in Plain
    BY <1>1, <2>1, <2>3 DEF KnowsLocks, KnowsOn, SsoPlaces, Landing, Plain
  <2>6. KnowsOn(r)
    BY <1>1, <1>3, <2>1, <2>3, <2>5 DEF KnowsOn, SsoPlaces
  <2> QED BY <1>1, <1>3, <2>3, <2>5, <2>6, GoKeeps
<1> QED BY <1>1, <1>2, <1>3

\* The next name is one.
LEMMA NextIsName == ASSUME NEW n \in Usernames, n + 1 < MaxAttempts PROVE n + 1 \in Usernames
<1>1. n \in Nat
  BY Constants
<1>2. n + 1 \in Nat
  BY <1>1
<1> QED BY <1>2, Constants

\* The next name is tried.
LEMMA NextNameKeeps ==
  ASSUME IInv, NEW p \in Requests, req[p].at \in {"insert", "insert sso"}, NextName(p), UNCHANGED <<storeVars, ghostVars>>
  PROVE  IInv'
<1> DEFINE row == [req[p].row EXCEPT !.name = @ + 1]
           r == [req[p] EXCEPT !.row = row]
<1>1. req[p] \in Request /\ KnowsOn(req[p]) /\ KnowsLocks(req[p])
  BY AtHand DEF Knows
<1>2. (req[p].row.name + 1 < MaxAttempts /\ Go(p, r)) \/ End(p)
  BY <1>1 DEF NextName, Request
<1>3. CASE End(p)
  BY <1>3, EndKeeps
<1>4. CASE req[p].row.name + 1 < MaxAttempts /\ Go(p, r)
  <2>1. req[p].row \in Store!Row
    BY <1>1 DEF Request
  <2>2. req[p].row.name \in Usernames
    BY <2>1 DEF Store!Row
  <2>3. req[p].row.name + 1 \in Usernames
    BY <1>4, <2>2, NextIsName
  <2>4. row \in Store!Row /\ row.admin = req[p].row.admin /\ row.active = req[p].row.active
    BY <2>1, <2>3 DEF Store!Row
  <2> HIDE DEF row
  <2>5. /\ r \in Request /\ r.at = req[p].at /\ r.on = req[p].on /\ r.then = req[p].then /\ r.held = req[p].held
        /\ r.keys = req[p].keys /\ r.who = req[p].who /\ r.row = row
    BY <1>1, <2>4 DEF Request
  <2> HIDE DEF r
  <2>6. r.keys = {} /\ r.held = {} /\ r.then \notin Landing /\ r.at \in Plain
    BY <1>1, <2>5 DEF KnowsLocks, KnowsOn, Landing, Plain
  <2>7. KnowsOn(r)
    BY <1>1, <2>4, <2>5, <2>6 DEF KnowsOn, SsoPlaces
  <2> QED BY <1>4, <2>5, <2>6, <2>7, GoKeeps
<1> QED BY <1>2, <1>3, <1>4

\* The account of a sign-in is inserted, and waits for its identity.
LEMMA InsertSsoUserKeeps == ASSUME IInv, NEW p \in Requests, InsertSsoUser(p) PROVE IInv'
<1> DEFINE keys == Store!Keys(req[p].row)
           r == [req[p] EXCEPT !.at = "insert identity", !.keys = keys]
<1>1. /\ req[p].at = "insert sso" /\ ~KeyHeld(p, req[p].row) /\ UNCHANGED <<storeVars, ghostVars>>
      /\ (~Store!Taken(req[p].row) /\ Go(p, r)) \/ NextName(p) \/ Goto(p, "raced")
  BY DEF InsertSsoUser
<1>2. req[p] \in Request /\ KnowsOn(req[p]) /\ KnowsLocks(req[p])
  BY AtHand DEF Knows
<1>3. CASE NextName(p)
  BY <1>1, <1>3, NextNameKeeps
<1>4. CASE Goto(p, "raced")
  <2>1. req[p].who \in Persons
    BY <1>1, <1>2 DEF KnowsOn, SsoPlaces
  <2> QED BY <1>1, <1>4, <2>1, GotoKeeps DEF Plain
<1>5. CASE ~Store!Taken(req[p].row) /\ Go(p, r)
  <2>2. keys \subseteq AllKeys
    BY <1>2, KeysAreKeys DEF Request
  <2>3. /\ r \in Request /\ r.at = "insert identity" /\ r.on = req[p].on /\ r.then = req[p].then
        /\ r.held = req[p].held /\ r.keys = keys /\ r.who = req[p].who /\ r.row = req[p].row
    BY <1>2, <2>2 DEF Request, Places
  <2>4. req' = [req EXCEPT ![p] = r] /\ keys = Store!Keys(r.row) /\ ~Store!Taken(r.row)
    BY <1>5, <2>3 DEF Go
  <2>5. ASSUME NEW q \in Requests \ {p} PROVE keys \cap req[q].keys = {}
    BY <1>1 DEF KeyHeld
  <2> HIDE DEF r, keys
  <2>6. req[p].held = {} /\ r.then \notin Landing /\ r.who \in Persons /\ users # <<>>
    BY <1>1, <1>2, <2>3 DEF KnowsLocks, KnowsOn, Landing, SsoPlaces
  <2>7. KnowsOn(r) /\ KnowsLocks(r)
    BY <1>2, <2>3, <2>4, <2>6 DEF KnowsOn, KnowsLocks, SsoPlaces
  <2>8. KnowsRow(r) /\ KnowsInvite(r) /\ KnowsAdmins(r) /\ KnowsTail(r) /\ KnowsWho(r) /\ KnowsWalk(r)
    BY <2>3, <2>4, <2>6 DEF KnowsRow, KnowsInvite, KnowsAdmins, KnowsTail, KnowsWho, KnowsWalk, Kinds, Lands, Landing
  <2>9. Knows(r)
    BY <2>7, <2>8 DEF Knows
  <2>10. \A q \in Requests \ {p} : Apart(r, req[q])
    BY <2>3, <2>5, AtHand DEF Apart
  <2> QED BY <1>1, <2>3, <2>4, <2>9, <2>10, PlainKeeps
<1> QED BY <1>1, <1>3, <1>4, <1>5

-------------------------------------------------------------------------------
(* The audit log.                                                          *)

\* The chain is locked and its end read.
LEMMA LockChainKeeps == ASSUME IInv, NEW p \in Requests, LockChain(p) PROVE IInv'
<1> DEFINE lock == <<"chain", 0>>
           r == [req[p] EXCEPT !.at = "seal", !.tail = Len(audit), !.held = {lock}]
<1>1. /\ req[p].at = "record" /\ Free(p, lock) /\ UNCHANGED <<storeVars, ghostVars>> /\ Go(p, r)
  BY DEF LockChain
<1>2. req[p] \in Request /\ Knows(req[p])
  BY AtHand
<1>3. lock \in Locks /\ Len(audit) \in Nat
  BY LenProperties DEF Locks, IInv, Tables
<1>4. /\ r \in Request /\ r.at = "seal" /\ r.on = req[p].on /\ r.then = req[p].then /\ r.held = {lock}
      /\ r.keys = req[p].keys /\ r.who = req[p].who /\ r.todo = req[p].todo /\ r.tail = Len(audit)
  BY <1>2, <1>3 DEF Request, Places
<1>5. req' = [req EXCEPT ![p] = r] /\ r.held = {<<"chain", 0>>}
  BY <1>1, <1>4 DEF Go
<1>6. UNCHANGED <<Shared, owed, lost>>
  BY <1>1 DEF storeVars, ghostVars, Shared
<1> HIDE DEF r, lock
<1>7. req[p].keys = {} /\ KnowsOn(r) /\ KnowsLocks(r)
  BY <1>1, <1>2, <1>4, <1>5 DEF Knows, KnowsOn, KnowsLocks, SsoPlaces
<1>8. KnowsRow(r) /\ KnowsInvite(r) /\ KnowsAdmins(r) /\ KnowsTail(r) /\ KnowsWho(r) /\ KnowsWalk(r)
  BY <1>1, <1>2, <1>4 DEF Knows, KnowsRow, KnowsInvite, KnowsAdmins, KnowsTail, KnowsWho, KnowsWalk, Kinds, Lands,
                          Landing
<1>9. Knows(r)
  BY <1>7, <1>8 DEF Knows
<1>10. \A q \in Requests \ {p} : Apart(r, req[q])
  BY <1>1, <1>4, <1>7, FreeIsApart
<1>11. Audited'
  <2>1. \A q \in Requests, e \in Entries : InLog(q, e) => InLog(q, e)'
    BY <1>6 DEF InLog, Shared
  <2>2. ASSUME NEW e \in Entries, <<p, e>> \in owed' PROVE <<p, e>> \in lost' \/ InLog(p, e)' \/ Pending(r, e)
    <3>1. <<p, e>> \in lost \/ InLog(p, e) \/ Pending(req[p], e)
      BY <1>6, <2>2 DEF IInv, Audited
    <3> QED BY <1>4, <1>6, <2>1, <3>1 DEF Pending
  <2> QED BY <1>4, <1>5, <1>6, <2>1, <2>2, AuditedStays
<1>12. owed' \cup lost' \subseteq Requests \X Changes
  BY <1>6 DEF IInv, Tables
<1> QED BY <1>4, <1>5, <1>6, <1>9, <1>10, <1>11, <1>12, MoveKeeps

\* After an entry there is the next one, or what the request does then.
LEMMA AfterEntryOK ==
  ASSUME IInv, NEW p \in Requests, req[p].at \in {"record", "seal"}, NEW r, r = AfterEntry(p)
  PROVE  /\ r \in Request /\ Knows(r) /\ r.held = {} /\ r.keys = {} /\ r.at # "seal"
         /\ Head(req[p].todo) \in Entries
         /\ \A e \in Entries : Pending(req[p], e) => e = Head(req[p].todo) \/ Pending(r, e)
<1> DEFINE todo == req[p].todo
           place == IF Len(todo) > 1 THEN "record" ELSE req[p].then
<1>1. req[p] \in Request /\ Knows(req[p])
  BY AtHand
<1>2. todo \in Seq(Entries) /\ todo # <<>> /\ req[p].then \in Ends
  BY <1>1 DEF Request, Knows, KnowsLocks
<1>3. /\ Head(todo) \in Entries /\ Tail(todo) \in Seq(Entries) /\ Len(Tail(todo)) = Len(todo) - 1
      /\ \A i \in 1 .. Len(Tail(todo)) : Tail(todo)[i] = todo[i + 1]
  BY <1>2, HeadTailProperties
<1>4. Len(todo) \in Nat /\ DOMAIN todo = 1 .. Len(todo) /\ DOMAIN Tail(todo) = 1 .. Len(Tail(todo))
  BY <1>2, <1>3, LenProperties
<1>5. place \in Places /\ (place = "record" \/ place = req[p].then)
  BY <1>2 DEF Places, Ends
<1>6. r = [req[p] EXCEPT !.todo = Tail(todo), !.held = {}, !.at = place]
  BY DEF AfterEntry
<1>7. place = "record" => Len(todo) > 1
  BY <1>2 DEF Ends
<1>8. Head(todo) = todo[1]
  BY <1>2
<1> HIDE DEF place
<1>9. /\ r \in Request /\ r.at = place /\ r.on = req[p].on /\ r.then = req[p].then /\ r.held = {}
      /\ r.keys = req[p].keys /\ r.who = req[p].who /\ r.todo = Tail(todo)
  <2>1. r \in Request
    BY <1>1, <1>3, <1>5, <1>6 DEF Request
  <2>2. /\ r.at = place /\ r.on = req[p].on /\ r.then = req[p].then /\ r.held = {}
        /\ r.keys = req[p].keys /\ r.who = req[p].who /\ r.todo = Tail(todo)
    BY <1>1, <1>6 DEF Request
  <2> QED BY <2>1, <2>2
<1>10. place = "record" => Tail(todo) # <<>>
  <2>1. ASSUME place = "record" PROVE 1 \in DOMAIN Tail(todo)
    BY <1>3, <1>4, <1>7, <2>1
  <2> QED BY <1>3, <2>1, Empty
<1> HIDE DEF todo
<1>11. place \in {"record", "over", "replace", "session", "signed in"}
  BY <1>2, <1>5 DEF Ends
<1>12. KnowsOn(r)
  BY <1>1, <1>5, <1>9, <1>11 DEF Knows, KnowsOn, Landing, SsoPlaces
<1>13. r.keys = {} /\ KnowsLocks(r)
  BY <1>1, <1>9, <1>10, <1>11 DEF Knows, KnowsLocks
<1>14. KnowsRow(r) /\ KnowsInvite(r) /\ KnowsAdmins(r) /\ KnowsTail(r) /\ KnowsWalk(r)
  BY <1>9, <1>11 DEF KnowsRow, KnowsInvite, KnowsAdmins, KnowsTail, KnowsWalk, Kinds
<1>15. KnowsWho(r)
  BY <1>1, <1>5, <1>9, <1>11 DEF Knows, KnowsWho, Lands, Landing
<1>16. ASSUME NEW e \in Entries, Pending(req[p], e), e # Head(todo) PROVE Pending(r, e)
  <2>1. PICK i \in DOMAIN todo : todo[i] = e
    BY <1>16 DEF Pending, todo
  <2>2. i \in Nat /\ i # 1 /\ i <= Len(todo) /\ 1 <= i
    BY <1>4, <1>8, <1>16, <2>1
  <2>3. i - 1 \in 1 .. Len(Tail(todo)) /\ (i - 1) + 1 = i /\ Len(todo) > 1
    BY <1>3, <1>4, <2>2
  <2>4. Tail(todo)[i - 1] = e
    BY <1>3, <2>1, <2>3
  <2>5. r.at = "record"
    BY <1>9, <2>3 DEF place, todo
  <2> QED BY <1>4, <1>9, <2>3, <2>4, <2>5 DEF Pending
<1> QED BY <1>3, <1>9, <1>11, <1>12, <1>13, <1>14, <1>15, <1>16 DEF Knows, todo

\* An entry that could not be appended is lost, and logged.
LEMMA AppendFailsKeeps == ASSUME IInv, NEW p \in Requests, AppendFails(p) PROVE IInv'
<1> DEFINE r == AfterEntry(p)
           e0 == Head(req[p].todo)
<1>1. /\ req[p].at \in {"record", "seal"} /\ lost' = lost \cup {<<p, e0>>} /\ req' = [req EXCEPT ![p] = r]
      /\ UNCHANGED <<Shared, owed>>
  BY DEF AppendFails, Go, Shared, storeVars
<1>2. /\ r \in Request /\ Knows(r) /\ r.held = {} /\ r.keys = {} /\ e0 \in Entries
      /\ \A e \in Entries : Pending(req[p], e) => e = e0 \/ Pending(r, e)
  BY <1>1, AfterEntryOK
<1> HIDE DEF r, e0
<1>3. \A q \in Requests, e \in Entries : InLog(q, e) => InLog(q, e)'
  BY <1>1 DEF InLog, Shared
<1>4. ASSUME NEW e \in Entries, <<p, e>> \in owed' PROVE <<p, e>> \in lost' \/ InLog(p, e)' \/ Pending(r, e)
  <2>1. <<p, e>> \in lost \/ InLog(p, e) \/ Pending(req[p], e)
    BY <1>1, <1>4 DEF IInv, Audited
  <2> QED BY <1>1, <1>2, <1>3, <2>1
<1>5. Audited'
  BY <1>1, <1>2, <1>3, <1>4, AuditedStays
<1>6. owed' \cup lost' \subseteq Requests \X Changes
  BY <1>1, <1>2 DEF IInv, Tables, Changes
<1>7. \A q \in Requests \ {p} : Apart(r, req[q])
  BY <1>2, HoldsNothing
<1> QED BY <1>1, <1>2, <1>5, <1>6, <1>7, MoveKeeps

\* A change whose answer was lost leaves nothing.
LEMMA AnswerLostKeeps == ASSUME IInv, NEW p \in Requests, AnswerLost(p) PROVE IInv'
<1>0. PICK todo : todo = req[p].todo
  OBVIOUS
<1>1. /\ req[p].at = "record" /\ lost' = lost \cup {<<p, todo[i]>> : i \in DOMAIN todo}
      /\ req' = [req EXCEPT ![p] = Over] /\ UNCHANGED <<Shared, owed>>
  BY <1>0 DEF AnswerLost, End, Go, Shared, storeVars
<1>2. \A i \in DOMAIN todo : todo[i] \in Entries
  <2>1. todo \in Seq(Entries)
    BY <1>0, AtHand DEF Request
  <2> QED BY <2>1
<1>3. \A q \in Requests, e \in Entries : InLog(q, e) => InLog(q, e)'
  BY <1>1 DEF InLog, Shared
<1>4. ASSUME NEW e \in Entries, <<p, e>> \in owed' PROVE <<p, e>> \in lost' \/ InLog(p, e)'
  <2>1. <<p, e>> \in lost \/ InLog(p, e) \/ Pending(req[p], e)
    BY <1>1, <1>4 DEF IInv, Audited
  <2>2. CASE Pending(req[p], e)
    <3>1. PICK i \in DOMAIN todo : todo[i] = e
      BY <1>0, <2>2 DEF Pending
    <3> QED BY <1>1, <3>1
  <2> QED BY <1>1, <1>3, <2>1, <2>2
<1>5. Audited'
  BY <1>1, <1>3, <1>4, OverOK, AuditedStays
<1>6. owed' \cup lost' \subseteq Requests \X Changes
  BY <1>1, <1>2 DEF IInv, Tables, Changes
<1>7. \A q \in Requests \ {p} : Apart(Over, req[q])
  BY OverOK, HoldsNothing
<1> QED BY <1>1, <1>5, <1>6, <1>7, OverOK, KnowsNothing, MoveKeeps

\* What all others know does not depend on the log, but for the request that
\* has locked the chain.
LEMMA LogGrows ==
  ASSUME NEW r, Knows(r), r.at # "seal", UNCHANGED <<users, identities, invites, unlinked>>,
         DOMAIN audit \subseteq DOMAIN audit'
  PROVE  Knows(r)'
<1>1. KnowsOn(r)' /\ KnowsLocks(r)' /\ KnowsTail(r)'
  BY DEF Knows, KnowsOn, KnowsLocks, KnowsTail
<1>2. KnowsRow(r)' /\ KnowsInvite(r)' /\ KnowsAdmins(r)'
  BY DEF Knows, KnowsRow, KnowsInvite, KnowsAdmins, Store!Taken, Store!TakenBut, Leaves
<1>3. KnowsWho(r)' /\ KnowsWalk(r)'
  BY WalkStays DEF Knows, KnowsWho
<1> QED BY <1>1, <1>2, <1>3 DEF Knows

\* The entry is appended to the end that was read under the lock, and not
\* before it in time.
LEMMA AppendAuditEntryKeeps == ASSUME IInv, NEW p \in Requests, AppendAuditEntry(p) PROVE IInv'
<1>0. PICK r, e0 : r = AfterEntry(p) /\ e0 = Head(req[p].todo)
  OBVIOUS
<1> DEFINE n == Len(audit)
<1>1. PICK now \in Clocks :
        /\ req[p].at = "seal"
        /\ audit' = Append(audit, [id |-> p, what |-> e0, prev |-> req[p].tail, at |-> Stamp(now, req[p].tail)])
        /\ req' = [req EXCEPT ![p] = r]
        /\ UNCHANGED <<users, identities, linkRequests, signedIn, invites, ghostVars>>
  BY <1>0 DEF AppendAuditEntry, Go
<1>2. /\ r \in Request /\ Knows(r) /\ r.held = {} /\ r.keys = {} /\ r.at # "seal" /\ e0 \in Entries
      /\ \A e \in Entries : Pending(req[p], e) => e = e0 \/ Pending(r, e)
  BY <1>0, <1>1, AfterEntryOK
<1>3. req[p].tail = n
  BY <1>1, AtHand DEF Knows, KnowsTail
<1>4. audit \in Seq(AuditRow) /\ n \in Nat /\ DOMAIN audit = 1 .. n /\ now \in Nat
  BY LenProperties, Constants DEF IInv, Tables
<1>5. ASSUME NEW i \in DOMAIN audit PROVE audit[i] \in AuditRow /\ audit[i].at \in Nat
  <2>1. audit[i] \in AuditRow
    BY <1>4, ElementOfSeq
  <2> QED BY <2>1 DEF AuditRow
<1> DEFINE time == Stamp(now, n)
           row == [id |-> p, what |-> e0, prev |-> n, at |-> time]
<1>6. time \in Nat /\ \A i \in DOMAIN audit : audit[i].at <= time
  <2>1. CASE n = 0
    BY <1>4, <2>1 DEF Stamp
  <2>2. CASE n # 0
    <3>1. n \in DOMAIN audit /\ audit[n].at \in Nat
      BY <1>4, <1>5, <2>2
    <3>2. time \in Nat /\ audit[n].at <= time
      BY <1>4, <3>1 DEF Stamp
    <3>3. ASSUME NEW i \in DOMAIN audit PROVE audit[i].at <= time
      <4>1. i <= n /\ audit[i].at \in Nat
        BY <1>4, <1>5
      <4>2. audit[i].at <= audit[n].at
        BY <3>1, <4>1 DEF IInv, Facts, Times
      <4> QED BY <3>1, <3>2, <4>1, <4>2
    <3> QED BY <3>2, <3>3
  <2> QED BY <2>1, <2>2
<1>7. audit' = Append(audit, row)
  BY <1>1, <1>3
<1> HIDE DEF time
<1>8. row \in AuditRow /\ row.id = p /\ row.what = e0 /\ row.prev = n /\ row.at = time
  BY <1>2, <1>4, <1>6 DEF AuditRow
<1> HIDE DEF row
<1>9. /\ audit' \in Seq(AuditRow) /\ DOMAIN audit \subseteq DOMAIN audit'
      /\ \A i \in DOMAIN audit' : i \in DOMAIN audit \/ i = n + 1
      /\ n + 1 \in DOMAIN audit' /\ n + 1 \notin DOMAIN audit
      /\ audit'[n + 1] = row /\ \A i \in DOMAIN audit : audit'[i] = audit[i]
  BY <1>4, <1>7, <1>8, Longer
<1> HIDE DEF n
<1>10. Tables'
  BY <1>1, <1>9 DEF IInv, Tables, ghostVars
<1>11. AdminRemains' /\ InvitesComeLater' /\ OneIdentityEach' /\ Invited' /\ NoFalseAlarm'
  BY <1>1 DEF IInv, Facts, AdminRemains, InvitesComeLater, OneIdentityEach, Invited, NoFalseAlarm, ghostVars,
              Store!Admins
<1>12. ChainDoesNotFork'
  <2>1. ASSUME NEW i \in DOMAIN audit' PROVE audit'[i].prev = i - 1
    <3>1. CASE i \in DOMAIN audit
      BY <1>9, <3>1 DEF IInv, Facts, ChainDoesNotFork
    <3>2. CASE i = n + 1
      BY <1>4, <1>8, <1>9, <3>2
    <3> QED BY <1>9, <3>1, <3>2
  <2> QED BY <2>1 DEF ChainDoesNotFork
<1>13. Times'
  <2>1. ASSUME NEW i \in DOMAIN audit', NEW j \in DOMAIN audit', i <= j PROVE audit'[i].at <= audit'[j].at
    <3>1. CASE i \in DOMAIN audit /\ j \in DOMAIN audit
      BY <1>9, <2>1, <3>1 DEF IInv, Facts, Times
    <3>2. CASE i \in DOMAIN audit /\ j = n + 1
      BY <1>6, <1>8, <1>9, <3>2
    <3>3. CASE i = n + 1 /\ j = n + 1
      BY <1>6, <1>8, <1>9, <3>3
    <3>4. CASE i = n + 1 /\ j \in DOMAIN audit
      BY <1>4, <2>1, <3>4
    <3> QED BY <1>9, <3>1, <3>2, <3>3, <3>4
  <2> QED BY <2>1 DEF Times
<1>14. Facts'
  BY <1>11, <1>12, <1>13 DEF Facts
<1>15. UNCHANGED <<users, identities, invites, unlinked>>
  BY <1>1 DEF ghostVars
<1>16. Knows(r)'
  BY <1>2, <1>9, <1>15, LogGrows
<1>17. ASSUME NEW q \in Requests \ {p} PROVE Knows(req[q])' /\ Apart(r, req[q])
  <2>1. Knows(req[q]) /\ Apart(req[p], req[q]) /\ Knows(req[p]) /\ req'[q] = req[q]
    BY <1>1, AtHand DEF IInv
  <2>2. req[q].at # "seal"
    <3>1. req[p].held = {<<"chain", 0>>}
      BY <1>1, <2>1 DEF Knows, KnowsLocks
    <3>2. req[q].at = "seal" => req[q].held = {<<"chain", 0>>}
      BY <2>1 DEF Knows, KnowsLocks
    <3> QED BY <2>1, <3>1, <3>2 DEF Apart
  <2>3. Knows(req[q])'
    BY <1>9, <1>15, <2>1, <2>2, LogGrows
  <2> QED BY <1>2, <2>3, HoldsNothing
<1>18. Audited'
  <2>1. ASSUME NEW q \in Requests, NEW e \in Entries, InLog(q, e) PROVE InLog(q, e)'
    BY <1>9, <2>1 DEF InLog
  <2>2. InLog(p, e0)'
    BY <1>8, <1>9 DEF InLog
  <2>3. UNCHANGED <<owed, lost>>
    BY <1>1 DEF ghostVars
  <2>4. ASSUME NEW e \in Entries, <<p, e>> \in owed' PROVE <<p, e>> \in lost' \/ InLog(p, e)' \/ Pending(r, e)
    <3>1. <<p, e>> \in lost \/ InLog(p, e) \/ Pending(req[p], e)
      BY <2>3, <2>4 DEF IInv, Audited
    <3>2. CASE e = e0
      BY <2>2, <3>2
    <3>3. CASE e # e0
      BY <1>2, <2>1, <2>3, <3>1, <3>3
    <3> QED BY <3>2, <3>3
  <2> QED BY <1>1, <1>2, <2>1, <2>3, <2>4, AuditedStays
<1> QED BY <1>1, <1>2, <1>10, <1>14, <1>16, <1>17, <1>18, StepKeeps

-------------------------------------------------------------------------------
(* A request changes a table and records it, or ends.                      *)

\* What a request that is about to record knows.
LEMMA KnowsRecord ==
  ASSUME NEW r, r.at = "record", r.held = {}, r.keys = {}, r.todo # <<>>,
         r.then # "over" => r.on \in DOMAIN users',
         r.then \in Landing => r.who \in Persons /\ r.on \in DOMAIN users' /\ (r.who \in unlinked' \/ identities'[r.on] = r.who)
  PROVE  Knows(r)'
<1>1. KnowsOn(r)' /\ KnowsLocks(r)'
  BY DEF KnowsOn, KnowsLocks, SsoPlaces
<1>2. KnowsRow(r)' /\ KnowsInvite(r)' /\ KnowsAdmins(r)' /\ KnowsTail(r)' /\ KnowsWalk(r)'
  BY DEF KnowsRow, KnowsInvite, KnowsAdmins, KnowsTail, KnowsWalk, Kinds
<1>3. KnowsWho(r)'
  BY DEF KnowsWho, Lands, Landing
<1> QED BY <1>1, <1>2, <1>3 DEF Knows

\* A request whose change is made owes the entries of it.
LEMMA RecordStep ==
  ASSUME IInv, NEW p \in Requests, NEW to \in Request, NEW entries \in Seq(Entries), entries # <<>>,
         NEW then \in Ends, Record(p, to, entries, then), to.held = {}, to.keys = {}, req[p].at \notin {"record", "seal"},
         UNCHANGED <<lost, audit>>,
         then # "over" => to.on \in DOMAIN users',
         then \in Landing => to.who \in Persons /\ to.on \in DOMAIN users' /\ (to.who \in unlinked' \/ identities'[to.on] = to.who)
  PROVE  \E r \in Request : /\ req' = [req EXCEPT ![p] = r] /\ Knows(r)' /\ Audited'
                            /\ owed' \subseteq Requests \X Changes /\ \A q \in Requests \ {p} : Apart(r, req[q])
<1>0. PICK r : r = [to EXCEPT !.at = "record", !.todo = entries, !.then = then]
  OBVIOUS
<1>1. /\ r \in Request /\ r.at = "record" /\ r.todo = entries /\ r.then = then /\ r.held = {} /\ r.keys = {}
      /\ r.on = to.on /\ r.who = to.who
  BY <1>0 DEF Request, Places
<1>2. req' = [req EXCEPT ![p] = r] /\ owed' = owed \cup {<<p, r.todo[i]>> : i \in DOMAIN r.todo}
  BY <1>0, <1>1 DEF Record, Go
<1>3. Knows(r)'
  BY <1>1, KnowsRecord
<1>4. Audited' /\ owed' \subseteq Requests \X Changes
  BY <1>1, <1>2, RecordIsAudited
<1> QED BY <1>1, <1>2, <1>3, <1>4, HoldsNothing

\* A request that ends with what it did unrecorded owes nothing, or an account.
LEMMA EndStep ==
  ASSUME IInv, NEW p \in Requests, End(p), req[p].at \notin {"record", "seal"}, UNCHANGED <<lost, audit>>,
         owed' \subseteq owed \cup {<<p, "user.created">>}
  PROVE  \E r \in Request : /\ req' = [req EXCEPT ![p] = r] /\ Knows(r)' /\ Audited'
                            /\ owed' \subseteq Requests \X Changes /\ \A q \in Requests \ {p} : Apart(r, req[q])
<1>0. PICK r : r = Over
  OBVIOUS
<1>1. r \in Request /\ r.at = "over" /\ r.then = "over" /\ r.held = {} /\ r.keys = {} /\ req' = [req EXCEPT ![p] = r]
  BY <1>0, OverOK DEF End, Go
<1>2. Knows(r)'
  BY <1>1 DEF Knows, KnowsOn, KnowsLocks, KnowsRow, KnowsInvite, KnowsAdmins, KnowsTail, KnowsWho, KnowsWalk,
              Lands, Landing, SsoPlaces, Kinds
<1>3. Audited'
  BY <1>1, QuietIsAudited
<1>4. owed' \subseteq Requests \X Changes
  BY DEF IInv, Tables, Changes
<1> QED BY <1>1, <1>2, <1>3, <1>4, HoldsNothing

\* One entry is a list of entries.
LEMMA OneEntry == ASSUME NEW e \in Entries PROVE <<e>> \in Seq(Entries) /\ <<e>> # <<>>
OBVIOUS

-------------------------------------------------------------------------------
(* New accounts.                                                           *)

\* The tables with one account more.
LEMMA AccountAdded ==
  ASSUME IInv, NEW row \in Store!Row, NEW who \in Store!Maybe, NEW by \in Came, addUser(row, who, by)
  PROVE  /\ users' \in Seq(Store!Row) /\ identities' \in Seq(Store!Maybe) /\ cameBy' \in Seq(Came)
         /\ Len(identities') = Len(users') /\ Len(cameBy') = Len(users')
         /\ DOMAIN users \subseteq DOMAIN users' /\ users' # <<>>
         /\ Len(users) + 1 \in DOMAIN users' /\ Len(users) + 1 \notin DOMAIN users /\ Len(users) \in Nat
         /\ \A a \in DOMAIN users' : a \in DOMAIN users \/ a = Len(users) + 1
         /\ users'[Len(users) + 1] = row /\ identities'[Len(users) + 1] = who /\ cameBy'[Len(users) + 1] = by
         /\ \A a \in DOMAIN users : users'[a] = users[a] /\ identities'[a] = identities[a] /\ cameBy'[a] = cameBy[a]
<1> DEFINE n == Len(users)
<1>1. /\ users' = Append(users, row) /\ identities' = Append(identities, who) /\ cameBy' = Append(cameBy, by)
      /\ users \in Seq(Store!Row) /\ identities \in Seq(Store!Maybe) /\ cameBy \in Seq(Came)
      /\ Len(identities) = n /\ Len(cameBy) = n
  BY DEF addUser, IInv, Tables
<1>2. /\ users' \in Seq(Store!Row) /\ n \in Nat /\ Len(users') = n + 1 /\ DOMAIN users = 1 .. n
      /\ DOMAIN users \subseteq DOMAIN users' /\ n + 1 \in DOMAIN users' /\ n + 1 \notin DOMAIN users
      /\ \A a \in DOMAIN users' : a \in DOMAIN users \/ a = n + 1
      /\ users'[n + 1] = row /\ users' # <<>> /\ \A a \in DOMAIN users : users'[a] = users[a]
  BY <1>1, Longer
<1>3. /\ identities' \in Seq(Store!Maybe) /\ Len(identities') = n + 1 /\ DOMAIN identities = 1 .. n
      /\ identities'[n + 1] = who /\ \A a \in DOMAIN identities : identities'[a] = identities[a]
  BY <1>1, Longer
<1>4. /\ cameBy' \in Seq(Came) /\ Len(cameBy') = n + 1 /\ DOMAIN cameBy = 1 .. n
      /\ cameBy'[n + 1] = by /\ \A a \in DOMAIN cameBy : cameBy'[a] = cameBy[a]
  BY <1>1, Longer
<1> HIDE DEF n
<1> QED BY <1>2, <1>3, <1>4 DEF n

\* What others know of a new account: nothing changes, if its keys are not
\* those that they hold.
LEMMA AccountAddedKnows ==
  ASSUME IInv, NEW row \in Store!Row, NEW who \in Store!Maybe, NEW by \in Came, addUser(row, who, by),
         NEW r, Knows(r), Store!Keys(row) \cap r.keys = {}, DOMAIN invites' = DOMAIN invites, KnowsInvite(r)',
         UNCHANGED <<audit, unlinked>>
  PROVE  Knows(r)'
<1>1. /\ DOMAIN users \subseteq DOMAIN users' /\ users' # <<>>
      /\ \A a \in DOMAIN users' : a \in DOMAIN users \/ a = Len(users) + 1
      /\ users'[Len(users) + 1] = row
      /\ \A a \in DOMAIN users : users'[a] = users[a] /\ identities'[a] = identities[a]
  BY AccountAdded
<1>2. KnowsOn(r)'
  BY <1>1, OnStays DEF Knows
<1>3. KnowsRow(r)'
  BY <1>1, RowStays DEF Knows
<1>4. KnowsAdmins(r)'
  <2> SUFFICES ASSUME r.at = "commit" PROVE \E a \in DOMAIN users' : Leaves(r, a)'
    BY DEF KnowsAdmins
  <2>1. PICK a \in DOMAIN users : Leaves(r, a)
    BY DEF Knows, KnowsAdmins
  <2>2. Leaves(r, a)' /\ a \in DOMAIN users'
    BY <1>1, <2>1 DEF Leaves
  <2> QED BY <2>2
<1>5. KnowsWho(r)'
  BY <1>1, WhoStays, Constants DEF Knows
<1>6. KnowsWalk(r)'
  BY <1>1, WalkStays DEF Knows
<1>7. KnowsLocks(r)' /\ KnowsTail(r)'
  BY DEF Knows, KnowsLocks, KnowsTail
<1> QED BY <1>2, <1>3, <1>4, <1>5, <1>6, <1>7 DEF Knows

\* Somebody still administers, and identities are still of one account each.
LEMMA AccountAddedFacts ==
  ASSUME IInv, NEW row \in Store!Row, NEW who \in Store!Maybe, NEW by \in Came, addUser(row, who, by),
         users = <<>> => row.admin /\ row.active,
         who = Nobody \/ \A a \in DOMAIN users : identities[a] # who
  PROVE  AdminRemains' /\ InvitesComeLater' /\ OneIdentityEach'
<1>1. /\ DOMAIN users \subseteq DOMAIN users' /\ users' # <<>>
      /\ \A a \in DOMAIN users' : a \in DOMAIN users \/ a = Len(users) + 1
      /\ Len(users) + 1 \in DOMAIN users'
      /\ users'[Len(users) + 1] = row /\ identities'[Len(users) + 1] = who
      /\ \A a \in DOMAIN users : users'[a] = users[a] /\ identities'[a] = identities[a]
  BY AccountAdded
<1>2. AdminRemains'
  <2>1. CASE users = <<>>
    <3>1. users'[Len(users) + 1].admin /\ users'[Len(users) + 1].active
      BY <1>1, <2>1
    <3> QED BY <1>1, <3>1 DEF AdminRemains, Store!Admins
  <2>2. CASE users # <<>>
    <3>1. PICK a \in DOMAIN users : users[a].admin /\ users[a].active
      BY <2>2 DEF IInv, Facts, AdminRemains, Store!Admins
    <3>2. a \in DOMAIN users' /\ users'[a].admin /\ users'[a].active
      BY <1>1, <3>1
    <3> QED BY <3>2 DEF AdminRemains, Store!Admins
  <2> QED BY <2>1, <2>2
<1>3. InvitesComeLater'
  BY <1>1 DEF InvitesComeLater
<1>4. OneIdentityEach'
  <2> SUFFICES ASSUME NEW a \in DOMAIN users', NEW b \in DOMAIN users', identities'[a] = identities'[b],
                      identities'[a] # Nobody
               PROVE  a = b
    BY DEF OneIdentityEach
  <2>1. CASE a \in DOMAIN users /\ b \in DOMAIN users
    BY <1>1, <2>1 DEF IInv, Facts, OneIdentityEach
  <2>2. CASE a \notin DOMAIN users \/ b \notin DOMAIN users
    BY <1>1, <2>2
  <2> QED BY <2>1, <2>2
<1> QED BY <1>2, <1>3, <1>4

\* The tables that refer to accounts refer to them still.
LEMMA AccountAddedTables ==
  ASSUME IInv, NEW row \in Store!Row, NEW who \in Store!Maybe, NEW by \in Came, addUser(row, who, by),
         UNCHANGED <<linkRequests, signedIn, audit, lost>>, owed' \subseteq Requests \X Changes,
         invites' \in Seq(Store!InviteStates)
  PROVE  Tables'
<1>1. /\ users' \in Seq(Store!Row) /\ identities' \in Seq(Store!Maybe) /\ cameBy' \in Seq(Came)
      /\ Len(identities') = Len(users') /\ Len(cameBy') = Len(users') /\ DOMAIN users \subseteq DOMAIN users'
  BY AccountAdded
<1>2. linkRequests' \subseteq Requests \X DOMAIN users' /\ signedIn' \subseteq DOMAIN users'
  BY <1>1 DEF IInv, Tables
<1> QED BY <1>1, <1>2 DEF IInv, Tables

\* An account without an invitation leaves the invitations as they were.
LEMMA AccountAddedInvited ==
  ASSUME IInv, NEW row \in Store!Row, NEW who \in Store!Maybe, addUser(row, who, ByNone), UNCHANGED invites
  PROVE  Invited'
<1>1. ByNone \in Came /\ ByNone.invite = 0
  BY DEF ByNone, Came
<1>2. /\ DOMAIN users \subseteq DOMAIN users'
      /\ \A a \in DOMAIN users' : a \in DOMAIN users \/ a = Len(users) + 1
      /\ cameBy'[Len(users) + 1] = ByNone /\ \A a \in DOMAIN users : cameBy'[a] = cameBy[a]
  BY <1>1, AccountAdded
<1>3. Invited
  BY DEF IInv, Facts
<1>4. \A a \in DOMAIN users' : cameBy'[a].invite # 0 => a \in DOMAIN users /\ cameBy'[a] = cameBy[a]
  BY <1>1, <1>2
<1>5. \A a \in DOMAIN users' : cameBy'[a].invite # 0 =>
        cameBy'[a].invite \in DOMAIN invites' /\ invites'[cameBy'[a].invite] = "accepted"
  BY <1>3, <1>4 DEF Invited
<1>6. \A a, b \in DOMAIN users' : cameBy'[a].invite = cameBy'[b].invite /\ cameBy'[a].invite # 0 => a = b
  BY <1>3, <1>4 DEF Invited
<1>7. \A i \in DOMAIN invites' : invites'[i] = "accepted" => \E a \in DOMAIN users' : cameBy'[a].invite = i
  BY <1>2, <1>3 DEF Invited
<1> QED BY <1>5, <1>6, <1>7 DEF Invited

\* The log, and what pages said of it, are not touched.
LEMMA LogStays ==
  ASSUME IInv, UNCHANGED <<audit, alarm>>
  PROVE  ChainDoesNotFork' /\ Times' /\ NoFalseAlarm'
BY DEF IInv, Facts, ChainDoesNotFork, Times, NoFalseAlarm

\* An account by an administrator, the directory or the bootstrap.
LEMMA CreateUserKeeps == ASSUME IInv, NEW p \in Requests, CreateUser(p) PROVE IInv'
<1>1. /\ req[p].at = "insert" /\ ~KeyHeld(p, req[p].row)
      /\ UNCHANGED <<linkRequests, signedIn, invites, audit, lost, unlinked, alarm>>
  BY DEF CreateUser
<1>2. req[p] \in Request /\ KnowsOn(req[p]) /\ KnowsLocks(req[p])
  BY AtHand DEF Knows
<1>3. CASE NextName(p) /\ UNCHANGED <<users, identities, cameBy, owed>>
  <2>1. UNCHANGED <<storeVars, ghostVars>>
    BY <1>1, <1>3 DEF storeVars, ghostVars
  <2> QED BY <1>1, <1>3, <2>1, NextNameKeeps
<1>4. CASE End(p) /\ UNCHANGED <<users, identities, cameBy, owed>>
  <2>1. UNCHANGED <<storeVars, ghostVars>>
    BY <1>1, <1>4 DEF storeVars, ghostVars
  <2> QED BY <1>1, <1>4, <2>1, EndKeeps
<1>5. CASE /\ ~Store!Taken(req[p].row) /\ addUser(req[p].row, Nobody, ByNone)
           /\ \/ Record(p, req[p], <<"scim.user.created">>, "over")
              \/ End(p) /\ owed' \subseteq owed \cup {<<p, "user.created">>}
  <2>1. PICK row : row = req[p].row
    OBVIOUS
  <2>2. row \in Store!Row /\ Nobody \in Store!Maybe /\ ByNone \in Came /\ addUser(row, Nobody, ByNone)
    BY <1>2, <1>5, <2>1 DEF Request, Store!Maybe, ByNone, Came
  <2>3. req[p].held = {} /\ req[p].keys = {}
    BY <1>1, <1>2 DEF KnowsLocks
  <2>4. PICK r \in Request : /\ req' = [req EXCEPT ![p] = r] /\ Knows(r)' /\ Audited'
                            /\ owed' \subseteq Requests \X Changes /\ \A q \in Requests \ {p} : Apart(r, req[q])
    <3>1. CASE Record(p, req[p], <<"scim.user.created">>, "over")
      <4>1. "over" \in Ends /\ "over" \notin Landing /\ "scim.user.created" \in Entries
        BY DEF Ends, Landing, Entries
      <4>2. <<"scim.user.created">> \in Seq(Entries) /\ <<"scim.user.created">> # <<>>
        BY <4>1, OneEntry
      <4> QED BY <1>1, <1>2, <2>3, <3>1, <4>1, <4>2, RecordStep
    <3>2. CASE End(p) /\ owed' \subseteq owed \cup {<<p, "user.created">>}
      BY <1>1, <3>2, EndStep
    <3> QED BY <1>5, <3>1, <3>2
  <2>5. users = <<>> => row.admin /\ row.active
    BY <1>1, <1>2, <2>1 DEF KnowsOn
  <2>6. AdminRemains' /\ InvitesComeLater' /\ OneIdentityEach'
    BY <2>2, <2>5, AccountAddedFacts
  <2>7. Invited'
    BY <1>1, <2>2, AccountAddedInvited
  <2>8. Facts'
    BY <1>1, <2>6, <2>7, LogStays DEF Facts
  <2>9. invites' \in Seq(Store!InviteStates)
    BY <1>1 DEF IInv, Tables
  <2>10. Tables'
    BY <1>1, <2>2, <2>4, <2>9, AccountAddedTables
  <2>11. ASSUME NEW q \in Requests \ {p} PROVE Knows(req[q])'
    <3>1. Knows(req[q]) /\ req'[q] = req[q]
      BY <2>4, AtHand DEF IInv
    <3>2. Store!Keys(row) \cap req[q].keys = {}
      BY <1>1, <2>1 DEF KeyHeld
    <3>3. KnowsInvite(req[q])'
      BY <1>1, <3>1 DEF Knows, KnowsInvite
    <3>4. PICK s : s = req[q]
      OBVIOUS
    <3>5. Knows(s)'
      <4>1. KnowsInvite(s)'
        BY <3>1, <3>3, <3>4 DEF KnowsInvite
      <4>2. Knows(s) /\ Store!Keys(row) \cap s.keys = {}
        BY <3>1, <3>2, <3>4
      <4> QED BY <1>1, <2>2, <4>1, <4>2, AccountAddedKnows
    <3> QED BY <3>1, <3>4, <3>5
  <2> QED BY <2>4, <2>8, <2>10, <2>11, StepKeeps
<1>6. \/ NextName(p) /\ UNCHANGED <<users, identities, cameBy, owed>>
      \/ End(p) /\ UNCHANGED <<users, identities, cameBy, owed>>
      \/ /\ ~Store!Taken(req[p].row) /\ addUser(req[p].row, Nobody, ByNone)
         /\ \/ Record(p, req[p], <<"scim.user.created">>, "over")
            \/ End(p) /\ owed' \subseteq owed \cup {<<p, "user.created">>}
  <2>1. ASSUME End(p), owed' = IF req[p].op = "Create" THEN owed \cup {<<p, "user.created">>} ELSE owed
        PROVE  owed' \subseteq owed \cup {<<p, "user.created">>}
    BY <2>1
  <2> QED BY <2>1 DEF CreateUser
<1> QED BY <1>3, <1>4, <1>5, <1>6

\* The account and its identity.
LEMMA CreateOidcUserKeeps == ASSUME IInv, NEW p \in Requests, CreateOidcUser(p) PROVE IInv'
<1>1. req[p].at = "insert identity" /\ UNCHANGED <<linkRequests, signedIn, invites, audit, lost, unlinked, alarm>>
  BY DEF CreateOidcUser
<1>2. req[p] \in Request /\ KnowsOn(req[p]) /\ KnowsLocks(req[p]) /\ KnowsRow(req[p])
  BY AtHand DEF Knows
<1>3. req[p].held = {} /\ req[p].keys = Store!Keys(req[p].row) /\ req[p].who \in Persons /\ users # <<>>
      /\ req[p].then \notin Landing
  BY <1>1, <1>2 DEF KnowsLocks, KnowsOn, SsoPlaces, Landing
<1>4. CASE Go(p, [req[p] EXCEPT !.at = "raced", !.keys = {}]) /\ UNCHANGED <<users, identities, cameBy, owed>>
  <2> DEFINE r == [req[p] EXCEPT !.at = "raced", !.keys = {}]
  <2>1. UNCHANGED <<storeVars, ghostVars>>
    BY <1>1, <1>4 DEF storeVars, ghostVars
  <2>2. /\ r \in Request /\ r.at = "raced" /\ r.on = req[p].on /\ r.then = req[p].then /\ r.held = {} /\ r.keys = {}
        /\ r.who = req[p].who
    BY <1>2, <1>3 DEF Request, Places
  <2>3. Go(p, r)
    BY <1>4
  <2> HIDE DEF r
  <2>4. KnowsOn(r) /\ r.at \in Plain
    BY <1>2, <1>3, <2>2 DEF KnowsOn, SsoPlaces, Plain
  <2> QED BY <1>1, <1>3, <2>1, <2>2, <2>3, <2>4, GoKeeps
<1>5. CASE /\ Linked(req[p].who) = {} /\ addUser(req[p].row, req[p].who, ByNone)
           /\ Record(p, [req[p] EXCEPT !.keys = {}, !.on = Len(users) + 1], <<"sso.user.created">>, "session")
  <2>1. PICK row, who, to : row = req[p].row /\ who = req[p].who /\ to = [req[p] EXCEPT !.keys = {}, !.on = Len(users) + 1]
    OBVIOUS
  <2>2. row \in Store!Row /\ who \in Store!Maybe /\ ByNone \in Came /\ addUser(row, who, ByNone) /\ who \in Persons
    BY <1>2, <1>3, <1>5, <2>1 DEF Request, ByNone, Came
  <2>3. /\ Len(users) + 1 \in DOMAIN users' /\ identities'[Len(users) + 1] = who /\ Len(users) \in Nat
    BY <2>2, AccountAdded
  <2>4. to \in Request /\ to.held = {} /\ to.keys = {} /\ to.on = Len(users) + 1 /\ to.who = who
    <3>1. PICK n : n = Len(users) + 1
      OBVIOUS
    <3>2. n \in Nat /\ {} \in SUBSET AllKeys
      BY <2>3, <3>1
    <3>3. to = [req[p] EXCEPT !.keys = {}, !.on = n]
      BY <2>1, <3>1
    <3>4. to \in Request /\ to.keys = {} /\ to.on = n /\ to.held = req[p].held /\ to.who = req[p].who
      BY <1>2, <3>2, <3>3 DEF Request
    <3> QED BY <1>3, <2>1, <3>1, <3>4
  <2>5. PICK r \in Request : /\ req' = [req EXCEPT ![p] = r] /\ Knows(r)' /\ Audited'
                            /\ owed' \subseteq Requests \X Changes /\ \A q \in Requests \ {p} : Apart(r, req[q])
    <3>1. "session" \in Ends /\ "sso.user.created" \in Entries
      BY DEF Ends, Landing, Entries
    <3>2. <<"sso.user.created">> \in Seq(Entries) /\ <<"sso.user.created">> # <<>>
      BY <3>1, OneEntry
    <3>3. Record(p, to, <<"sso.user.created">>, "session")
      BY <1>5, <2>1
    <3> QED BY <1>1, <2>2, <2>3, <2>4, <3>1, <3>2, <3>3, RecordStep
  <2>6. \A a \in DOMAIN users : identities[a] # who
    BY <1>5, <2>1 DEF Linked
  <2>7. AdminRemains' /\ InvitesComeLater' /\ OneIdentityEach'
    BY <1>3, <2>2, <2>6, AccountAddedFacts
  <2>8. Invited'
    BY <1>1, <2>2, AccountAddedInvited
  <2>9. Facts'
    BY <1>1, <2>7, <2>8, LogStays DEF Facts
  <2>10. invites' \in Seq(Store!InviteStates)
    BY <1>1 DEF IInv, Tables
  <2>11. Tables'
    BY <1>1, <2>2, <2>5, <2>10, AccountAddedTables
  <2>12. ASSUME NEW q \in Requests \ {p} PROVE Knows(req[q])'
    <3>1. Knows(req[q]) /\ req'[q] = req[q] /\ Apart(req[p], req[q])
      BY <2>5, AtHand DEF IInv
    <3>2. Store!Keys(row) \cap req[q].keys = {}
      BY <1>3, <2>1, <3>1 DEF Apart
    <3>4. PICK s : s = req[q]
      OBVIOUS
    <3>5. Knows(s)'
      <4>1. Knows(s) /\ Store!Keys(row) \cap s.keys = {}
        BY <3>1, <3>2, <3>4
      <4>2. KnowsInvite(s)'
        BY <1>1, <4>1 DEF Knows, KnowsInvite
      <4> QED BY <1>1, <2>2, <4>1, <4>2, AccountAddedKnows
    <3> QED BY <3>1, <3>4, <3>5
  <2> QED BY <2>5, <2>9, <2>11, <2>12, StepKeeps
<1> QED BY <1>4, <1>5 DEF CreateOidcUser

\* The account and its invitation.
LEMMA AcceptInviteKeeps == ASSUME IInv, NEW p \in Requests, AcceptInvite(p) PROVE IInv'
<1>0. PICK row, i, was : row = req[p].row /\ i = req[p].on /\ was = invites[i]
  OBVIOUS
<1> DEFINE by == [invite |-> i, was |-> was]
<1>1. /\ req[p].at = "accept" /\ addUser(row, Nobody, by) /\ invites' = [invites EXCEPT ![i] = "accepted"]
      /\ Record(p, [New EXCEPT !.op = "Redeem"], <<"invite.redeemed">>, "over")
      /\ UNCHANGED <<linkRequests, signedIn, audit, lost, unlinked, alarm>>
  BY <1>0 DEF AcceptInvite
<1>2. req[p] \in Request /\ KnowsOn(req[p]) /\ KnowsLocks(req[p]) /\ KnowsRow(req[p]) /\ KnowsInvite(req[p])
  BY AtHand DEF Knows
<1>3. /\ req[p].held = {<<"invite", i>>} /\ req[p].keys = Store!Keys(row) /\ i \in DOMAIN invites
      /\ was \in {"open", "late"}
  BY <1>0, <1>1, <1>2 DEF KnowsLocks, KnowsOn, KnowsInvite
<1>4. i \in Nat /\ i # 0
  BY <1>3, Numbered
<1>5. row \in Store!Row /\ Nobody \in Store!Maybe /\ by \in Came /\ by.invite = i
  BY <1>0, <1>2, <1>3, <1>4 DEF Request, Store!Maybe, Came
<1> HIDE DEF by
<1>6. /\ invites' \in Seq(Store!InviteStates) /\ DOMAIN invites' = DOMAIN invites /\ invites'[i] = "accepted"
      /\ \A j \in DOMAIN invites : j # i => invites'[j] = invites[j]
  <2>1. invites \in Seq(Store!InviteStates) /\ "accepted" \in Store!InviteStates
    BY DEF IInv, Tables, Store!InviteStates
  <2> QED BY <1>1, <1>3, <2>1, Replaced
<1>7. PICK r \in Request : /\ req' = [req EXCEPT ![p] = r] /\ Knows(r)' /\ Audited'
                          /\ owed' \subseteq Requests \X Changes /\ \A q \in Requests \ {p} : Apart(r, req[q])
  <2>1. PICK to : to = [New EXCEPT !.op = "Redeem"]
    OBVIOUS
  <2>2. to \in Request /\ to.held = {} /\ to.keys = {}
    BY <2>1, NewOK DEF Request, Operations
  <2>3. "over" \in Ends /\ "over" \notin Landing /\ "invite.redeemed" \in Entries
    BY DEF Ends, Landing, Entries
  <2>4. <<"invite.redeemed">> \in Seq(Entries) /\ <<"invite.redeemed">> # <<>>
    BY <2>3, OneEntry
  <2>5. Record(p, to, <<"invite.redeemed">>, "over")
    BY <1>1, <2>1
  <2> QED BY <1>1, <2>2, <2>3, <2>4, <2>5, RecordStep
<1>8. users # <<>>
  <2>1. invites # <<>>
    BY <1>3
  <2> QED BY <2>1 DEF IInv, Facts, InvitesComeLater
<1>9. AdminRemains' /\ InvitesComeLater' /\ OneIdentityEach'
  BY <1>1, <1>5, <1>8, AccountAddedFacts
<1>10. Invited'
  <2>1. /\ DOMAIN users \subseteq DOMAIN users' /\ Len(users) + 1 \in DOMAIN users'
        /\ \A a \in DOMAIN users' : a \in DOMAIN users \/ a = Len(users) + 1
        /\ cameBy'[Len(users) + 1] = by /\ \A a \in DOMAIN users : cameBy'[a] = cameBy[a]
    BY <1>1, <1>5, AccountAdded
  <2>2. Invited /\ invites[i] # "accepted"
    BY <1>0, <1>3 DEF IInv, Facts
  <2>3. \A a \in DOMAIN users : cameBy[a].invite # 0 =>
          /\ cameBy[a].invite \in DOMAIN invites /\ invites[cameBy[a].invite] = "accepted" /\ cameBy[a].invite # i
    BY <2>2 DEF Invited
  <2>4. ASSUME NEW a \in DOMAIN users', cameBy'[a].invite # 0
        PROVE  cameBy'[a].invite \in DOMAIN invites' /\ invites'[cameBy'[a].invite] = "accepted"
    <3>1. CASE a \in DOMAIN users
      BY <1>6, <2>1, <2>3, <2>4, <3>1
    <3>2. CASE a = Len(users) + 1
      BY <1>3, <1>5, <1>6, <2>1, <3>2
    <3> QED BY <2>1, <3>1, <3>2
  <2>5. ASSUME NEW a \in DOMAIN users', NEW b \in DOMAIN users', cameBy'[a].invite = cameBy'[b].invite,
               cameBy'[a].invite # 0
        PROVE  a = b
    <3>1. CASE a \in DOMAIN users /\ b \in DOMAIN users
      BY <2>1, <2>2, <2>5, <3>1 DEF Invited
    <3>2. CASE a = Len(users) + 1 /\ b \in DOMAIN users
      BY <1>4, <1>5, <2>1, <2>3, <2>5, <3>2
    <3>3. CASE a \in DOMAIN users /\ b = Len(users) + 1
      BY <1>4, <1>5, <2>1, <2>3, <2>5, <3>3
    <3> QED BY <2>1, <3>1, <3>2, <3>3
  <2>6. ASSUME NEW j \in DOMAIN invites', invites'[j] = "accepted"
        PROVE  \E a \in DOMAIN users' : cameBy'[a].invite = j
    <3>1. CASE j = i
      BY <1>5, <2>1, <3>1
    <3>2. CASE j # i
      <4>1. PICK a \in DOMAIN users : cameBy[a].invite = j
        BY <1>6, <2>2, <2>6, <3>2 DEF Invited
      <4> QED BY <2>1, <4>1
    <3> QED BY <3>1, <3>2
  <2> QED BY <2>4, <2>5, <2>6 DEF Invited
<1>11. Facts'
  BY <1>1, <1>9, <1>10, LogStays DEF Facts
<1>12. Tables'
  BY <1>1, <1>5, <1>6, <1>7, AccountAddedTables
<1>13. ASSUME NEW q \in Requests \ {p} PROVE Knows(req[q])'
  <2>1. Knows(req[q]) /\ req'[q] = req[q] /\ Apart(req[p], req[q])
    BY <1>7, AtHand DEF IInv
  <2>2. Store!Keys(row) \cap req[q].keys = {} /\ <<"invite", i>> \notin req[q].held
    BY <1>3, <2>1 DEF Apart
  <2>3. PICK s : s = req[q]
    OBVIOUS
  <2>4. Knows(s) /\ Store!Keys(row) \cap s.keys = {} /\ <<"invite", i>> \notin s.held
    BY <2>1, <2>2, <2>3
  <2>5. s.at \in {"insert invited", "accept"} => s.on # i /\ s.on \in DOMAIN invites
    BY <2>4 DEF Knows, KnowsLocks, KnowsOn
  <2>6. KnowsInvite(s)'
    BY <1>6, <2>4, <2>5 DEF Knows, KnowsInvite
  <2>7. Knows(s)'
    BY <1>1, <1>5, <1>6, <2>4, <2>6, AccountAddedKnows
  <2> QED BY <2>1, <2>3, <2>7
<1> QED BY <1>7, <1>11, <1>12, <1>13, StepKeeps

-------------------------------------------------------------------------------
(* Invitations.                                                            *)

\* What others know of the invitations that nobody has locked for them.
LEMMA InvitesChange ==
  ASSUME IInv, NEW r, Knows(r), KnowsInvite(r)', DOMAIN invites \subseteq DOMAIN invites',
         UNCHANGED <<users, identities, audit, unlinked>>
  PROVE  Knows(r)'
<1>1. KnowsOn(r)' /\ KnowsLocks(r)'
  BY OnStays DEF Knows, KnowsLocks
<1>2. KnowsRow(r)' /\ KnowsAdmins(r)' /\ KnowsTail(r)'
  BY DEF Knows, KnowsRow, KnowsAdmins, KnowsTail, Store!Taken, Store!TakenBut, Leaves
<1>3. KnowsWho(r)' /\ KnowsWalk(r)'
  BY WalkStays DEF Knows, KnowsWho
<1> QED BY <1>1, <1>2, <1>3 DEF Knows

\* What invitations that were not accepted become does not matter to accounts.
LEMMA InvitesChangeFacts ==
  ASSUME IInv, UNCHANGED <<users, identities, audit, alarm, cameBy>>, DOMAIN invites \subseteq DOMAIN invites',
         invites' # <<>> => users # <<>>,
         \A i \in DOMAIN invites' : invites'[i] = "accepted" <=> i \in DOMAIN invites /\ invites[i] = "accepted"
  PROVE  Facts'
<1>1. AdminRemains' /\ InvitesComeLater' /\ OneIdentityEach'
  BY DEF IInv, Facts, AdminRemains, InvitesComeLater, OneIdentityEach, Store!Admins
<1>2. Invited'
  BY DEF IInv, Facts, Invited
<1> QED BY <1>1, <1>2, LogStays DEF Facts

\* A new invitation.
LEMMA CreateInviteKeeps == ASSUME IInv, NEW p \in Requests, CreateInvite(p) PROVE IInv'
<1>0. PICK r : r = [New EXCEPT !.at = "record", !.todo = <<"invite.created">>, !.op = "Invite"]
  OBVIOUS
<1>1. /\ Administrator # {} /\ req[p].at = "new" /\ req' = [req EXCEPT ![p] = r]
      /\ invites' = Append(invites, "open") /\ owed' = owed \cup {<<p, "invite.created">>}
      /\ UNCHANGED <<users, identities, linkRequests, signedIn, audit, lost, cameBy, unlinked, alarm>>
  BY <1>0 DEF CreateInvite, Begin
<1>2. "invite.created" \in Entries /\ <<"invite.created">> \in Seq(Entries) /\ <<"invite.created">> # <<>>
  BY OneEntry DEF Entries
<1>3. /\ r \in Request /\ r.at = "record" /\ r.todo = <<"invite.created">> /\ r.then = "over" /\ r.held = {}
      /\ r.keys = {}
  <2>1. New \in Request /\ New.then = "over" /\ New.held = {} /\ New.keys = {}
    BY NewOK
  <2>2. "record" \in Places /\ "Invite" \in Operations
    BY DEF Places, Operations
  <2>3. r \in Request
    BY <1>0, <1>2, <2>1, <2>2 DEF Request
  <2>4. r.at = "record" /\ r.todo = <<"invite.created">> /\ r.then = "over" /\ r.held = {} /\ r.keys = {}
    BY <1>0, <2>1 DEF Request
  <2> QED BY <2>3, <2>4
<1>4. owed' = owed \cup {<<p, r.todo[i]>> : i \in DOMAIN r.todo}
  BY <1>1, <1>3
<1>5. Audited' /\ owed' \subseteq Requests \X Changes
  BY <1>1, <1>3, <1>4, RecordIsAudited
<1>6. Knows(r)'
  BY <1>2, <1>3, KnowsRecord DEF Landing
<1>7. invites \in Seq(Store!InviteStates) /\ "open" \in Store!InviteStates
  BY DEF IInv, Tables, Store!InviteStates
<1>8. /\ invites' \in Seq(Store!InviteStates) /\ DOMAIN invites \subseteq DOMAIN invites'
      /\ \A i \in DOMAIN invites' : i \in DOMAIN invites \/ i = Len(invites) + 1
      /\ Len(invites) + 1 \notin DOMAIN invites
      /\ invites'[Len(invites) + 1] = "open" /\ \A i \in DOMAIN invites : invites'[i] = invites[i]
  BY <1>1, <1>7, Longer
<1>9. users # <<>>
  BY <1>1, AdministratorIsThere
<1>10. Facts'
  BY <1>1, <1>8, <1>9, InvitesChangeFacts
<1>11. Tables'
  BY <1>1, <1>5, <1>8 DEF IInv, Tables
<1>12. ASSUME NEW q \in Requests \ {p} PROVE Knows(req[q])' /\ Apart(r, req[q])
  <2>1. Knows(req[q]) /\ req'[q] = req[q]
    BY <1>1, AtHand DEF IInv
  <2>2. PICK s : s = req[q]
    OBVIOUS
  <2>3. KnowsInvite(s)'
    BY <1>8, <2>1, <2>2 DEF Knows, KnowsInvite, KnowsOn
  <2>4. Knows(s)'
    BY <1>1, <1>8, <2>1, <2>2, <2>3, InvitesChange
  <2> QED BY <1>3, <2>1, <2>2, <2>4, HoldsNothing
<1> QED BY <1>1, <1>3, <1>5, <1>6, <1>10, <1>11, <1>12, StepKeeps

\* A revocation waits for whoever redeems the invitation.
LEMMA MarkRevokedKeeps == ASSUME IInv, NEW p \in Requests, MarkRevoked(p) PROVE IInv'
<1>0. PICK i, st : i = req[p].on /\ st = IF invites[i] \in {"open", "late"} THEN "revoked" ELSE invites[i]
  OBVIOUS
<1>1. /\ req[p].at = "revoke" /\ Free(p, <<"invite", i>>) /\ invites' = [invites EXCEPT ![i] = st]
      /\ Record(p, req[p], <<"invite.revoked">>, "over")
      /\ UNCHANGED <<users, identities, linkRequests, signedIn, audit, lost, cameBy, unlinked, alarm>>
  BY <1>0 DEF MarkRevoked
<1>2. req[p] \in Request /\ KnowsOn(req[p]) /\ KnowsLocks(req[p])
  BY AtHand DEF Knows
<1>3. i \in DOMAIN invites /\ req[p].held = {} /\ req[p].keys = {}
  BY <1>0, <1>1, <1>2 DEF KnowsOn, KnowsLocks
<1>4. invites \in Seq(Store!InviteStates) /\ invites[i] \in Store!InviteStates
  BY <1>3, ElementOfSeq DEF IInv, Tables
<1>5. st \in Store!InviteStates /\ (st = "accepted" <=> invites[i] = "accepted")
  BY <1>0, <1>4 DEF Store!InviteStates
<1>6. /\ invites' \in Seq(Store!InviteStates) /\ DOMAIN invites' = DOMAIN invites /\ invites'[i] = st
      /\ \A j \in DOMAIN invites : j # i => invites'[j] = invites[j]
  BY <1>1, <1>3, <1>4, <1>5, Replaced
<1>7. PICK r \in Request : /\ req' = [req EXCEPT ![p] = r] /\ Knows(r)' /\ Audited'
                          /\ owed' \subseteq Requests \X Changes /\ \A q \in Requests \ {p} : Apart(r, req[q])
  <2>1. "over" \in Ends /\ "over" \notin Landing /\ "invite.revoked" \in Entries
    BY DEF Ends, Landing, Entries
  <2>2. <<"invite.revoked">> \in Seq(Entries) /\ <<"invite.revoked">> # <<>>
    BY <2>1, OneEntry
  <2> QED BY <1>1, <1>2, <1>3, <2>1, <2>2, RecordStep
<1>8. users # <<>>
  <2>1. invites # <<>>
    BY <1>3
  <2> QED BY <2>1 DEF IInv, Facts, InvitesComeLater
<1>9. \A j \in DOMAIN invites' : invites'[j] = "accepted" <=> j \in DOMAIN invites /\ invites[j] = "accepted"
  BY <1>5, <1>6
<1>10. Facts'
  BY <1>1, <1>6, <1>8, <1>9, InvitesChangeFacts
<1>11. Tables'
  BY <1>1, <1>6, <1>7 DEF IInv, Tables
<1>12. ASSUME NEW q \in Requests \ {p} PROVE Knows(req[q])'
  <2>1. Knows(req[q]) /\ req'[q] = req[q] /\ <<"invite", i>> \notin req[q].held
    BY <1>1, <1>7, AtHand DEF IInv, Free
  <2>2. PICK s : s = req[q]
    OBVIOUS
  <2>3. s.at \in {"insert invited", "accept"} => s.on # i /\ s.on \in DOMAIN invites
    BY <2>1, <2>2 DEF Knows, KnowsLocks, KnowsOn
  <2>4. KnowsInvite(s)'
    BY <1>6, <2>1, <2>2, <2>3 DEF Knows, KnowsInvite
  <2>5. Knows(s)'
    BY <1>1, <1>6, <2>1, <2>2, <2>4, InvitesChange
  <2> QED BY <2>1, <2>2, <2>5
<1> QED BY <1>7, <1>10, <1>11, <1>12, StepKeeps

\* An invitation runs out, for those who have not looked yet.
LEMMA ExpireKeeps == ASSUME IInv, Expire PROVE IInv'
<1>1. PICK i \in DOMAIN invites :
        /\ invites[i] = "open" /\ invites' = [invites EXCEPT ![i] = "late"]
        /\ UNCHANGED <<users, identities, linkRequests, signedIn, audit, req, ghostVars>>
  BY DEF Expire
<1>2. UNCHANGED <<users, identities, linkRequests, signedIn, audit, req, owed, lost, cameBy, unlinked, alarm>>
  BY <1>1 DEF ghostVars
<1>3. /\ invites' \in Seq(Store!InviteStates) /\ DOMAIN invites' = DOMAIN invites /\ invites'[i] = "late"
      /\ \A j \in DOMAIN invites : j # i => invites'[j] = invites[j]
  <2>1. invites \in Seq(Store!InviteStates) /\ "late" \in Store!InviteStates
    BY DEF IInv, Tables, Store!InviteStates
  <2> QED BY <1>1, <2>1, Replaced
<1>4. users # <<>>
  <2>1. invites # <<>>
    BY <1>1
  <2> QED BY <2>1 DEF IInv, Facts, InvitesComeLater
<1>5. \A j \in DOMAIN invites' : invites'[j] = "accepted" <=> j \in DOMAIN invites /\ invites[j] = "accepted"
  BY <1>1, <1>3
<1>6. Facts'
  BY <1>2, <1>3, <1>4, <1>5, InvitesChangeFacts
<1>7. Tables'
  BY <1>2, <1>3 DEF IInv, Tables
<1>8. ASSUME NEW q \in Requests PROVE Knows(req[q])'
  <2>1. Knows(req[q]) /\ req'[q] = req[q]
    BY <1>2, AtHand
  <2>2. PICK s : s = req[q]
    OBVIOUS
  <2>3. s.at \in {"insert invited", "accept"} => s.on \in DOMAIN invites
    BY <2>1, <2>2 DEF Knows, KnowsOn
  <2>4. KnowsInvite(s)'
    BY <1>3, <2>1, <2>2, <2>3 DEF Knows, KnowsInvite
  <2>5. Knows(s)'
    BY <1>2, <1>3, <2>1, <2>2, <2>4, InvitesChange
  <2> QED BY <2>1, <2>2, <2>5
<1>9. Audited'
  BY <1>2 DEF IInv, Audited, InLog, Pending
<1>10. req' \in [Requests -> Request] /\ \A q, s \in Requests : q # s => Apart(req[q], req[s])'
  BY <1>2 DEF IInv, Apart
<1> QED BY <1>6, <1>7, <1>8, <1>9, <1>10 DEF IInv

-------------------------------------------------------------------------------
(* Administration.                                                         *)

\* A flag that is named has its entry.
LEMMA SayIs ==
  ASSUME NEW want \in [admin : Wishes, active : Wishes], NEW f \in {"admin", "active"}, NEW s, s = Say(want, f)
  PROVE  /\ s \in Seq(Entries) /\ Len(s) \in {0, 1}
         /\ Len(s) = 0 <=> want[f] = "keep"
         /\ Len(s) = 1 => s[1] = Entry[f][want[f]]
<1>1. want["admin"] \in Wishes /\ want["active"] \in Wishes
  OBVIOUS
<1>2. /\ Entry["admin"]["yes"] = "user.promoted" /\ Entry["admin"]["no"] = "user.demoted"
      /\ Entry["active"]["yes"] = "user.reactivated" /\ Entry["active"]["no"] = "user.deactivated"
  BY DEF Entry
<1>3. PICK x : x = Entry[f][want[f]]
  OBVIOUS
<1>4. want[f] # "keep" => x \in Entries
  BY <1>1, <1>2, <1>3 DEF Wishes, Entries
<1>5. CASE want[f] = "keep"
  <2>1. s = <<>>
    BY <1>5 DEF Say
  <2>2. s \in Seq(Entries) /\ Len(s) = 0
    BY <2>1, EmptySeq
  <2> QED BY <1>5, <2>2
<1>6. CASE want[f] # "keep"
  <2>1. s = <<x>>
    BY <1>3, <1>6 DEF Say
  <2>2. s \in Seq(Entries) /\ Len(s) = 1 /\ s[1] = x
    BY <1>4, <1>6, <2>1
  <2> QED BY <1>3, <1>6, <2>2
<1> QED BY <1>5, <1>6

\* A place in two short sequences, one after the other.
LEMMA ShortPlaces ==
  ASSUME NEW i \in Nat, NEW m \in {0, 1}, NEW n \in {0, 1}, 1 <= i, i <= m + n
  PROVE  /\ i <= m => m = 1 /\ i = 1
         /\ ~(i <= m) => n = 1 /\ i - m = 1
OBVIOUS

\* The entries of an update are those of the flags it names.
Telling(want, es) ==
  /\ es \in Seq(Entries)
  /\ \A f \in DOMAIN want : want[f] # "keep" => \E i \in DOMAIN es : es[i] = Entry[f][want[f]]
  /\ \A i \in DOMAIN es : \E f \in DOMAIN want : want[f] # "keep" /\ es[i] = Entry[f][want[f]]

\* The two parts of userAdminActions make them up.
LEMMA EntriesOf ==
  ASSUME NEW want \in [admin : Wishes, active : Wishes], NEW es, es = Say(want, "admin") \o Say(want, "active")
  PROVE  Telling(want, es)
<1>1. PICK s, t : s = Say(want, "admin") /\ t = Say(want, "active")
  OBVIOUS
<1>2. /\ s \in Seq(Entries) /\ Len(s) \in {0, 1} /\ (Len(s) = 0 <=> want["admin"] = "keep")
      /\ Len(s) = 1 => s[1] = Entry["admin"][want["admin"]]
  BY <1>1, SayIs
<1>3. /\ t \in Seq(Entries) /\ Len(t) \in {0, 1} /\ (Len(t) = 0 <=> want["active"] = "keep")
      /\ Len(t) = 1 => t[1] = Entry["active"][want["active"]]
  BY <1>1, SayIs
<1>4. /\ es \in Seq(Entries) /\ Len(es) = Len(s) + Len(t)
      /\ \A i \in 1 .. Len(s) + Len(t) : es[i] = IF i <= Len(s) THEN s[i] ELSE t[i - Len(s)]
  BY <1>1, <1>2, <1>3, ConcatProperties
<1>5. DOMAIN es = 1 .. Len(s) + Len(t) /\ DOMAIN want = {"admin", "active"}
  BY <1>4, LenProperties
<1>6. ASSUME NEW f \in DOMAIN want, want[f] # "keep" PROVE \E i \in DOMAIN es : es[i] = Entry[f][want[f]]
  <2>1. CASE f = "admin"
    <3>1. Len(s) = 1 /\ 1 \in DOMAIN es
      BY <1>2, <1>3, <1>5, <1>6, <2>1
    <3>2. es[1] = s[1]
      BY <1>4, <1>5, <3>1
    <3> QED BY <1>2, <2>1, <3>1, <3>2
  <2>2. CASE f = "active"
    <3>1. Len(t) = 1 /\ Len(s) + 1 \in DOMAIN es /\ ~(Len(s) + 1 <= Len(s)) /\ (Len(s) + 1) - Len(s) = 1
      BY <1>2, <1>3, <1>5, <1>6, <2>2
    <3>2. es[Len(s) + 1] = t[1]
      BY <1>4, <1>5, <3>1
    <3> QED BY <1>3, <2>2, <3>1, <3>2
  <2> QED BY <1>5, <2>1, <2>2
<1>7. ASSUME NEW i \in DOMAIN es PROVE \E f \in DOMAIN want : want[f] # "keep" /\ es[i] = Entry[f][want[f]]
  <2>0. i \in Nat /\ 1 <= i /\ i <= Len(s) + Len(t)
    BY <1>2, <1>3, <1>5
  <2>1. CASE i <= Len(s)
    <3>1. Len(s) = 1 /\ i = 1
      BY <1>2, <1>3, <2>0, <2>1, ShortPlaces
    <3>2. es[i] = s[1]
      BY <1>4, <1>5, <2>1, <3>1
    <3>3. want["admin"] # "keep"
      BY <1>2, <3>1
    <3> QED BY <1>2, <1>5, <3>1, <3>2, <3>3
  <2>2. CASE ~(i <= Len(s))
    <3>1. Len(t) = 1 /\ i - Len(s) = 1
      BY <1>2, <1>3, <2>0, <2>2, ShortPlaces
    <3>2. es[i] = t[1]
      BY <1>4, <1>5, <2>2, <3>1
    <3>3. want["active"] # "keep"
      BY <1>3, <3>1
    <3> QED BY <1>3, <1>5, <3>1, <3>2, <3>3
  <2> QED BY <2>1, <2>2
<1> QED BY <1>4, <1>6, <1>7 DEF Telling

\* What others know of an account that is rewritten.
LEMMA AccountChanged ==
  ASSUME IInv, NEW a \in DOMAIN users, NEW row, DOMAIN users' = DOMAIN users, users'[a] = row,
         \A b \in DOMAIN users : b # a => users'[b] = users[b],
         NEW r, Knows(r), Store!Keys(row) = Store!Keys(users[a]) \/ Store!Keys(row) \cap r.keys = {}, KnowsAdmins(r)',
         UNCHANGED <<identities, invites, audit, unlinked>>, users' # <<>>
  PROVE  Knows(r)'
<1>1. KnowsOn(r)' /\ KnowsLocks(r)'
  BY OnStays DEF Knows, KnowsLocks
<1>2. KnowsRow(r)'
  <2>1. \A b \in DOMAIN users' \ {0} : \/ b \in DOMAIN users /\ Store!Keys(users'[b]) = Store!Keys(users[b])
                                       \/ Store!Keys(users'[b]) \cap r.keys = {}
    OBVIOUS
  <2> QED BY <2>1, RowStays DEF Knows
<1>3. KnowsTail(r)' /\ KnowsInvite(r)'
  BY DEF Knows, KnowsTail, KnowsInvite
<1>4. KnowsWho(r)' /\ KnowsWalk(r)'
  BY WalkStays DEF Knows, KnowsWho
<1> QED BY <1>1, <1>2, <1>3, <1>4 DEF Knows

\* A rewrite that leaves the flags leaves the administrators.
LEMMA FlagsStay ==
  ASSUME IInv, DOMAIN users' = DOMAIN users, users' # <<>>,
         \A b \in DOMAIN users : users'[b].admin = users[b].admin /\ users'[b].active = users[b].active
  PROVE  /\ AdminRemains'
         /\ \A r : KnowsAdmins(r) => KnowsAdmins(r)'
<1>1. AdminRemains'
  <2>1. users # <<>>
    BY DEF IInv, Tables
  <2>2. PICK b \in DOMAIN users : users[b].admin /\ users[b].active
    BY <2>1 DEF IInv, Facts, AdminRemains, Store!Admins
  <2> QED BY <2>2 DEF AdminRemains, Store!Admins
<1>2. ASSUME NEW r, KnowsAdmins(r) PROVE KnowsAdmins(r)'
  <2> SUFFICES ASSUME r.at = "commit" PROVE \E b \in DOMAIN users' : Leaves(r, b)'
    BY DEF KnowsAdmins
  <2>1. PICK b \in DOMAIN users : Leaves(r, b)
    BY <1>2 DEF KnowsAdmins
  <2>2. Leaves(r, b)'
    BY <2>1 DEF Leaves
  <2> QED BY <2>1, <2>2
<1> QED BY <1>1, <1>2

\* The other tables refer to the same accounts.
LEMMA AccountsStay ==
  ASSUME IInv, DOMAIN users' = DOMAIN users, users' \in Seq(Store!Row), UNCHANGED <<invites, identities, cameBy>>
  PROVE  InvitesComeLater' /\ OneIdentityEach' /\ Invited' /\ Len(users') = Len(users) /\ (users # <<>> => users' # <<>>)
<1>1. users # <<>> <=> users' # <<>>
  BY Empty DEF IInv, Tables
<1>2. InvitesComeLater' /\ OneIdentityEach' /\ Invited'
  BY <1>1 DEF IInv, Facts, InvitesComeLater, OneIdentityEach, Invited
<1>3. Len(users') = Len(users)
  <2>1. Len(users) \in Nat /\ DOMAIN users = 1 .. Len(users)
    BY LenProperties DEF IInv, Tables
  <2>2. Len(users') \in Nat /\ DOMAIN users' = 1 .. Len(users')
    BY LenProperties
  <2> QED BY <2>1, <2>2
<1> QED BY <1>1, <1>2, <1>3

\* A temporary password.
LEMMA SetTemporaryPasswordKeeps == ASSUME IInv, NEW p \in Requests, SetTemporaryPassword(p) PROVE IInv'
<1>0. PICK a, row : a = req[p].on /\ row = [users[a] EXCEPT !.password = "temporary"]
  OBVIOUS
<1>1. /\ req[p].at = "force" /\ users' = [users EXCEPT ![a] = row]
      /\ Record(p, req[p], <<"user.password_reset_forced">>, "over")
      /\ UNCHANGED <<identities, linkRequests, signedIn, invites, audit, lost, cameBy, unlinked, alarm>>
  BY <1>0 DEF SetTemporaryPassword
<1>2. req[p] \in Request /\ KnowsOn(req[p]) /\ KnowsLocks(req[p])
  BY AtHand DEF Knows
<1>3. a \in DOMAIN users /\ req[p].held = {} /\ req[p].keys = {}
  BY <1>0, <1>1, <1>2 DEF KnowsOn, KnowsLocks
<1>4. users \in Seq(Store!Row) /\ users[a] \in Store!Row
  BY <1>3, ElementOfSeq DEF IInv, Tables
<1>5. /\ row \in Store!Row /\ row.admin = users[a].admin /\ row.active = users[a].active /\ row.name = users[a].name
      /\ row.email = users[a].email /\ row.external = users[a].external /\ row.scim = users[a].scim
  BY <1>0, <1>4 DEF Store!Row
<1>6. /\ users' \in Seq(Store!Row) /\ DOMAIN users' = DOMAIN users /\ users'[a] = row
      /\ \A b \in DOMAIN users : b # a => users'[b] = users[b]
  BY <1>1, <1>3, <1>4, <1>5, Replaced
<1>7. PICK r \in Request : /\ req' = [req EXCEPT ![p] = r] /\ Knows(r)' /\ Audited'
                          /\ owed' \subseteq Requests \X Changes /\ \A q \in Requests \ {p} : Apart(r, req[q])
  <2>1. "over" \in Ends /\ "over" \notin Landing /\ "user.password_reset_forced" \in Entries
    BY DEF Ends, Landing, Entries
  <2>2. <<"user.password_reset_forced">> \in Seq(Entries) /\ <<"user.password_reset_forced">> # <<>>
    BY <2>1, OneEntry
  <2> QED BY <1>1, <1>2, <1>3, <2>1, <2>2, RecordStep
<1>8. InvitesComeLater' /\ OneIdentityEach' /\ Invited' /\ Len(users') = Len(users) /\ users' # <<>>
  <2>1. users # <<>>
    BY <1>3
  <2> QED BY <1>1, <1>6, <2>1, AccountsStay
<1>9. \A b \in DOMAIN users : users'[b].admin = users[b].admin /\ users'[b].active = users[b].active
  BY <1>5, <1>6
<1>10. AdminRemains' /\ \A r0 : KnowsAdmins(r0) => KnowsAdmins(r0)'
  BY <1>6, <1>8, <1>9, FlagsStay
<1>11. Facts'
  BY <1>1, <1>8, <1>10, LogStays DEF Facts
<1>12. Tables'
  BY <1>1, <1>6, <1>7, <1>8 DEF IInv, Tables
<1>13. Store!Keys(row) = Store!Keys(users[a])
  BY <1>5 DEF Store!Keys
<1>14. ASSUME NEW q \in Requests \ {p} PROVE Knows(req[q])'
  <2>1. Knows(req[q]) /\ req'[q] = req[q]
    BY <1>7, AtHand DEF IInv
  <2>2. PICK s : s = req[q]
    OBVIOUS
  <2>3. KnowsAdmins(s)'
    BY <1>10, <2>1, <2>2 DEF Knows
  <2>4. Knows(s)'
    BY <1>1, <1>3, <1>6, <1>8, <1>13, <2>1, <2>2, <2>3, AccountChanged
  <2> QED BY <2>1, <2>2, <2>4
<1> QED BY <1>7, <1>11, <1>12, <1>14, StepKeeps

\* What the directory writes leaves the flags, and takes no key that is held.
LEMMA ReplaceScimUserKeeps == ASSUME IInv, NEW p \in Requests, ReplaceScimUser(p) PROVE IInv'
<1>0. PICK a, row :
        /\ a = req[p].on
        /\ row = [users[a] EXCEPT !.scim = req[p].row.scim, !.external = req[p].row.external, !.email = req[p].row.email]
  OBVIOUS
<1>1. /\ req[p].at = "replace" /\ ~KeyHeld(p, row)
      /\ UNCHANGED <<identities, linkRequests, signedIn, invites, audit, lost, cameBy, unlinked, alarm>>
  BY <1>0 DEF ReplaceScimUser
<1>2. req[p] \in Request /\ KnowsOn(req[p]) /\ KnowsLocks(req[p])
  BY AtHand DEF Knows
<1>3. CASE End(p) /\ UNCHANGED <<users, owed>>
  <2>1. UNCHANGED <<storeVars, ghostVars>>
    BY <1>1, <1>3 DEF storeVars, ghostVars
  <2> QED BY <1>1, <1>3, <2>1, EndKeeps
<1>4. CASE /\ users' = [users EXCEPT ![a] = row]
           /\ \/ End(p) /\ UNCHANGED owed
              \/ Record(p, [New EXCEPT !.op = "ScimWrite"], <<"scim.user.updated">>, "over")
  <2>1. a \in DOMAIN users
    BY <1>0, <1>1, <1>2 DEF KnowsOn
  <2>2. users \in Seq(Store!Row) /\ users[a] \in Store!Row /\ req[p].row \in Store!Row
    BY <1>2, <2>1, ElementOfSeq DEF IInv, Tables, Request
  <2>3. /\ row \in Store!Row /\ row.admin = users[a].admin /\ row.active = users[a].active
    BY <1>0, <2>2 DEF Store!Row
  <2>4. /\ users' \in Seq(Store!Row) /\ DOMAIN users' = DOMAIN users /\ users'[a] = row
        /\ \A b \in DOMAIN users : b # a => users'[b] = users[b]
    BY <1>4, <2>1, <2>2, <2>3, Replaced
  <2>5. PICK r \in Request : /\ req' = [req EXCEPT ![p] = r] /\ Knows(r)' /\ Audited'
                            /\ owed' \subseteq Requests \X Changes /\ \A q \in Requests \ {p} : Apart(r, req[q])
    <3>1. CASE Record(p, [New EXCEPT !.op = "ScimWrite"], <<"scim.user.updated">>, "over")
      <4>1. PICK to : to = [New EXCEPT !.op = "ScimWrite"]
        OBVIOUS
      <4>2. to \in Request /\ to.held = {} /\ to.keys = {}
        BY <4>1, NewOK DEF Request, Operations
      <4>3. "over" \in Ends /\ "over" \notin Landing /\ "scim.user.updated" \in Entries
        BY DEF Ends, Landing, Entries
      <4>4. <<"scim.user.updated">> \in Seq(Entries) /\ <<"scim.user.updated">> # <<>>
        BY <4>3, OneEntry
      <4>5. Record(p, to, <<"scim.user.updated">>, "over")
        BY <3>1, <4>1
      <4> QED BY <1>1, <4>2, <4>3, <4>4, <4>5, RecordStep
    <3>2. CASE End(p) /\ UNCHANGED owed
      BY <1>1, <3>2, EndStep
    <3> QED BY <1>4, <3>1, <3>2
  <2>6. InvitesComeLater' /\ OneIdentityEach' /\ Invited' /\ Len(users') = Len(users) /\ users' # <<>>
    <3>1. users # <<>>
      BY <2>1
    <3> QED BY <1>1, <2>4, <3>1, AccountsStay
  <2>7. \A b \in DOMAIN users : users'[b].admin = users[b].admin /\ users'[b].active = users[b].active
    BY <2>3, <2>4
  <2>8. AdminRemains' /\ \A r0 : KnowsAdmins(r0) => KnowsAdmins(r0)'
    BY <2>4, <2>6, <2>7, FlagsStay
  <2>9. Facts'
    BY <1>1, <2>6, <2>8, LogStays DEF Facts
  <2>10. Tables'
    BY <1>1, <2>4, <2>5, <2>6 DEF IInv, Tables
  <2>11. ASSUME NEW q \in Requests \ {p} PROVE Knows(req[q])'
    <3>1. Knows(req[q]) /\ req'[q] = req[q] /\ Store!Keys(row) \cap req[q].keys = {}
      BY <1>1, <2>5, AtHand DEF IInv, KeyHeld
    <3>2. PICK s : s = req[q]
      OBVIOUS
    <3>3. KnowsAdmins(s)'
      BY <2>8, <3>1, <3>2 DEF Knows
    <3>4. Knows(s)'
      BY <1>1, <2>1, <2>4, <2>6, <3>1, <3>2, <3>3, AccountChanged
    <3> QED BY <3>1, <3>2, <3>4
  <2> QED BY <2>5, <2>9, <2>10, <2>11, StepKeeps
<1>5. \/ End(p) /\ UNCHANGED <<users, owed>>
      \/ /\ users' = [users EXCEPT ![a] = row]
         /\ \/ End(p) /\ UNCHANGED owed
            \/ Record(p, [New EXCEPT !.op = "ScimWrite"], <<"scim.user.updated">>, "over")
  BY <1>0 DEF ReplaceScimUser
<1> QED BY <1>3, <1>4, <1>5

\* What the account is after the update.
LEMMA Updated ==
  ASSUME IInv, NEW p \in Requests, CommitUpdate(p), NEW a, a = req[p].on, NEW want, want = req[p].want
  PROVE  /\ a \in DOMAIN users /\ want \in [admin : Wishes, active : Wishes]
         /\ users' \in Seq(Store!Row) /\ DOMAIN users' = DOMAIN users
         /\ \A b \in DOMAIN users : b # a => users'[b] = users[b]
         /\ users'[a].admin = Wanted(want.admin, users[a].admin)
         /\ users'[a].active = Wanted(want.active, users[a].active)
         /\ Store!Keys(users'[a]) = Store!Keys(users[a])
<1> DEFINE row == [users[a] EXCEPT !.admin = Wanted(want.admin, @), !.active = Wanted(want.active, users[a].active)]
<1>1. /\ req[p].at = "commit"
      /\ users' = [users EXCEPT ![a].admin = Wanted(want.admin, @), ![a].active = Wanted(want.active, users[a].active)]
  BY DEF CommitUpdate
<1>2. req[p] \in Request /\ KnowsOn(req[p])
  BY AtHand DEF Knows
<1>3. a \in DOMAIN users /\ want \in [admin : Wishes, active : Wishes]
  BY <1>1, <1>2 DEF KnowsOn, Request
<1>4. users \in Seq(Store!Row) /\ users[a] \in Store!Row
  BY <1>3, ElementOfSeq DEF IInv, Tables
<1>5. Wanted(want.admin, users[a].admin) \in BOOLEAN /\ Wanted(want.active, users[a].active) \in BOOLEAN
  BY <1>4 DEF Wanted, Store!Row
<1>6. /\ row \in Store!Row /\ row.admin = Wanted(want.admin, users[a].admin)
      /\ row.active = Wanted(want.active, users[a].active)
      /\ row.name = users[a].name /\ row.email = users[a].email /\ row.external = users[a].external
      /\ row.scim = users[a].scim
  BY <1>4, <1>5 DEF Store!Row
<1>7. users' = [users EXCEPT ![a] = row]
  BY <1>1, <1>3, <1>4
<1> HIDE DEF row
<1>8. /\ users' \in Seq(Store!Row) /\ DOMAIN users' = DOMAIN users /\ users'[a] = row
      /\ \A b \in DOMAIN users : b # a => users'[b] = users[b]
  BY <1>3, <1>4, <1>6, <1>7, Replaced
<1>9. Store!Keys(users'[a]) = Store!Keys(users[a])
  BY <1>6, <1>8 DEF Store!Keys
<1> QED BY <1>3, <1>6, <1>8, <1>9

\* The entries of an update are owed once it is made.
LEMMA UpdateOwes ==
  ASSUME IInv, NEW p \in Requests, CommitUpdate(p)
  PROVE  \E r \in Request : /\ req' = [req EXCEPT ![p] = r] /\ Knows(r)' /\ Audited'
                            /\ owed' \subseteq Requests \X Changes /\ \A q \in Requests \ {p} : Apart(r, req[q])
<1>0. PICK a, want, es : a = req[p].on /\ want = req[p].want /\ es = Say(want, "admin") \o Say(want, "active")
  OBVIOUS
<1>1. /\ req[p].at = "commit" /\ Recorded(p, es) /\ UNCHANGED <<lost, audit, invites>>
      /\ owed' = owed \cup {<<p, Entry[f][want[f]]>> : f \in {g \in DOMAIN want : want[g] # "keep"}}
  BY <1>0 DEF CommitUpdate, userAdminActions
<1>2. req[p] \in Request /\ KnowsOn(req[p]) /\ KnowsLocks(req[p])
  BY AtHand DEF Knows
<1>3. a \in DOMAIN users /\ want \in [admin : Wishes, active : Wishes] /\ DOMAIN users' = DOMAIN users
  BY <1>0, Updated
<1>4. /\ es \in Seq(Entries)
      /\ \A f \in DOMAIN want : want[f] # "keep" => \E i \in DOMAIN es : es[i] = Entry[f][want[f]]
      /\ \A i \in DOMAIN es : \E f \in DOMAIN want : want[f] # "keep" /\ es[i] = Entry[f][want[f]]
  <2>1. Telling(want, es)
    BY <1>0, <1>3, EntriesOf
  <2> QED BY <2>1 DEF Telling
<1>5. req[p].then \in {"over", "replace"} /\ req[p].keys = {}
  BY <1>1, <1>2 DEF KnowsOn, KnowsLocks, Landing, Request, Ends
<1>6. CASE es = <<>>
  <2>1. PICK r : r = [req[p] EXCEPT !.at = req[p].then, !.held = {}]
    OBVIOUS
  <2>2. r \in Request /\ r.at \in {"over", "replace"} /\ r.then \in {"over", "replace"} /\ r.held = {} /\ r.keys = {} /\ r.on = a
    <3>0. req[p].then \in Places
      BY <1>5 DEF Places
    <3>1. r \in Request
      BY <1>2, <2>1, <3>0 DEF Request
    <3>2. r.at \in {"over", "replace"} /\ r.then \in {"over", "replace"} /\ r.held = {} /\ r.keys = {} /\ r.on = a
      BY <1>0, <1>2, <1>5, <2>1 DEF Request
    <3> QED BY <3>1, <3>2
  <2>3. req' = [req EXCEPT ![p] = r]
    BY <1>1, <1>6, <2>1 DEF Recorded, Go
  <2>4. Knows(r)'
    BY <1>3, <2>2 DEF Knows, KnowsOn, KnowsLocks, KnowsRow, KnowsInvite, KnowsAdmins, KnowsTail, KnowsWho, KnowsWalk,
                  Lands, Landing, SsoPlaces, Kinds
  <2>5. {g \in DOMAIN want : want[g] # "keep"} = {}
    <3>1. DOMAIN es = {}
      BY <1>6
    <3> QED BY <1>4, <3>1
  <2>6. owed' = owed
    BY <1>1, <2>5
  <2>7. Audited'
    BY <1>1, <2>2, <2>3, <2>6, QuietIsAudited
  <2>8. owed' \subseteq Requests \X Changes
    BY <2>6 DEF IInv, Tables
  <2> QED BY <2>2, <2>3, <2>4, <2>7, <2>8, HoldsNothing
<1>7. CASE es # <<>>
  <2>1. PICK r : r = [req[p] EXCEPT !.at = "record", !.todo = es, !.held = {}]
    OBVIOUS
  <2>2. r \in Request /\ r.at = "record" /\ r.todo = es /\ r.then \in {"over", "replace"} /\ r.held = {} /\ r.keys = {} /\ r.on = a
    <3>1. es \in Seq(Entries)
      BY <1>4
    <3>2. "record" \in Places
      BY DEF Places
    <3>3. r \in Request
      BY <1>2, <2>1, <3>1, <3>2 DEF Request
    <3>4. r.at = "record" /\ r.todo = es /\ r.then \in {"over", "replace"} /\ r.held = {} /\ r.keys = {} /\ r.on = a
      BY <1>0, <1>2, <1>5, <2>1 DEF Request
    <3> QED BY <3>3, <3>4
  <2>3. req' = [req EXCEPT ![p] = r]
    BY <1>1, <1>7, <2>1 DEF Recorded, Go
  <2>4. Knows(r)'
    BY <1>3, <1>7, <2>2, KnowsRecord DEF Landing
  <2>5. {<<p, Entry[f][want[f]]>> : f \in {g \in DOMAIN want : want[g] # "keep"}} = {<<p, es[i]>> : i \in DOMAIN es}
    BY <1>4
  <2>6. owed' = owed \cup {<<p, r.todo[i]>> : i \in DOMAIN r.todo}
    BY <1>1, <2>2, <2>5
  <2>7. Audited' /\ owed' \subseteq Requests \X Changes
    BY <1>1, <2>2, <2>3, <2>6, RecordIsAudited
  <2> QED BY <2>2, <2>3, <2>4, <2>7, HoldsNothing
<1> QED BY <1>6, <1>7

\* An update of the flags: its transaction has counted the administrators, and
\* no other that changes one is at the same point.
LEMMA CommitUpdateKeeps == ASSUME IInv, NEW p \in Requests, CommitUpdate(p) PROVE IInv'
<1>0. PICK a, want, row : a = req[p].on /\ want = req[p].want /\ row = users'[a]
  OBVIOUS
<1>1. /\ req[p].at = "commit" /\ signedIn' \subseteq signedIn
      /\ UNCHANGED <<identities, linkRequests, invites, audit, lost, cameBy, unlinked, alarm>>
  BY DEF CommitUpdate
<1>2. Knows(req[p])
  BY AtHand
<1>3. /\ a \in DOMAIN users /\ users' \in Seq(Store!Row) /\ DOMAIN users' = DOMAIN users
      /\ \A b \in DOMAIN users : b # a => users'[b] = users[b]
      /\ users'[a].admin = Wanted(want.admin, users[a].admin)
      /\ users'[a].active = Wanted(want.active, users[a].active)
      /\ Store!Keys(row) = Store!Keys(users[a])
  BY <1>0, Updated
<1>4. PICK r \in Request : /\ req' = [req EXCEPT ![p] = r] /\ Knows(r)' /\ Audited'
                          /\ owed' \subseteq Requests \X Changes /\ \A q \in Requests \ {p} : Apart(r, req[q])
  BY UpdateOwes
<1>5. InvitesComeLater' /\ OneIdentityEach' /\ Invited' /\ Len(users') = Len(users) /\ users' # <<>>
  <2>1. users # <<>>
    BY <1>3
  <2> QED BY <1>1, <1>3, <2>1, AccountsStay
<1>6. AdminRemains'
  <2>1. PICK b \in DOMAIN users : Leaves(req[p], b)
    BY <1>1, <1>2 DEF Knows, KnowsAdmins
  <2>2. users'[b].admin /\ users'[b].active
    BY <1>0, <1>3, <2>1 DEF Leaves
  <2> QED BY <1>3, <2>1, <2>2 DEF AdminRemains, Store!Admins
<1>7. Facts'
  BY <1>1, <1>5, <1>6, LogStays DEF Facts
<1>8. Tables'
  BY <1>1, <1>3, <1>4, <1>5 DEF IInv, Tables
<1>9. ASSUME NEW q \in Requests \ {p} PROVE Knows(req[q])'
  <2>1. Knows(req[q]) /\ req'[q] = req[q] /\ Apart(req[p], req[q])
    BY <1>4, AtHand DEF IInv
  <2>2. PICK s : s = req[q]
    OBVIOUS
  <2>3. s.at # "commit"
    <3>1. <<"admins", 0>> \in req[p].held
      BY <1>1, <1>2 DEF Knows, KnowsLocks
    <3>2. s.at = "commit" => <<"admins", 0>> \in s.held
      BY <2>1, <2>2 DEF Knows, KnowsLocks
    <3> QED BY <2>1, <2>2, <3>1, <3>2 DEF Apart
  <2>4. KnowsAdmins(s)'
    BY <2>3 DEF KnowsAdmins
  <2>5. Knows(s)'
    BY <1>0, <1>1, <1>3, <1>5, <2>1, <2>2, <2>4, AccountChanged
  <2> QED BY <2>1, <2>2, <2>5
<1> QED BY <1>4, <1>7, <1>8, <1>9, StepKeeps

-------------------------------------------------------------------------------
(* Identities, link requests and sessions.                                 *)

\* What others know when identities change.
LEMMA IdentitiesChange ==
  ASSUME IInv, NEW r, Knows(r), unlinked \subseteq unlinked', UNCHANGED <<users, invites, audit>>,
         \A a \in DOMAIN users : identities'[a] = identities[a] \/ identities[a] \in unlinked' \cup {Nobody}
  PROVE  Knows(r)'
<1>1. KnowsOn(r)' /\ KnowsLocks(r)'
  BY DEF Knows, KnowsOn, KnowsLocks
<1>2. KnowsRow(r)' /\ KnowsInvite(r)' /\ KnowsAdmins(r)' /\ KnowsTail(r)'
  BY DEF Knows, KnowsRow, KnowsInvite, KnowsAdmins, KnowsTail, Store!Taken, Store!TakenBut, Leaves
<1>3. KnowsWho(r)'
  BY WhoStays, Constants DEF Knows
<1>4. KnowsWalk(r)'
  BY WalkStays DEF Knows
<1> QED BY <1>1, <1>2, <1>3, <1>4 DEF Knows

\* The tables tell the same of everything but the identities.
LEMMA IdentitiesChangeFacts ==
  ASSUME IInv, OneIdentityEach', UNCHANGED <<users, invites, audit, alarm, cameBy>>
  PROVE  Facts'
<1>1. AdminRemains' /\ InvitesComeLater' /\ Invited'
  BY DEF IInv, Facts, AdminRemains, InvitesComeLater, Invited, Store!Admins
<1> QED BY <1>1, LogStays DEF Facts

\* An identity is linked to an account that has none, and was linked to none.
LEMMA InsertIdentityKeeps == ASSUME IInv, NEW p \in Requests, InsertIdentity(p) PROVE IInv'
<1>0. PICK a, who, then : a = req[p].on /\ who = req[p].who /\ then = IF req[p].at = "adopt" THEN "session" ELSE "over"
  OBVIOUS
<1>1. /\ req[p].at \in {"link", "adopt"}
      /\ UNCHANGED <<users, linkRequests, signedIn, invites, audit, lost, cameBy, unlinked, alarm>>
  BY DEF InsertIdentity
<1>2. req[p] \in Request /\ KnowsOn(req[p]) /\ KnowsLocks(req[p])
  BY AtHand DEF Knows
<1>3. /\ a \in DOMAIN users /\ who \in Persons /\ req[p].held = {} /\ req[p].keys = {}
  BY <1>0, <1>1, <1>2 DEF KnowsOn, KnowsLocks, SsoPlaces
<1>4. CASE End(p) /\ UNCHANGED <<identities, owed>>
  <2>1. UNCHANGED <<storeVars, ghostVars>>
    BY <1>1, <1>4 DEF storeVars, ghostVars
  <2> QED BY <1>1, <1>4, <2>1, EndKeeps
<1>5. CASE /\ identities[a] = Nobody /\ Linked(who) = {}
           /\ identities' = [identities EXCEPT ![a] = who] /\ Record(p, req[p], <<"sso.linked">>, then)
  <2>1. /\ identities \in Seq(Store!Maybe) /\ DOMAIN identities = DOMAIN users /\ who \in Store!Maybe
    BY <1>3, LenProperties DEF IInv, Tables, Store!Maybe
  <2>2. /\ identities' \in Seq(Store!Maybe) /\ DOMAIN identities' = DOMAIN users /\ identities'[a] = who
        /\ Len(identities') = Len(identities) /\ \A b \in DOMAIN users : b # a => identities'[b] = identities[b]
    BY <1>3, <1>5, <2>1, Replaced
  <2>3. PICK r \in Request : /\ req' = [req EXCEPT ![p] = r] /\ Knows(r)' /\ Audited'
                            /\ owed' \subseteq Requests \X Changes /\ \A q \in Requests \ {p} : Apart(r, req[q])
    <3>1. then \in Ends /\ "sso.linked" \in Entries
      BY <1>0 DEF Ends, Entries
    <3>2. <<"sso.linked">> \in Seq(Entries) /\ <<"sso.linked">> # <<>>
      BY <3>1, OneEntry
    <3>3. req[p].on \in DOMAIN users' /\ req[p].who \in Persons /\ identities'[req[p].on] = req[p].who
      BY <1>0, <1>1, <1>3, <2>2
    <3> QED BY <1>1, <1>2, <1>3, <1>5, <3>1, <3>2, <3>3, RecordStep
  <2>4. OneIdentityEach'
    <3>1. \A b \in DOMAIN users : identities[b] # who
      BY <1>5 DEF Linked
    <3>2. OneIdentityEach
      BY DEF IInv, Facts
    <3> QED BY <1>1, <2>2, <3>1, <3>2 DEF OneIdentityEach
  <2>5. Facts'
    BY <1>1, <2>4, IdentitiesChangeFacts
  <2>6. Tables'
    BY <1>1, <2>2, <2>3 DEF IInv, Tables
  <2>7. ASSUME NEW q \in Requests \ {p} PROVE Knows(req[q])'
    <3>1. Knows(req[q]) /\ req'[q] = req[q]
      BY <2>3, AtHand DEF IInv
    <3>2. PICK s : s = req[q]
      OBVIOUS
    <3>3. \A b \in DOMAIN users : identities'[b] = identities[b] \/ identities[b] \in unlinked' \cup {Nobody}
      BY <1>5, <2>2
    <3>4. Knows(s)'
      BY <1>1, <3>1, <3>2, <3>3, IdentitiesChange
    <3> QED BY <3>1, <3>2, <3>4
  <2> QED BY <2>3, <2>5, <2>6, <2>7, StepKeeps
<1>6. \/ End(p) /\ UNCHANGED <<identities, owed>>
      \/ /\ identities[a] = Nobody /\ Linked(who) = {}
         /\ identities' = [identities EXCEPT ![a] = who] /\ Record(p, req[p], <<"sso.linked">>, then)
  BY <1>0 DEF InsertIdentity
<1> QED BY <1>4, <1>5, <1>6

\* An identity is unlinked.
LEMMA DeleteIdentityKeeps == ASSUME IInv, NEW p \in Requests, DeleteIdentity(p) PROVE IInv'
<1>0. PICK a : a = req[p].on
  OBVIOUS
<1>1. /\ req[p].at = "unlink" /\ unlinked' = unlinked \cup {identities[a]} /\ identities' = [identities EXCEPT ![a] = Nobody]
      /\ UNCHANGED <<users, linkRequests, signedIn, invites, audit, lost, cameBy, alarm>>
  BY <1>0 DEF DeleteIdentity
<1>2. req[p] \in Request /\ KnowsOn(req[p]) /\ KnowsLocks(req[p])
  BY AtHand DEF Knows
<1>3. a \in DOMAIN users /\ req[p].held = {} /\ req[p].keys = {}
  BY <1>0, <1>1, <1>2 DEF KnowsOn, KnowsLocks
<1>4. identities \in Seq(Store!Maybe) /\ DOMAIN identities = DOMAIN users /\ Nobody \in Store!Maybe
  BY LenProperties DEF IInv, Tables, Store!Maybe
<1>5. /\ identities' \in Seq(Store!Maybe) /\ DOMAIN identities' = DOMAIN users /\ identities'[a] = Nobody
      /\ Len(identities') = Len(identities) /\ \A b \in DOMAIN users : b # a => identities'[b] = identities[b]
  BY <1>1, <1>3, <1>4, Replaced
<1>6. PICK r \in Request : /\ req' = [req EXCEPT ![p] = r] /\ Knows(r)' /\ Audited'
                          /\ owed' \subseteq Requests \X Changes /\ \A q \in Requests \ {p} : Apart(r, req[q])
  <2>1. CASE End(p) /\ UNCHANGED owed
    BY <1>1, <2>1, EndStep
  <2>2. CASE Record(p, req[p], <<"sso.unlinked">>, "over")
    <3>1. "over" \in Ends /\ "over" \notin Landing /\ "sso.unlinked" \in Entries
      BY DEF Ends, Landing, Entries
    <3>2. <<"sso.unlinked">> \in Seq(Entries) /\ <<"sso.unlinked">> # <<>>
      BY <3>1, OneEntry
    <3> QED BY <1>1, <1>2, <1>3, <2>2, <3>1, <3>2, RecordStep
  <2>3. (End(p) /\ UNCHANGED owed) \/ Record(p, req[p], <<"sso.unlinked">>, "over")
    BY DEF DeleteIdentity
  <2> QED BY <2>1, <2>2, <2>3
<1>7. OneIdentityEach'
  <2>1. OneIdentityEach
    BY DEF IInv, Facts
  <2> QED BY <1>1, <1>5, <2>1 DEF OneIdentityEach
<1>8. Facts'
  BY <1>1, <1>7, IdentitiesChangeFacts
<1>9. Tables'
  BY <1>1, <1>5, <1>6 DEF IInv, Tables
<1>10. ASSUME NEW q \in Requests \ {p} PROVE Knows(req[q])'
  <2>1. Knows(req[q]) /\ req'[q] = req[q]
    BY <1>6, AtHand DEF IInv
  <2>2. PICK s : s = req[q]
    OBVIOUS
  <2>3. \A b \in DOMAIN users : identities'[b] = identities[b] \/ identities[b] \in unlinked' \cup {Nobody}
    BY <1>1, <1>5
  <2>4. Knows(s)'
    BY <1>1, <2>1, <2>2, <2>3, IdentitiesChange
  <2> QED BY <2>1, <2>2, <2>4
<1> QED BY <1>6, <1>8, <1>9, <1>10, StepKeeps

\* A step that changes no more than link requests and sessions.
LEMMA SideKeeps ==
  ASSUME IInv, NEW p \in Requests, NEW r \in Request, req' = [req EXCEPT ![p] = r], Knows(r)', Audited',
         owed' \subseteq Requests \X Changes, \A q \in Requests \ {p} : Apart(r, req[q]),
         UNCHANGED <<users, identities, invites, audit, lost, cameBy, unlinked, alarm>>,
         linkRequests' \subseteq Requests \X DOMAIN users, signedIn' \subseteq DOMAIN users
  PROVE  IInv'
<1>1. Tables'
  BY DEF IInv, Tables
<1>2. Facts'
  <2>1. OneIdentityEach'
    BY DEF IInv, Facts, OneIdentityEach
  <2> QED BY <2>1, IdentitiesChangeFacts
<1>3. ASSUME NEW q \in Requests \ {p} PROVE Knows(req[q])'
  <2>1. Knows(req[q]) /\ req'[q] = req[q]
    BY AtHand DEF IInv
  <2>2. PICK s : s = req[q]
    OBVIOUS
  <2>3. Knows(s)'
    BY <2>1, <2>2, KnowsStays
  <2> QED BY <2>1, <2>2, <2>3
<1> QED BY <1>1, <1>2, <1>3, StepKeeps

\* A link begins.
LEMMA LinkOidcIdentityKeeps == ASSUME IInv, NEW p \in Requests, LinkOidcIdentity(p) PROVE IInv'
<1>1. PICK a \in DOMAIN users : /\ Begin(p, "Link", Over) /\ linkRequests' = linkRequests \cup {<<p, a>>}
                                /\ UNCHANGED <<users, identities, signedIn, invites, audit, ghostVars>>
  BY DEF LinkOidcIdentity
<1>2. PICK r : r = [Over EXCEPT !.op = "Link"]
  OBVIOUS
<1>3. r \in Request /\ r.at = "over" /\ r.then = "over" /\ r.held = {} /\ r.keys = {}
  BY <1>2, OverOK DEF Request, Operations
<1>4. req[p].at = "new" /\ req' = [req EXCEPT ![p] = r]
  BY <1>1, <1>2 DEF Begin
<1>5. Knows(r)
  BY <1>3 DEF Knows, KnowsOn, KnowsLocks, KnowsRow, KnowsInvite, KnowsAdmins, KnowsTail, KnowsWho, KnowsWalk,
              Lands, Landing, SsoPlaces, Kinds
<1>6. UNCHANGED <<owed, lost, cameBy, unlinked, alarm>>
  BY <1>1 DEF ghostVars
<1>7. Knows(r)'
  BY <1>1, <1>5, <1>6, KnowsStays
<1>8. Audited'
  BY <1>1, <1>3, <1>4, <1>6, QuietIsAudited
<1>9. owed' \subseteq Requests \X Changes /\ signedIn' \subseteq DOMAIN users /\ linkRequests' \subseteq Requests \X DOMAIN users
  BY <1>1, <1>6 DEF IInv, Tables
<1> QED BY <1>1, <1>3, <1>4, <1>6, <1>7, <1>8, <1>9, HoldsNothing, SideKeeps

\* One callback gets the link request, and knows the account that waits.
LEMMA ConsumeOidcLinkRequestKeeps == ASSUME IInv, NEW p \in Requests, ConsumeOidcLinkRequest(p) PROVE IInv'
<1>1. /\ req[p].at = "callback" /\ linkRequests' \subseteq linkRequests
      /\ UNCHANGED <<users, identities, signedIn, invites, audit, ghostVars>>
  BY DEF ConsumeOidcLinkRequest
<1>2. req[p] \in Request /\ KnowsOn(req[p]) /\ KnowsLocks(req[p])
  BY AtHand DEF Knows
<1>3. /\ req[p].state \in Requests \X DOMAIN users /\ req[p].who \in Persons /\ req[p].held = {} /\ req[p].keys = {}
      /\ req[p].then \notin Landing
  BY <1>1, <1>2 DEF KnowsOn, KnowsLocks, SsoPlaces, Landing
<1>4. PICK a : a = req[p].state[2]
  OBVIOUS
<1>5. a \in DOMAIN users /\ a \in Nat
  BY <1>3, <1>4, Numbered
<1>6. PICK r : /\ req' = [req EXCEPT ![p] = r]
               /\ \/ \E at \in {"link", "over"} : r = [req[p] EXCEPT !.at = at, !.on = a]
                  \/ r = [req[p] EXCEPT !.at = "login"]
  BY <1>4 DEF ConsumeOidcLinkRequest, Go, Goto
<1>7. /\ r \in Request /\ r.at \in {"link", "over", "login"} /\ r.then = req[p].then /\ r.held = {} /\ r.keys = {}
      /\ r.who = req[p].who /\ (r.on = a \/ (r.at = "login" /\ r.on = req[p].on))
  <2>1. CASE r = [req[p] EXCEPT !.at = "login"]
    BY <1>2, <1>3, <2>1 DEF Request, Places
  <2>2. CASE \E at \in {"link", "over"} : r = [req[p] EXCEPT !.at = at, !.on = a]
    <3>1. PICK at \in {"link", "over"} : r = [req[p] EXCEPT !.at = at, !.on = a]
      BY <2>2
    <3>2. at \in Places
      BY DEF Places
    <3>3. r \in Request
      BY <1>2, <1>5, <3>1, <3>2 DEF Request
    <3>4. r.at = at /\ r.then = req[p].then /\ r.held = {} /\ r.keys = {} /\ r.who = req[p].who /\ r.on = a
      BY <1>2, <1>3, <3>1 DEF Request
    <3> QED BY <3>3, <3>4
  <2> QED BY <1>6, <2>1, <2>2
<1>8. KnowsOn(r)
  BY <1>2, <1>3, <1>5, <1>7 DEF KnowsOn, SsoPlaces, Landing
<1>9. Knows(r)
  <2>1. r.at \in Plain
    BY <1>7 DEF Plain
  <2> QED BY <1>3, <1>7, <1>8, <2>1, PlainKnows
<1>10. UNCHANGED <<owed, lost, cameBy, unlinked, alarm>>
  BY <1>1 DEF ghostVars
<1>11. Knows(r)'
  BY <1>1, <1>9, <1>10, KnowsStays
<1>12. Audited'
  BY <1>1, <1>6, <1>7, <1>10, QuietIsAudited
<1>13. owed' \subseteq Requests \X Changes /\ signedIn' \subseteq DOMAIN users /\ linkRequests' \subseteq Requests \X DOMAIN users
  BY <1>1, <1>10 DEF IInv, Tables
<1> QED BY <1>1, <1>6, <1>7, <1>10, <1>11, <1>12, <1>13, HoldsNothing, SideKeeps

\* A session of the account the identity is linked to.
LEMMA CreateSessionKeeps == ASSUME IInv, NEW p \in Requests, CreateSession(p) PROVE IInv'
<1>0. PICK to : to = [New EXCEPT !.op = "Sso", !.who = req[p].who, !.on = req[p].on]
  OBVIOUS
<1>1. /\ req[p].at = "session" /\ signedIn' = signedIn \cup {req[p].on}
      /\ Record(p, to, <<"user.signed_in">>, "signed in")
      /\ UNCHANGED <<users, identities, linkRequests, invites, audit, lost, cameBy, unlinked, alarm>>
  BY <1>0 DEF CreateSession
<1>2. req[p] \in Request /\ KnowsOn(req[p]) /\ KnowsWho(req[p])
  BY AtHand DEF Knows
<1>3. /\ req[p].who \in Persons /\ req[p].on \in DOMAIN users
      /\ req[p].who \in unlinked \/ identities[req[p].on] = req[p].who
  BY <1>1, <1>2 DEF KnowsOn, KnowsWho, SsoPlaces, Lands, Landing
<1>4. to \in Request /\ to.held = {} /\ to.keys = {} /\ to.who = req[p].who /\ to.on = req[p].on
  BY <1>0, <1>2, NewOK DEF Request, Operations
<1>5. PICK r \in Request : /\ req' = [req EXCEPT ![p] = r] /\ Knows(r)' /\ Audited'
                          /\ owed' \subseteq Requests \X Changes /\ \A q \in Requests \ {p} : Apart(r, req[q])
  <2>1. "signed in" \in Ends /\ "user.signed_in" \in Entries
    BY DEF Ends, Entries
  <2>2. <<"user.signed_in">> \in Seq(Entries) /\ <<"user.signed_in">> # <<>>
    BY <2>1, OneEntry
  <2>3. to.who \in Persons /\ to.on \in DOMAIN users' /\ (to.who \in unlinked' \/ identities'[to.on] = to.who)
    BY <1>1, <1>3, <1>4
  <2> QED BY <1>1, <1>4, <2>1, <2>2, <2>3, RecordStep
<1>6. signedIn' \subseteq DOMAIN users /\ linkRequests' \subseteq Requests \X DOMAIN users
  BY <1>1, <1>3 DEF IInv, Tables
<1> QED BY <1>1, <1>5, <1>6, SideKeeps

-------------------------------------------------------------------------------
(* Pages.                                                                  *)

\* A set of numbers that is not empty has a least one.
LEMMA SmallestOf ==
  ASSUME NEW S, S \subseteq Nat, S # {}
  PROVE  \E x \in S : \A y \in S : x <= y
<1> DEFINE R == {ss \in Nat \X Nat : ss[1] < ss[2]}
<1>1. IsWellFoundedOn(R, Nat)
  BY NatLessThanWellFounded DEF OpToRel
<1> HIDE DEF R
<1>2. PICK x \in S : \A y \in S : ~(<<y, x>> \in R)
  BY <1>1, WFMin
<1>3. ASSUME NEW y \in S PROVE x <= y
  <2>1. x \in Nat /\ y \in Nat /\ ~(<<y, x>> \in R)
    BY <1>2
  <2> QED BY <2>1 DEF R
<1> QED BY <1>3

\* Among rows there is a largest one.
LEMMA LargestOf ==
  ASSUME NEW n \in Nat, NEW S, S \subseteq 1 .. n, S # {}
  PROVE  \E x \in S : \A y \in S : y <= x
<1> DEFINE T == {m \in 0 .. n : n - m \in S}
<1>1. PICK x \in S : TRUE
  OBVIOUS
<1>2. n - x \in 0 .. n /\ n - (n - x) = x
  BY <1>1
<1>3. T # {}
  BY <1>1, <1>2
<1>4. T \subseteq Nat
  OBVIOUS
<1> HIDE DEF T
<1>5. PICK m \in T : \A l \in T : m <= l
  BY <1>3, <1>4, SmallestOf
<1>6. m \in Nat /\ n - m \in S
  BY <1>4, <1>5 DEF T
<1>7. ASSUME NEW y \in S PROVE y <= n - m
  <2>1. y \in 1 .. n /\ n - y \in 0 .. n /\ n - (n - y) = y
    OBVIOUS
  <2>2. n - y \in T
    BY <2>1 DEF T
  <2>3. m <= n - y
    BY <1>5, <2>2
  <2> QED BY <1>6, <2>1, <2>3
<1> QED BY <1>6, <1>7

\* A list has an order, from its beginning or from its end.
LEMMA ListOrder ==
  ASSUME NEW kind
  PROVE  /\ \A x \in Nat : ~Before(kind, x, x)
         /\ \A x, y \in Nat : x = y \/ Before(kind, x, y) \/ Before(kind, y, x)
         /\ \A x, y, z \in Nat : Before(kind, x, y) /\ Before(kind, y, z) => Before(kind, x, z)
BY DEF Before

\* Rows of a list have a first and a last one.
LEMMA ListEnds ==
  ASSUME NEW kind, NEW n \in Nat, NEW S, S \subseteq 1 .. n, S # {}
  PROVE  /\ \E x \in S : \A y \in S : y = x \/ Before(kind, x, y)
         /\ \E x \in S : \A y \in S : y = x \/ Before(kind, y, x)
<1>0. S \subseteq Nat
  OBVIOUS
<1>1. PICK lo \in S : \A y \in S : lo <= y
  BY <1>0, SmallestOf
<1>2. PICK hi \in S : \A y \in S : y <= hi
  BY LargestOf
<1>3. ASSUME NEW y \in S PROVE (y = lo \/ lo < y) /\ (y = hi \/ y < hi)
  <2>1. lo \in Nat /\ hi \in Nat /\ y \in Nat /\ lo <= y /\ y <= hi
    BY <1>0, <1>1, <1>2
  <2> QED BY <2>1
<1>4. CASE kind = "audit"
  BY <1>3, <1>4 DEF Before
<1>5. CASE kind # "audit"
  BY <1>3, <1>5 DEF Before
<1> QED BY <1>4, <1>5

\* Rows of a list are numbers, and the statement sorts them in its order: the
\* time of an entry does not decrease along the log.
LEMMA ListedInOrder ==
  ASSUME IInv, NEW kind \in Kinds
  PROVE  /\ \E n \in Nat : Rows(kind) = 1 .. n
         /\ Rows(kind) \subseteq Nat \ {0} /\ Listed(kind) \subseteq Rows(kind)
         /\ \A x, y \in Rows(kind) : Precedes(kind, x, y) <=> Before(kind, x, y)
<1>1. /\ Len(users) \in Nat /\ DOMAIN users = 1 .. Len(users) /\ Len(invites) \in Nat /\ DOMAIN invites = 1 .. Len(invites)
      /\ Len(audit) \in Nat /\ DOMAIN audit = 1 .. Len(audit)
  BY LenProperties DEF IInv, Tables
<1>2. \E n \in Nat : Rows(kind) = 1 .. n
  BY <1>1 DEF Rows
<1>3. Listed(kind) \subseteq Rows(kind) /\ Rows(kind) \subseteq Nat \ {0}
  BY Numbered DEF Listed, Rows, Kinds
<1>4. ASSUME NEW x \in Rows(kind), NEW y \in Rows(kind) PROVE Precedes(kind, x, y) <=> Before(kind, x, y)
  <2>1. CASE kind # "audit"
    BY <2>1 DEF Precedes, Before
  <2>2. CASE kind = "audit"
    <3>1. x \in DOMAIN audit /\ y \in DOMAIN audit /\ x \in Nat /\ y \in Nat
      BY <1>3, <2>2 DEF Rows
    <3>2. PICK s, t : s = audit[x].at /\ t = audit[y].at
      OBVIOUS
    <3>3. audit[x] \in AuditRow /\ audit[y] \in AuditRow
      BY <3>1, ElementOfSeq DEF IInv, Tables
    <3>4. s \in Nat /\ t \in Nat
      BY <3>2, <3>3 DEF AuditRow
    <3>5. (x <= y => s <= t) /\ (y <= x => t <= s)
      BY <3>1, <3>2 DEF IInv, Facts, Times
    <3>6. (t < s \/ (t = s /\ y < x)) <=> y < x
      BY <3>1, <3>4, <3>5
    <3> QED BY <2>2, <3>2, <3>6 DEF Precedes, Before
  <2> QED BY <2>1, <2>2
<1> QED BY <1>2, <1>3, <1>4

\* A page is a beginning of what is left, and not empty where something is left.
LEMMA FirstIs ==
  ASSUME IInv, NEW kind \in Kinds, NEW S, S \subseteq Rows(kind), NEW m \in Nat, NEW F, F = First(kind, S, m)
  PROVE  /\ F \subseteq S
         /\ m # 0 /\ S # {} => F # {}
         /\ \A x \in F, y \in S : Before(kind, y, x) => y \in F
<1> DEFINE Ahead(x) == {y \in S : Precedes(kind, y, x)}
<1>1. F = {x \in S : Cardinality(Ahead(x)) < m}
  BY DEF First
<1>2. PICK n \in Nat : Rows(kind) = 1 .. n
  BY ListedInOrder
<1>3. S \subseteq 1 .. n /\ S \subseteq Nat
  BY <1>2
<1>4. \A x, y \in S : Precedes(kind, x, y) <=> Before(kind, x, y)
  BY ListedInOrder
<1>5. ASSUME NEW T \in SUBSET S PROVE IsFiniteSet(T) /\ Cardinality(T) \in Nat
  <2>1. IsFiniteSet(1 .. n)
    BY <1>2, FS_Interval
  <2>2. T \in SUBSET (1 .. n)
    BY <1>3
  <2>3. IsFiniteSet(T)
    BY <2>1, <2>2, FS_Subset
  <2> QED BY <2>3, FS_CardinalityType
<1>6. ASSUME m # 0, S # {} PROVE F # {}
  <2>1. PICK x \in S : \A y \in S : y = x \/ Before(kind, x, y)
    BY <1>2, <1>3, <1>6, ListEnds
  <2>2. ASSUME NEW y \in S PROVE ~Precedes(kind, y, x)
    <3>1. x \in Nat /\ y \in Nat
      BY <1>3
    <3>2. ~Before(kind, y, x)
      BY <2>1, <3>1, ListOrder
    <3> QED BY <1>4, <3>2
  <2>3. Ahead(x) = {}
    BY <2>2
  <2>4. Cardinality(Ahead(x)) = 0
    BY <2>3, FS_EmptySet
  <2>5. Cardinality(Ahead(x)) < m
    BY <1>6, <2>4
  <2> QED BY <1>1, <2>5
<1>7. ASSUME NEW x \in F, NEW y \in S, Before(kind, y, x) PROVE y \in F
  <2>1. x \in S /\ Cardinality(Ahead(x)) < m
    BY <1>1
  <2>2. ASSUME NEW z \in S, Precedes(kind, z, y) PROVE Precedes(kind, z, x)
    <3>1. x \in Nat /\ y \in Nat /\ z \in Nat
      BY <1>3, <2>1
    <3>2. Before(kind, z, y)
      BY <1>4, <2>2
    <3>3. Before(kind, z, x)
      BY <1>7, <3>1, <3>2, ListOrder
    <3> QED BY <1>4, <2>1, <3>3
  <2>3. Ahead(y) \in SUBSET Ahead(x) /\ Ahead(x) \in SUBSET S
    BY <2>2
  <2>4. Cardinality(Ahead(y)) <= Cardinality(Ahead(x))
    BY <1>5, <2>3, FS_Subset
  <2>5. Cardinality(Ahead(y)) \in Nat /\ Cardinality(Ahead(x)) \in Nat
    BY <1>5, <2>3
  <2>6. Cardinality(Ahead(y)) < m
    BY <2>1, <2>4, <2>5
  <2> QED BY <1>1, <2>6
<1> QED BY <1>1, <1>6, <1>7

\* A page of the audit log, with the row after it, is a stretch of the chain.
LEMMA PageVerifies ==
  ASSUME IInv, NEW c \in Nat, NEW rows, rows = {x \in DOMAIN audit : c = 0 \/ x < c},
         NEW F, F = First("audit", rows, PageLimit + 1)
  PROVE  VerifyRange(F)
<1>0. "audit" \in Kinds /\ Rows("audit") = DOMAIN audit /\ PageLimit + 1 \in Nat
  BY Constants DEF Kinds, Rows
<1>1. rows \subseteq Rows("audit")
  BY <1>0
<1>2. F \subseteq rows /\ \A x \in F, y \in rows : Before("audit", y, x) => y \in F
  BY <1>0, <1>1, FirstIs
<1>3. SUFFICES ASSUME NEW x \in F, NEW y \in F, y < x, ~\E z \in F : y < z /\ z < x PROVE audit[x].prev = y
  BY DEF VerifyRange
<1>4. Len(audit) \in Nat /\ DOMAIN audit = 1 .. Len(audit)
  BY LenProperties DEF IInv, Tables
<1>5. x \in DOMAIN audit /\ y \in DOMAIN audit /\ x \in Nat /\ y \in Nat /\ 1 <= y /\ x <= Len(audit) /\ (c = 0 \/ x < c)
  BY <1>2, <1>4
<1>6. audit[x].prev = x - 1
  BY <1>5 DEF IInv, Facts, ChainDoesNotFork
<1>7. CASE y = x - 1
  BY <1>6, <1>7
<1>8. CASE y # x - 1
  <2>1. x - 1 \in Nat /\ y < x - 1 /\ x - 1 < x /\ x - 1 \in 1 .. Len(audit) /\ (c = 0 \/ x - 1 < c)
    BY <1>3, <1>4, <1>5, <1>8
  <2>2. x - 1 \in rows
    BY <1>4, <2>1
  <2>3. Before("audit", x - 1, y)
    BY <2>1 DEF Before
  <2>4. x - 1 \in F
    BY <1>2, <2>2, <2>3
  <2> QED BY <1>3, <2>1, <2>4
<1> QED BY <1>7, <1>8

\* What is left of a list, after the cursor.
LEMMA LeftOver ==
  ASSUME IInv, NEW kind \in Kinds, NEW c \in Nat, c # 0 => c \in Rows(kind),
         NEW rows, rows = {x \in Listed(kind) : c = 0 \/ Precedes(kind, c, x)}
  PROVE  /\ rows \subseteq Rows(kind)
         /\ \A x \in Listed(kind) : x \in rows <=> c = 0 \/ Before(kind, c, x)
         /\ kind = "audit" => rows = {x \in DOMAIN audit : c = 0 \/ x < c}
<1>1. rows \subseteq Listed(kind) /\ Listed(kind) \subseteq Rows(kind)
  BY ListedInOrder
<1>2. ASSUME NEW x \in Listed(kind) PROVE x \in rows <=> c = 0 \/ Before(kind, c, x)
  BY <1>1, ListedInOrder
<1>3. kind = "audit" => rows = {x \in DOMAIN audit : c = 0 \/ x < c}
  BY <1>1, <1>2 DEF Listed, Before
<1> QED BY <1>1, <1>2, <1>3

\* What a walk knows after a page, in the terms of its order.
WalkedTo(kind, c, got, stay) ==
  /\ \A x \in got : x = c \/ Before(kind, x, c)
  /\ \A x \in stay : x \in got \/ Before(kind, c, x)

\* The last row of the page is the next cursor: what was listed is not after
\* it, and what is left to list is.
LEMMA WalkGoesOn ==
  ASSUME NEW kind, NEW c \in Nat, NEW got \in SUBSET Nat, NEW stay \in SUBSET Nat, NEW rows \in SUBSET Nat,
         NEW F \in SUBSET rows, NEW d \in F, \A y \in F : y = d \/ Before(kind, y, d),
         \A x \in F, y \in rows : Before(kind, y, x) => y \in F,
         c = 0 => got = {}, \A x \in got : x = c \/ Before(kind, x, c),
         \A x \in rows : c = 0 \/ Before(kind, c, x),
         \A x \in stay : x \in got \/ x \in rows
  PROVE  WalkedTo(kind, d, got \cup F, stay)
<1>1. ASSUME NEW x \in got PROVE Before(kind, x, d)
  <2>1. x \in Nat /\ c \in Nat /\ d \in Nat /\ d \in rows /\ c # 0
    OBVIOUS
  <2>2. Before(kind, c, d)
    BY <2>1
  <2> QED BY <2>1, <2>2, ListOrder
<1>2. ASSUME NEW x \in stay, x \notin got, x \notin F PROVE Before(kind, d, x)
  <2>1. x \in Nat /\ d \in Nat /\ x \in rows /\ x # d
    BY <1>2
  <2>2. ~Before(kind, x, d)
    BY <1>2, <2>1
  <2> QED BY <2>1, <2>2, ListOrder
<1> QED BY <1>1, <1>2 DEF WalkedTo

\* A page lists nothing twice.
LEMMA PageIsNew ==
  ASSUME NEW kind, NEW c \in Nat, NEW got \in SUBSET Nat, NEW F \in SUBSET Nat,
         c = 0 => got = {}, \A x \in got : x = c \/ Before(kind, x, c), \A x \in F : c = 0 \/ Before(kind, c, x)
  PROVE  F \cap got = {}
<1> SUFFICES ASSUME NEW x \in F, x \in got PROVE FALSE
  OBVIOUS
<1>1. x \in Nat /\ c # 0 /\ Before(kind, c, x) /\ (x = c \/ Before(kind, x, c))
  OBVIOUS
<1>2. Before(kind, x, x)
  BY <1>1, ListOrder
<1> QED BY <1>1, <1>2, ListOrder

\* A walk goes on, or has listed all.
LEMMA PageKeeps == ASSUME IInv, NEW p \in Requests, Page(p) PROVE IInv'
<1>0. PICK kind, c, rows, F, L : /\ kind = req[p].at /\ c = req[p].cursor /\ L = Listed(kind)
                                 /\ rows = {x \in Listed(kind) : c = 0 \/ Precedes(kind, c, x)}
                                 /\ F = First(kind, rows, PageLimit)
  OBVIOUS
<1>1. /\ kind \in Kinds /\ Go(p, [AfterPage(p, rows) EXCEPT !.stay = @ \cap L])
      /\ alarm' = (alarm \/ (kind = "audit" /\ ~VerifyRange(First(kind, rows, PageLimit + 1))))
      /\ UNCHANGED <<storeVars, owed, lost, cameBy, unlinked>>
  BY <1>0 DEF Page
<1>2. req[p] \in Request /\ KnowsOn(req[p]) /\ KnowsLocks(req[p]) /\ KnowsWalk(req[p])
  BY AtHand DEF Knows
<1>3. /\ kind \in Places /\ kind \notin {"record", "seal", "insert", "listed"} /\ c \in Nat
      /\ req[p].held = {} /\ req[p].keys = {} /\ req[p].then \notin Landing
  BY <1>0, <1>1, <1>2 DEF Kinds, Places, KnowsOn, KnowsLocks, Request, Landing
<1>4. PICK got, stay : got = req[p].got /\ stay = req[p].stay
  OBVIOUS
<1>5. /\ got \in SUBSET Nat /\ stay \in SUBSET Nat /\ req[p].twice = FALSE
      /\ (c = 0 => got = {}) /\ (c # 0 => c \in Rows(kind))
      /\ \A x \in got : x = c \/ Before(kind, x, c)
      /\ \A x \in stay : x \in Rows(kind) /\ (x \in got \/ c = 0 \/ Before(kind, c, x))
  BY <1>0, <1>1, <1>2, <1>4 DEF KnowsWalk, Request
<1>6. /\ rows \subseteq Rows(kind) /\ \A x \in L : x \in rows <=> c = 0 \/ Before(kind, c, x)
      /\ kind = "audit" => rows = {x \in DOMAIN audit : c = 0 \/ x < c}
  <2>1. kind \in Kinds /\ c \in Nat /\ (c # 0 => c \in Rows(kind))
        /\ rows = {x \in Listed(kind) : c = 0 \/ Precedes(kind, c, x)} /\ L = Listed(kind)
    BY <1>0, <1>1, <1>3, <1>5
  <2>2. /\ rows \subseteq Rows(kind) /\ \A x \in Listed(kind) : x \in rows <=> c = 0 \/ Before(kind, c, x)
        /\ kind = "audit" => rows = {x \in DOMAIN audit : c = 0 \/ x < c}
    BY <2>1, LeftOver
  <2> QED BY <2>1, <2>2
<1>7. /\ Rows(kind) \subseteq Nat \ {0} /\ L \subseteq Rows(kind) /\ rows \subseteq L
      /\ \A x, y \in Rows(kind) : Precedes(kind, x, y) <=> Before(kind, x, y)
  BY <1>0, <1>1, ListedInOrder
<1>8. F \subseteq rows /\ (rows # {} => F # {}) /\ \A x \in F, y \in rows : Before(kind, y, x) => y \in F
  <2>1. PageLimit \in Nat /\ PageLimit # 0
    BY Constants
  <2>2. F = First(kind, rows, PageLimit) /\ rows \subseteq Rows(kind)
    BY <1>0, <1>6
  <2> QED BY <1>1, <2>1, <2>2, FirstIs
<1>9. F \cap got = {}
  <2>1. F \in SUBSET Nat
    BY <1>7, <1>8
  <2>2. \A x \in F : c = 0 \/ Before(kind, c, x)
    BY <1>6, <1>7, <1>8
  <2> QED BY <1>3, <1>5, <2>1, <2>2, PageIsNew
<1>10. PICK d : d = CHOOSE x \in F : \A y \in F \ {x} : Precedes(kind, y, x)
  OBVIOUS
<1>11. rows # F => d \in F /\ \A y \in F : y = d \/ Before(kind, y, d)
  <2>1. SUFFICES ASSUME rows # F PROVE d \in F /\ \A y \in F : y = d \/ Before(kind, y, d)
    OBVIOUS
  <2>2. F # {}
    BY <1>8, <2>1
  <2>3. PICK n \in Nat : Rows(kind) = 1 .. n
    BY <1>1, ListedInOrder
  <2>4. F \subseteq 1 .. n
    BY <1>6, <1>8, <2>3
  <2>5. PICK x \in F : \A y \in F : y = x \/ Before(kind, y, x)
    BY <2>2, <2>3, <2>4, ListEnds
  <2>6. \A y \in F \ {x} : Precedes(kind, y, x)
    BY <1>6, <1>7, <1>8, <2>5
  <2>7. d \in F /\ \A y \in F \ {d} : Precedes(kind, y, d)
    BY <1>10, <2>5, <2>6
  <2>8. \A y \in F : y = d \/ Before(kind, y, d)
    BY <1>6, <1>7, <1>8, <2>7
  <2> QED BY <2>7, <2>8
<1>12. PICK at, cursor : at = (IF rows # F THEN kind ELSE "listed") /\ cursor = (IF rows # F THEN d ELSE c)
  OBVIOUS
<1>13. at \in Places /\ cursor \in Nat
  BY <1>3, <1>6, <1>7, <1>8, <1>11, <1>12 DEF Places
<1>14. PICK r : r = [AfterPage(p, rows) EXCEPT !.stay = @ \cap L]
  OBVIOUS
<1>15. r = [req[p] EXCEPT !.got = got \cup F, !.twice = FALSE, !.at = at, !.cursor = cursor, !.stay = stay \cap L]
  <2>1. AfterPage(p, rows) = [req[p] EXCEPT !.got = got \cup F, !.twice = @ \/ F \cap got # {}, !.at = at,
                                            !.cursor = cursor]
    BY <1>0, <1>2, <1>4, <1>10, <1>12 DEF AfterPage, Request
  <2>2. (req[p].twice \/ F \cap got # {}) = FALSE
    BY <1>5, <1>9
  <2> QED BY <1>2, <1>4, <1>14, <2>1, <2>2 DEF Request
<1>16. /\ r \in Request /\ r.got = got \cup F /\ r.twice = FALSE /\ r.at = at /\ r.cursor = cursor /\ r.stay = stay \cap L
       /\ r.on = req[p].on /\ r.then = req[p].then /\ r.held = {} /\ r.keys = {} /\ r.who = req[p].who
  <2>1. got \cup F \in SUBSET Nat /\ stay \cap L \in SUBSET Nat
    BY <1>5, <1>6, <1>7, <1>8
  <2> QED BY <1>2, <1>3, <1>13, <1>15, <2>1 DEF Request
<1>17. at = kind \/ at = "listed"
  BY <1>12
<1>18. KnowsOn(r) /\ KnowsLocks(r) /\ KnowsRow(r) /\ KnowsInvite(r) /\ KnowsAdmins(r) /\ KnowsTail(r) /\ KnowsWho(r)
  BY <1>1, <1>2, <1>3, <1>16, <1>17 DEF KnowsOn, KnowsLocks, KnowsRow, KnowsInvite, KnowsAdmins, KnowsTail, KnowsWho,
                                  Lands, Landing, SsoPlaces, Kinds
<1>19. KnowsWalk(r)
  <2>1. \A x \in stay \cap L : x \in got \/ x \in rows
    BY <1>5, <1>6
  <2>2. CASE rows = F
    <3>1. r.at = "listed" /\ "listed" \notin Kinds
      BY <1>12, <1>16, <2>2 DEF Kinds
    <3>2. r.stay \subseteq r.got
      BY <1>16, <2>1, <2>2
    <3> QED BY <1>16, <3>1, <3>2 DEF KnowsWalk
  <2>3. CASE rows # F
    <3>1. r.at = kind /\ r.cursor = d /\ d \in F /\ d \in Rows(kind) /\ d # 0
      BY <1>6, <1>7, <1>8, <1>11, <1>12, <1>16, <2>3
    <3>2. /\ \A x \in got \cup F : x = d \/ Before(kind, x, d)
          /\ \A x \in stay \cap L : x \in got \cup F \/ Before(kind, d, x)
      <4>1. rows \in SUBSET Nat /\ F \in SUBSET rows /\ stay \cap L \in SUBSET Nat
        BY <1>5, <1>6, <1>7, <1>8
      <4>2. \A x \in rows : c = 0 \/ Before(kind, c, x)
        BY <1>6, <1>7
      <4>3. PICK T : T = stay \cap L
        OBVIOUS
      <4>4. T \in SUBSET Nat /\ \A x \in T : x \in got \/ x \in rows
        BY <2>1, <4>1, <4>3
      <4>5. d \in F /\ \A y \in F : y = d \/ Before(kind, y, d)
        BY <1>11, <2>3
      <4>6. (c = 0 => got = {}) /\ \A x \in got : x = c \/ Before(kind, x, c)
        BY <1>5
      <4>7. \A x \in F, y \in rows : Before(kind, y, x) => y \in F
        BY <1>8
      <4>8. WalkedTo(kind, d, got \cup F, T)
        BY <1>3, <1>5, <4>1, <4>2, <4>4, <4>5, <4>6, <4>7, WalkGoesOn
      <4> QED BY <4>3, <4>8 DEF WalkedTo
    <3>3. \A x \in r.stay : x \in Rows(r.at) /\ (x \in r.got \/ r.cursor = 0 \/ Before(r.at, r.cursor, x))
      BY <1>5, <1>16, <3>1, <3>2
    <3>4. \A x \in r.got : x = r.cursor \/ Before(r.at, x, r.cursor)
      BY <1>16, <3>1, <3>2
    <3>5. r.at # "listed"
      BY <1>3, <3>1
    <3> QED BY <1>16, <3>1, <3>3, <3>4, <3>5 DEF KnowsWalk
  <2> QED BY <2>2, <2>3
<1>20. Knows(r)
  BY <1>18, <1>19 DEF Knows
<1>21. alarm' = alarm
  <2>1. kind = "audit" => VerifyRange(First(kind, rows, PageLimit + 1))
    <3>1. SUFFICES ASSUME kind = "audit" PROVE VerifyRange(First("audit", rows, PageLimit + 1))
      OBVIOUS
    <3>2. rows = {x \in DOMAIN audit : c = 0 \/ x < c}
      BY <1>6, <3>1
    <3> QED BY <1>3, <3>2, PageVerifies
  <2>2. alarm = FALSE \/ alarm' = alarm
    BY DEF IInv, Facts, NoFalseAlarm
  <2> QED BY <1>1, <2>1, <2>2 DEF IInv, Facts, NoFalseAlarm
<1>22. req' = [req EXCEPT ![p] = r] /\ UNCHANGED <<storeVars, ghostVars>>
  BY <1>1, <1>14, <1>21 DEF Go, ghostVars
<1> QED BY <1>0, <1>3, <1>16, <1>20, <1>22, HoldsNothing, PlainKeeps

-------------------------------------------------------------------------------
(* The invariant.                                                          *)

\* A sequence as long as another one, of the same value.
LEMMA Constantly ==
  ASSUME NEW S, NEW R, NEW s \in Seq(R), NEW x \in S, NEW t, t = [i \in DOMAIN s |-> x]
  PROVE  t \in Seq(S) /\ Len(t) = Len(s) /\ DOMAIN t = DOMAIN s /\ \A i \in DOMAIN s : t[i] = x
<1>1. Len(s) \in Nat /\ DOMAIN s = 1 .. Len(s)
  BY LenProperties
<1>2. t = [i \in 1 .. Len(s) |-> x]
  BY <1>1
<1>3. t \in Seq(S)
  BY <1>1, <1>2
<1>4. Len(t) = Len(s) /\ DOMAIN t = DOMAIN s /\ \A i \in DOMAIN s : t[i] = x
  BY <1>1, <1>2, <1>3
<1> QED BY <1>3, <1>4

\* It holds at first.
LEMMA InitIInv == ASSUME Init PROVE IInv
<1>1. PICK w \in Workloads, who \in Persons :
        /\ users = IF w.start = "empty" THEN <<>>
                   ELSE << [Blank EXCEPT !.name = 1, !.admin = TRUE, !.password = "own"],
                           [Blank EXCEPT !.name = 2, !.admin = TRUE, !.password = "own"],
                           [Blank EXCEPT !.name = 3, !.email = who, !.external = who, !.scim = who] >>
        /\ identities = [a \in DOMAIN users |-> Nobody]
        /\ invites = IF w.start = "empty" THEN <<>> ELSE <<"open">>
        /\ linkRequests = {} /\ signedIn = {} /\ audit = <<>>
        /\ req = [r \in Requests |-> New]
        /\ owed = {} /\ lost = {} /\ cameBy = [a \in DOMAIN users |-> ByNone] /\ alarm = FALSE
  BY DEF Init
<1>2. /\ users \in Seq(Store!Row) /\ (users # <<>> => 1 \in DOMAIN users /\ users[1].admin /\ users[1].active)
      /\ (invites # <<>> => users # <<>>) /\ invites \in Seq(Store!InviteStates) /\ \A i \in DOMAIN invites : invites[i] = "open"
  <2>1. CASE w.start = "empty"
    <3>1. users = <<>> /\ invites = <<>>
      BY <1>1, <2>1
    <3>2. users \in Seq(Store!Row) /\ invites \in Seq(Store!InviteStates)
      BY <3>1, EmptySeq
    <3> QED BY <3>1, <3>2
  <2>2. CASE w.start # "empty"
    <3>1. PICK a, b, c : /\ a = [Blank EXCEPT !.name = 1, !.admin = TRUE, !.password = "own"]
                         /\ b = [Blank EXCEPT !.name = 2, !.admin = TRUE, !.password = "own"]
                         /\ c = [Blank EXCEPT !.name = 3, !.email = who, !.external = who, !.scim = who]
      OBVIOUS
    <3>2. users = <<a, b, c>> /\ invites = <<"open">>
      BY <1>1, <2>2, <3>1
    <3>3. {1, 2, 3} \subseteq Usernames
      BY Constants
    <3>4. a \in Store!Row /\ b \in Store!Row /\ c \in Store!Row
      BY <3>1, <3>3, BlankOK DEF Store!Row, Store!Maybe
    <3>5. a.admin = TRUE /\ a.active = TRUE
      BY <3>1, BlankOK DEF Store!Row
    <3>6. users \in Seq(Store!Row) /\ 1 \in DOMAIN users /\ users[1] = a
      BY <3>2, <3>4
    <3>7. users # <<>>
      BY <3>6
    <3>8. invites \in Seq(Store!InviteStates) /\ \A i \in DOMAIN invites : invites[i] = "open"
      BY <3>2 DEF Store!InviteStates
    <3> QED BY <3>5, <3>6, <3>7, <3>8
  <2> QED BY <2>1, <2>2
<1>3. /\ identities \in Seq(Store!Maybe) /\ Len(identities) = Len(users) /\ DOMAIN identities = DOMAIN users
      /\ \A a \in DOMAIN users : identities[a] = Nobody
  <2>1. Nobody \in Store!Maybe
    BY DEF Store!Maybe
  <2>2. users \in Seq(Store!Row) /\ identities = [a \in DOMAIN users |-> Nobody]
    BY <1>1, <1>2
  <2> QED BY <2>1, <2>2, Constantly
<1>4. /\ cameBy \in Seq(Came) /\ Len(cameBy) = Len(users) /\ \A a \in DOMAIN users : cameBy[a] = ByNone
  <2>1. ByNone \in Came
    BY DEF ByNone, Came
  <2>2. users \in Seq(Store!Row) /\ cameBy = [a \in DOMAIN users |-> ByNone]
    BY <1>1, <1>2
  <2> QED BY <2>1, <2>2, Constantly
<1>5. Tables
  <2>1. audit \in Seq(AuditRow)
    BY <1>1, EmptySeq
  <2> QED BY <1>1, <1>2, <1>3, <1>4, <2>1 DEF Tables
<1>6. Facts
  <2>1. AdminRemains /\ InvitesComeLater
    BY <1>2 DEF AdminRemains, InvitesComeLater, Store!Admins
  <2>2. OneIdentityEach
    BY <1>3 DEF OneIdentityEach
  <2>3. Invited
    <3>1. ByNone.invite = 0
      BY DEF ByNone
    <3> QED BY <1>2, <1>4, <3>1 DEF Invited
  <2>4. DOMAIN audit = {}
    BY <1>1
  <2>5. ChainDoesNotFork /\ Times /\ NoFalseAlarm
    BY <1>1, <2>4 DEF ChainDoesNotFork, Times, NoFalseAlarm
  <2> QED BY <2>1, <2>2, <2>3, <2>5 DEF Facts
<1>7. req \in [Requests -> Request] /\ \A p \in Requests : req[p] = New
  BY <1>1, NewOK
<1>8. Audited
  BY <1>1 DEF Audited
<1>9. \A p \in Requests : Knows(req[p])
  BY <1>7, KnowsNothing
<1>10. \A p, q \in Requests : Apart(req[p], req[q])
  BY <1>7, NewOK, HoldsNothing
<1> QED BY <1>5, <1>6, <1>7, <1>8, <1>9, <1>10 DEF IInv

\* No step breaks it.
LEMMA NextKeeps == ASSUME IInv, [Next]_vars PROVE IInv'
<1>1. CASE UNCHANGED vars
  <2>1. UNCHANGED <<users, identities, linkRequests, signedIn, invites, audit, req, owed, lost, cameBy, unlinked, alarm>>
    BY <1>1 DEF vars, storeVars, ghostVars
  <2>2. Tables' /\ Facts' /\ Audited' /\ req' \in [Requests -> Request]
    BY <2>1, FactsStay DEF IInv, Tables, Audited, Pending, InLog, Shared
  <2>3. ASSUME NEW q \in Requests PROVE Knows(req[q])'
    <3>1. PICK s : s = req[q]
      OBVIOUS
    <3>2. Knows(s)'
      BY <2>1, <3>1, KnowsStays DEF IInv
    <3> QED BY <2>1, <3>1, <3>2
  <2>4. \A p, q \in Requests : p # q => Apart(req[p], req[q])'
    BY <2>1 DEF IInv, Apart
  <2> QED BY <2>2, <2>3, <2>4 DEF IInv
<1>2. CASE Expire
  BY <1>2, ExpireKeeps
<1>3. ASSUME NEW p \in Requests, AuditNext(p) PROVE IInv'
  BY <1>3, LockChainKeeps, AppendAuditEntryKeeps, AppendFailsKeeps, AnswerLostKeeps DEF AuditNext
<1>4. ASSUME NEW p \in Requests, PeopleNext(p) PROVE IInv'
  <2>1. CASE EnsureAdmin(p) \/ AdminCreateUser(p) \/ createUser(p) \/ CreateUser(p)
    BY <2>1, EnsureAdminKeeps, AdminCreateUserKeeps, createUserKeeps, CreateUserKeeps
  <2>2. CASE CreateInvite(p) \/ RevokeInvite(p) \/ MarkRevoked(p) \/ RedeemInvite(p)
    BY <2>2, CreateInviteKeeps, RevokeInviteKeeps, MarkRevokedKeeps, RedeemInviteKeeps
  <2>3. CASE MatchInvite(p) \/ LockInvite(p) \/ InsertInvited(p) \/ AcceptInvite(p)
    BY <2>3, MatchInviteKeeps, LockInviteKeeps, InsertInvitedKeeps, AcceptInviteKeeps
  <2>4. CASE UpdateUserAdmin(p) \/ LockAdmins(p) \/ CountAdmins(p) \/ CommitUpdate(p)
    BY <2>4, UpdateUserAdminKeeps, LockAdminsKeeps, CountAdminsKeeps, CommitUpdateKeeps
  <2>5. CASE ForcePasswordReset(p) \/ SetTemporaryPassword(p) \/ commit(p) \/ deleteUser(p) \/ ReplaceScimUser(p)
    BY <2>5, ForcePasswordResetKeeps, SetTemporaryPasswordKeeps, commitKeeps, deleteUserKeeps, ReplaceScimUserKeeps
  <2>6. CASE List(p) \/ Page(p)
    BY <2>6, ListKeeps, PageKeeps
  <2> QED BY <1>4, <2>1, <2>2, <2>3, <2>4, <2>5, <2>6 DEF PeopleNext
<1>5. ASSUME NEW p \in Requests, SsoNext(p) PROVE IInv'
  <2>1. CASE LinkOidcIdentity(p) \/ CompleteOidcSignIn(p) \/ ConsumeOidcLinkRequest(p) \/ InsertIdentity(p)
    BY <2>1, LinkOidcIdentityKeeps, CompleteOidcSignInKeeps, ConsumeOidcLinkRequestKeeps, InsertIdentityKeeps
  <2>2. CASE completeOidcLogin(p) \/ adoptOrRefuse(p) \/ provisionIdentity(p) \/ InsertSsoUser(p)
    BY <2>2, completeOidcLoginKeeps, adoptOrRefuseKeeps, provisionIdentityKeeps, InsertSsoUserKeeps
  <2>3. CASE CreateOidcUser(p) \/ JoinWinner(p) \/ CreateSession(p) \/ UnlinkOidcIdentity(p) \/ DeleteIdentity(p)
    BY <2>3, CreateOidcUserKeeps, JoinWinnerKeeps, CreateSessionKeeps, UnlinkOidcIdentityKeeps, DeleteIdentityKeeps
  <2> QED BY <1>5, <2>1, <2>2, <2>3 DEF SsoNext
<1> QED BY <1>1, <1>2, <1>3, <1>4, <1>5 DEF Next

\* The inductive invariant holds throughout: the tables are well formed, what a
\* request holds is its own, and what it read under its locks is still true.
THEOREM Invariant == Spec => []IInv
<1>1. Init => IInv
  BY InitIInv
<1>2. IInv /\ [Next]_vars => IInv'
  BY NextKeeps
<1> QED BY <1>1, <1>2, PTL DEF Spec

-------------------------------------------------------------------------------
(* What follows from it.                                                   *)

\* Where there are accounts, one of them is an active administrator, whatever
\* requests of administrators and of the directory overlap (UpdateUserAdmin and
\* deleteUser count under the lock of the set of administrators), and the tables
\* have their types.
THEOREM AdministrationRemainsAlways == Spec => []AdministrationRemains
<1>1. ASSUME IInv PROVE AdministrationRemains
  <2>1. \A a \in DOMAIN users : users[a] \in Store!Row
    BY <1>1, ElementOfSeq DEF IInv, Tables
  <2>2. identities \in [DOMAIN users -> Store!Maybe]
    <3>1. identities \in Seq(Store!Maybe) /\ Len(identities) = Len(users) /\ users \in Seq(Store!Row)
      BY <1>1 DEF IInv, Tables
    <3>2. DOMAIN identities = DOMAIN users
      BY <3>1, LenProperties
    <3>3. identities \in [1 .. Len(identities) -> Store!Maybe]
      BY <3>1, LenProperties
    <3> QED BY <3>2, <3>3
  <2>3. \A i \in DOMAIN invites : invites[i] \in Store!InviteStates
    BY <1>1, ElementOfSeq DEF IInv, Tables
  <2>4. ASSUME NEW p \in Requests PROVE DOMAIN req[p] = DOMAIN New /\ req[p].row \in Store!Row
    <3>1. req[p] \in Request
      BY <1>1 DEF IInv
    <3> QED BY <3>1, NewOK DEF Request
  <2>5. TypeOK
    BY <1>1, <2>1, <2>2, <2>3, <2>4 DEF TypeOK, IInv, Tables
  <2> QED BY <1>1, <2>5 DEF AdministrationRemains, IInv, Facts
<1> QED BY <1>1, Invariant, PTL

\* An invitation makes one account at most, one that was revoked makes none
\* (AcceptInvite under the lock of its row), and the sign-ins of a person who is
\* not unlinked end at one account (CreateOidcUser, JoinWinner).
THEOREM OneAccountEachAlways == Spec => []OneAccountEach
<1>1. ASSUME IInv PROVE OneAccountEach
  <2>1. Invited /\ OneIdentityEach
    BY <1>1 DEF IInv, Facts
  <2>2. DOMAIN users \subseteq Nat \ {0} /\ DOMAIN invites \subseteq Nat \ {0}
    BY <1>1, Numbered
  <2>3. ASSUME NEW i \in DOMAIN invites
        PROVE  Cardinality({a \in DOMAIN users : cameBy[a].invite = i}) = (IF invites[i] = "accepted" THEN 1 ELSE 0)
    <3>1. CASE invites[i] = "accepted"
      <4>1. PICK a \in DOMAIN users : cameBy[a].invite = i
        BY <2>1, <3>1 DEF Invited
      <4>2. {b \in DOMAIN users : cameBy[b].invite = i} = {a}
        BY <2>1, <2>2, <4>1 DEF Invited
      <4> QED BY <3>1, <4>2, FS_Singleton
    <3>2. CASE invites[i] # "accepted"
      <4>1. {b \in DOMAIN users : cameBy[b].invite = i} = {}
        BY <2>1, <2>2, <3>2 DEF Invited
      <4> QED BY <3>2, <4>1, FS_EmptySet
    <3> QED BY <3>1, <3>2
  <2>4. ASSUME NEW a \in DOMAIN users PROVE cameBy[a].was \in {"open", "late"}
    <3>1. users \in Seq(Store!Row) /\ cameBy \in Seq(Came) /\ Len(cameBy) = Len(users)
      BY <1>1 DEF IInv, Tables
    <3>2. a \in DOMAIN cameBy
      BY <3>1, LenProperties
    <3>3. cameBy[a] \in Came
      BY <3>1, <3>2, ElementOfSeq
    <3> QED BY <3>3 DEF Came
  <2>5. OneAccountPerInvite
    BY <2>3, <2>4 DEF OneAccountPerInvite
  <2>6. ASSUME NEW p \in Requests, NEW q \in Requests, req[p].at = "signed in", req[q].at = "signed in",
               req[p].who = req[q].who, req[p].who \notin unlinked
        PROVE  req[p].on = req[q].on
    <3>1. KnowsWho(req[p]) /\ KnowsWho(req[q]) /\ KnowsOn(req[p])
      BY <1>1 DEF IInv, Knows
    <3>2. /\ req[p].on \in DOMAIN users /\ identities[req[p].on] = req[p].who
          /\ req[q].on \in DOMAIN users /\ identities[req[q].on] = req[q].who
      BY <2>6, <3>1 DEF KnowsWho, Lands, Landing
    <3>3. req[p].who # Nobody
      BY <2>6, <3>1, Constants DEF KnowsOn, SsoPlaces
    <3> QED BY <2>1, <2>6, <3>2, <3>3 DEF OneIdentityEach
  <2> QED BY <2>5, <2>6 DEF OneAccountEach, SameAccount
<1> QED BY <1>1, Invariant, PTL

\* The audit log is one chain, each entry naming the one before it
\* (AppendAuditEntry under the lock of the chain), and when no request is under
\* way it holds every change whose append did not fail and whose answer was not
\* lost, but for the accounts that administrators made.
THEOREM AuditIsWholeAlways == Spec => []AuditIsWhole
<1>1. ASSUME IInv PROVE AuditIsWhole
  <2>1. ChainDoesNotFork
    BY <1>1 DEF IInv, Facts
  <2>2. ASSUME AllOver, NEW e \in owed \ lost
        PROVE  e \in Told \cup {<<r, "user.created">> : r \in Requests}
    <3>0. e \in Requests \X Changes
      BY <1>1, <2>2 DEF IInv, Tables
    <3>1. PICK p \in Requests, what \in Changes : e = <<p, what>>
      BY <3>0
    <3>2. CASE what = "user.created"
      BY <3>1, <3>2
    <3>3. CASE what \in Entries
      <4>1. ~Pending(req[p], what)
        BY <2>2 DEF AllOver, Pending
      <4>2. InLog(p, what)
        BY <1>1, <2>2, <3>1, <3>3, <4>1 DEF IInv, Audited
      <4> QED BY <3>1, <4>2 DEF InLog, Told
    <3> QED BY <3>2, <3>3 DEF Changes
  <2> QED BY <2>1, <2>2 DEF AuditIsWhole, ChangesAreAudited
<1> QED BY <1>1, Invariant, PTL

\* A walk through accounts, invitations or the audit log lists what was there
\* throughout, once, and no page of the log is reported as broken: pages are
\* sorted by time and the chain by seq, and Stamp keeps the two in step.
THEOREM PagesAreTrueAlways == Spec => []PagesAreTrue
<1>1. ASSUME IInv PROVE PagesAreTrue
  <2>1. NoFalseAlarm
    BY <1>1 DEF IInv, Facts
  <2>2. ASSUME NEW p \in Requests, req[p].at = "listed" PROVE req[p].stay \subseteq req[p].got /\ ~req[p].twice
    BY <1>1, <2>2 DEF IInv, Knows, KnowsWalk
  <2> QED BY <2>1, <2>2 DEF PagesAreTrue, WalkIsComplete
<1> QED BY <1>1, Invariant, PTL

-------------------------------------------------------------------------------
(* The single steps of AccountStore.                                       *)

StoreStep == Store!Operation \/ UNCHANGED storeVars

\* A new account is the last one.
LEMMA LastIs ==
  ASSUME NEW S, NEW s \in Seq(S), NEW x \in S, NEW t, t = Append(s, x)
  PROVE  Len(t) = Len(s) + 1 /\ Store!Last(t) = x
<1>1. Len(t) = Len(s) + 1 /\ t[Len(s) + 1] = x
  BY Longer
<1> QED BY <1>1 DEF Store!Last

\* An account that is made is one operation, with the invitation it came by and
\* the identity it has.
LEMMA NewAccountRefines ==
  ASSUME IInv, NEW p \in Requests, CreateUser(p) \/ CreateOidcUser(p) \/ AcceptInvite(p)
  PROVE  StoreStep
<1>1. req[p] \in Request /\ KnowsRow(req[p]) /\ KnowsInvite(req[p]) /\ KnowsOn(req[p])
  BY AtHand DEF Knows
<1>2. PICK row, who, i : row = req[p].row /\ who = req[p].who /\ i = req[p].on
  OBVIOUS
<1>3. /\ row \in Store!Row /\ who \in Store!Maybe /\ Nobody \in Store!Maybe /\ users \in Seq(Store!Row)
      /\ identities \in Seq(Store!Maybe) /\ DOMAIN identities = DOMAIN users
  BY <1>1, <1>2, LenProperties DEF Request, IInv, Tables, Store!Maybe
<1>4. ASSUME users' = Append(users, row) PROVE Len(users') = Len(users) + 1 /\ Store!Last(users') = row
  BY <1>3, <1>4, LastIs
<1>5. ASSUME identities' = Append(identities, who) PROVE Store!Last(identities') = who
  BY <1>3, <1>5, LastIs
<1>6. CASE CreateUser(p)
  <2>1. UNCHANGED <<linkRequests, signedIn, invites, audit>>
    BY <1>6 DEF CreateUser
  <2>2. CASE UNCHANGED <<users, identities>>
    BY <2>1, <2>2 DEF StoreStep, storeVars
  <2>3. CASE ~Store!Taken(row) /\ addUser(row, Nobody, ByNone)
    <3>1. Store!CreateUser(row)
      BY <2>1, <2>3 DEF Store!CreateUser, Store!addUser, addUser
    <3>2. users' = Append(users, row)
      BY <2>3 DEF addUser
    <3> QED BY <1>4, <3>1, <3>2 DEF StoreStep, Store!Operation
  <2> QED BY <1>2, <1>6, <2>2, <2>3 DEF CreateUser
<1>7. CASE CreateOidcUser(p)
  <2>1. req[p].at = "insert identity" /\ UNCHANGED <<linkRequests, signedIn, invites, audit>>
    BY <1>7 DEF CreateOidcUser
  <2>2. CASE UNCHANGED <<users, identities>>
    BY <2>1, <2>2 DEF StoreStep, storeVars
  <2>3. CASE Linked(who) = {} /\ addUser(row, who, ByNone)
    <3>1. ~Store!Taken(row) /\ \A a \in DOMAIN identities : identities[a] # who
      BY <1>1, <1>2, <1>3, <2>1, <2>3 DEF KnowsRow, Linked
    <3>2. Store!CreateOidcUser(row, who)
      BY <2>1, <2>3, <3>1 DEF Store!CreateOidcUser, Store!addUser, addUser
    <3>3. users' = Append(users, row) /\ identities' = Append(identities, who)
      BY <2>3 DEF addUser
    <3> QED BY <1>4, <1>5, <3>2, <3>3 DEF StoreStep, Store!Operation
  <2> QED BY <1>2, <1>7, <2>2, <2>3 DEF CreateOidcUser
<1>8. CASE AcceptInvite(p)
  <2>1. /\ req[p].at = "accept" /\ addUser(row, Nobody, [invite |-> i, was |-> invites[i]])
        /\ invites' = [invites EXCEPT ![i] = "accepted"] /\ UNCHANGED <<linkRequests, signedIn, audit>>
    BY <1>2, <1>8 DEF AcceptInvite
  <2>2. i \in DOMAIN invites /\ invites[i] \in {"open", "late"} /\ ~Store!Taken(row)
    BY <1>1, <1>2, <2>1 DEF KnowsOn, KnowsInvite, KnowsRow
  <2>3. Store!RedeemInvite(row, i)
    BY <2>1, <2>2 DEF Store!RedeemInvite, Store!addUser, addUser
  <2>4. users' = Append(users, row)
    BY <2>1 DEF addUser
  <2> QED BY <1>4, <2>2, <2>3, <2>4 DEF StoreStep, Store!Operation
<1> QED BY <1>6, <1>7, <1>8

\* So is what becomes of an invitation.
LEMMA InviteRefines ==
  ASSUME IInv, Expire \/ \E p \in Requests : CreateInvite(p) \/ MarkRevoked(p)
  PROVE  StoreStep
<1>1. CASE Expire
  <2>1. PICK i \in DOMAIN invites : /\ invites[i] = "open" /\ invites' = [invites EXCEPT ![i] = "late"]
                                    /\ UNCHANGED <<users, identities, linkRequests, signedIn, audit>>
    BY <1>1 DEF Expire
  <2>2. Store!Expire(i)
    BY <2>1 DEF Store!Expire
  <2> QED BY <2>2 DEF StoreStep, Store!Operation
<1>2. ASSUME NEW p \in Requests, CreateInvite(p) PROVE StoreStep
  <2>1. Store!CreateInvite
    BY <1>2 DEF CreateInvite, Store!CreateInvite
  <2> QED BY <2>1 DEF StoreStep, Store!Operation
<1>3. ASSUME NEW p \in Requests, MarkRevoked(p) PROVE StoreStep
  <2>0. PICK i : i = req[p].on
    OBVIOUS
  <2>1. /\ req[p].at = "revoke" /\ UNCHANGED <<users, identities, linkRequests, signedIn, audit>>
        /\ invites' = [invites EXCEPT ![i] = IF invites[i] \in {"open", "late"} THEN "revoked" ELSE invites[i]]
    BY <1>3, <2>0 DEF MarkRevoked
  <2>2. i \in DOMAIN invites
    BY <2>0, <2>1, AtHand DEF Knows, KnowsOn
  <2>3. CASE invites[i] \in {"open", "late"}
    <3>1. Store!RevokeInvite(i)
      BY <2>1, <2>3 DEF Store!RevokeInvite
    <3> QED BY <2>2, <3>1 DEF StoreStep, Store!Operation
  <2>4. CASE invites[i] \notin {"open", "late"}
    <3>1. invites' = [invites EXCEPT ![i] = invites[i]]
      BY <2>1, <2>4
    <3>2. invites' = invites
      BY <3>1 DEF IInv, Tables
    <3> QED BY <2>1, <3>2 DEF StoreStep, storeVars
  <2> QED BY <2>3, <2>4
<1> QED BY <1>1, <1>2, <1>3

\* So is an update of the flags, although it took three statements.
LEMMA UpdateRefines ==
  ASSUME IInv, NEW p \in Requests, CommitUpdate(p)
  PROVE  StoreStep
<1>0. PICK a, want, admin, active : /\ a = req[p].on /\ want = req[p].want /\ admin = Wanted(want.admin, users[a].admin)
                                    /\ active = Wanted(want.active, users[a].active)
  OBVIOUS
<1>1. /\ req[p].at = "commit"
      /\ users' = [users EXCEPT ![a].admin = Wanted(want.admin, @), ![a].active = active]
      /\ signedIn' = (IF active THEN signedIn ELSE signedIn \ {a})
      /\ UNCHANGED <<identities, linkRequests, invites, audit>>
  BY <1>0 DEF CommitUpdate
<1>2. /\ a \in DOMAIN users /\ DOMAIN users' = DOMAIN users
      /\ \A b \in DOMAIN users : b # a => users'[b] = users[b]
      /\ users'[a].admin = admin /\ users'[a].active = active
  BY <1>0, Updated
<1>3. users' = [users EXCEPT ![a].admin = admin, ![a].active = active]
  BY <1>0, <1>1, <1>2
<1>4. Store!Admins(users') # {}
  <2>1. PICK b \in DOMAIN users : Leaves(req[p], b)
    BY <1>1, AtHand DEF Knows, KnowsAdmins
  <2>2. users'[b].admin /\ users'[b].active
    BY <1>0, <1>2, <2>1 DEF Leaves
  <2> QED BY <1>2, <2>1, <2>2 DEF Store!Admins
<1>5. Store!UpdateUserAdmin(a, admin, active)
  BY <1>1, <1>3, <1>4 DEF Store!UpdateUserAdmin
<1>6. admin \in BOOLEAN /\ active \in BOOLEAN
  <2>1. users[a] \in Store!Row
    BY <1>2, ElementOfSeq DEF IInv, Tables
  <2> QED BY <1>0, <2>1 DEF Wanted, Store!Row
<1> QED BY <1>2, <1>5, <1>6 DEF StoreStep, Store!Operation

\* So is what else is written to an account.
LEMMA AccountRefines ==
  ASSUME IInv, NEW p \in Requests, SetTemporaryPassword(p) \/ ReplaceScimUser(p)
  PROVE  StoreStep
<1>0. PICK a : a = req[p].on
  OBVIOUS
<1>1. CASE SetTemporaryPassword(p)
  <2>1. /\ req[p].at = "force" /\ users' = [users EXCEPT ![a].password = "temporary"]
        /\ UNCHANGED <<identities, linkRequests, signedIn, invites, audit>>
    BY <1>0, <1>1 DEF SetTemporaryPassword
  <2>2. a \in DOMAIN users
    BY <1>0, <2>1, AtHand DEF Knows, KnowsOn
  <2>3. Store!SetTemporaryPassword(a)
    BY <2>1 DEF Store!SetTemporaryPassword
  <2> QED BY <2>2, <2>3 DEF StoreStep, Store!Operation
<1>2. CASE ReplaceScimUser(p)
  <2>0. PICK row : row = [users[a] EXCEPT !.scim = req[p].row.scim, !.external = req[p].row.external,
                                         !.email = req[p].row.email]
    OBVIOUS
  <2>1. /\ req[p].at = "replace" /\ UNCHANGED <<identities, linkRequests, signedIn, invites, audit>>
        /\ \/ UNCHANGED users
           \/ ~Store!TakenBut(a, row) /\ users' = [users EXCEPT ![a] = row]
    BY <1>0, <1>2, <2>0 DEF ReplaceScimUser
  <2>2. a \in DOMAIN users
    BY <1>0, <2>1, AtHand DEF Knows, KnowsOn
  <2>3. CASE UNCHANGED users
    BY <2>1, <2>3 DEF StoreStep, storeVars
  <2>4. CASE ~Store!TakenBut(a, row) /\ users' = [users EXCEPT ![a] = row]
    <3>1. users[a] \in Store!Row /\ users'[a] = row
      BY <2>2, <2>4, ElementOfSeq DEF IInv, Tables
    <3>2. row = [users[a] EXCEPT !.email = row.email, !.external = row.external, !.scim = row.scim]
      BY <2>0, <3>1 DEF Store!Row
    <3>3. users' = [users EXCEPT ![a].email = row.email, ![a].external = row.external, ![a].scim = row.scim]
      BY <2>2, <2>4, <3>2
    <3>4. Store!ReplaceScimUser(a, users'[a])
      BY <2>1, <2>4, <3>1, <3>3 DEF Store!ReplaceScimUser
    <3> QED BY <2>2, <3>4 DEF StoreStep, Store!Operation
  <2> QED BY <2>1, <2>3, <2>4
<1> QED BY <1>1, <1>2

\* So is what single sign-on writes.
LEMMA SsoRefines ==
  ASSUME IInv, NEW p \in Requests,
         InsertIdentity(p) \/ DeleteIdentity(p) \/ LinkOidcIdentity(p) \/ ConsumeOidcLinkRequest(p) \/ CreateSession(p)
  PROVE  StoreStep
<1>0. PICK a, who : a = req[p].on /\ who = req[p].who
  OBVIOUS
<1>1. KnowsOn(req[p]) /\ KnowsWho(req[p])
  BY AtHand DEF Knows
<1>2. DOMAIN identities = DOMAIN users
  BY LenProperties DEF IInv, Tables
<1>3. CASE InsertIdentity(p)
  <2>1. /\ req[p].at \in {"link", "adopt"} /\ UNCHANGED <<users, linkRequests, signedIn, invites, audit>>
        /\ \/ UNCHANGED identities
           \/ identities[a] = Nobody /\ Linked(who) = {} /\ identities' = [identities EXCEPT ![a] = who]
    BY <1>0, <1>3 DEF InsertIdentity
  <2>2. a \in DOMAIN users /\ who \in Persons
    BY <1>0, <1>1, <2>1 DEF KnowsOn, SsoPlaces
  <2>3. CASE UNCHANGED identities
    BY <2>1, <2>3 DEF StoreStep, storeVars
  <2>4. CASE identities[a] = Nobody /\ Linked(who) = {} /\ identities' = [identities EXCEPT ![a] = who]
    <3>1. \A b \in DOMAIN identities : identities[b] # who
      BY <1>2, <2>4 DEF Linked
    <3>2. Store!LinkOidcIdentity(a, who)
      BY <2>1, <2>4, <3>1 DEF Store!LinkOidcIdentity
    <3> QED BY <2>2, <3>2 DEF StoreStep, Store!Operation
  <2> QED BY <2>1, <2>3, <2>4
<1>4. CASE DeleteIdentity(p)
  <2>1. req[p].at = "unlink" /\ Store!UnlinkOidcIdentity(a)
    BY <1>0, <1>4 DEF DeleteIdentity, Store!UnlinkOidcIdentity
  <2>2. a \in DOMAIN users
    BY <1>0, <1>1, <2>1 DEF KnowsOn
  <2> QED BY <2>1, <2>2 DEF StoreStep, Store!Operation
<1>5. CASE LinkOidcIdentity(p)
  <2>1. PICK b \in DOMAIN users : /\ linkRequests' = linkRequests \cup {<<p, b>>}
                                  /\ UNCHANGED <<users, identities, signedIn, invites, audit>>
    BY <1>5 DEF LinkOidcIdentity
  <2>2. Store!CreateOidcLinkRequest(p, b)
    BY <2>1 DEF Store!CreateOidcLinkRequest
  <2> QED BY <2>1, <2>2 DEF StoreStep, Store!Operation
<1>6. CASE ConsumeOidcLinkRequest(p)
  <2>0. PICK q : q = req[p].state
    OBVIOUS
  <2>1. linkRequests' = linkRequests \ {q} /\ UNCHANGED <<users, identities, signedIn, invites, audit>>
    BY <1>6, <2>0 DEF ConsumeOidcLinkRequest
  <2>2. CASE q \in linkRequests
    <3>1. Store!ConsumeOidcLinkRequest(q)
      BY <2>1 DEF Store!ConsumeOidcLinkRequest
    <3> QED BY <2>2, <3>1 DEF StoreStep, Store!Operation
  <2>3. CASE q \notin linkRequests
    <3>1. linkRequests' = linkRequests
      BY <2>1, <2>3
    <3> QED BY <2>1, <3>1 DEF StoreStep, storeVars
  <2> QED BY <2>2, <2>3
<1>7. CASE CreateSession(p)
  <2>1. req[p].at = "session" /\ Store!CreateSession(a)
    BY <1>0, <1>7 DEF CreateSession, Store!CreateSession
  <2>2. a \in DOMAIN users
    BY <1>0, <1>1, <2>1 DEF KnowsWho, Lands, Landing
  <2> QED BY <2>1, <2>2 DEF StoreStep, Store!Operation
<1> QED BY <1>3, <1>4, <1>5, <1>6, <1>7

\* So is an entry of the log.
LEMMA AuditRefines ==
  ASSUME IInv, NEW p \in Requests, AppendAuditEntry(p)
  PROVE  StoreStep
<1>1. PICK now \in Clocks :
        /\ req[p].at = "seal"
        /\ audit' = Append(audit, [id |-> p, what |-> Head(req[p].todo), prev |-> req[p].tail, at |-> Stamp(now, req[p].tail)])
        /\ UNCHANGED <<users, identities, linkRequests, signedIn, invites>>
  BY DEF AppendAuditEntry
<1>2. PICK what, at, n, e : /\ what = Head(req[p].todo) /\ at = Stamp(now, req[p].tail) /\ n = Len(audit)
                           /\ e = [id |-> p, what |-> what, prev |-> n, at |-> at]
  OBVIOUS
<1>3. req[p].tail = n
  BY <1>1, <1>2, AtHand DEF Knows, KnowsTail
<1>4. audit' = Append(audit, e)
  BY <1>1, <1>2, <1>3
<1>5. audit' # <<>> /\ Store!Last(audit') = e
  <2>1. audit \in Seq(AuditRow)
    BY DEF IInv, Tables
  <2>2. PICK S : S = AuditRow \cup {e}
    OBVIOUS
  <2>3. audit \in Seq(S) /\ e \in S
    BY <2>1, <2>2
  <2>4. audit' # <<>>
    BY <1>4, <2>3, Longer
  <2>5. Store!Last(audit') = e
    BY <1>4, <2>3, LastIs
  <2> QED BY <2>4, <2>5
<1>6. Store!Last(audit').id = p /\ Store!Last(audit').what = what /\ Store!Last(audit').at = at
  BY <1>2, <1>5
<1>7. Store!AppendAuditEntry(p, what, at)
  BY <1>1, <1>2, <1>4 DEF Store!AppendAuditEntry
<1> QED BY <1>5, <1>6, <1>7 DEF StoreStep, Store!Operation

\* Every other step leaves what is stored alone.
LEMMA OtherRefines ==
  ASSUME NEW p \in Requests,
         \/ LockChain(p) \/ AppendFails(p) \/ AnswerLost(p) \/ EnsureAdmin(p) \/ AdminCreateUser(p) \/ createUser(p) \/ RevokeInvite(p)
         \/ RedeemInvite(p) \/ MatchInvite(p) \/ LockInvite(p) \/ InsertInvited(p) \/ UpdateUserAdmin(p) \/ LockAdmins(p)
         \/ CountAdmins(p) \/ ForcePasswordReset(p) \/ commit(p) \/ deleteUser(p) \/ List(p) \/ Page(p)
         \/ CompleteOidcSignIn(p) \/ completeOidcLogin(p) \/ adoptOrRefuse(p) \/ provisionIdentity(p) \/ InsertSsoUser(p)
         \/ JoinWinner(p) \/ UnlinkOidcIdentity(p)
  PROVE  StoreStep
<1>1. CASE LockChain(p) \/ AppendFails(p) \/ AnswerLost(p) \/ EnsureAdmin(p) \/ AdminCreateUser(p) \/ createUser(p) \/ RevokeInvite(p)
  BY <1>1 DEF StoreStep, LockChain, AppendFails, AnswerLost, EnsureAdmin, AdminCreateUser, createUser, RevokeInvite
<1>2. CASE RedeemInvite(p) \/ MatchInvite(p) \/ LockInvite(p) \/ InsertInvited(p) \/ UpdateUserAdmin(p) \/ LockAdmins(p)
  BY <1>2 DEF StoreStep, RedeemInvite, MatchInvite, LockInvite, InsertInvited, UpdateUserAdmin, LockAdmins
<1>3. CASE CountAdmins(p) \/ ForcePasswordReset(p) \/ commit(p) \/ deleteUser(p) \/ List(p) \/ Page(p)
  BY <1>3 DEF StoreStep, CountAdmins, ForcePasswordReset, commit, deleteUser, List, Page
<1>4. CASE CompleteOidcSignIn(p) \/ completeOidcLogin(p) \/ adoptOrRefuse(p) \/ provisionIdentity(p)
  BY <1>4 DEF StoreStep, CompleteOidcSignIn, completeOidcLogin, adoptOrRefuse, provisionIdentity
<1>5. CASE InsertSsoUser(p) \/ JoinWinner(p) \/ UnlinkOidcIdentity(p)
  BY <1>5 DEF StoreStep, InsertSsoUser, JoinWinner, UnlinkOidcIdentity
<1> QED BY <1>1, <1>2, <1>3, <1>4, <1>5

\* The handlers over PostgreSQL do nothing to what is stored that the SQLite
\* store, where an operation is one step, could not do: accounts and their
\* invitations together, no key twice, the last administrator kept.
THEOREM RefinesStoreAlways == Spec => RefinesStore
<1>1. ASSUME Init PROVE Store!Init
  <2>1. IInv
    BY <1>1, InitIInv
  <2>2. linkRequests = {} /\ signedIn = {} /\ audit = <<>>
    BY <1>1 DEF Init
  <2>3. users \in Seq(Store!Row) /\ invites \in Seq(Store!InviteStates) /\ identities \in Seq(Store!Maybe)
        /\ Len(identities) = Len(users)
    BY <2>1 DEF IInv, Tables
  <2>4. identities \in [DOMAIN users -> Store!Maybe]
    <3>1. DOMAIN identities = DOMAIN users
      BY <2>3, LenProperties
    <3>2. identities \in [1 .. Len(identities) -> Store!Maybe]
      BY <2>3, LenProperties
    <3> QED BY <3>1, <3>2
  <2> QED BY <2>2, <2>3, <2>4 DEF Store!Init
<1>2. ASSUME IInv, [Next]_vars PROVE StoreStep
  <2>1. CASE UNCHANGED vars
    BY <2>1 DEF StoreStep, vars
  <2>2. CASE Expire
    BY <1>2, <2>2, InviteRefines
  <2>3. ASSUME NEW p \in Requests, AuditNext(p) \/ PeopleNext(p) \/ SsoNext(p) PROVE StoreStep
    <3>1. CASE CreateUser(p) \/ CreateOidcUser(p) \/ AcceptInvite(p)
      BY <1>2, <3>1, NewAccountRefines
    <3>2. CASE CreateInvite(p) \/ MarkRevoked(p)
      BY <1>2, <3>2, InviteRefines
    <3>3. CASE CommitUpdate(p) \/ SetTemporaryPassword(p) \/ ReplaceScimUser(p)
      BY <1>2, <3>3, UpdateRefines, AccountRefines
    <3>4. CASE InsertIdentity(p) \/ DeleteIdentity(p) \/ LinkOidcIdentity(p) \/ ConsumeOidcLinkRequest(p) \/ CreateSession(p)
      BY <1>2, <3>4, SsoRefines
    <3>5. CASE AppendAuditEntry(p)
      BY <1>2, <3>5, AuditRefines
    <3> QED BY <2>3, <3>1, <3>2, <3>3, <3>4, <3>5, OtherRefines DEF AuditNext, PeopleNext, SsoNext
  <2> QED BY <1>2, <2>1, <2>2, <2>3 DEF Next
<1>3. StoreStep => [Store!Next]_(Store!storeVars)
  BY DEF StoreStep, Store!Next, Store!storeVars, storeVars
<1> QED BY <1>1, <1>2, <1>3, Invariant, PTL DEF Spec, RefinesStore, Store!Spec
===============================================================================
