-------------------------------- MODULE Accounts -------------------------------
(***************************************************************************)
(* Accounts and who administers them: the first administrator, invitations,*)
(* administration, provisioning by a directory (SCIM), single sign-on, and *)
(* the audit log of it all.  The handlers (server/internal/httpserver,     *)
(* scim, bootstrap, audit) over the PostgreSQL store                       *)
(* (server/internal/storage), one step per statement that another request  *)
(* can come between.                                                       *)
(*                                                                         *)
(* An INSERT waits for transactions that have inserted one of its keys.  A *)
(* transaction's writes are made when it commits, in its last step.        *)
(***************************************************************************)
EXTENDS Integers, Sequences, FiniteSets

CONSTANTS Requests, Persons, Nobody, Usernames,  \* see AccountStore
  MaxAttempts,  \* usernames that are tried for a provisioned account
  Clocks,       \* what the servers' clocks can show
  PageLimit,    \* rows of a page
  Workloads     \* bound: what there is at first, and how often each operation is requested

VARIABLES
  users, identities, linkRequests, signedIn, invites, audit,   \* see AccountStore
  req,       \* per request: where it is and what it read
  budget,    \* requests still to come, per operation
  owed,      \* history: the entries that changes should have left in the audit log
  lost,      \* history: entries whose append failed, or was not tried for want of an answer
  cameBy,    \* history: the invitation an account was made with, or 0, and what it was then
  unlinked,  \* history: people whose identity was unlinked
  alarm      \* history: a page of the audit log was reported as broken

Store == INSTANCE AccountStore

Operations == {"Boot", "Invite", "Revoke", "Redeem", "Create", "Update", "Force", "ScimCreate", "ScimWrite",
               "ScimDelete", "Sso", "Link", "Unlink", "List", "Expire"}
Starts == {"empty", "team"}

ASSUME AccountsAssumptions ==
  /\ Nobody \notin Persons /\ Usernames \subseteq Nat
  /\ {0, 1, 2, 3} \cup 0 .. MaxAttempts - 1 \subseteq Usernames
  /\ MaxAttempts \in Nat \ {0} /\ PageLimit \in Nat \ {0} /\ Clocks \subseteq Nat \ {0}
  /\ \A w \in Workloads : w.start \in Starts /\ DOMAIN w.ops = Operations

\* An account that came by no invitation.
ByNone == [invite |-> 0, was |-> "open"]
Blank == [name |-> 0, email |-> Nobody, external |-> Nobody, scim |-> Nobody, admin |-> FALSE, active |-> TRUE, password |-> "none"]

\* on: the account or invitation it is about; row: the account it read or makes;
\* want: what is_admin and is_active are to be, or "keep"; who, mail: the
\* identity and the address the provider vouches for; state: the link request
\* it carries; todo: audit entries to append; then: where it goes after them;
\* tail: the end of the chain it read; keys, held: keys inserted, locks; same:
\* it writes the attributes it read;
\* cursor, got, stay, twice: a walk through a list.
New == [at |-> "new", op |-> "none", on |-> 0, row |-> Blank, want |-> [admin |-> "keep", active |-> "keep"],
        who |-> Nobody, mail |-> Nobody, state |-> <<>>, todo |-> <<>>, then |-> "over", tail |-> 0, keys |-> {},
        held |-> {}, same |-> FALSE, cursor |-> 0, got |-> {}, stay |-> {}, twice |-> FALSE]
Over == [New EXCEPT !.at = "over"]

storeVars == <<users, identities, linkRequests, signedIn, invites, audit>>
ghostVars == <<owed, lost, cameBy, unlinked, alarm>>
vars == <<storeVars, req, budget, ghostVars>>

\* What is stored has its type.
TypeOK ==
  /\ \A a \in DOMAIN users : users[a] \in Store!Row
  /\ identities \in [DOMAIN users -> Store!Maybe] /\ signedIn \subseteq DOMAIN users
  /\ linkRequests \subseteq Requests \X DOMAIN users
  /\ \A i \in DOMAIN invites : invites[i] \in Store!InviteStates
  /\ \A r \in Requests : DOMAIN req[r] = DOMAIN New /\ req[r].row \in Store!Row

\* Nobody yet; or two administrators, an account that the directory made, and
\* an invitation.
Init == \E w \in Workloads, p \in Persons :
  /\ users = IF w.start = "empty" THEN <<>>
             ELSE << [Blank EXCEPT !.name = 1, !.admin = TRUE, !.password = "own"],
                     [Blank EXCEPT !.name = 2, !.admin = TRUE, !.password = "own"],
                     [Blank EXCEPT !.name = 3, !.email = p, !.external = p, !.scim = p] >>
  /\ identities = [a \in DOMAIN users |-> Nobody]
  /\ invites = IF w.start = "empty" THEN <<>> ELSE <<"open">>
  /\ linkRequests = {} /\ signedIn = {} /\ audit = <<>>
  /\ req = [r \in Requests |-> New] /\ budget = w.ops
  /\ owed = {} /\ lost = {} /\ cameBy = [a \in DOMAIN users |-> ByNone] /\ unlinked = {} /\ alarm = FALSE

--------------------------------------------------------------------------------
Begin(r, op, to) ==
  /\ req[r].at = "new"
  /\ budget[op] > 0
  /\ budget' = [budget EXCEPT ![op] = @ - 1]
  /\ req' = [req EXCEPT ![r] = [to EXCEPT !.op = op]]

Go(r, to)  == req' = [req EXCEPT ![r] = to] /\ UNCHANGED budget
Goto(r, a) == Go(r, [req[r] EXCEPT !.at = a])
End(r)     == Go(r, Over)

Free(r, lock) == \A q \in Requests \ {r} : lock \notin req[q].held

\* An INSERT or UPDATE meets a key that another transaction has inserted.
KeyHeld(r, row) == \E q \in Requests \ {r} : Store!Keys(row) \cap req[q].keys # {}
NameTaken(row)  == \E a \in DOMAIN users : users[a].name = row.name

\* What the request says in the audit log, and where it goes then.
Record(r, to, entries, then) ==
  /\ Go(r, [to EXCEPT !.at = "record", !.todo = entries, !.then = then])
  /\ owed' = owed \cup {<<r, entries[i]>> : i \in DOMAIN entries}

\* A principal is an active account whose row was read when the request came.
Administrator == Store!Admins(users)

--------------------------------------------------------------------------------
\* Fault: the chain is not locked.
ReadTail(r) ==
  /\ req[r].at = "record"
  /\ Go(r, [req[r] EXCEPT !.at = "seal", !.tail = Len(audit)])
  /\ UNCHANGED <<storeVars, ghostVars>>

\* The advisory lock of the chain, and its end.
LockChain(r) ==
  /\ req[r].at = "record"
  /\ Free(r, <<"chain", 0>>)
  /\ Go(r, [req[r] EXCEPT !.at = "seal", !.tail = Len(audit), !.held = {<<"chain", 0>>}])
  /\ UNCHANGED <<storeVars, ghostVars>>

AfterEntry(r) == [req[r] EXCEPT !.todo = Tail(@), !.held = {},
                               !.at = IF Len(req[r].todo) > 1 THEN "record" ELSE req[r].then]

\* Fault: an entry has the time of the server's clock.
StampNow(now, tail) == now

\* The log's clock only moves forward.
Stamp(now, tail) == IF tail > 0 /\ audit[tail].at > now THEN audit[tail].at ELSE now

AppendAuditEntry(r) == \E now \in Clocks :
  /\ req[r].at = "seal"
  /\ audit' = Append(audit, [id |-> r, what |-> Head(req[r].todo), prev |-> req[r].tail,
                             at |-> Stamp(now, req[r].tail)])
  /\ Go(r, AfterEntry(r))
  /\ UNCHANGED <<users, identities, linkRequests, signedIn, invites, ghostVars>>

\* The append fails, or waits for the chain or the database too long; that is
\* only logged.
AppendFails(r) ==
  /\ req[r].at \in {"record", "seal"}
  /\ lost' = lost \cup {<<r, Head(req[r].todo)>>}
  /\ Go(r, AfterEntry(r))
  /\ UNCHANGED <<storeVars, owed, cameBy, unlinked, alarm>>

\* The change is committed, the handler sees an error in place of the answer and
\* gives up.
AnswerLost(r) ==
  /\ req[r].at = "record"
  /\ lost' = lost \cup {<<r, req[r].todo[i]>> : i \in DOMAIN req[r].todo}
  /\ End(r)
  /\ UNCHANGED <<storeVars, owed, cameBy, unlinked, alarm>>

--------------------------------------------------------------------------------
\* The first administrator, when there is no account at all.
EnsureAdmin(r) ==
  /\ Len(users) = 0
  /\ Begin(r, "Boot", [New EXCEPT !.at = "insert", !.row = [Blank EXCEPT !.admin = TRUE, !.password = "temporary"]])
  /\ UNCHANGED <<storeVars, ghostVars>>

AdminCreateUser(r) == \E name \in Usernames, mail \in Store!Maybe, admin \in BOOLEAN :
  /\ Administrator # {}
  /\ Begin(r, "Create", [New EXCEPT !.at = "insert",
       !.row = [Blank EXCEPT !.name = name, !.email = mail, !.admin = admin, !.password = "temporary"]])
  /\ UNCHANGED <<storeVars, ghostVars>>

\* The directory has a token, which an administrator made.
createUser(r) == \E user \in Persons, active \in BOOLEAN, external, mail \in Store!Maybe :
  /\ users # <<>>
  /\ Begin(r, "ScimCreate", [New EXCEPT !.at = "insert",
       !.row = [Blank EXCEPT !.scim = user, !.external = external, !.email = mail, !.active = active]])
  /\ UNCHANGED <<storeVars, ghostVars>>

\* The next username is tried, where it is derived and tries are left.
NextName(r) ==
  IF req[r].op \in {"ScimCreate", "Sso"} /\ req[r].row.name + 1 < MaxAttempts
    THEN Go(r, [req[r] EXCEPT !.row.name = @ + 1])
    ELSE End(r)

addUser(row, who, by) ==
  /\ users' = Append(users, row)
  /\ identities' = Append(identities, who)
  /\ cameBy' = Append(cameBy, by)

\* What the directory does is recorded; the administrator's account is not, nor
\* is the first one.
CreateUser(r) ==
  /\ req[r].at = "insert"
  /\ ~KeyHeld(r, req[r].row)
  /\ \/ NameTaken(req[r].row) /\ NextName(r) /\ UNCHANGED <<users, identities, cameBy, owed>>
     \/ /\ ~NameTaken(req[r].row) /\ Store!Taken(req[r].row)
        /\ End(r)
        /\ UNCHANGED <<users, identities, cameBy, owed>>
     \/ /\ ~Store!Taken(req[r].row)
        /\ addUser(req[r].row, Nobody, ByNone)
        /\ IF req[r].op = "ScimCreate"
           THEN Record(r, req[r], <<"scim.user.created">>, "over")
           ELSE End(r) /\ owed' = IF req[r].op = "Create" THEN owed \cup {<<r, "user.created">>} ELSE owed
  /\ UNCHANGED <<linkRequests, signedIn, invites, audit, lost, unlinked, alarm>>

--------------------------------------------------------------------------------
\* Invitations.
CreateInvite(r) ==
  /\ Administrator # {}
  /\ Begin(r, "Invite", [New EXCEPT !.at = "record", !.todo = <<"invite.created">>])
  /\ invites' = Append(invites, "open")
  /\ owed' = owed \cup {<<r, "invite.created">>}
  /\ UNCHANGED <<users, identities, linkRequests, signedIn, audit, lost, cameBy, unlinked, alarm>>

RevokeInvite(r) == \E i \in DOMAIN invites :
  /\ Administrator # {}
  /\ Begin(r, "Revoke", [New EXCEPT !.at = "revoke", !.on = i])
  /\ UNCHANGED <<storeVars, ghostVars>>

\* One that is accepted or revoked is left alone; the answer is the same.
MarkRevoked(r) ==
  /\ req[r].at = "revoke"
  /\ Free(r, <<"invite", req[r].on>>)
  /\ invites' = [invites EXCEPT ![req[r].on] = IF @ \in {"open", "late"} THEN "revoked" ELSE @]
  /\ Record(r, req[r], <<"invite.revoked">>, "over")
  /\ UNCHANGED <<users, identities, linkRequests, signedIn, audit, lost, cameBy, unlinked, alarm>>

\* inviteIsOpen
RedeemInvite(r) == \E i \in DOMAIN invites, name \in Usernames, mail \in Store!Maybe :
  /\ invites[i] = "open"
  /\ Begin(r, "Redeem", [New EXCEPT !.at = "match", !.on = i,
       !.row = [Blank EXCEPT !.name = name, !.email = mail, !.password = "own"]])
  /\ UNCHANGED <<storeVars, ghostVars>>

\* SELECT ... FOR UPDATE finds the invitation in its snapshot ...
MatchInvite(r) ==
  /\ req[r].at = "match"
  /\ IF invites[req[r].on] = "open" THEN Goto(r, "lock invite") ELSE End(r)
  /\ UNCHANGED <<storeVars, ghostVars>>

\* ... waits for its lock, and tests it again; now() does not move.
LockInvite(r) ==
  /\ req[r].at = "lock invite"
  /\ Free(r, <<"invite", req[r].on>>)
  /\ IF invites[req[r].on] \in {"open", "late"}
       THEN Go(r, [req[r] EXCEPT !.at = "insert invited", !.held = {<<"invite", req[r].on>>}])
       ELSE End(r)
  /\ UNCHANGED <<storeVars, ghostVars>>

\* A key that is taken rolls it back: the invitation stays as it was.
InsertInvited(r) ==
  /\ req[r].at = "insert invited"
  /\ ~KeyHeld(r, req[r].row)
  /\ IF Store!Taken(req[r].row) THEN End(r)
     ELSE Go(r, [req[r] EXCEPT !.at = "accept", !.keys = Store!Keys(req[r].row)])
  /\ UNCHANGED <<storeVars, ghostVars>>

AcceptInvite(r) ==
  /\ req[r].at = "accept"
  /\ addUser(req[r].row, Nobody, [invite |-> req[r].on, was |-> invites[req[r].on]])
  /\ invites' = [invites EXCEPT ![req[r].on] = "accepted"]
  /\ Record(r, [New EXCEPT !.op = "Redeem"], <<"invite.redeemed">>, "over")
  /\ UNCHANGED <<linkRequests, signedIn, audit, lost, unlinked, alarm>>

Expire == \E i \in DOMAIN invites :
  /\ budget["Expire"] > 0 /\ budget' = [budget EXCEPT !["Expire"] = @ - 1]
  /\ invites[i] = "open" /\ invites' = [invites EXCEPT ![i] = "late"]
  /\ UNCHANGED <<users, identities, linkRequests, signedIn, audit, req, ghostVars>>

--------------------------------------------------------------------------------
\* Administration.  Nobody deactivates himself.
UpdateUserAdmin(r) ==
  \E by \in Administrator, a \in DOMAIN users, admin, active \in {"keep", "yes", "no"} :
  /\ ~(admin = "keep" /\ active = "keep")
  /\ ~(active = "no" /\ by = a)
  /\ Begin(r, "Update", [New EXCEPT !.at = "lock admins", !.on = a, !.want = [admin |-> admin, active |-> active]])
  /\ UNCHANGED <<storeVars, ghostVars>>

\* Fault: the set of administrators is not locked.
SkipLockAdmins(r) ==
  /\ req[r].at = "lock admins"
  /\ Goto(r, "update")
  /\ UNCHANGED <<storeVars, ghostVars>>

\* pg_advisory_xact_lock(adminSetLockKey)
LockAdmins(r) ==
  /\ req[r].at = "lock admins"
  /\ Free(r, <<"admins", 0>>)
  /\ Go(r, [req[r] EXCEPT !.at = "update", !.held = {<<"admins", 0>>}])
  /\ UNCHANGED <<storeVars, ghostVars>>

Wanted(w, now) == IF w = "keep" THEN now ELSE w = "yes"

\* The account is locked and updated, and the administrators are counted as
\* this transaction sees them.
CountAdmins(r) ==
  LET a == req[r].on
      row == [users[a] EXCEPT !.admin = Wanted(req[r].want.admin, @), !.active = Wanted(req[r].want.active, @)]
  IN
  /\ req[r].at = "update"
  /\ Free(r, <<"account", a>>)
  /\ IF Store!Admins([users EXCEPT ![a] = row]) = {} THEN End(r)
     ELSE Go(r, [req[r] EXCEPT !.at = "commit", !.held = @ \cup {<<"account", a>>}])
  /\ UNCHANGED <<storeVars, ghostVars>>

\* The names of the entries; those of the directory begin with "scim".
Entry == [admin |-> [yes |-> "user.promoted", no |-> "user.demoted"],
          active |-> [yes |-> "user.reactivated", no |-> "user.deactivated"]]
Say(want, f) == IF want[f] = "keep" THEN <<>> ELSE <<Entry[f][want[f]]>>

\* An entry per flag that the request names; the directory names one.
userAdminActions(r) == Say(req[r].want, "admin") \o Say(req[r].want, "active")

Recorded(r, entries) ==
  IF entries = <<>> THEN Go(r, [req[r] EXCEPT !.at = req[r].then, !.held = {}])
  ELSE Go(r, [req[r] EXCEPT !.at = "record", !.todo = entries, !.held = {}])

\* Fault: the sessions of an account outlive its deactivation.
KeepSessions(r) ==
  LET a == req[r].on
      want == req[r].want
  IN
  /\ req[r].at = "commit"
  /\ users' = [users EXCEPT ![a].admin = Wanted(want.admin, @), ![a].active = Wanted(want.active, @)]
  /\ Recorded(r, userAdminActions(r))
  /\ owed' = owed \cup {<<r, Entry[f][want[f]]>> : f \in {g \in DOMAIN want : want[g] # "keep"}}
  /\ UNCHANGED <<identities, linkRequests, signedIn, invites, audit, lost, cameBy, unlinked, alarm>>

\* An account that is inactive now has no session left.
CommitUpdate(r) ==
  LET a == req[r].on
      want == req[r].want
      active == Wanted(want.active, users[a].active)
  IN
  /\ req[r].at = "commit"
  /\ users' = [users EXCEPT ![a].admin = Wanted(want.admin, @), ![a].active = active]
  /\ signedIn' = IF active THEN signedIn ELSE signedIn \ {a}
  /\ Recorded(r, userAdminActions(r))
  /\ owed' = owed \cup {<<r, Entry[f][want[f]]>> : f \in {g \in DOMAIN want : want[g] # "keep"}}
  /\ UNCHANGED <<identities, linkRequests, invites, audit, lost, cameBy, unlinked, alarm>>

ForcePasswordReset(r) == \E a \in DOMAIN users :
  /\ Administrator # {}
  /\ Begin(r, "Force", [New EXCEPT !.at = "force", !.on = a])
  /\ UNCHANGED <<storeVars, ghostVars>>

SetTemporaryPassword(r) ==
  /\ req[r].at = "force"
  /\ Free(r, <<"account", req[r].on>>)
  /\ users' = [users EXCEPT ![req[r].on].password = "temporary"]
  /\ Record(r, req[r], <<"user.password_reset_forced">>, "over")
  /\ UNCHANGED <<identities, linkRequests, signedIn, invites, audit, lost, cameBy, unlinked, alarm>>

--------------------------------------------------------------------------------
\* The userName of an account that the directory has given none is its own name.
userNameOf(row) == IF row.scim = Nobody THEN row.name ELSE row.scim

\* The directory reads an account and writes it: the flag first, if it differs
\* from what was read, then the attributes, of which all but the userName may
\* be cleared.
commit(r) == \E a \in DOMAIN users, active \in BOOLEAN, external, mail \in Store!Maybe :
  \E user \in Persons \cup {userNameOf(users[a])} :
  LET flag == [New.want EXCEPT !.active = IF active = users[a].active THEN "keep" ELSE IF active THEN "yes" ELSE "no"]
      old  == [users[a] EXCEPT !.scim = userNameOf(users[a])]
      row  == [users[a] EXCEPT !.scim = user, !.external = external, !.email = mail]
  IN
  /\ Begin(r, "ScimWrite", [New EXCEPT !.at = IF flag.active = "keep" THEN "replace" ELSE "lock admins",
       !.on = a, !.want = flag, !.then = "replace", !.row = row, !.same = row = old])
  /\ UNCHANGED <<storeVars, ghostVars>>

deleteUser(r) == \E a \in DOMAIN users :
  /\ users[a].active
  /\ Begin(r, "ScimDelete", [New EXCEPT !.at = "lock admins", !.on = a, !.want.active = "no"])
  /\ UNCHANGED <<storeVars, ghostVars>>

\* What is the same as what was read is written and not recorded.
ReplaceScimUser(r) ==
  LET a == req[r].on
      row == [users[a] EXCEPT !.scim = req[r].row.scim, !.external = req[r].row.external, !.email = req[r].row.email]
  IN
  /\ req[r].at = "replace"
  /\ Free(r, <<"account", a>>) /\ ~KeyHeld(r, row)
  /\ IF Store!TakenBut(a, row)
       THEN End(r) /\ UNCHANGED <<users, owed>>
       ELSE /\ users' = [users EXCEPT ![a] = row]
            /\ IF req[r].same THEN End(r) /\ UNCHANGED owed
               ELSE Record(r, [New EXCEPT !.op = "ScimWrite"], <<"scim.user.updated">>, "over")
  /\ UNCHANGED <<identities, linkRequests, signedIn, invites, audit, lost, cameBy, unlinked, alarm>>

--------------------------------------------------------------------------------
\* Single sign-on.  A link begins in the settings of an account ...
LinkOidcIdentity(r) == \E a \in DOMAIN users :
  /\ users[a].active /\ identities[a] = Nobody
  /\ Begin(r, "Link", Over)
  /\ linkRequests' = linkRequests \cup {<<r, a>>}
  /\ UNCHANGED <<users, identities, signedIn, invites, audit, ghostVars>>

\* ... and the provider's answer, to a link or to a sign-in, arrives here.
CompleteOidcSignIn(r) == \E who \in Persons, addressed \in BOOLEAN, q \in linkRequests \cup {<<>>} :
  /\ Begin(r, "Sso", [New EXCEPT !.at = IF q = <<>> THEN "login" ELSE "callback", !.state = q, !.who = who,
                                 !.mail = IF addressed THEN who ELSE Nobody])
  /\ UNCHANGED <<storeVars, ghostVars>>

\* DELETE ... RETURNING: one callback gets the request.
ConsumeOidcLinkRequest(r) ==
  /\ req[r].at = "callback"
  /\ IF req[r].state \in linkRequests
       THEN Go(r, [req[r] EXCEPT !.at = IF users[req[r].state[2]].active THEN "link" ELSE "over", !.on = req[r].state[2]])
       ELSE Goto(r, "login")
  /\ linkRequests' = linkRequests \ {req[r].state}
  /\ UNCHANGED <<users, identities, signedIn, invites, audit, ghostVars>>

Linked(who) == {a \in DOMAIN users : identities[a] = who}

\* Fault: an identity that cannot be linked signs in all the same.
AdoptAnyway(r) ==
  /\ req[r].at \in {"link", "adopt"}
  /\ IF identities[req[r].on] # Nobody \/ Linked(req[r].who) # {}
       THEN Goto(r, IF req[r].at = "adopt" THEN "session" ELSE "over") /\ UNCHANGED <<identities, owed>>
       ELSE /\ identities' = [identities EXCEPT ![req[r].on] = req[r].who]
            /\ Record(r, req[r], <<"sso.linked">>, IF req[r].at = "adopt" THEN "session" ELSE "over")
  /\ UNCHANGED <<users, linkRequests, signedIn, invites, audit, lost, cameBy, unlinked, alarm>>

\* One identity per account, one account per identity: else it is refused.
InsertIdentity(r) ==
  /\ req[r].at \in {"link", "adopt"}
  /\ IF identities[req[r].on] # Nobody \/ Linked(req[r].who) # {}
       THEN End(r) /\ UNCHANGED <<identities, owed>>
       ELSE /\ identities' = [identities EXCEPT ![req[r].on] = req[r].who]
            /\ Record(r, req[r], <<"sso.linked">>, IF req[r].at = "adopt" THEN "session" ELSE "over")
  /\ UNCHANGED <<users, linkRequests, signedIn, invites, audit, lost, cameBy, unlinked, alarm>>

SignInTo(r, a) == IF users[a].active THEN Go(r, [req[r] EXCEPT !.at = "session", !.on = a]) ELSE End(r)

\* UserByOidcIdentity
completeOidcLogin(r) ==
  /\ req[r].at = "login"
  /\ IF Linked(req[r].who) # {} THEN \E a \in Linked(req[r].who) : SignInTo(r, a)
     ELSE Goto(r, IF req[r].mail = Nobody THEN "provision" ELSE "by email")
  /\ UNCHANGED <<storeVars, ghostVars>>

\* An address that an account has adopts the account if the directory manages
\* it, the provider verified the address and it is active; else it is refused.
adoptOrRefuse(r) ==
  LET existing == {a \in DOMAIN users : users[a].email = req[r].mail} IN
  /\ req[r].at = "by email"
  /\ IF existing = {} THEN Goto(r, "provision")
     ELSE \E a \in existing, verified \in BOOLEAN :
            IF users[a].external # Nobody /\ verified /\ users[a].active
              THEN Go(r, [req[r] EXCEPT !.at = "adopt", !.on = a])
              ELSE End(r)
  /\ UNCHANGED <<storeVars, ghostVars>>

\* The organisation provisions accounts at sign-in, or does not; it does not
\* unless an administrator said so.
provisionIdentity(r) == \E jit \in BOOLEAN :
  /\ req[r].at = "provision"
  /\ jit => users # <<>>
  /\ IF jit THEN Go(r, [req[r] EXCEPT !.at = "insert sso", !.row = [Blank EXCEPT !.email = req[r].mail]]) ELSE End(r)
  /\ UNCHANGED <<storeVars, ghostVars>>

\* INSERT INTO users: a name that is taken is replaced by the next one, an
\* address that is taken may be another tab of the same person.
InsertSsoUser(r) ==
  /\ req[r].at = "insert sso"
  /\ ~KeyHeld(r, req[r].row)
  /\ IF NameTaken(req[r].row) THEN NextName(r)
     ELSE IF Store!Taken(req[r].row) THEN Goto(r, "raced")
     ELSE Go(r, [req[r] EXCEPT !.at = "insert identity", !.keys = Store!Keys(req[r].row)])
  /\ UNCHANGED <<storeVars, ghostVars>>

\* The account and its identity, or neither.
CreateOidcUser(r) ==
  /\ req[r].at = "insert identity"
  /\ IF Linked(req[r].who) # {}
       THEN Go(r, [req[r] EXCEPT !.at = "raced", !.keys = {}]) /\ UNCHANGED <<users, identities, cameBy, owed>>
       ELSE /\ addUser(req[r].row, req[r].who, ByNone)
            /\ Record(r, [req[r] EXCEPT !.keys = {}, !.on = Len(users) + 1], <<"sso.user.created">>, "session")
  /\ UNCHANGED <<linkRequests, signedIn, invites, audit, lost, unlinked, alarm>>

\* The loser signs in to what the winner made.
JoinWinner(r) ==
  /\ req[r].at = "raced"
  /\ IF Linked(req[r].who) = {} THEN End(r) ELSE \E a \in Linked(req[r].who) : SignInTo(r, a)
  /\ UNCHANGED <<storeVars, ghostVars>>

\* The session, by the same mint as for a password (SignIn), where the account
\* has no second factor.
CreateSession(r) ==
  /\ req[r].at = "session"
  /\ signedIn' = signedIn \cup {req[r].on}
  /\ Record(r, [New EXCEPT !.op = "Sso", !.who = req[r].who, !.on = req[r].on], <<"user.signed_in">>, "signed in")
  /\ UNCHANGED <<users, identities, linkRequests, invites, audit, lost, cameBy, unlinked, alarm>>

\* Not the only way in to an account.
UnlinkOidcIdentity(r) == \E a \in DOMAIN users :
  /\ identities[a] # Nobody /\ users[a].password # "none"
  /\ Begin(r, "Unlink", [New EXCEPT !.at = "unlink", !.on = a])
  /\ UNCHANGED <<storeVars, ghostVars>>

DeleteIdentity(r) ==
  /\ req[r].at = "unlink"
  /\ IF identities[req[r].on] = Nobody THEN End(r) /\ UNCHANGED owed
     ELSE Record(r, req[r], <<"sso.unlinked">>, "over")
  /\ unlinked' = unlinked \cup {identities[req[r].on]}
  /\ identities' = [identities EXCEPT ![req[r].on] = Nobody]
  /\ UNCHANGED <<users, linkRequests, signedIn, invites, audit, lost, cameBy, alarm>>

--------------------------------------------------------------------------------
\* Lists: accounts and invitations in the order of their ids, the audit log from
\* its end, by time and then by seq.  A page is read with one row more.
Kinds == {"users", "invites", "audit"}
Listed(kind) == CASE kind = "users"   -> DOMAIN users
                  [] kind = "invites" -> {i \in DOMAIN invites : invites[i] = "open"}
                  [] OTHER            -> DOMAIN audit
Precedes(kind, x, y) ==
  IF kind = "audit" THEN audit[y].at < audit[x].at \/ (audit[y].at = audit[x].at /\ y < x) ELSE x < y

First(kind, rows, n) == {x \in rows : Cardinality({y \in rows : Precedes(kind, y, x)}) < n}

List(r) == \E kind \in Kinds :
  /\ Administrator # {}
  /\ Begin(r, "List", [New EXCEPT !.at = kind, !.stay = Listed(kind)])
  /\ UNCHANGED <<storeVars, ghostVars>>

\* In the order of seq, an entry names the one before it.
VerifyRange(rows) ==
  \A x, y \in rows : (y < x /\ ~\E z \in rows : y < z /\ z < x) => audit[x].prev = y

AfterPage(r, rows) ==
  LET kind == req[r].at
      page == First(kind, rows, PageLimit)
      more == rows # page
  IN [req[r] EXCEPT !.got = @ \cup page, !.twice = @ \/ page \cap req[r].got # {}, !.at = IF more THEN kind ELSE "listed",
                    !.cursor = IF more THEN CHOOSE x \in page : \A y \in page \ {x} : Precedes(kind, y, x) ELSE @]

\* Rows that ended since are not part of the next page.
Page(r) ==
  LET kind == req[r].at
      rows == {x \in Listed(kind) : req[r].cursor = 0 \/ Precedes(kind, req[r].cursor, x)}
  IN
  /\ kind \in Kinds
  /\ Go(r, [AfterPage(r, rows) EXCEPT !.stay = @ \cap Listed(kind)])
  /\ alarm' = (alarm \/ (kind = "audit" /\ ~VerifyRange(First(kind, rows, PageLimit + 1))))
  /\ UNCHANGED <<storeVars, owed, lost, cameBy, unlinked>>

--------------------------------------------------------------------------------
AuditNext(r) == LockChain(r) \/ AppendAuditEntry(r) \/ AppendFails(r) \/ AnswerLost(r)

PeopleNext(r) ==
  \/ EnsureAdmin(r) \/ AdminCreateUser(r) \/ createUser(r) \/ CreateUser(r)
  \/ CreateInvite(r) \/ RevokeInvite(r) \/ MarkRevoked(r)
  \/ RedeemInvite(r) \/ MatchInvite(r) \/ LockInvite(r) \/ InsertInvited(r) \/ AcceptInvite(r)
  \/ UpdateUserAdmin(r) \/ LockAdmins(r) \/ CountAdmins(r) \/ CommitUpdate(r)
  \/ ForcePasswordReset(r) \/ SetTemporaryPassword(r)
  \/ commit(r) \/ deleteUser(r) \/ ReplaceScimUser(r)
  \/ List(r) \/ Page(r)

SsoNext(r) ==
  \/ LinkOidcIdentity(r) \/ CompleteOidcSignIn(r) \/ ConsumeOidcLinkRequest(r) \/ InsertIdentity(r)
  \/ completeOidcLogin(r) \/ adoptOrRefuse(r) \/ provisionIdentity(r) \/ InsertSsoUser(r)
  \/ CreateOidcUser(r) \/ JoinWinner(r) \/ CreateSession(r) \/ UnlinkOidcIdentity(r) \/ DeleteIdentity(r)

Next == Expire \/ \E r \in Requests : AuditNext(r) \/ PeopleNext(r) \/ SsoNext(r)

Spec == Init /\ [][Next]_vars

--------------------------------------------------------------------------------
\* Where there are accounts there is somebody to administer them, whatever
\* administrators and the directory do to each other at the same time.
AdminRemains == users # <<>> => Store!Admins(users) # {}

\* An invitation makes one account, and one that was revoked makes none, however
\* redemptions and the revocation overlap; one that made an account is used up.
OneAccountPerInvite ==
  /\ \A i \in DOMAIN invites : Cardinality({a \in DOMAIN users : cameBy[a].invite = i}) =
                               (IF invites[i] = "accepted" THEN 1 ELSE 0)
  /\ \A a \in DOMAIN users : cameBy[a].was \in {"open", "late"}

\* A person who signs in from two tabs at once, with an account or without, gets
\* to one account in both, unless the identity was unlinked in between.
SameAccount == \A r, q \in Requests :
  /\ req[r].at = "signed in" /\ req[q].at = "signed in"
  /\ req[r].who = req[q].who /\ req[r].who \notin unlinked
  => req[r].on = req[q].on

\* Every entry of the audit log names the entry before it as its predecessor:
\* concurrent appends do not fork the chain.
ChainDoesNotFork == \A i \in DOMAIN audit : audit[i].prev = i - 1

\* The reader of a page of the audit log is not told of a break that is none,
\* although pages go by time, the chain by seq, and clocks differ.
NoFalseAlarm == ~alarm

\* What the log holds, and what is over.
Told    == {<<audit[i].id, audit[i].what>> : i \in DOMAIN audit}
AllOver == \A r \in Requests : req[r].at \in {"new", "over", "signed in", "listed"}

\* When all is over, what was changed is in the audit log, and what failed half
\* way has left the entries of what it did.  The exceptions: an entry that could
\* not be appended, a change whose answer was lost, and an account that an
\* administrator made.
ChangesAreAudited ==
  AllOver => owed \ lost \subseteq Told \cup {<<r, "user.created">> : r \in Requests}

\* "every admin mutation appears in the audit log" (docs/ROADMAP.md), if it could
\* be appended.  It need not: see CreateUser.
AdminMutationsAreAudited == AllOver => owed \ lost \subseteq Told

\* A walk through a list lists all that was there throughout, once.
WalkIsComplete == \A r \in Requests :
  req[r].at = "listed" => req[r].stay \subseteq req[r].got /\ ~req[r].twice

\* Accounts are well formed and somebody administers them.
AdministrationRemains == TypeOK /\ AdminRemains

\* Nobody comes by two accounts: not with an invitation, not by signing in twice.
OneAccountEach == OneAccountPerInvite /\ SameAccount

\* The audit log is one chain and holds every change but those excepted above.
AuditIsWhole == ChainDoesNotFork /\ ChangesAreAudited

\* Who reads lists and the audit log page by page misses nothing, and hears of
\* no break that is none.
PagesAreTrue == NoFalseAlarm /\ WalkIsComplete

\* The handlers over PostgreSQL do nothing to what is stored that the
\* operations over SQLite, each of them one step, could not.
RefinesStore == Store!Spec
===============================================================================
