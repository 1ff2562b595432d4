------------------------------ MODULE AccountStore -----------------------------
(***************************************************************************)
(* What the store promises about accounts: who there is and who            *)
(* administers, the invitations, the identities of single sign-on, and the *)
(* audit log, in the form in which the SQLite store keeps that promise     *)
(* (server/internal/sqlitestore): an operation is one step.  Accounts.tla  *)
(* implements this specification.                                          *)
(*                                                                         *)
(* A person is who an address, a directory entry or an identity of the     *)
(* provider stands for, and the userName that the directory gives an       *)
(* account.  Usernames are numbers: a derived one is the number of the     *)
(* attempt that found it free.                                             *)
(***************************************************************************)
EXTENDS Integers, Sequences

CONSTANTS
  Requests,    \* requests, each of which runs once and names what it makes
  Persons,     \* people
  Nobody,      \* no person
  Usernames    \* names an account can have

VARIABLES
  users,         \* the accounts, in the order of their ids
  identities,    \* oidc_identities: per account, the person
  linkRequests,  \* oidc_link_requests: the accounts that wait for an identity, per state
  signedIn,      \* accounts with a session
  invites,       \* the invitations
  audit          \* the audit log, in the order of seq

storeVars == <<users, identities, linkRequests, signedIn, invites, audit>>

Maybe == Persons \cup {Nobody}
Row == [name : Usernames, email : Maybe, external : Maybe, scim : Maybe \cup Usernames, admin : BOOLEAN, active : BOOLEAN,
        password : {"none", "own", "temporary"}]
InviteStates == {"open", "late", "revoked", "accepted"}

\* The unique indexes of users; what is missing is no key.
Keys(row) == {<<"name", row.name>>} \cup
  ({<<"email", row.email>>, <<"external", row.external>>, <<"scim", row.scim>>} \ ({"email", "external", "scim"} \X {Nobody}))
TakenBut(a, row) == \E b \in DOMAIN users \ {a} : Keys(users[b]) \cap Keys(row) # {}
Taken(row) == TakenBut(0, row)

Admins(us) == {a \in DOMAIN us : us[a].admin /\ us[a].active}

Init ==
  /\ users \in Seq(Row) /\ identities \in [DOMAIN users -> Maybe]
  /\ linkRequests = {} /\ signedIn = {}
  /\ invites \in Seq(InviteStates) /\ audit = <<>>

\* Every way to a new account.
addUser(row, who) ==
  /\ ~Taken(row)
  /\ users' = Append(users, row)
  /\ identities' = Append(identities, who)

CreateUser(row) ==
  /\ addUser(row, Nobody)
  /\ UNCHANGED <<linkRequests, signedIn, invites, audit>>

CreateOidcUser(row, who) ==
  /\ \A a \in DOMAIN identities : identities[a] # who
  /\ addUser(row, who)
  /\ UNCHANGED <<linkRequests, signedIn, invites, audit>>

\* An account and its invitation, or neither.
RedeemInvite(row, i) ==
  /\ invites[i] \in {"open", "late"}
  /\ addUser(row, Nobody)
  /\ invites' = [invites EXCEPT ![i] = "accepted"]
  /\ UNCHANGED <<linkRequests, signedIn, audit>>

CreateInvite ==
  /\ invites' = Append(invites, "open")
  /\ UNCHANGED <<users, identities, linkRequests, signedIn, audit>>

RevokeInvite(i) ==
  /\ invites[i] \in {"open", "late"}
  /\ invites' = [invites EXCEPT ![i] = "revoked"]
  /\ UNCHANGED <<users, identities, linkRequests, signedIn, audit>>

Expire(i) ==
  /\ invites[i] = "open"
  /\ invites' = [invites EXCEPT ![i] = "late"]
  /\ UNCHANGED <<users, identities, linkRequests, signedIn, audit>>

\* An update that would leave no administrator is refused; one that leaves the
\* account inactive ends its sessions.
UpdateUserAdmin(a, admin, active) ==
  LET next == [users EXCEPT ![a].admin = admin, ![a].active = active] IN
  /\ Admins(next) # {}
  /\ users' = next
  /\ signedIn' = IF active THEN signedIn ELSE signedIn \ {a}
  /\ UNCHANGED <<identities, linkRequests, invites, audit>>

SetTemporaryPassword(a) ==
  /\ users' = [users EXCEPT ![a].password = "temporary"]
  /\ UNCHANGED <<identities, linkRequests, signedIn, invites, audit>>

ReplaceScimUser(a, row) ==
  /\ ~TakenBut(a, row)
  /\ users' = [users EXCEPT ![a].email = row.email, ![a].external = row.external, ![a].scim = row.scim]
  /\ UNCHANGED <<identities, linkRequests, signedIn, invites, audit>>

\* An account has one identity, and an identity one account.
LinkOidcIdentity(a, who) ==
  /\ identities[a] = Nobody /\ \A b \in DOMAIN identities : identities[b] # who
  /\ identities' = [identities EXCEPT ![a] = who]
  /\ UNCHANGED <<users, linkRequests, signedIn, invites, audit>>

UnlinkOidcIdentity(a) ==
  /\ identities' = [identities EXCEPT ![a] = Nobody]
  /\ UNCHANGED <<users, linkRequests, signedIn, invites, audit>>

CreateOidcLinkRequest(state, a) ==
  /\ linkRequests' = linkRequests \cup {<<state, a>>}
  /\ UNCHANGED <<users, identities, signedIn, invites, audit>>

ConsumeOidcLinkRequest(q) ==
  /\ linkRequests' = linkRequests \ {q}
  /\ UNCHANGED <<users, identities, signedIn, invites, audit>>

CreateSession(a) ==
  /\ signedIn' = signedIn \cup {a}
  /\ UNCHANGED <<users, identities, linkRequests, invites, audit>>

\* An entry names the one before it.
AppendAuditEntry(id, what, at) ==
  /\ audit' = Append(audit, [id |-> id, what |-> what, prev |-> Len(audit), at |-> at])
  /\ UNCHANGED <<users, identities, linkRequests, signedIn, invites>>

Last(s) == s[Len(s)]

\* Every step that changes the store is one of its operations.
Operation ==
  \/ /\ Len(users') = Len(users) + 1
     /\ LET row == Last(users') IN
          \/ CreateUser(row) \/ CreateOidcUser(row, Last(identities'))
          \/ \E i \in DOMAIN invites : RedeemInvite(row, i)
  \/ CreateInvite \/ \E i \in DOMAIN invites : RevokeInvite(i) \/ Expire(i)
  \/ \E a \in DOMAIN users :
       \/ SetTemporaryPassword(a) \/ ReplaceScimUser(a, users'[a])
       \/ UnlinkOidcIdentity(a) \/ CreateSession(a)
       \/ \E state \in Requests : CreateOidcLinkRequest(state, a)
       \/ \E admin, active \in BOOLEAN : UpdateUserAdmin(a, admin, active)
       \/ \E who \in Persons : LinkOidcIdentity(a, who)
  \/ \E q \in linkRequests : ConsumeOidcLinkRequest(q)
  \/ audit' # <<>> /\ AppendAuditEntry(Last(audit').id, Last(audit').what, Last(audit').at)

Next == storeVars' # storeVars /\ Operation

Spec == Init /\ [][Next]_storeVars
===============================================================================
