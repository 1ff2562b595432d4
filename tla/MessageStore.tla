----------------------------- MODULE MessageStore -----------------------------
(***************************************************************************)
(* What the store promises about the messages of a channel, their files,   *)
(* their link previews and the read positions of its members, in the form  *)
(* in which the SQLite store keeps that promise                            *)
(* (server/internal/sqlitestore): an operation is one step.  Messages.tla  *)
(* implements this specification.  Mentions are not part of it: under      *)
(* PostgreSQL they keep a weaker promise (MentionsFollowText there).       *)
(***************************************************************************)
EXTENDS Integers, FiniteSets

CONSTANTS
  Users,        \* accounts
  MaxMessages,  \* bound: messages that are stored
  Keys,         \* values of client_msg_id
  Bodies,       \* contents: the first link and the users it mentions
  Files         \* ids of uploads, as numbers

VARIABLES
  messages,     \* the messages table, in the order of created_at
  attachments,  \* the attachments table
  previews,     \* the link_previews table: the link of a message's card, or 0
  readpos       \* the channel_read_positions table

storeVars == <<messages, attachments, previews, readpos>>

MessageIds == 1 .. MaxMessages
Nobody == 0
Erased == [link |-> 0, mentions |-> {}]

NoRow == [state |-> "none", by |-> Nobody, key |-> Nobody, body |-> Erased, files |-> {}]
MessageRow == [state : {"none", "live", "deleted"}, by : Users \cup {Nobody}, key : Keys \cup {Nobody},
               body : Bodies \cup {Erased}, files : SUBSET Files]
NoUpload == [stored |-> FALSE, by |-> Nobody, msg |-> Nobody]
UploadRow == [stored : BOOLEAN, by : Users \cup {Nobody}, msg : MessageIds \cup {Nobody}]
Links == {b.link : b \in Bodies \cup {Erased}}

\* The tables as earlier operations can have left them.
Init ==
  /\ messages \in [MessageIds -> MessageRow]
  /\ attachments \in [Files -> UploadRow]
  /\ previews \in [MessageIds -> Links]
  /\ readpos \in [Users -> MessageIds \cup {Nobody}]
  /\ \A m, n \in MessageIds : m # n /\ messages[m] # NoRow =>
       <<messages[n].by, messages[n].key>> # <<messages[m].by, messages[m].key>>
  /\ \A f \in Files : attachments[f].msg # Nobody => f \in messages[attachments[f].msg].files

\* messageByKey, insertMessage and claimAttachments.
KeyTaken(u, key) == \E n \in MessageIds : <<messages[n].by, messages[n].key>> = <<u, key>>
NewMessage(u, key, body, files) == [state |-> "live", by |-> u, key |-> key, body |-> body, files |-> files]
Claimable(u, files) == \A f \in files : attachments[f] = [stored |-> TRUE, by |-> u, msg |-> Nobody]
Claimed(m, files) == [f \in Files |-> IF f \in files THEN [attachments[f] EXCEPT !.msg = m] ELSE attachments[f]]

\* A key that is taken stores nothing; the files are claimed all or none.
CreateMessage(m, u, key, body, files) ==
  /\ messages[m] = NoRow
  /\ ~KeyTaken(u, key)
  /\ Claimable(u, files)
  /\ messages' = [messages EXCEPT ![m] = NewMessage(u, key, body, files)]
  /\ attachments' = Claimed(m, files)
  /\ UNCHANGED <<previews, readpos>>

\* Words never reappear on a message that was deleted.
UpdateMessageContent(m, body) ==
  /\ messages[m].state = "live"
  /\ messages' = [messages EXCEPT ![m].body = body]
  /\ UNCHANGED <<attachments, previews, readpos>>

SoftDeleteMessage(m) ==
  /\ messages[m].state = "live"
  /\ messages' = [messages EXCEPT ![m].state = "deleted", ![m].body = Erased]
  /\ UNCHANGED <<attachments, previews, readpos>>

CreateAttachment(f, u) ==
  /\ ~attachments[f].stored
  /\ attachments' = [attachments EXCEPT ![f] = [stored |-> TRUE, by |-> u, msg |-> Nobody]]
  /\ UNCHANGED <<messages, previews, readpos>>

SaveLinkPreview(m, link) ==
  /\ messages[m] # NoRow
  /\ previews' = [previews EXCEPT ![m] = link]
  /\ UNCHANGED <<messages, attachments, readpos>>

DeleteLinkPreview(m) ==
  /\ previews' = [previews EXCEPT ![m] = 0]
  /\ UNCHANGED <<messages, attachments, readpos>>

\* A read position never moves back.
SetReadPosition(u, m) ==
  /\ messages[m] # NoRow
  /\ m > readpos[u]
  /\ readpos' = [readpos EXCEPT ![u] = m]
  /\ UNCHANGED <<messages, attachments, previews>>

\* What is read: the history of the channel, the n rows of a page at either end,
\* and what a search finds of messages and of files.  A file has the place of
\* its message, and then its own.
Rows == {m \in MessageIds : messages[m] # NoRow}
Newest(S, n) == {x \in S : Cardinality({y \in S : y > x}) < n}
Oldest(S, n) == {x \in S : Cardinality({y \in S : y < x}) < n}
Around(S, cursor, older, newer) == Newest({x \in S : x < cursor}, older) \cup Oldest({x \in S : x >= cursor}, newer + 1)
FilePlace(f) == attachments[f].msg * (Cardinality(Files) + 1) + f
Searchable == {m \in Rows : messages[m].state = "live"}
SearchableFiles == {FilePlace(f) : f \in {g \in Files : attachments[g].msg \in Searchable}}

Operation ==
  \/ \E m \in MessageIds, u \in Users, key \in Keys, b \in Bodies, files \in SUBSET Files :
       CreateMessage(m, u, key, b, files)
  \/ \E m \in MessageIds, b \in Bodies : UpdateMessageContent(m, b)
  \/ \E m \in MessageIds : SoftDeleteMessage(m) \/ DeleteLinkPreview(m)
  \/ \E m \in MessageIds, l \in Links \ {0} : SaveLinkPreview(m, l)
  \/ \E f \in Files, u \in Users : CreateAttachment(f, u)
  \/ \E u \in Users, m \in MessageIds : SetReadPosition(u, m)

\* A read, a resend or a refusal changes no table.
Next == storeVars' # storeVars /\ Operation

Spec == Init /\ [][Next]_storeVars
===============================================================================
