------------------------------- MODULE Messages -------------------------------
(***************************************************************************)
(* The messages of one channel: the handlers (server/internal/httpserver)  *)
(* over the PostgreSQL store (server/internal/storage), uploads, the link   *)
(* preview enricher (server/internal/linkpreview), read positions, history  *)
(* and search.  One step per statement that another request can come        *)
(* between.  A request that is refused changes nothing, so its refusal is a *)
(* guard that is false.                                                     *)
(***************************************************************************)
EXTENDS Integers, Sequences, FiniteSets

CONSTANTS Users, MaxMessages, Keys, Bodies, Files,   \* see MessageStore
  Admins,      \* users with is_admin
  Authors,     \* bound: users who send
  E2EE,        \* whether the channel is end-to-end encrypted: the values to check
  Requests,    \* requests that run at once
  PageLimit,   \* limit of a page
  QueueDepth,  \* length of the enricher's queue
  Workloads    \* bound: how often each operation is requested, one of these

VARIABLES
  messages, attachments, previews, readpos,   \* see MessageStore
  mentions,    \* the message_mentions table: pairs <<message, user>>
  members,     \* the channel's members
  e2ee,        \* channels.e2ee
  blobs,       \* files in the blob store
  known,       \* files whose upload was answered, so that a client has the id
  jobs,        \* the enricher's queue
  worker,      \* what the enricher's one goroutine is doing
  shown,       \* what members were last told of each message
  req,         \* per request: where it is and what it read
  budget,      \* requests still to come, per operation
  crossed,     \* history: messages with two writes that overlapped
  late,        \* history: messages the enricher announced from an old copy
  unheard,     \* history: messages whose last write was cut off, and not announced
  cardless,    \* history: messages with a job that failed or was never queued
  moved        \* history: users whose membership changed

Store == INSTANCE MessageStore

MessageIds == 1 .. MaxMessages
NoRow  == Store!NoRow
Erased == Store!Erased
Operations == {"SendMessage", "EditMessage", "DeleteMessage", "SetReadPosition", "UploadFile",
               "ListMessages", "Search", "Membership"}

ASSUME MessagesAssumptions ==
  /\ MaxMessages \in Nat \ {0} /\ Users \subseteq Nat \ {0} /\ Files = 1 .. Cardinality(Files)
  /\ Admins \subseteq Users /\ Authors \subseteq Users /\ E2EE \subseteq BOOLEAN
  /\ PageLimit \in Nat \ {0} /\ QueueDepth \in Nat \ {0}
  /\ Workloads \subseteq [Operations -> Nat]
  /\ Users # {} /\ IsFiniteSet(Files)
  /\ Bodies \subseteq [link : Nat, mentions : SUBSET Users] /\ Erased \in Bodies

\* by: the caller; on: the message; key, body, files: what is sent; held: file
\* rows locked; drop, tags: mentions to be deleted and to be written; card: the preview read;
\* cursor, got, twice, stay: a walk's cursor, what it listed, whether anything
\* twice, and what it had to list.
Idle == [at |-> "idle", by |-> 0, on |-> 0, key |-> 0, body |-> Erased, files |-> {}, held |-> {},
         drop |-> {}, tags |-> {}, card |-> 0, cursor |-> 0, got |-> {}, twice |-> FALSE, stay |-> {}]
NoJob == [at |-> "idle", on |-> 0, body |-> Erased, card |-> 0]
Untold == [state |-> "none", body |-> Erased, card |-> 0]

storeVars   == <<messages, attachments, previews, readpos>>
channelVars == <<members, e2ee, blobs, known>>
enricherVars == <<jobs, worker>>
ghostVars   == <<crossed, late, unheard, cardless, moved>>
vars == <<storeVars, mentions, channelVars, enricherVars, shown, req, budget, ghostVars>>

\* What is stored and what runs has its type, and the enricher's queue its limit.
TypeOK ==
  /\ messages \in [MessageIds -> Store!MessageRow]
  /\ attachments \in [Files -> Store!UploadRow]
  /\ previews \in [MessageIds -> Store!Links]
  /\ readpos \in [Users -> MessageIds \cup {0}]
  /\ mentions \subseteq MessageIds \X Users
  /\ members \subseteq Users /\ e2ee \in BOOLEAN
  /\ blobs \subseteq Files /\ known \subseteq Files
  /\ Len(jobs) <= QueueDepth /\ DOMAIN worker = DOMAIN NoJob
  /\ \A m \in MessageIds : shown[m].state \in {"none", "live", "deleted"}
  /\ \A p \in Requests : DOMAIN req[p] = DOMAIN Idle
  /\ budget \in [Operations -> Nat]
  /\ crossed \cup late \cup unheard \cup cardless \subseteq MessageIds /\ moved \subseteq Users

\* A channel in which the first user has sent one message without a link.
Init ==
  LET first == [NoRow EXCEPT !.state = "live", !.by = CHOOSE u \in Users : \A v \in Users : u <= v,
                             !.body = CHOOSE b \in Bodies : b.link = 0 /\ b.mentions = {}]
  IN
  /\ messages = [m \in MessageIds |-> IF m = 1 THEN first ELSE NoRow]
  /\ attachments = [f \in Files |-> Store!NoUpload]
  /\ previews = [m \in MessageIds |-> 0]
  /\ readpos = [u \in Users |-> 0]
  /\ mentions = {} /\ members = Users /\ e2ee \in E2EE
  /\ blobs = {} /\ known = {}
  /\ jobs = <<>> /\ worker = NoJob
  /\ shown = [m \in MessageIds |-> IF m = 1 THEN [Untold EXCEPT !.state = "live", !.body = first.body] ELSE Untold]
  /\ req = [p \in Requests |-> Idle]
  /\ budget \in Workloads
  /\ crossed = {} /\ late = {} /\ unheard = {} /\ cardless = {} /\ moved = {}

--------------------------------------------------------------------------------
\* Every path to a message asks whether the caller is a member.  Authors edit;
\* authors and administrators delete.
canMessage(u, m, action) ==
  /\ u \in members
  /\ messages[m] # NoRow
  /\ \/ messages[m].by = u
     \/ action = "MessageDelete" /\ u \in Admins

\* An encrypted channel takes ciphertext, in which the server sees no link.
e2eeBody(body) == e2ee => body.link = 0

Arrive(p, op, u, r) ==
  /\ req[p].at = "idle"
  /\ budget[op] > 0
  /\ u \in members
  /\ req' = [req EXCEPT ![p] = r]
  /\ budget' = [budget EXCEPT ![op] = @ - 1]

Goto(p, at) == req' = [req EXCEPT ![p].at = at]
Done(p)     == req' = [req EXCEPT ![p] = Idle]

MentionsOf(m) == {u \in Users : <<m, u>> \in mentions}
Tagging(m, us) == {m} \X us

\* Another request has written this message and not yet announced it, or read
\* it in order to write it.
Overlaps(p, m) == \E q \in Requests \ {p} :
  req[q].on = m /\ req[q].at \in {"apply", "cards", "announce", "enrich", "tombstone"}
Crossing(p, m) == crossed' = IF Overlaps(p, m) THEN crossed \cup {m} ELSE crossed

--------------------------------------------------------------------------------
\* Sending.  The ids are handed out with created_at, before the commit.
SendMessage(p) == \E u \in Authors, key \in Keys, body \in Bodies, files \in SUBSET known :
  /\ e2eeBody(body)
  /\ Arrive(p, "SendMessage", u, [Idle EXCEPT !.at = "send", !.by = u, !.key = key, !.body = body, !.files = files])
  /\ UNCHANGED <<storeVars, mentions, channelVars, enricherVars, shown, ghostVars>>

Taken(m) == messages[m] # NoRow \/ \E q \in Requests : req[q].on = m
FreeId == CHOOSE m \in MessageIds : ~Taken(m) /\ \A n \in 1 .. m - 1 : Taken(n)
HasFreeId == \E m \in MessageIds : ~Taken(m)

\* An uncommitted INSERT holds the idempotency key.
KeyHeld(p) == \E q \in Requests \ {p} :
  req[q].at \in {"claim", "claimed"} /\ <<req[q].by, req[q].key>> = <<req[p].by, req[p].key>>
KeyUsed(p) == \E m \in MessageIds : <<messages[m].by, messages[m].key>> = <<req[p].by, req[p].key>>

RowOf(r) == [state |-> "live", by |-> r.by, key |-> r.key, body |-> r.body, files |-> r.files]

\* Without files the INSERT is the transaction, mentions included.  A key that
\* is taken answers with the message that has it, and announces nothing.
InsertMessage(p) ==
  /\ req[p].at = "send"
  /\ ~KeyHeld(p)
  /\ IF KeyUsed(p)
       THEN Done(p) /\ UNCHANGED <<messages, mentions>>
       ELSE /\ HasFreeId
            /\ IF req[p].files = {}
                 THEN /\ messages' = [messages EXCEPT ![FreeId] = RowOf(req[p])]
                      /\ mentions' = mentions \cup Tagging(FreeId, req[p].body.mentions \cap members)
                      /\ req' = [req EXCEPT ![p].at = "announce", ![p].on = FreeId]
                 ELSE /\ req' = [req EXCEPT ![p].at = "claim", ![p].on = FreeId,
                                            ![p].tags = req[p].body.mentions \cap members]
                      /\ UNCHANGED <<messages, mentions>>
  /\ UNCHANGED <<attachments, previews, readpos, channelVars, enricherVars, shown, budget, ghostVars>>

Unlocked(p) == req[p].files \ req[p].held
LockedBy(q, f) == f \in req[q].held
Claimable(p, f) == attachments[f] = [stored |-> TRUE, by |-> req[p].by, msg |-> 0]

\* Fault: the rows are locked in no particular order.
AnyOrder(p, f) == f \in Unlocked(p)

\* SELECT ... ORDER BY id FOR UPDATE
NextFile(p, f) == f \in Unlocked(p) /\ \A g \in Unlocked(p) : f <= g

\* A row that another transaction has locked is waited for and then asked
\* again; one that cannot be claimed fails the whole send.
ClaimAttachment(p) == \E f \in Files :
  /\ req[p].at = "claim"
  /\ NextFile(p, f)
  /\ \A q \in Requests \ {p} : ~LockedBy(q, f)
  /\ IF Claimable(p, f)
       THEN req' = [req EXCEPT ![p].held = @ \cup {f}, ![p].at = IF Unlocked(p) = {f} THEN "claimed" ELSE @]
       ELSE Done(p)
  /\ UNCHANGED <<storeVars, mentions, channelVars, enricherVars, shown, budget, ghostVars>>

Attach(p) == attachments' = [f \in Files |-> IF f \in req[p].files THEN [attachments[f] EXCEPT !.msg = req[p].on]
                                                                   ELSE attachments[f]]

CommitMessage(p) ==
  /\ req[p].at = "claimed"
  /\ messages' = [messages EXCEPT ![req[p].on] = RowOf(req[p])]
  /\ Attach(p)
  /\ mentions' = mentions \cup Tagging(req[p].on, req[p].tags)
  /\ req' = [req EXCEPT ![p].at = "announce", ![p].held = {}]
  /\ UNCHANGED <<previews, readpos, channelVars, enricherVars, shown, budget, ghostVars>>

\* The connection fails before the commit.
RollbackMessage(p) ==
  /\ req[p].at \in {"claim", "claimed"}
  /\ Done(p)
  /\ UNCHANGED <<storeVars, mentions, channelVars, enricherVars, shown, budget, ghostVars>>

\* A send, an edit or a deletion fails after its commit: its answer is lost, or
\* the files and the preview cannot be read.  The row is stored, the handler
\* sees an error, announces nothing and hands nothing to the enricher.
CutOff(p) ==
  /\ req[p].at \in {"cards", "announce", "tombstone"}
  /\ unheard' = unheard \cup {req[p].on} /\ cardless' = cardless \cup {req[p].on}
  /\ Done(p)
  /\ UNCHANGED <<storeVars, mentions, channelVars, enricherVars, shown, budget, crossed, late, moved>>

\* What members were told before of this message no longer matters.
Corrected(m) ==
  /\ late' = late \ {m} /\ unheard' = unheard \ {m}
  /\ UNCHANGED <<crossed, cardless, moved>>

\* MessageCreated, or MessageUpdated for an edit.
AnnounceMessage(p) ==
  /\ req[p].at = "announce"
  /\ shown' = [shown EXCEPT ![req[p].on] = [state |-> "live", body |-> req[p].body, card |-> req[p].card]]
  /\ Corrected(req[p].on)
  /\ Goto(p, "enrich")
  /\ UNCHANGED <<storeVars, mentions, channelVars, enricherVars, budget>>

\* Never blocks: a full queue drops the job.
Enqueue(p) ==
  /\ req[p].at = "enrich"
  /\ LET full == Len(jobs) = QueueDepth IN
       /\ jobs' = IF e2ee \/ full THEN jobs
                  ELSE Append(jobs, [at |-> "process", on |-> req[p].on, body |-> req[p].body, card |-> req[p].card])
       /\ cardless' = IF ~e2ee /\ full THEN cardless \cup {req[p].on} ELSE cardless
  /\ Done(p)
  /\ UNCHANGED <<storeVars, mentions, channelVars, worker, shown, budget, crossed, late, unheard, moved>>

--------------------------------------------------------------------------------
\* Editing.  The handler reads the message, then one statement updates it and
\* rewrites its mentions.
EditMessage(p) == \E u \in Users, m \in MessageIds, body \in Bodies :
  /\ canMessage(u, m, "MessageEdit") /\ messages[m].state # "deleted"
  /\ e2eeBody(body)
  /\ Arrive(p, "EditMessage", u, [Idle EXCEPT !.at = "edit", !.by = u, !.on = m, !.body = body])
  /\ UNCHANGED <<storeVars, mentions, channelVars, enricherVars, shown, ghostVars>>

\* The statement begins: what it drops is decided by the rows it can see now,
\* whatever commits while it waits for the message's row.
BeginUpdate(p) ==
  /\ req[p].at = "edit"
  /\ req' = [req EXCEPT ![p].at = "apply",
                        ![p].drop = MentionsOf(req[p].on) \ req[p].body.mentions,
                        ![p].tags = req[p].body.mentions \cap members]
  /\ Crossing(p, req[p].on)
  /\ UNCHANGED <<storeVars, mentions, channelVars, enricherVars, shown, budget, late, unheard, cardless, moved>>

\* Fault: a message that was deleted meanwhile is not looked for.
UpdateAnyRow(p) ==
  /\ req[p].at = "apply"
  /\ messages' = [messages EXCEPT ![req[p].on].body = req[p].body]
  /\ mentions' = (mentions \ Tagging(req[p].on, req[p].drop)) \cup Tagging(req[p].on, req[p].tags)
  /\ req' = [req EXCEPT ![p].at = "cards", ![p].drop = {}]
  /\ UNCHANGED <<attachments, previews, readpos, channelVars, enricherVars, shown, budget, ghostVars>>

\* Fault: the mentions the new text no longer has are kept.
KeepMentions(p) ==
  /\ req[p].at = "apply"
  /\ IF messages[req[p].on].state = "deleted"
       THEN Done(p) /\ UNCHANGED <<messages, mentions>>
       ELSE /\ messages' = [messages EXCEPT ![req[p].on].body = req[p].body]
            /\ mentions' = mentions \cup Tagging(req[p].on, req[p].tags)
            /\ req' = [req EXCEPT ![p].at = "cards", ![p].drop = {}]
  /\ UNCHANGED <<attachments, previews, readpos, channelVars, enricherVars, shown, budget, ghostVars>>

\* The row is asked again whether it is deleted.
UpdateMessageContent(p) ==
  /\ req[p].at = "apply"
  /\ IF messages[req[p].on].state = "deleted"
       THEN Done(p) /\ UNCHANGED <<messages, mentions>>
       ELSE /\ messages' = [messages EXCEPT ![req[p].on].body = req[p].body]
            /\ mentions' = (mentions \ Tagging(req[p].on, req[p].drop)) \cup Tagging(req[p].on, req[p].tags)
            /\ req' = [req EXCEPT ![p].at = "cards", ![p].drop = {}]
  /\ UNCHANGED <<attachments, previews, readpos, channelVars, enricherVars, shown, budget, ghostVars>>

\* The files and the preview are read after the commit; see CutOff for when
\* they cannot be.
LoadMessageCards(p) ==
  /\ req[p].at = "cards"
  /\ req' = [req EXCEPT ![p].at = "announce", ![p].card = previews[req[p].on]]
  /\ UNCHANGED <<storeVars, mentions, channelVars, enricherVars, shown, budget, ghostVars>>

DeleteMessage(p) == \E u \in Users, m \in MessageIds :
  /\ canMessage(u, m, "MessageDelete") /\ messages[m].state # "deleted"
  /\ Arrive(p, "DeleteMessage", u, [Idle EXCEPT !.at = "delete", !.by = u, !.on = m])
  /\ UNCHANGED <<storeVars, mentions, channelVars, enricherVars, shown, ghostVars>>

\* A search no longer has to find what was deleted.
Hides(r, m) ==
  [r EXCEPT !.stay = CASE r.at = "search" -> @ \ {m}
                       [] r.at = "files"  -> @ \ {Store!FilePlace(f) : f \in messages[m].files}
                       [] OTHER -> @]

\* Only the request that deleted the row announces it.
SoftDeleteMessage(p) ==
  LET m == req[p].on IN
  /\ req[p].at = "delete"
  /\ IF messages[m].state = "deleted"
       THEN Done(p) /\ UNCHANGED <<messages, crossed>>
       ELSE /\ messages' = [messages EXCEPT ![m].state = "deleted", ![m].body = Erased]
            /\ req' = [q \in Requests |-> IF q = p THEN [req[p] EXCEPT !.at = "tombstone"] ELSE Hides(req[q], m)]
            /\ Crossing(p, m)
  /\ UNCHANGED <<attachments, previews, readpos, mentions, channelVars, enricherVars, shown, budget, late, unheard, cardless, moved>>

\* Fault: the deletion is not announced.
DeleteQuietly(p) ==
  /\ req[p].at = "tombstone"
  /\ Done(p)
  /\ UNCHANGED <<storeVars, mentions, channelVars, enricherVars, shown, budget, ghostVars>>

AnnounceDeleted(p) ==
  /\ req[p].at = "tombstone"
  /\ shown' = [shown EXCEPT ![req[p].on] = [state |-> "deleted", body |-> Erased, card |-> 0]]
  /\ Corrected(req[p].on)
  /\ Done(p)
  /\ UNCHANGED <<storeVars, mentions, channelVars, enricherVars, budget>>

--------------------------------------------------------------------------------
\* One statement; the position only moves forward.  The user's other sockets
\* are told the position that was asked for.
SetReadPosition(p) == \E u \in Users, m \in MessageIds :
  /\ Arrive(p, "SetReadPosition", u, [Idle EXCEPT !.at = "read", !.by = u, !.on = m])
  /\ messages[m] # NoRow
  /\ UNCHANGED <<storeVars, mentions, channelVars, enricherVars, shown, ghostVars>>

StoreReadPosition(p) ==
  /\ req[p].at = "read"
  /\ readpos' = [readpos EXCEPT ![req[p].by] = IF req[p].on > @ THEN req[p].on ELSE @]
  /\ Done(p)
  /\ UNCHANGED <<messages, attachments, previews, mentions, channelVars, enricherVars, shown, budget, ghostVars>>

--------------------------------------------------------------------------------
\* Uploading: the bytes first, then the row.
UploadFile(p) == \E u \in Users, f \in Files :
  /\ f \notin blobs /\ ~attachments[f].stored
  /\ \A q \in Requests : f \notin req[q].files
  /\ Arrive(p, "UploadFile", u, [Idle EXCEPT !.at = "blob", !.by = u, !.files = {f}])
  /\ UNCHANGED <<storeVars, mentions, channelVars, enricherVars, shown, ghostVars>>

StoreBlob(p) ==
  /\ req[p].at = "blob"
  /\ blobs' = blobs \cup req[p].files
  /\ Goto(p, "row")
  /\ UNCHANGED <<storeVars, mentions, members, e2ee, known, enricherVars, shown, budget, ghostVars>>

\* The body ends early or is too large, or the thumbnail cannot be stored.
DeleteBlobs(p) ==
  /\ req[p].at \in {"blob", "row"}
  /\ blobs' = blobs \ req[p].files
  /\ Done(p)
  /\ UNCHANGED <<storeVars, mentions, members, e2ee, known, enricherVars, shown, budget, ghostVars>>

StoreRow(p) == attachments' = [f \in Files |-> IF f \in req[p].files THEN [stored |-> TRUE, by |-> req[p].by, msg |-> 0]
                                                                     ELSE attachments[f]]

CreateAttachment(p) ==
  /\ req[p].at = "row"
  /\ StoreRow(p)
  /\ known' = known \cup req[p].files
  /\ Done(p)
  /\ UNCHANGED <<messages, previews, readpos, mentions, members, e2ee, blobs, enricherVars, shown, budget, ghostVars>>

\* The INSERT commits but its answer is lost: the bytes are deleted, and
\* nobody has the id of the row that stays.
LoseAnswer(p) ==
  /\ req[p].at = "row"
  /\ StoreRow(p)
  /\ blobs' = blobs \ req[p].files
  /\ Done(p)
  /\ UNCHANGED <<messages, previews, readpos, mentions, members, e2ee, known, enricherVars, shown, budget, ghostVars>>

--------------------------------------------------------------------------------
\* The enricher works from the copy of the message that the job carries.
TakeJob ==
  /\ worker.at = "idle" /\ jobs # <<>>
  /\ worker' = Head(jobs) /\ jobs' = Tail(jobs)
  /\ UNCHANGED <<storeVars, mentions, channelVars, shown, req, budget, ghostVars>>

\* A page that cannot be fetched, has nothing to show, or cannot be stored; or
\* a card that cannot be deleted.
FailJob ==
  /\ worker.at = "process"
  /\ worker' = NoJob
  /\ cardless' = cardless \cup {worker.on}
  /\ UNCHANGED <<storeVars, mentions, channelVars, jobs, shown, req, budget, crossed, late, unheard, moved>>

SaveLinkPreview ==
  /\ worker.at = "process" /\ worker.body.link # 0
  /\ previews' = [previews EXCEPT ![worker.on] = worker.body.link]
  /\ worker' = [worker EXCEPT !.at = "tell"]
  /\ UNCHANGED <<messages, attachments, readpos, mentions, channelVars, jobs, shown, req, budget, ghostVars>>

\* A text without a link keeps no card; only a card that was there is announced.
RemovePreview ==
  /\ worker.at = "process" /\ worker.body.link = 0
  /\ previews' = [previews EXCEPT ![worker.on] = 0]
  /\ worker' = IF previews[worker.on] # 0 THEN [worker EXCEPT !.at = "tell"] ELSE NoJob
  /\ UNCHANGED <<messages, attachments, readpos, mentions, channelVars, jobs, shown, req, budget, ghostVars>>

\* MessageUpdated carries the copy, with the card the message had when it was
\* read.
AnnounceCard ==
  /\ worker.at = "tell"
  /\ shown' = [shown EXCEPT ![worker.on] = [state |-> "live", body |-> worker.body, card |-> worker.card]]
  /\ late' = IF [state |-> messages[worker.on].state, body |-> messages[worker.on].body]
                  # [state |-> "live", body |-> worker.body]
                THEN late \cup {worker.on} ELSE late
  /\ worker' = NoJob
  /\ UNCHANGED <<storeVars, mentions, channelVars, jobs, req, budget, crossed, unheard, cardless, moved>>

--------------------------------------------------------------------------------
\* History.  A page asks for one row more than its limit, to know whether
\* there is another page.
Newest(S, n) == Store!Newest(S, n)
Oldest(S, n) == Store!Oldest(S, n)
Least(S)    == CHOOSE x \in S : \A y \in S : x <= y
Greatest(S) == CHOOSE x \in S : \A y \in S : y <= x

Rows == Store!Rows

Listed(r, page, more, cursor) ==
  [r EXCEPT !.got = @ \cup page, !.twice = @ \/ page \cap r.got # {},
            !.cursor = cursor, !.at = IF more THEN @ ELSE "listed"]

\* Fault: the page goes on from the row that only said that there is more.
BeforePageAndProbe(r, S) ==
  LET rows == Newest({x \in S : x < r.cursor}, PageLimit + 1)
      page == Newest(rows, PageLimit)
      more == Cardinality(rows) > PageLimit
  IN Listed(r, page, more, IF more THEN Least(rows) ELSE r.cursor)

\* Backwards, from the newest message or from the oldest one of a page.
BeforePage(r, S) ==
  LET rows == Newest({x \in S : x < r.cursor}, PageLimit + 1)
      page == Newest(rows, PageLimit)
      more == Cardinality(rows) > PageLimit
  IN Listed(r, page, more, IF more THEN Least(page) ELSE r.cursor)

\* Forwards, from the newest message of a page.
AfterPage(r, S) ==
  LET rows == Oldest({x \in S : x > r.cursor}, PageLimit + 1)
      page == Oldest(rows, PageLimit)
      more == Cardinality(rows) > PageLimit
  IN Listed(r, page, more, IF more THEN Greatest(page) ELSE r.cursor)

\* Around a message: the older half, then in a second statement the rest.
OlderShare == PageLimit \div 2
NewerShare == PageLimit - 1 - OlderShare
AroundOlder(r, S) == [r EXCEPT !.got = Newest({x \in S : x < r.cursor}, OlderShare), !.at = "newer"]
AroundNewer(r, S) == [r EXCEPT !.got = @ \cup Oldest({x \in S : x >= r.cursor}, NewerShare + 1), !.at = "around"]

ListMessages(p) == \E u \in Users, way \in {"before", "after", "older"}, anchor \in Rows :
  /\ way # "older" => anchor = 1
  /\ Arrive(p, "ListMessages", u,
       [Idle EXCEPT !.at = way, !.by = u, !.stay = Rows,
          !.cursor = CASE way = "before" -> MaxMessages + 1 [] way = "after" -> 0 [] OTHER -> anchor])
  /\ UNCHANGED <<storeVars, mentions, channelVars, enricherVars, shown, ghostVars>>

\* Every page is a request of its own, and asks again for the membership; the
\* two statements of a page around a message are one request.
HistoryPage(p) ==
  /\ req[p].at \in {"before", "after", "older", "newer"}
  /\ IF req[p].by \notin members /\ req[p].at # "newer"
       THEN Done(p)
       ELSE req' = [req EXCEPT ![p] = CASE @.at = "before" -> BeforePage(@, Rows)
                                        [] @.at = "after"  -> AfterPage(@, Rows)
                                        [] @.at = "older"  -> AroundOlder(@, Rows)
                                        [] @.at = "newer"  -> AroundNewer(@, Rows)]
  /\ UNCHANGED <<storeVars, mentions, channelVars, enricherVars, shown, budget, ghostVars>>

\* Search sees the messages, or the files of messages, of the channels the
\* caller is in, never what was deleted, and nothing of an encrypted channel.
Findable(u, kind) ==
  IF u \notin members \/ e2ee THEN {}
  ELSE IF kind = "search" THEN Store!Searchable ELSE Store!SearchableFiles

Search(p) == \E u \in Users, kind \in {"search", "files"} :
  /\ Arrive(p, "Search", u, [Idle EXCEPT !.at = kind, !.by = u, !.stay = Findable(u, kind),
                                         !.cursor = (MaxMessages + 1) * (Cardinality(Files) + 1)])
  /\ UNCHANGED <<storeVars, mentions, channelVars, enricherVars, shown, ghostVars>>

SearchPage(p) ==
  /\ req[p].at \in {"search", "files"}
  /\ req' = [req EXCEPT ![p] = BeforePage(@, Findable(@.by, @.at))]
  /\ UNCHANGED <<storeVars, mentions, channelVars, enricherVars, shown, budget, ghostVars>>

FinishList(p) ==
  /\ req[p].at \in {"listed", "around"}
  /\ Done(p)
  /\ UNCHANGED <<storeVars, mentions, channelVars, enricherVars, shown, budget, ghostVars>>

\* A member is removed, or somebody is added (see Channels).
ChangeMembers == \E u \in Users :
  /\ budget["Membership"] > 0
  /\ members' = IF u \in members THEN members \ {u} ELSE members \cup {u}
  /\ moved' = moved \cup {u}
  /\ budget' = [budget EXCEPT !["Membership"] = @ - 1]
  /\ req' = [p \in Requests |-> IF req[p].at \in {"search", "files"} /\ req[p].by = u THEN [req[p] EXCEPT !.stay = {}] ELSE req[p]]
  /\ UNCHANGED <<storeVars, mentions, e2ee, blobs, known, enricherVars, shown, crossed, late, unheard, cardless>>

--------------------------------------------------------------------------------
Next ==
  \/ \E p \in Requests :
       \/ SendMessage(p) \/ InsertMessage(p) \/ ClaimAttachment(p) \/ CommitMessage(p)
       \/ RollbackMessage(p) \/ CutOff(p) \/ AnnounceMessage(p) \/ Enqueue(p)
       \/ EditMessage(p) \/ BeginUpdate(p) \/ UpdateMessageContent(p) \/ LoadMessageCards(p)
       \/ DeleteMessage(p) \/ SoftDeleteMessage(p) \/ AnnounceDeleted(p)
       \/ SetReadPosition(p) \/ StoreReadPosition(p)
       \/ UploadFile(p) \/ StoreBlob(p) \/ DeleteBlobs(p) \/ CreateAttachment(p) \/ LoseAnswer(p)
       \/ ListMessages(p) \/ HistoryPage(p) \/ Search(p) \/ SearchPage(p) \/ FinishList(p)
  \/ TakeJob \/ FailJob \/ SaveLinkPreview \/ RemovePreview \/ AnnounceCard
  \/ ChangeMembers

Spec == Init /\ [][Next]_vars

Quiet == jobs = <<>> /\ worker = NoJob /\ \A p \in Requests : req[p].at = "idle"

\* The mentions of a live message are those of its text, as far as they name
\* members, unless two edits of it overlapped: what an edit drops is decided
\* before it waits for the other (storage/messages.go:230).
MentionsFollowText == \A m \in MessageIds :
  messages[m].state = "live" /\ m \notin crossed =>
    MentionsOf(m) \ moved = messages[m].body.mentions \ moved

\* When nothing runs, members were last told what the row says, unless two
\* writes of the message overlapped, or since its last announced write the
\* enricher announced an old copy of it or another write was cut off between
\* its commit and its announcement (message_handlers.go:229, 345 and 398).
ToldWhatIsStored == Quiet => \A m \in MessageIds \ (crossed \cup late \cup unheard) :
  <<shown[m].state, shown[m].body>> = <<messages[m].state, messages[m].body>>

\* When nothing runs, the card of a live message is of the link in its text,
\* although the enricher works from copies: unless a job was dropped, failed
\* or never queued, or two writes overlapped (linkpreview.go:138 and 171).
CardFollowsText == Quiet => \A m \in MessageIds \ (crossed \cup cardless) :
  messages[m].state = "live" => previews[m] = messages[m].body.link

\* When nothing runs, members were last told of the card a live message has:
\* the enricher sets it on the message before it announces
\* (storage/messages.go:49).
CardIsDelivered == Quiet => \A m \in MessageIds \ (crossed \cup late \cup unheard \cup cardless) :
  messages[m].state = "live" => shown[m].card = previews[m]

\* A message has all the files it was sent with and no other has any of them,
\* and the bytes of each are there to be served (storage/messages.go:466,
\* upload_handler.go:129).
FilesAreWhole == \A f \in Files :
  /\ \A m \in MessageIds : f \in messages[m].files <=> attachments[f].msg = m
  /\ attachments[f].msg # 0 => f \in blobs

\* Two sends that name the same files never wait for each other
\* (attachments.go:105).
WaitsFor(p, q) ==
  \/ req[p].at = "claim" /\ \E f \in Files : NextFile(p, f) /\ LockedBy(q, f)
  \/ req[p].at = "send" /\ req[q].at \in {"claim", "claimed"} /\ <<req[q].by, req[q].key>> = <<req[p].by, req[p].key>>
SendersNeverWaitInCircle == \A p, q \in Requests : p # q => ~(WaitsFor(p, q) /\ WaitsFor(q, p))

\* History and search, page by page, return everything that was there from
\* the first page to the last and nothing twice; a page around a message has
\* no hole in it, and is the page one statement would read if nothing was sent
\* meanwhile (storage/messages.go:619 and 697, search.go:173).
WalkIsComplete == \A p \in Requests :
  /\ req[p].at = "listed" => req[p].stay \subseteq req[p].got /\ ~req[p].twice
  /\ req[p].at = "around" => \A m \in req[p].stay :
       Least(req[p].got) <= m /\ m <= Greatest(req[p].got) => m \in req[p].got
  /\ req[p].at = "around" /\ req[p].stay = Rows => req[p].got = Store!Around(Rows, req[p].cursor, OlderShare, NewerShare)

\* Sends that name files get all of them or none, and never wait for each other.
ClaimsAreSound == TypeOK /\ FilesAreWhole /\ SendersNeverWaitInCircle

\* What is derived from a text, its mentions at once and its card in the end,
\* follows that text.
RowsFollowText == MentionsFollowText /\ CardFollowsText

\* The PostgreSQL store does to its tables only what the SQLite store does.
RefinesStore == Store!Spec
===============================================================================
