---------------------------- MODULE MessagesProofs ----------------------------
(***************************************************************************)
(* For any number of requests, users, files and messages: sends get all    *)
(* the files they name or none and never wait for each other, what is      *)
(* derived from a text follows it, members are told what is stored, and    *)
(* history and search return everything once; and what is stored is what   *)
(* the operations of the store do as single steps.                         *)
(***************************************************************************)
EXTENDS Messages, FiniteSetTheorems, SequenceTheorems, WellFoundedInduction, TLAPS

Claiming  == {"claim", "claimed"}
Uploading == {"blob", "row"}
Telling   == {"cards", "announce", "enrich"}
Writing   == Telling \cup {"apply", "tombstone"}
OnRow     == Writing \cup {"edit", "delete", "read"}
Searching == {"search", "files"}
Walking   == Searching \cup {"before", "after", "older", "newer", "around", "listed"}
Places    == OnRow \cup Claiming \cup Uploading \cup Walking \cup {"idle", "send"}

Request == [at : Places, by : Users \cup {0}, on : MessageIds \cup {0}, key : Keys \cup {0}, body : Bodies,
            files : SUBSET Files, held : SUBSET Files, drop : SUBSET Users, tags : SUBSET Users,
            card : Store!Links, cursor : Nat, got : SUBSET Nat, twice : BOOLEAN, stay : SUBSET Nat]
Job  == [at : {"idle", "process", "tell"}, on : MessageIds \cup {0}, body : Bodies, card : Store!Links]
Told == [state : {"none", "live", "deleted"}, body : Bodies, card : Store!Links]

-------------------------------------------------------------------------------
(* Types, and which message a request is about.                            *)

Tables ==
  /\ messages \in [MessageIds -> Store!MessageRow]
  /\ attachments \in [Files -> Store!UploadRow]
  /\ previews \in [MessageIds -> Store!Links]
  /\ readpos \in [Users -> MessageIds \cup {0}]
  /\ mentions \subseteq MessageIds \X Users
  /\ members \subseteq Users /\ e2ee \in BOOLEAN
  /\ blobs \subseteq Files /\ known \subseteq Files
  /\ shown \in [MessageIds -> Told]
  /\ budget \in [Operations -> Nat]
Histories ==
  /\ crossed \subseteq MessageIds /\ late \subseteq MessageIds /\ unheard \subseteq MessageIds
  /\ cardless \subseteq MessageIds /\ moved \subseteq Users
Enricher == jobs \in Seq(Job) /\ Len(jobs) <= QueueDepth /\ worker \in Job
Typed == Tables /\ Histories /\ Enricher /\ req \in [Requests -> Request]

\* A request is about a row that is there, or about the id it has for its own.
KnowsRow(r) ==
  /\ r.at \in OnRow => r.on \in MessageIds /\ messages[r.on] # NoRow
  /\ r.at = "tombstone" => messages[r.on].state = "deleted"
  /\ r.at \in Claiming => r.on \in MessageIds /\ messages[r.on] = NoRow
  /\ r.at \notin OnRow \cup Claiming => r.on = 0
  /\ r.at # "idle" => r.by \in Users
  /\ r.at \in Claiming \cup {"send"} => r.key \in Keys
Reserved == \A p, q \in Requests : p # q /\ req[p].at \in Claiming => req[q].on # req[p].on

Stored == \A m \in MessageIds :
  /\ messages[m].state = "none" => messages[m] = NoRow
  /\ messages[m].state = "deleted" => messages[m].body = Erased
  /\ messages[m] # NoRow => messages[m].by \in Users
Queued ==
  /\ worker.at # "idle" => worker.on \in MessageIds /\ messages[worker.on] # NoRow
  /\ worker.at = "idle" => worker = NoJob
  /\ \A i \in DOMAIN jobs : jobs[i].at = "process" /\ jobs[i].on \in MessageIds /\ messages[jobs[i].on] # NoRow

Numbered == (\A p \in Requests : KnowsRow(req[p])) /\ Reserved /\ Stored /\ Queued

-------------------------------------------------------------------------------
(* Files and keys.                                                         *)

\* Rows are locked in the order of their ids, and stay as they were found.
KnowsFiles(r) ==
  /\ r.at \in Claiming \cup {"send"} => r.files \subseteq known
  /\ r.at \in Claiming =>
       /\ r.held \subseteq r.files
       /\ \A f \in r.held : attachments[f] = [stored |-> TRUE, by |-> r.by, msg |-> 0]
       /\ \A f \in r.held, g \in r.files \ r.held : f < g
  /\ r.at = "claimed" => r.held = r.files
  /\ r.at \notin Claiming => r.held = {}
  /\ r.at \in Uploading => (\E f \in Files : r.files = {f}) /\ \A f \in r.files : ~attachments[f].stored
  /\ r.at = "row" => r.files \subseteq blobs

\* A key in use or about to be is no other's.
Uses(r, m) == <<messages[m].by, messages[m].key>> = <<r.by, r.key>>
KnowsKey(r) == r.at \in Claiming => \A m \in MessageIds : ~Uses(r, m)

ApartFiles(r, s) ==
  /\ r.at \in Claiming /\ s.at \in Claiming => r.held \cap s.held = {} /\ <<r.by, r.key>> # <<s.by, s.key>>
  /\ r.at \in Uploading /\ s.at \in Uploading => r.files \cap s.files = {}

Whole ==
  /\ \A f \in known : attachments[f].stored /\ f \in blobs
  /\ \A f \in Files : ~attachments[f].stored => attachments[f].msg = 0
  /\ \A f \in Files : attachments[f].msg # 0 => f \in known
  /\ \A f \in Files, m \in MessageIds : f \in messages[m].files <=> attachments[f].msg = m

Claims ==
  /\ \A p \in Requests : KnowsFiles(req[p]) /\ KnowsKey(req[p])
  /\ \A p, q \in Requests : p # q => ApartFiles(req[p], req[q])
  /\ Whole

-------------------------------------------------------------------------------
(* Mentions, and what is announced.                                        *)

\* What is to be written are the text's members; what is to be deleted are the
\* mentions that the text no longer has.
KnowsTags(r) ==
  /\ r.at \in Claiming \cup {"apply"} => r.tags \subseteq r.body.mentions /\ r.body.mentions \ moved \subseteq r.tags
  /\ r.at = "apply" /\ r.on \notin crossed => r.drop = MentionsOf(r.on) \ r.body.mentions
\* Whoever is to announce a message has its text, if no other write met its own.
KnowsText(r) ==
  r.at \in Telling /\ r.on \notin crossed => messages[r.on].state = "live" /\ messages[r.on].body = r.body
ApartWrites(r, s) == r.at \in Writing /\ s.at \in Writing /\ r.on = s.on => r.on \in crossed

Tagged ==
  /\ \A m \in MessageIds : messages[m] = NoRow => MentionsOf(m) = {}
  /\ Users \ members \subseteq moved
  /\ MentionsFollowText

Texts ==
  /\ \A p \in Requests : KnowsTags(req[p]) /\ KnowsText(req[p])
  /\ \A p, q \in Requests : p # q => ApartWrites(req[p], req[q])
  /\ Tagged

\* What members have not been told is about to be announced.
TellsIt(m) == \E p \in Requests : req[p].on = m /\ req[p].at \in {"cards", "announce", "tombstone"}
Announced == \A m \in MessageIds \ (crossed \cup late \cup unheard) :
  TellsIt(m) \/ (shown[m].state = messages[m].state /\ shown[m].body = messages[m].body)

-------------------------------------------------------------------------------
(* Link previews.                                                          *)

\* The last work there is for a message is of its text.
SendsIt(m)  == \E p \in Requests : req[p].on = m /\ req[p].at \in Telling
Waits(m)    == \E i \in DOMAIN jobs : jobs[i].on = m
WaitsLast(m) == \E i \in DOMAIN jobs :
  /\ jobs[i].on = m /\ jobs[i].body = messages[m].body
  /\ \A j \in DOMAIN jobs : j > i => jobs[j].on # m
Works(m)    == worker.at = "process" /\ worker.on = m
Follows(m)  ==
  \/ SendsIt(m)
  \/ WaitsLast(m)
  \/ ~Waits(m) /\ Works(m) /\ worker.body = messages[m].body
  \/ ~Waits(m) /\ ~Works(m) /\ previews[m] = messages[m].body.link
Unlinked ==
  /\ \A m \in MessageIds : messages[m].body.link = 0 /\ previews[m] = 0
  /\ \A p \in Requests : req[p].body.link = 0
  /\ jobs = <<>> /\ worker = NoJob
Cards ==
  /\ \A m \in MessageIds \ (crossed \cup cardless) : messages[m].state = "live" => Follows(m)
  /\ e2ee => Unlinked

-------------------------------------------------------------------------------
(* History and search.                                                     *)

\* What has to be listed was, or is beyond the cursor; what was is not.
Backward(r) == ~r.twice /\ (\A x \in r.stay : x \in r.got \/ x < r.cursor) /\ \A x \in r.got : r.cursor <= x
Forward(r)  == ~r.twice /\ (\A x \in r.stay : x \in r.got \/ r.cursor < x) /\ \A x \in r.got : x <= r.cursor
\* The older half is of the rows R, and the newer one of the rows S.
Halves(r, R) == r.stay \subseteq R /\ r.got = Newest({x \in R : x < r.cursor}, OlderShare)
Whole2(r, R, S) == r.stay \subseteq R /\ R \subseteq S
  /\ r.got = Newest({x \in R : x < r.cursor}, OlderShare) \cup Oldest({x \in S : x >= r.cursor}, NewerShare + 1)
KnowsWalk(r) ==
  /\ r.at \in {"before", "after", "older", "newer", "around"} => r.stay \subseteq Rows
  /\ r.at \in Searching => r.stay \subseteq Findable(r.by, r.at)
  /\ r.at \in Searching \cup {"before"} => Backward(r)
  /\ r.at = "after" => Forward(r)
  /\ r.at \in {"older", "newer", "around"} => r.cursor \in r.stay
  /\ r.at = "newer" => \E R \in SUBSET Rows : Halves(r, R)
  /\ r.at = "around" => \E R, S \in SUBSET Rows : Whole2(r, R, S)
  /\ r.at = "listed" => ~r.twice /\ r.stay \subseteq r.got
Walks == \A p \in Requests : KnowsWalk(req[p])

IInv == Typed /\ Numbered /\ Claims /\ Texts /\ Announced /\ Cards /\ Walks

-------------------------------------------------------------------------------
(* What each action does to the request that takes it.                     *)

\* The constants, as the proofs use them.
LEMMA Constants ==
  /\ MaxMessages \in Nat \ {0} /\ PageLimit \in Nat \ {0} /\ QueueDepth \in Nat \ {0}
  /\ MessageIds = 1 .. MaxMessages /\ 1 \in MessageIds /\ MessageIds \subseteq Nat /\ 0 \notin MessageIds
  /\ Users \subseteq Nat /\ 0 \notin Users /\ Users # {}
  /\ IsFiniteSet(Files) /\ Cardinality(Files) \in Nat /\ Files = 1 .. Cardinality(Files) /\ Files \subseteq Nat
  /\ Bodies \subseteq [link : Nat, mentions : SUBSET Users] /\ Erased \in Bodies
  /\ Store!Erased = Erased /\ Erased = [link |-> 0, mentions |-> {}]
  /\ NoRow = [state |-> "none", by |-> 0, key |-> 0, body |-> Erased, files |-> {}] /\ Store!NoRow = NoRow
  /\ Store!MessageIds = MessageIds /\ Store!Nobody = 0
<1>1. Cardinality(Files) \in Nat
  BY MessagesAssumptions, FS_CardinalityType
<1>2. Erased \in Bodies /\ Bodies \subseteq [link : Nat, mentions : SUBSET Users]
  BY MessagesAssumptions
<1> QED BY <1>1, <1>2, MessagesAssumptions DEF MessageIds, Erased, Store!Erased, NoRow, Store!NoRow, Store!MessageIds, Store!Nobody

LEMMA SameCardinality == \A S : Store!Cardinality(S) = Cardinality(S)
BY DEF Store!Cardinality, Cardinality

LEMMA Rowed ==
  /\ Store!MessageRow = [state : {"none", "live", "deleted"}, by : Users \cup {0}, key : Keys \cup {0},
                         body : Bodies, files : SUBSET Files]
  /\ Store!UploadRow = [stored : BOOLEAN, by : Users \cup {0}, msg : MessageIds \cup {0}]
  /\ Store!Links \subseteq Nat /\ 0 \in Store!Links /\ \A b \in Bodies : b.link \in Store!Links
  /\ NoRow \in Store!MessageRow
<1>1. Bodies \cup {Store!Erased} = Bodies
  BY Constants
<1>2. Store!Links = {b.link : b \in Bodies}
  BY <1>1 DEF Store!Links
<1>3. Erased.link = 0
  BY Constants
<1>4. \A b \in Bodies : b.link \in Nat
  BY Constants
<1>5. /\ Store!MessageRow = [state : {"none", "live", "deleted"}, by : Users \cup {0}, key : Keys \cup {0},
                             body : Bodies, files : SUBSET Files]
      /\ Store!UploadRow = [stored : BOOLEAN, by : Users \cup {0}, msg : MessageIds \cup {0}]
  BY <1>1, Constants DEF Store!MessageRow, Store!UploadRow
<1>6. NoRow \in Store!MessageRow
  BY <1>5, Constants
<1> QED BY <1>2, <1>3, <1>4, <1>5, <1>6, Constants

LEMMA IdleIs ==
  /\ Idle \in Request /\ Idle.at = "idle" /\ Idle.on = 0 /\ Idle.held = {} /\ Idle.body = Erased
  /\ Idle.body.link = 0 /\ Idle.got = {} /\ Idle.twice = FALSE /\ Idle.card = 0
BY Constants, Rowed DEF Idle, Request, Places

\* What a request has apart from its walk.
Alike(s, r) ==
  /\ s.at = r.at /\ s.by = r.by /\ s.on = r.on /\ s.key = r.key /\ s.body = r.body /\ s.files = r.files
  /\ s.held = r.held /\ s.drop = r.drop /\ s.tags = r.tags /\ s.card = r.card

\* The others keep what they have.
Rest(X) == \A q \in Requests \ X : req'[q] = req[q]
Ends(p) == Rest({p}) /\ req'[p] = Idle

LEMMA Moved ==
  ASSUME Typed, NEW p \in Requests, NEW r \in Request, req' = [req EXCEPT ![p] = r]
  PROVE  req' \in [Requests -> Request] /\ req'[p] = r /\ Rest({p})
BY DEF Typed, Rest

LEMMA DoneIs == ASSUME Typed, NEW p \in Requests, Done(p) PROVE req' \in [Requests -> Request] /\ Ends(p)
BY Moved, IdleIs DEF Done, Ends

LEMMA ArriveIs ==
  ASSUME Typed, NEW p \in Requests, NEW op \in Operations, NEW u, NEW r \in Request, Arrive(p, op, u, r)
  PROVE  /\ req[p].at = "idle" /\ u \in members /\ u \in Users /\ Rest({p}) /\ req'[p] = r
         /\ req' \in [Requests -> Request] /\ budget' \in [Operations -> Nat]
<1>1. req' = [req EXCEPT ![p] = r] /\ req[p].at = "idle" /\ u \in members
  BY DEF Arrive
<1>2. budget' \in [Operations -> Nat]
  BY DEF Arrive, Typed, Tables
<1> QED BY <1>1, <1>2, Moved DEF Typed, Tables

\* A step that changes only requests and what may still be asked for.
Only == UNCHANGED <<storeVars, mentions, channelVars, enricherVars, shown, ghostVars>>

LEMMA OnlyTyped ==
  ASSUME Typed, Only, req' \in [Requests -> Request], budget' \in [Operations -> Nat]
  PROVE  Typed'
BY DEF Typed, Only, Tables, Histories, Enricher, storeVars, channelVars, enricherVars, ghostVars

\* What an operation begins with.
Begins(p, u) == req[p].at = "idle" /\ Rest({p}) /\ Only /\ Typed' /\ u \in members /\ u \in Users /\ req'[p].by = u

LEMMA SendIs ==
  ASSUME Typed, NEW p \in Requests, SendMessage(p)
  PROVE  \E u : /\ Begins(p, u)
                /\ req'[p].at = "send" /\ req'[p].on = 0 /\ req'[p].key \in Keys /\ req'[p].files \subseteq known
                /\ req'[p].held = {} /\ (e2ee => req'[p].body.link = 0)
<1>1. PICK u \in Authors, key \in Keys, body \in Bodies, files \in SUBSET known :
        /\ e2eeBody(body)
        /\ Arrive(p, "SendMessage", u, [Idle EXCEPT !.at = "send", !.by = u, !.key = key, !.body = body, !.files = files])
  BY DEF SendMessage
<1>2. PICK r : r = [Idle EXCEPT !.at = "send", !.by = u, !.key = key, !.body = body, !.files = files]
  OBVIOUS
<1>3. u \in Users /\ files \subseteq Files
  BY MessagesAssumptions DEF Typed, Tables
<1>4. r \in Request /\ r.at = "send" /\ r.by = u /\ r.on = 0 /\ r.key = key /\ r.body = body /\ r.files = files /\ r.held = {}
  BY <1>1, <1>2, <1>3, IdleIs, Constants DEF Request, Places, OnRow
<1>5. /\ req[p].at = "idle" /\ u \in members /\ Rest({p}) /\ req'[p] = r
      /\ req' \in [Requests -> Request] /\ budget' \in [Operations -> Nat]
  <2>1. "SendMessage" \in Operations
    BY DEF Operations
  <2>2. Arrive(p, "SendMessage", u, r)
    BY <1>1, <1>2
  <2>3. r \in Request
    BY <1>4
  <2> QED BY <2>1, <2>2, <2>3, ArriveIs
<1>6. Only
  BY DEF SendMessage, Only
<1>7. Typed'
  BY <1>5, <1>6, OnlyTyped
<1>8. e2ee => r.body.link = 0
  BY <1>1, <1>4, IdleIs DEF e2eeBody, canMessage
<1> QED BY <1>1, <1>3, <1>4, <1>5, <1>6, <1>7, <1>8 DEF Begins

LEMMA EditIs ==
  ASSUME Typed, NEW p \in Requests, EditMessage(p)
  PROVE  \E u : /\ Begins(p, u)
                /\ req'[p].at = "edit" /\ req'[p].on \in MessageIds /\ messages[req'[p].on] # NoRow
                /\ req'[p].held = {} /\ (e2ee => req'[p].body.link = 0)
<1>1. PICK u \in Users, m \in MessageIds, body \in Bodies :
        /\ canMessage(u, m, "MessageEdit") /\ e2eeBody(body)
        /\ Arrive(p, "EditMessage", u, [Idle EXCEPT !.at = "edit", !.by = u, !.on = m, !.body = body])
  BY DEF EditMessage
<1>2. PICK r : r = [Idle EXCEPT !.at = "edit", !.by = u, !.on = m, !.body = body]
  OBVIOUS
<1>4. r \in Request /\ r.at = "edit" /\ r.by = u /\ r.on = m /\ r.body = body /\ r.held = {}
  BY <1>1, <1>2, IdleIs, Constants DEF Request, Places, OnRow
<1>5. /\ req[p].at = "idle" /\ u \in members /\ Rest({p}) /\ req'[p] = r
      /\ req' \in [Requests -> Request] /\ budget' \in [Operations -> Nat]
  <2>1. "EditMessage" \in Operations
    BY DEF Operations
  <2>2. Arrive(p, "EditMessage", u, r)
    BY <1>1, <1>2
  <2>3. r \in Request
    BY <1>4
  <2> QED BY <2>1, <2>2, <2>3, ArriveIs
<1>6. Only
  BY DEF EditMessage, Only
<1>7. Typed'
  BY <1>5, <1>6, OnlyTyped
<1>8. (e2ee => r.body.link = 0) /\ messages[m] # NoRow
  BY <1>1, <1>4, IdleIs DEF e2eeBody, canMessage
<1> QED BY <1>1, <1>4, <1>5, <1>6, <1>7, <1>8 DEF Begins

LEMMA DeleteIs ==
  ASSUME Typed, NEW p \in Requests, DeleteMessage(p)
  PROVE  \E u : /\ Begins(p, u)
                /\ req'[p].at = "delete" /\ req'[p].on \in MessageIds /\ messages[req'[p].on] # NoRow
                /\ req'[p].held = {} /\ req'[p].body.link = 0
<1>1. PICK u \in Users, m \in MessageIds :
        /\ canMessage(u, m, "MessageDelete")
        /\ Arrive(p, "DeleteMessage", u, [Idle EXCEPT !.at = "delete", !.by = u, !.on = m])
  BY DEF DeleteMessage
<1>2. PICK r : r = [Idle EXCEPT !.at = "delete", !.by = u, !.on = m]
  OBVIOUS
<1>4. r \in Request /\ r.at = "delete" /\ r.by = u /\ r.on = m /\ r.body = Idle.body /\ r.held = {}
  BY <1>1, <1>2, IdleIs, Constants DEF Request, Places, OnRow
<1>5. /\ req[p].at = "idle" /\ u \in members /\ Rest({p}) /\ req'[p] = r
      /\ req' \in [Requests -> Request] /\ budget' \in [Operations -> Nat]
  <2>1. "DeleteMessage" \in Operations
    BY DEF Operations
  <2>2. Arrive(p, "DeleteMessage", u, r)
    BY <1>1, <1>2
  <2>3. r \in Request
    BY <1>4
  <2> QED BY <2>1, <2>2, <2>3, ArriveIs
<1>6. Only
  BY DEF DeleteMessage, Only
<1>7. Typed'
  BY <1>5, <1>6, OnlyTyped
<1>8. r.body.link = 0 /\ messages[m] # NoRow
  BY <1>1, <1>4, IdleIs DEF e2eeBody, canMessage
<1> QED BY <1>1, <1>4, <1>5, <1>6, <1>7, <1>8 DEF Begins

LEMMA ReadIs ==
  ASSUME Typed, NEW p \in Requests, SetReadPosition(p)
  PROVE  \E u : /\ Begins(p, u)
                /\ req'[p].at = "read" /\ req'[p].on \in MessageIds /\ messages[req'[p].on] # NoRow
                /\ req'[p].held = {} /\ req'[p].body.link = 0
<1>1. PICK u \in Users, m \in MessageIds :
        /\ messages[m] # NoRow
        /\ Arrive(p, "SetReadPosition", u, [Idle EXCEPT !.at = "read", !.by = u, !.on = m])
  BY DEF SetReadPosition
<1>2. PICK r : r = [Idle EXCEPT !.at = "read", !.by = u, !.on = m]
  OBVIOUS
<1>4. r \in Request /\ r.at = "read" /\ r.by = u /\ r.on = m /\ r.body = Idle.body /\ r.held = {}
  BY <1>1, <1>2, IdleIs, Constants DEF Request, Places, OnRow
<1>5. /\ req[p].at = "idle" /\ u \in members /\ Rest({p}) /\ req'[p] = r
      /\ req' \in [Requests -> Request] /\ budget' \in [Operations -> Nat]
  <2>1. "SetReadPosition" \in Operations
    BY DEF Operations
  <2>2. Arrive(p, "SetReadPosition", u, r)
    BY <1>1, <1>2
  <2>3. r \in Request
    BY <1>4
  <2> QED BY <2>1, <2>2, <2>3, ArriveIs
<1>6. Only
  BY DEF SetReadPosition, Only
<1>7. Typed'
  BY <1>5, <1>6, OnlyTyped
<1>8. r.body.link = 0 /\ messages[m] # NoRow
  BY <1>1, <1>4, IdleIs DEF e2eeBody, canMessage
<1> QED BY <1>1, <1>4, <1>5, <1>6, <1>7, <1>8 DEF Begins

LEMMA UploadIs ==
  ASSUME Typed, NEW p \in Requests, UploadFile(p)
  PROVE  \E u : /\ Begins(p, u)
                /\ req'[p].at = "blob" /\ req'[p].on = 0 /\ req'[p].held = {} /\ req'[p].body.link = 0
                /\ \E f \in Files : req'[p].files = {f}
                /\ \A f \in req'[p].files : ~attachments[f].stored /\ \A q \in Requests : f \notin req[q].files
<1>1. PICK u \in Users, f \in Files :
        /\ ~attachments[f].stored /\ \A q \in Requests : f \notin req[q].files
        /\ Arrive(p, "UploadFile", u, [Idle EXCEPT !.at = "blob", !.by = u, !.files = {f}])
  BY DEF UploadFile
<1>2. PICK r : r = [Idle EXCEPT !.at = "blob", !.by = u, !.files = {f}]
  OBVIOUS
<1>4. r \in Request /\ r.at = "blob" /\ r.by = u /\ r.on = 0 /\ r.body = Idle.body /\ r.held = {} /\ r.files = {f}
  BY <1>1, <1>2, IdleIs, Constants DEF Request, Places, Uploading
<1>5. /\ req[p].at = "idle" /\ u \in members /\ Rest({p}) /\ req'[p] = r
      /\ req' \in [Requests -> Request] /\ budget' \in [Operations -> Nat]
  <2>1. "UploadFile" \in Operations
    BY DEF Operations
  <2>2. Arrive(p, "UploadFile", u, r)
    BY <1>1, <1>2
  <2>3. r \in Request
    BY <1>4
  <2> QED BY <2>1, <2>2, <2>3, ArriveIs
<1>6. Only
  BY DEF UploadFile, Only
<1>7. Typed'
  BY <1>5, <1>6, OnlyTyped
<1>8. r.body.link = 0
  BY <1>1, <1>4, IdleIs DEF e2eeBody, canMessage
<1> QED BY <1>1, <1>4, <1>5, <1>6, <1>7, <1>8 DEF Begins

LEMMA ListIs ==
  ASSUME Typed, NEW p \in Requests, ListMessages(p)
  PROVE  \E u : /\ Begins(p, u)
                /\ req'[p].at \in {"before", "after", "older"} /\ req'[p].on = 0 /\ req'[p].held = {} /\ req'[p].body.link = 0
                /\ req'[p].got = {} /\ req'[p].twice = FALSE /\ req'[p].stay = Rows
                /\ (req'[p].at = "before" => req'[p].cursor = MaxMessages + 1) /\ (req'[p].at = "after" => req'[p].cursor = 0)
                /\ (req'[p].at = "older" => req'[p].cursor \in Rows)
<1>1. PICK u \in Users, way \in {"before", "after", "older"}, anchor \in Rows :
        /\ Arrive(p, "ListMessages", u, [Idle EXCEPT !.at = way, !.by = u, !.stay = Rows,
          !.cursor = CASE way = "before" -> MaxMessages + 1 [] way = "after" -> 0 [] OTHER -> anchor])
  BY DEF ListMessages
<1>2. PICK r : r = [Idle EXCEPT !.at = way, !.by = u, !.stay = Rows,
          !.cursor = CASE way = "before" -> MaxMessages + 1 [] way = "after" -> 0 [] OTHER -> anchor]
  OBVIOUS
<1>3. PICK c : c = CASE way = "before" -> MaxMessages + 1 [] way = "after" -> 0 [] OTHER -> anchor
  OBVIOUS
<1>b. r = [Idle EXCEPT !.at = way, !.by = u, !.stay = Rows, !.cursor = c]
  BY <1>2, <1>3
<1>a. c \in Nat /\ Rows \subseteq Nat /\ (way = "before" => c = MaxMessages + 1) /\ (way = "after" => c = 0) /\ (way = "older" => c = anchor)
  BY <1>3, Constants DEF Rows, Store!Rows
<1>4. r \in Request /\ r.at = way /\ r.by = u /\ r.on = 0 /\ r.body = Idle.body /\ r.held = {} /\ r.got = {} /\ r.twice = FALSE /\ r.stay = Rows
      /\ r.cursor = c
  BY <1>1, <1>b, <1>a, IdleIs, Constants DEF Request, Places, Walking
<1>5. /\ req[p].at = "idle" /\ u \in members /\ Rest({p}) /\ req'[p] = r
      /\ req' \in [Requests -> Request] /\ budget' \in [Operations -> Nat]
  <2>1. "ListMessages" \in Operations
    BY DEF Operations
  <2>2. Arrive(p, "ListMessages", u, r)
    BY <1>1, <1>2, <1>3
  <2>3. r \in Request
    BY <1>4
  <2> QED BY <2>1, <2>2, <2>3, ArriveIs
<1>6. Only
  BY DEF ListMessages, Only
<1>7. Typed'
  BY <1>5, <1>6, OnlyTyped
<1>8. r.body.link = 0
  BY <1>1, <1>4, IdleIs DEF e2eeBody, canMessage
<1> QED BY <1>1, <1>a, <1>4, <1>5, <1>6, <1>7, <1>8 DEF Begins

\* What a search finds are numbers below the first cursor.
LEMMA FoundIsNumber ==
  ASSUME Typed, NEW u, NEW kind \in Searching
  PROVE  /\ Findable(u, kind) \subseteq Nat
         /\ \A x \in Findable(u, kind) : x < (MaxMessages + 1) * (Cardinality(Files) + 1)
<1> DEFINE n == Cardinality(Files)
<1>1. /\ MaxMessages \in Nat /\ n \in Nat
  BY Constants
<1>2. ASSUME NEW m \in MessageIds PROVE m \in Nat /\ m < (MaxMessages + 1) * (n + 1)
  <2>1. m \in Nat /\ m <= MaxMessages
    BY Constants
  <2>2. MaxMessages + 1 <= (MaxMessages + 1) * (n + 1)
    BY <1>1
  <2> HIDE DEF n
  <2> QED BY <1>1, <2>1, <2>2
<1>3. ASSUME NEW m \in MessageIds, NEW f \in Files
      PROVE  m * (n + 1) + f \in Nat /\ m * (n + 1) + f < (MaxMessages + 1) * (n + 1)
  <2>1. m \in Nat /\ m <= MaxMessages /\ f \in Nat /\ f <= n
    BY Constants
  <2> HIDE DEF n
  <2>2. PICK d \in Nat : MaxMessages = m + d
    <3>1. MaxMessages - m \in Nat /\ MaxMessages = m + (MaxMessages - m)
      BY <1>1, <2>1
    <3> QED BY <3>1
  <2>3. (m + d + 1) * (n + 1) = m * (n + 1) + d * (n + 1) + (n + 1)
    BY <1>1, <2>1
  <2>4. m * (n + 1) \in Nat /\ d * (n + 1) \in Nat
    BY <1>1, <2>1
  <2>5. m * (n + 1) + f < m * (n + 1) + d * (n + 1) + (n + 1)
    BY <1>1, <2>1, <2>4
  <2> QED BY <1>1, <2>1, <2>2, <2>3, <2>4, <2>5
<1> HIDE DEF n
<1>4. Store!Searchable \subseteq MessageIds
  BY Constants DEF Store!Searchable, Store!Rows
<1>5. ASSUME NEW x \in Store!SearchableFiles PROVE \E m \in MessageIds, f \in Files : x = m * (n + 1) + f
  <2>1. PICK f \in Files : attachments[f].msg \in Store!Searchable /\ x = Store!FilePlace(f)
    BY DEF Store!SearchableFiles
  <2>2. attachments[f].msg \in MessageIds
    BY <1>4, <2>1
  <2>3. x = attachments[f].msg * (n + 1) + f
    BY <2>1, SameCardinality DEF Store!FilePlace, n
  <2> QED BY <2>2, <2>3
<1>9. Findable(u, kind) = {} \/ Findable(u, kind) = Store!Searchable \/ Findable(u, kind) = Store!SearchableFiles
  BY DEF Findable
<1>10. CASE Findable(u, kind) = {}
  BY <1>10
<1>11. CASE Findable(u, kind) = Store!Searchable
  BY <1>2, <1>4, <1>11 DEF n
<1>12. CASE Findable(u, kind) = Store!SearchableFiles
  BY <1>3, <1>5, <1>12 DEF n
<1> QED BY <1>9, <1>10, <1>11, <1>12

LEMMA SearchIs ==
  ASSUME Typed, NEW p \in Requests, Search(p)
  PROVE  \E u : /\ Begins(p, u)
                /\ req'[p].at \in {"search", "files"} /\ req'[p].on = 0 /\ req'[p].held = {} /\ req'[p].body.link = 0
                /\ req'[p].got = {} /\ req'[p].twice = FALSE /\ req'[p].stay = Findable(u, req'[p].at)
                /\ req'[p].cursor = (MaxMessages + 1) * (Cardinality(Files) + 1)
<1>1. PICK u \in Users, kind \in {"search", "files"} :
        /\ Arrive(p, "Search", u, [Idle EXCEPT !.at = kind, !.by = u, !.stay = Findable(u, kind),
                                         !.cursor = (MaxMessages + 1) * (Cardinality(Files) + 1)])
  BY DEF Search
<1>2. PICK r : r = [Idle EXCEPT !.at = kind, !.by = u, !.stay = Findable(u, kind),
                                         !.cursor = (MaxMessages + 1) * (Cardinality(Files) + 1)]
  OBVIOUS
<1>3. PICK c, F : c = (MaxMessages + 1) * (Cardinality(Files) + 1) /\ F = Findable(u, kind)
  OBVIOUS
<1>a. c \in Nat /\ F \subseteq Nat
  BY <1>3, Constants, FoundIsNumber DEF Searching
<1>4. r \in Request /\ r.at = kind /\ r.by = u /\ r.on = 0 /\ r.body = Idle.body /\ r.held = {} /\ r.got = {} /\ r.twice = FALSE /\ r.stay = F
      /\ r.cursor = c
  BY <1>1, <1>2, <1>3, <1>a, IdleIs, Constants DEF Request, Places, Walking, Searching
<1>5. /\ req[p].at = "idle" /\ u \in members /\ Rest({p}) /\ req'[p] = r
      /\ req' \in [Requests -> Request] /\ budget' \in [Operations -> Nat]
  <2>1. "Search" \in Operations
    BY DEF Operations
  <2>2. Arrive(p, "Search", u, r)
    BY <1>1, <1>2, <1>3
  <2>3. r \in Request
    BY <1>4
  <2> QED BY <2>1, <2>2, <2>3, ArriveIs
<1>6. Only
  BY DEF Search, Only
<1>7. Typed'
  BY <1>5, <1>6, OnlyTyped
<1>8. r.body.link = 0
  BY <1>1, <1>4, IdleIs DEF e2eeBody, canMessage
<1> QED BY <1>1, <1>3, <1>a, <1>4, <1>5, <1>6, <1>7, <1>8 DEF Begins

\* A set of numbers that is not empty has a least one.
LEMMA SmallestOf ==
  ASSUME NEW S, S \subseteq Nat, S # {}
  PROVE  \E x \in S : \A y \in S : x <= y
<1> DEFINE R == {ss \in Nat \X Nat : ss[1] < ss[2]}
<1>1. IsWellFoundedOn(R, Nat)
  BY NatLessThanWellFounded DEF OpToRel
<1> HIDE DEF R
<1>2. PICK x \in S : \A y \in S : ~(<<y, x>> \in R)
  BY <1>1, WFMin
<1>3. ASSUME NEW y \in S PROVE x <= y
  <2>1. x \in Nat /\ y \in Nat /\ ~(<<y, x>> \in R)
    BY <1>2
  <2> QED BY <2>1 DEF R
<1> QED BY <1>3

\* An id that no row and no request has.
New(m) == m \in MessageIds /\ messages[m] = NoRow /\ \A q \in Requests : req[q].on # m

LEMMA FreeIdIs == HasFreeId => New(FreeId)
<1> SUFFICES ASSUME HasFreeId PROVE New(FreeId)
  OBVIOUS
<1> DEFINE S == {m \in MessageIds : ~Taken(m)}
<1>1. S # {}
  BY DEF HasFreeId
<1>2. S \subseteq Nat
  BY Constants
<1>3. PICK m \in S : \A n \in S : m <= n
  BY <1>1, <1>2, SmallestOf
<1>4. ASSUME NEW n \in 1 .. m - 1 PROVE Taken(n)
  <2>1. m \in 1 .. MaxMessages /\ MaxMessages \in Nat
    BY <1>3, Constants
  <2>2. n \in MessageIds /\ ~(m <= n)
    BY <2>1, Constants
  <2> QED BY <1>3, <2>2
<1>5. FreeId \in MessageIds /\ ~Taken(FreeId)
  BY <1>3, <1>4 DEF FreeId
<1> QED BY <1>5 DEF New, Taken

SameText(s, r) == s.by = r.by /\ s.key = r.key /\ s.body = r.body /\ s.files = r.files

LEMMA RowOfIs ==
  ASSUME NEW r \in Request
  PROVE  /\ RowOf(r).state = "live" /\ RowOf(r).by = r.by /\ RowOf(r).key = r.key /\ RowOf(r).body = r.body
         /\ RowOf(r).files = r.files /\ RowOf(r) # NoRow /\ RowOf(r) \in Store!MessageRow
BY Rowed, Constants DEF RowOf, Request

\* The row with the given id is new.
Puts(m, r) == messages' = [messages EXCEPT ![m] = RowOf(r)]

LEMMA PutsIs ==
  ASSUME Typed, NEW m \in MessageIds, NEW r \in Request, Puts(m, r)
  PROVE  /\ messages' \in [MessageIds -> Store!MessageRow] /\ messages'[m] = RowOf(r)
         /\ \A n \in MessageIds \ {m} : messages'[n] = messages[n]
BY RowOfIs DEF Puts, Typed, Tables

Fixed == UNCHANGED <<previews, readpos, members, e2ee, blobs, known, jobs, worker, shown, budget, crossed, late, unheard, cardless, moved>>

LEMMA InsertIs ==
  ASSUME Typed, NEW p \in Requests, InsertMessage(p)
  PROVE  /\ req[p].at = "send" /\ ~KeyHeld(p) /\ Typed' /\ Fixed /\ UNCHANGED attachments /\ Rest({p})
         /\ \/ req'[p] = Idle /\ UNCHANGED <<messages, mentions>>
            \/ /\ ~KeyUsed(p) /\ req[p].files = {}
               /\ \E m : /\ New(m) /\ Puts(m, req[p])
                         /\ mentions' = mentions \cup Tagging(m, req[p].body.mentions \cap members)
                         /\ req'[p].at = "announce" /\ req'[p].on = m /\ SameText(req'[p], req[p])
                         /\ req'[p].held = req[p].held /\ req'[p].card = req[p].card
            \/ /\ ~KeyUsed(p) /\ req[p].files # {} /\ UNCHANGED <<messages, mentions>>
               /\ New(req'[p].on) /\ req'[p].at = "claim" /\ SameText(req'[p], req[p])
               /\ req'[p].held = req[p].held /\ req'[p].tags = req[p].body.mentions \cap members
<1>1. req[p].at = "send" /\ ~KeyHeld(p) /\ Fixed /\ UNCHANGED attachments /\ req[p] \in Request
  BY DEF InsertMessage, Fixed, channelVars, enricherVars, ghostVars, Typed
<1>2. /\ UNCHANGED <<messages, mentions>> \/ (messages' \in [MessageIds -> Store!MessageRow] /\ mentions' \subseteq MessageIds \X Users)
      /\ req' \in [Requests -> Request]
      => Typed'
  BY <1>1 DEF Typed, Tables, Histories, Enricher, Fixed
<1>3. CASE KeyUsed(p)
  <2>1. Done(p) /\ UNCHANGED <<messages, mentions>>
    BY <1>3 DEF InsertMessage
  <2> QED BY <1>1, <1>2, <2>1, DoneIs DEF Ends
<1>4. CASE ~KeyUsed(p) /\ req[p].files = {}
  <2>1. PICK m : m = FreeId
    OBVIOUS
  <2>2. /\ New(m) /\ Puts(m, req[p]) /\ mentions' = mentions \cup Tagging(m, req[p].body.mentions \cap members)
        /\ req' = [req EXCEPT ![p].at = "announce", ![p].on = m]
    BY <1>4, <2>1, FreeIdIs DEF InsertMessage, Puts
  <2>3. PICK r : r = [req[p] EXCEPT !.at = "announce", !.on = m]
    OBVIOUS
  <2>4. m \in MessageIds
    BY <2>2 DEF New
  <2>5. r \in Request /\ r.at = "announce" /\ r.on = m /\ SameText(r, req[p]) /\ r.held = req[p].held /\ r.card = req[p].card
    BY <1>1, <2>3, <2>4 DEF Request, Places, OnRow, Writing, Telling, SameText
  <2>6. req' = [req EXCEPT ![p] = r]
    BY <1>1, <2>2, <2>3 DEF Typed, Request
  <2>7. req' \in [Requests -> Request] /\ req'[p] = r /\ Rest({p})
    BY <2>5, <2>6, Moved
  <2>8. messages' \in [MessageIds -> Store!MessageRow]
    BY <1>1, <2>2, <2>4, PutsIs
  <2>9. mentions' \subseteq MessageIds \X Users
    BY <2>2, <2>4 DEF Tagging, Typed, Tables
  <2> QED BY <1>1, <1>2, <1>4, <2>2, <2>5, <2>7, <2>8, <2>9
<1>5. CASE ~KeyUsed(p) /\ req[p].files # {}
  <2>1. PICK m : m = FreeId
    OBVIOUS
  <2>0. PICK t : t = req[p].body.mentions \cap members
    OBVIOUS
  <2>2. /\ New(m) /\ UNCHANGED <<messages, mentions>>
        /\ req' = [req EXCEPT ![p].at = "claim", ![p].on = m, ![p].tags = t]
    BY <1>5, <2>0, <2>1, FreeIdIs DEF InsertMessage
  <2>3. PICK r : r = [req[p] EXCEPT !.at = "claim", !.on = m, !.tags = t]
    OBVIOUS
  <2>4. m \in MessageIds /\ t \subseteq Users
    BY <2>0, <2>2 DEF New, Typed, Tables
  <2>5. r \in Request /\ r.at = "claim" /\ r.on = m /\ SameText(r, req[p]) /\ r.held = req[p].held /\ r.tags = t
    BY <1>1, <2>3, <2>4 DEF Request, Places, Claiming, SameText
  <2>6. req' = [req EXCEPT ![p] = r]
    BY <1>1, <2>2, <2>3 DEF Typed, Request
  <2>7. req' \in [Requests -> Request] /\ req'[p] = r /\ Rest({p})
    BY <2>5, <2>6, Moved
  <2> QED BY <1>1, <1>2, <1>5, <2>0, <2>2, <2>5, <2>7
<1> QED BY <1>3, <1>4, <1>5

LEMMA ClaimIs ==
  ASSUME Typed, NEW p \in Requests, ClaimAttachment(p)
  PROVE  /\ req[p].at = "claim" /\ Typed' /\ Only /\ Rest({p})
         /\ \/ req'[p] = Idle
            \/ \E f \in Files : /\ NextFile(p, f) /\ Claimable(p, f) /\ \A q \in Requests \ {p} : f \notin req[q].held
                                /\ req'[p].at = (IF Unlocked(p) = {f} THEN "claimed" ELSE "claim")
                                /\ req'[p].held = req[p].held \cup {f} /\ req'[p].on = req[p].on
                                /\ SameText(req'[p], req[p]) /\ req'[p].tags = req[p].tags
<1>1. req[p].at = "claim" /\ Only /\ req[p] \in Request /\ UNCHANGED budget
  BY DEF ClaimAttachment, Only, Typed
<1>2. req' \in [Requests -> Request] => Typed'
  BY <1>1, OnlyTyped DEF Typed, Tables
<1>3. PICK f \in Files :
        /\ NextFile(p, f) /\ \A q \in Requests \ {p} : ~LockedBy(q, f)
        /\ IF Claimable(p, f)
             THEN req' = [req EXCEPT ![p].held = @ \cup {f}, ![p].at = IF Unlocked(p) = {f} THEN "claimed" ELSE @]
             ELSE Done(p)
  BY DEF ClaimAttachment
<1>4. CASE ~Claimable(p, f)
  BY <1>1, <1>2, <1>3, <1>4, DoneIs DEF Ends
<1>5. CASE Claimable(p, f)
  <2>1. PICK a : a = IF Unlocked(p) = {f} THEN "claimed" ELSE "claim"
    OBVIOUS
  <2>2. PICK r : r = [req[p] EXCEPT !.held = @ \cup {f}, !.at = a]
    OBVIOUS
  <2>3. r \in Request /\ r.at = a /\ r.on = req[p].on /\ SameText(r, req[p]) /\ r.held = req[p].held \cup {f} /\ r.tags = req[p].tags
    BY <1>1, <2>1, <2>2 DEF Request, Places, Claiming, SameText
  <2>4. req' = [req EXCEPT ![p] = r]
    BY <1>1, <1>3, <1>5, <2>1, <2>2 DEF Typed, Request
  <2>5. req' \in [Requests -> Request] /\ req'[p] = r /\ Rest({p})
    BY <2>3, <2>4, Moved
  <2>6. \A q \in Requests \ {p} : f \notin req[q].held
    BY <1>3 DEF LockedBy
  <2> QED BY <1>1, <1>2, <1>3, <1>5, <2>1, <2>3, <2>5, <2>6
<1> QED BY <1>4, <1>5

LEMMA CommitIs ==
  ASSUME Typed, NEW p \in Requests, CommitMessage(p), req[p].on \in MessageIds
  PROVE  /\ req[p].at = "claimed" /\ Typed' /\ Fixed /\ Rest({p})
         /\ Puts(req[p].on, req[p]) /\ Attach(p) /\ mentions' = mentions \cup Tagging(req[p].on, req[p].tags)
         /\ req'[p].at = "announce" /\ req'[p].on = req[p].on /\ SameText(req'[p], req[p])
         /\ req'[p].held = {} /\ req'[p].card = req[p].card
<1>1. req[p].at = "claimed" /\ Fixed /\ req[p] \in Request
  BY DEF CommitMessage, Fixed, channelVars, enricherVars, ghostVars, Typed
<1>2. Puts(req[p].on, req[p]) /\ Attach(p) /\ mentions' = mentions \cup Tagging(req[p].on, req[p].tags)
  BY DEF CommitMessage, Puts
<1>3. PICK r : r = [req[p] EXCEPT !.at = "announce", !.held = {}]
  OBVIOUS
<1>4. r \in Request /\ r.at = "announce" /\ r.on = req[p].on /\ SameText(r, req[p]) /\ r.held = {} /\ r.card = req[p].card
  BY <1>1, <1>3 DEF Request, Places, OnRow, Writing, Telling, SameText
<1>5. req' = [req EXCEPT ![p] = r]
  BY <1>1, <1>3 DEF CommitMessage, Typed, Request
<1>6. req' \in [Requests -> Request] /\ req'[p] = r /\ Rest({p})
  BY <1>4, <1>5, Moved
<1>7. messages' \in [MessageIds -> Store!MessageRow]
  BY <1>1, <1>2, PutsIs
<1>8. mentions' \subseteq MessageIds \X Users
  <2>1. req[p].tags \subseteq Users
    BY <1>1 DEF Request
  <2> QED BY <1>2, <2>1 DEF Tagging, Typed, Tables
<1>9. attachments' \in [Files -> Store!UploadRow]
  <2>1. ASSUME NEW f \in Files
        PROVE  [attachments[f] EXCEPT !.msg = req[p].on] \in Store!UploadRow /\ attachments[f] \in Store!UploadRow
    <3>1. attachments[f] \in Store!UploadRow
      BY DEF Typed, Tables
    <3>2. attachments[f] \in [stored : BOOLEAN, by : Users \cup {0}, msg : MessageIds \cup {0}]
      BY <3>1, Rowed
    <3>3. [attachments[f] EXCEPT !.msg = req[p].on] \in [stored : BOOLEAN, by : Users \cup {0}, msg : MessageIds \cup {0}]
      BY <3>2
    <3> QED BY <3>1, <3>3, Rowed
  <2> QED BY <1>2, <2>1 DEF Attach
<1>10. Typed'
  BY <1>1, <1>6, <1>7, <1>8, <1>9 DEF Typed, Tables, Histories, Enricher, Fixed
<1> QED BY <1>1, <1>2, <1>4, <1>6, <1>10

LEMMA RollbackIs ==
  ASSUME Typed, NEW p \in Requests, RollbackMessage(p) \/ FinishList(p)
  PROVE  /\ req[p].at \in Claiming \cup {"listed", "around"} /\ Ends(p) /\ Only /\ Typed'
<1>1. Done(p) /\ Only /\ req[p].at \in Claiming \cup {"listed", "around"} /\ UNCHANGED budget
  BY DEF RollbackMessage, FinishList, Only, Claiming
<1>2. req' \in [Requests -> Request] /\ Ends(p)
  BY <1>1, DoneIs
<1> QED BY <1>1, <1>2, OnlyTyped DEF Typed, Tables

LEMMA CutOffIs ==
  ASSUME Typed, NEW p \in Requests, CutOff(p), req[p].on \in MessageIds
  PROVE  /\ unheard' = unheard \cup {req[p].on} /\ cardless' = cardless \cup {req[p].on} /\ Ends(p) /\ Typed'
         /\ UNCHANGED <<storeVars, mentions, channelVars, enricherVars, shown, crossed, late, moved>>
<1>1. req' \in [Requests -> Request] /\ Ends(p)
  BY DoneIs DEF CutOff
<1>2. /\ unheard' = unheard \cup {req[p].on} /\ cardless' = cardless \cup {req[p].on} /\ UNCHANGED budget
      /\ UNCHANGED <<storeVars, mentions, channelVars, enricherVars, shown, crossed, late, moved>>
  BY DEF CutOff
<1>3. Typed'
  BY <1>1, <1>2 DEF Typed, Tables, Histories, Enricher, storeVars, channelVars, enricherVars
<1> QED BY <1>1, <1>2, <1>3

LEMMA AnnounceIs ==
  ASSUME Typed, NEW p \in Requests, AnnounceMessage(p), req[p].on \in MessageIds
  PROVE  /\ req[p].at = "announce" /\ Rest({p}) /\ Typed'
         /\ shown'[req[p].on].state = "live" /\ shown'[req[p].on].body = req[p].body
         /\ \A m \in MessageIds \ {req[p].on} : shown'[m] = shown[m]
         /\ req'[p].at = "enrich" /\ req'[p].on = req[p].on /\ SameText(req'[p], req[p]) /\ req'[p].held = req[p].held
         /\ UNCHANGED <<storeVars, mentions, channelVars, enricherVars>> /\ Corrected(req[p].on)
<1>1. /\ req[p].at = "announce" /\ req[p] \in Request /\ Corrected(req[p].on)
      /\ UNCHANGED <<storeVars, mentions, channelVars, enricherVars, budget>>
  BY DEF AnnounceMessage, Typed
<1>2. PICK t : t = [state |-> "live", body |-> req[p].body, card |-> req[p].card]
  OBVIOUS
<1>3. shown' = [shown EXCEPT ![req[p].on] = t]
  BY <1>2 DEF AnnounceMessage
<1>4. t \in Told /\ t.state = "live" /\ t.body = req[p].body
  BY <1>1, <1>2 DEF Told, Request
<1>5. PICK r : r = [req[p] EXCEPT !.at = "enrich"]
  OBVIOUS
<1>6. r \in Request /\ r.at = "enrich" /\ r.on = req[p].on /\ SameText(r, req[p]) /\ r.held = req[p].held
  BY <1>1, <1>5 DEF Request, Places, OnRow, Writing, Telling, SameText
<1>7. req' = [req EXCEPT ![p] = r]
  BY <1>1, <1>5 DEF AnnounceMessage, Goto, Typed, Request
<1>8. req' \in [Requests -> Request] /\ req'[p] = r /\ Rest({p})
  BY <1>6, <1>7, Moved
<1>9. shown' \in [MessageIds -> Told] /\ shown'[req[p].on] = t /\ \A m \in MessageIds \ {req[p].on} : shown'[m] = shown[m]
  BY <1>3, <1>4 DEF Typed, Tables
<1>10. Typed'
  BY <1>1, <1>8, <1>9 DEF Typed, Tables, Histories, Enricher, storeVars, channelVars, enricherVars, Corrected
<1> QED BY <1>1, <1>4, <1>6, <1>8, <1>9, <1>10

\* The copy of a message that is handed to the enricher.
JobOf(r) == [at |-> "process", on |-> r.on, body |-> r.body, card |-> r.card]

LEMMA EnqueueIs ==
  ASSUME Typed, NEW p \in Requests, Enqueue(p), req[p].on \in MessageIds
  PROVE  /\ req[p].at = "enrich" /\ Ends(p) /\ Typed'
         /\ UNCHANGED <<storeVars, mentions, channelVars, worker, shown, crossed, late, unheard, moved>>
         /\ \/ e2ee /\ UNCHANGED <<jobs, cardless>>
            \/ ~e2ee /\ jobs' = jobs /\ cardless' = cardless \cup {req[p].on}
            \/ ~e2ee /\ jobs' = Append(jobs, JobOf(req[p])) /\ UNCHANGED cardless
<1>1. /\ req[p].at = "enrich" /\ req[p] \in Request /\ UNCHANGED budget
      /\ UNCHANGED <<storeVars, mentions, channelVars, worker, shown, crossed, late, unheard, moved>>
  BY DEF Enqueue, Typed
<1>2. req' \in [Requests -> Request] /\ Ends(p)
  BY DoneIs DEF Enqueue
<1>3. /\ jobs' = (IF e2ee \/ Len(jobs) = QueueDepth THEN jobs ELSE Append(jobs, JobOf(req[p])))
      /\ cardless' = (IF ~e2ee /\ Len(jobs) = QueueDepth THEN cardless \cup {req[p].on} ELSE cardless)
  BY DEF Enqueue, JobOf
<1>4. JobOf(req[p]) \in Job
  BY <1>1 DEF JobOf, Job, Request
<1>5. jobs' \in Seq(Job) /\ Len(jobs') <= QueueDepth
  <2>1. CASE jobs' = jobs
    BY <2>1 DEF Typed, Enricher
  <2>2. CASE jobs' # jobs
    <3>1. jobs' = Append(jobs, JobOf(req[p])) /\ Len(jobs) # QueueDepth
      BY <1>3, <2>2
    <3> QED BY <1>4, <3>1, Constants DEF Typed, Enricher
  <2> QED BY <2>1, <2>2
<1>6. cardless' \subseteq MessageIds
  BY <1>3 DEF Typed, Histories
<1>7. Typed'
  BY <1>1, <1>2, <1>5, <1>6 DEF Typed, Tables, Histories, Enricher, storeVars, channelVars
<1> QED BY <1>1, <1>2, <1>3, <1>7

\* Another write of the message that is under way is noted.
LEMMA CrossingIs ==
  ASSUME Typed, NEW p \in Requests, NEW m \in MessageIds, Crossing(p, m)
  PROVE  /\ crossed \subseteq crossed' /\ crossed' \subseteq crossed \cup {m} /\ crossed' \subseteq MessageIds
         /\ m \notin crossed' => \A q \in Requests \ {p} : req[q].at \in Writing => req[q].on # m
BY DEF Crossing, Overlaps, Writing, Telling, Typed, Histories

LEMMA BeginUpdateIs ==
  ASSUME Typed, NEW p \in Requests, BeginUpdate(p), req[p].on \in MessageIds
  PROVE  /\ req[p].at = "edit" /\ Rest({p}) /\ Typed' /\ Crossing(p, req[p].on)
         /\ req'[p].at = "apply" /\ req'[p].on = req[p].on /\ SameText(req'[p], req[p]) /\ req'[p].held = req[p].held
         /\ req'[p].drop = MentionsOf(req[p].on) \ req[p].body.mentions
         /\ req'[p].tags = req[p].body.mentions \cap members
         /\ UNCHANGED <<storeVars, mentions, channelVars, enricherVars, shown, late, unheard, cardless, moved>>
<1>1. /\ req[p].at = "edit" /\ req[p] \in Request /\ UNCHANGED budget /\ Crossing(p, req[p].on)
      /\ UNCHANGED <<storeVars, mentions, channelVars, enricherVars, shown, late, unheard, cardless, moved>>
  BY DEF BeginUpdate, Typed
<1>2. PICK d : d = MentionsOf(req[p].on) \ req[p].body.mentions
  OBVIOUS
<1>3. PICK t : t = req[p].body.mentions \cap members
  OBVIOUS
<1>4. d \subseteq Users /\ t \subseteq Users
  BY <1>2, <1>3 DEF MentionsOf, Typed, Tables
<1>5. PICK r : r = [req[p] EXCEPT !.at = "apply", !.drop = d, !.tags = t]
  OBVIOUS
<1>6. /\ r \in Request /\ r.at = "apply" /\ r.on = req[p].on /\ SameText(r, req[p]) /\ r.held = req[p].held
      /\ r.drop = d /\ r.tags = t
  BY <1>1, <1>4, <1>5 DEF Request, Places, OnRow, Writing, SameText
<1>7. req' = [req EXCEPT ![p] = r]
  BY <1>1, <1>2, <1>3, <1>5 DEF BeginUpdate, Typed, Request
<1>8. req' \in [Requests -> Request] /\ req'[p] = r /\ Rest({p})
  BY <1>6, <1>7, Moved
<1>9. crossed' \subseteq MessageIds
  BY <1>1, CrossingIs
<1>10. Typed'
  BY <1>1, <1>8, <1>9 DEF Typed, Tables, Histories, Enricher, storeVars, channelVars, enricherVars
<1> QED BY <1>1, <1>2, <1>3, <1>6, <1>8, <1>10

\* The row has another text.
Edited(m, b) ==
  /\ \A n \in MessageIds \ {m} : messages'[n] = messages[n]
  /\ messages'[m].state = messages[m].state /\ messages'[m].by = messages[m].by /\ messages'[m].key = messages[m].key
  /\ messages'[m].files = messages[m].files /\ messages'[m].body = b /\ messages' = [messages EXCEPT ![m].body = b]

LEMMA UpdateIs ==
  ASSUME Typed, NEW p \in Requests, UpdateMessageContent(p), req[p].on \in MessageIds
  PROVE  /\ req[p].at = "apply" /\ Rest({p}) /\ Typed'
         /\ UNCHANGED <<attachments, previews, readpos, channelVars, enricherVars, shown, ghostVars>>
         /\ \/ req'[p] = Idle /\ UNCHANGED <<messages, mentions>>
            \/ /\ messages[req[p].on].state # "deleted" /\ Edited(req[p].on, req[p].body)
               /\ mentions' = (mentions \ Tagging(req[p].on, req[p].drop)) \cup Tagging(req[p].on, req[p].tags)
               /\ req'[p].at = "cards" /\ req'[p].on = req[p].on /\ SameText(req'[p], req[p]) /\ req'[p].held = req[p].held
<1>1. /\ req[p].at = "apply" /\ req[p] \in Request /\ UNCHANGED budget
      /\ UNCHANGED <<attachments, previews, readpos, channelVars, enricherVars, shown, ghostVars>>
  BY DEF UpdateMessageContent, Typed
<1>2. messages' \in [MessageIds -> Store!MessageRow] /\ mentions' \subseteq MessageIds \X Users /\ req' \in [Requests -> Request] => Typed'
  BY <1>1 DEF Typed, Tables, Histories, Enricher, channelVars, enricherVars, ghostVars
<1>3. CASE messages[req[p].on].state = "deleted"
  <2>1. Done(p) /\ UNCHANGED <<messages, mentions>>
    BY <1>3 DEF UpdateMessageContent
  <2>2. req' \in [Requests -> Request] /\ Ends(p)
    BY <2>1, DoneIs
  <2>3. messages' \in [MessageIds -> Store!MessageRow] /\ mentions' \subseteq MessageIds \X Users
    BY <2>1 DEF Typed, Tables
  <2> QED BY <1>1, <1>2, <2>1, <2>2, <2>3 DEF Ends
<1>4. CASE messages[req[p].on].state # "deleted"
  <2>1. /\ messages' = [messages EXCEPT ![req[p].on].body = req[p].body]
        /\ mentions' = (mentions \ Tagging(req[p].on, req[p].drop)) \cup Tagging(req[p].on, req[p].tags)
        /\ req' = [req EXCEPT ![p].at = "cards", ![p].drop = {}]
    BY <1>4 DEF UpdateMessageContent
  <2>2. PICK r : r = [req[p] EXCEPT !.at = "cards", !.drop = {}]
    OBVIOUS
  <2>3. r \in Request /\ r.at = "cards" /\ r.on = req[p].on /\ SameText(r, req[p]) /\ r.held = req[p].held
    BY <1>1, <2>2 DEF Request, Places, OnRow, Writing, Telling, SameText
  <2>4. req' = [req EXCEPT ![p] = r]
    BY <1>1, <2>1, <2>2 DEF Typed, Request
  <2>5. req' \in [Requests -> Request] /\ req'[p] = r /\ Rest({p})
    BY <2>3, <2>4, Moved
  <2>6. PICK m \in MessageIds : m = req[p].on
    OBVIOUS
  <2>7. messages[m] \in Store!MessageRow /\ req[p].body \in Bodies /\ req[p].tags \subseteq Users
    BY <1>1 DEF Typed, Tables, Request
  <2>8. PICK row : row = [messages[m] EXCEPT !.body = req[p].body]
    OBVIOUS
  <2>9. /\ row \in Store!MessageRow /\ row.state = messages[m].state /\ row.by = messages[m].by /\ row.key = messages[m].key
        /\ row.files = messages[m].files /\ row.body = req[p].body
    BY <2>7, <2>8, Rowed
  <2>10. messages' = [messages EXCEPT ![m] = row]
    BY <2>1, <2>6, <2>8 DEF Typed, Tables
  <2>11. /\ messages' \in [MessageIds -> Store!MessageRow] /\ messages'[m] = row
         /\ \A n \in MessageIds \ {m} : messages'[n] = messages[n]
    BY <2>9, <2>10 DEF Typed, Tables
  <2>12. Edited(m, req[p].body)
    BY <2>1, <2>6, <2>9, <2>11 DEF Edited
  <2>13. mentions' \subseteq MessageIds \X Users
    BY <2>1, <2>7 DEF Tagging, Typed, Tables
  <2> QED BY <1>1, <1>2, <1>4, <2>1, <2>3, <2>5, <2>6, <2>11, <2>12, <2>13
<1> QED BY <1>3, <1>4

LEMMA LoadIs ==
  ASSUME Typed, NEW p \in Requests, LoadMessageCards(p), req[p].on \in MessageIds
  PROVE  /\ req[p].at = "cards" /\ Rest({p}) /\ Typed' /\ Only
         /\ req'[p].at = "announce" /\ req'[p].on = req[p].on /\ SameText(req'[p], req[p]) /\ req'[p].held = req[p].held
<1>1. req[p].at = "cards" /\ req[p] \in Request /\ Only /\ UNCHANGED budget
  BY DEF LoadMessageCards, Only, Typed
<1>2. PICK c : c = previews[req[p].on]
  OBVIOUS
<1>3. c \in Store!Links
  BY <1>2 DEF Typed, Tables
<1>4. PICK r : r = [req[p] EXCEPT !.at = "announce", !.card = c]
  OBVIOUS
<1>5. r \in Request /\ r.at = "announce" /\ r.on = req[p].on /\ SameText(r, req[p]) /\ r.held = req[p].held
  BY <1>1, <1>3, <1>4 DEF Request, Places, OnRow, Writing, Telling, SameText
<1>6. req' = [req EXCEPT ![p] = r]
  BY <1>1, <1>2, <1>4 DEF LoadMessageCards, Typed, Request
<1>7. req' \in [Requests -> Request] /\ req'[p] = r /\ Rest({p})
  BY <1>5, <1>6, Moved
<1>8. Typed'
  BY <1>1, <1>7, OnlyTyped DEF Typed, Tables
<1> QED BY <1>1, <1>5, <1>7, <1>8

-------------------------------------------------------------------------------
(* Pages.                                                                  *)

\* A set of numbers that has a bound and is not empty has a greatest one.
LEMMA LargestOf ==
  ASSUME NEW n \in Nat, NEW S, S \subseteq 0 .. n, S # {}
  PROVE  \E x \in S : \A y \in S : y <= x
<1> DEFINE T == {m \in 0 .. n : n - m \in S}
<1>1. T \subseteq Nat /\ T # {}
  <2>1. PICK x \in S : TRUE
    OBVIOUS
  <2>2. x \in 0 .. n
    BY <2>1
  <2>3. n - x \in 0 .. n /\ n - (n - x) = x
    BY <2>2
  <2>4. n - x \in T
    BY <2>1, <2>3
  <2> HIDE DEF T
  <2>5. T \subseteq Nat
    BY DEF T
  <2> QED BY <2>4, <2>5
<1>2. PICK m \in T : \A l \in T : m <= l
  BY <1>1, SmallestOf
<1>3. ASSUME NEW y \in S PROVE y <= n - m
  <2>1. y \in 0 .. n /\ n - y \in 0 .. n /\ n - (n - y) = y
    OBVIOUS
  <2>2. n - y \in T
    BY <2>1
  <2>3. m <= n - y
    BY <1>2, <2>2
  <2> QED BY <2>1, <2>3
<1>4. n - m \in S
  BY <1>2
<1> QED BY <1>3, <1>4

LEMMA LeastIs ==
  ASSUME NEW S, S \subseteq Nat, S # {}
  PROVE  Least(S) \in S /\ \A y \in S : Least(S) <= y
BY SmallestOf DEF Least

LEMMA GreatestIs ==
  ASSUME NEW n \in Nat, NEW S, S \subseteq 0 .. n, S # {}
  PROVE  Greatest(S) \in S /\ \A y \in S : y <= Greatest(S)
BY LargestOf DEF Greatest

\* The rows at one end of a list: a part of it without a hole, some if there
\* are some, and all if they are fewer than were asked for.
End(P, S, m, up) ==
  /\ P \subseteq S
  /\ m # 0 /\ S # {} => P # {}
  /\ \A x \in P, y \in S : (IF up THEN x <= y ELSE y <= x) => y \in P
  /\ Cardinality(P) < m => P = S
  /\ Cardinality(S) \in Nat
  /\ Cardinality(S) <= m => P = S

LEMMA PartsAreFinite ==
  ASSUME NEW n \in Nat, NEW S, S \subseteq 0 .. n
  PROVE  \A T \in SUBSET S : IsFiniteSet(T) /\ Cardinality(T) \in Nat
<1> SUFFICES ASSUME NEW T \in SUBSET S PROVE IsFiniteSet(T) /\ Cardinality(T) \in Nat
  OBVIOUS
<1>1. IsFiniteSet(0 .. n)
  BY FS_Interval
<1>2. T \in SUBSET (0 .. n)
  OBVIOUS
<1>3. IsFiniteSet(T)
  BY <1>1, <1>2, FS_Subset
<1> QED BY <1>3, FS_CardinalityType

LEMMA OldestIs ==
  ASSUME NEW n \in Nat, NEW S, S \subseteq 0 .. n, NEW m \in Nat
  PROVE  End(Oldest(S, m), S, m, FALSE)
<1> DEFINE Below(x) == {y \in S : y < x}
           P == Oldest(S, m)
<1>0. S \subseteq Nat /\ \A x \in S : x \in Int
  OBVIOUS
<1>1. \A T \in SUBSET S : IsFiniteSet(T) /\ Cardinality(T) \in Nat
  BY PartsAreFinite
<1>2. \A x \in S : Cardinality(Below(x)) \in Nat
  BY <1>1
<1>d. P = {x \in S : Cardinality(Below(x)) < m}
  BY SameCardinality DEF Oldest, Store!Oldest
<1> HIDE DEF P
<1>3. P \subseteq S
  BY <1>d
<1>4. ASSUME m # 0, S # {} PROVE P # {}
  <2>1. PICK x \in S : \A y \in S : x <= y
    BY <1>0, <1>4, SmallestOf
  <2>2. ASSUME NEW y \in S PROVE ~(y < x)
    <3>1. x \in Int /\ y \in Int /\ x <= y
      BY <1>0, <2>1
    <3> QED BY <3>1
  <2>3. Below(x) = {}
    BY <2>2
  <2>4. Cardinality(Below(x)) = 0
    BY <2>3, FS_EmptySet
  <2> QED BY <1>4, <1>d, <2>4
<1>5. ASSUME NEW x \in P, NEW y \in S, y <= x PROVE y \in P
  <2>1. ASSUME NEW z \in S, z < y PROVE z < x
    <3>1. x \in Int /\ y \in Int /\ z \in Int
      BY <1>0, <1>3
    <3> QED BY <1>5, <2>1, <3>1
  <2>2. Below(y) \subseteq Below(x)
    BY <2>1
  <2>3. Cardinality(Below(y)) <= Cardinality(Below(x))
    BY <1>1, <2>2, FS_Subset
  <2>4. Cardinality(Below(x)) < m
    BY <1>d
  <2> QED BY <1>2, <1>3, <1>d, <2>3, <2>4
<1>6. ASSUME Cardinality(P) < m PROVE P = S
  <2>1. SUFFICES ASSUME S \ P # {} PROVE FALSE
    BY <1>3
  <2>2. PICK x \in S \ P : \A y \in S \ P : x <= y
    BY <1>0, <2>1, SmallestOf
  <2>3. ASSUME NEW y \in S, y < x PROVE y \in P
    <3>1. x \in Int /\ y \in Int /\ ~(x <= y)
      BY <1>0, <2>2, <2>3
    <3> QED BY <2>2, <3>1
  <2>4. Below(x) \subseteq P
    BY <2>3
  <2>5. Cardinality(Below(x)) <= Cardinality(P)
    BY <1>1, <1>3, <2>4, FS_Subset
  <2>6. Cardinality(Below(x)) < m
    BY <1>1, <1>2, <1>3, <1>6, <2>5
  <2> QED BY <1>d, <2>2, <2>6
<1>7. ASSUME Cardinality(S) <= m, NEW x \in S PROVE x \in P
  <2>1. Below(x) \in SUBSET S /\ Below(x) # S
    OBVIOUS
  <2>2. Cardinality(Below(x)) <= Cardinality(S) /\ Cardinality(Below(x)) # Cardinality(S)
    BY <1>1, <2>1, FS_Subset
  <2>3. Cardinality(Below(x)) < m
    BY <1>1, <1>2, <1>7, <2>2
  <2> QED BY <1>d, <2>3
<1>8. Cardinality(S) \in Nat /\ (Cardinality(S) <= m => P = S)
  BY <1>1, <1>3, <1>7
<1> QED BY <1>3, <1>4, <1>5, <1>6, <1>8 DEF End, P

LEMMA NewestIs ==
  ASSUME NEW n \in Nat, NEW S, S \subseteq 0 .. n, NEW m \in Nat
  PROVE  End(Newest(S, m), S, m, TRUE)
<1> DEFINE Above(x) == {y \in S : y > x}
           P == Newest(S, m)
<1>0. S \subseteq Nat /\ \A x \in S : x \in Int
  OBVIOUS
<1>1. \A T \in SUBSET S : IsFiniteSet(T) /\ Cardinality(T) \in Nat
  BY PartsAreFinite
<1>2. \A x \in S : Cardinality(Above(x)) \in Nat
  BY <1>1
<1>d. P = {x \in S : Cardinality(Above(x)) < m}
  BY SameCardinality DEF Newest, Store!Newest
<1> HIDE DEF P
<1>3. P \subseteq S
  BY <1>d
<1>4. ASSUME m # 0, S # {} PROVE P # {}
  <2>1. PICK x \in S : \A y \in S : y <= x
    BY <1>4, LargestOf
  <2>2. ASSUME NEW y \in S PROVE ~(y > x)
    <3>1. x \in Int /\ y \in Int /\ y <= x
      BY <1>0, <2>1
    <3> QED BY <3>1
  <2>3. Above(x) = {}
    BY <2>2
  <2>4. Cardinality(Above(x)) = 0
    BY <2>3, FS_EmptySet
  <2> QED BY <1>4, <1>d, <2>4
<1>5. ASSUME NEW x \in P, NEW y \in S, x <= y PROVE y \in P
  <2>1. ASSUME NEW z \in S, z > y PROVE z > x
    <3>1. x \in Int /\ y \in Int /\ z \in Int
      BY <1>0, <1>3
    <3> QED BY <1>5, <2>1, <3>1
  <2>2. Above(y) \subseteq Above(x)
    BY <2>1
  <2>3. Cardinality(Above(y)) <= Cardinality(Above(x))
    BY <1>1, <2>2, FS_Subset
  <2>4. Cardinality(Above(x)) < m
    BY <1>d
  <2> QED BY <1>2, <1>3, <1>d, <2>3, <2>4
<1>6. ASSUME Cardinality(P) < m PROVE P = S
  <2>1. SUFFICES ASSUME S \ P # {} PROVE FALSE
    BY <1>3
  <2>2. PICK x \in S \ P : \A y \in S \ P : y <= x
    <3>1. S \ P \subseteq 0 .. n
      OBVIOUS
    <3> QED BY <2>1, <3>1, LargestOf
  <2>3. ASSUME NEW y \in S, y > x PROVE y \in P
    <3>1. x \in Int /\ y \in Int /\ ~(y <= x)
      BY <1>0, <2>2, <2>3
    <3> QED BY <2>2, <3>1
  <2>4. Above(x) \subseteq P
    BY <2>3
  <2>5. Cardinality(Above(x)) <= Cardinality(P)
    BY <1>1, <1>3, <2>4, FS_Subset
  <2>6. Cardinality(Above(x)) < m
    BY <1>1, <1>2, <1>3, <1>6, <2>5
  <2> QED BY <1>d, <2>2, <2>6
<1>7. ASSUME Cardinality(S) <= m, NEW x \in S PROVE x \in P
  <2>1. Above(x) \in SUBSET S /\ Above(x) # S
    OBVIOUS
  <2>2. Cardinality(Above(x)) <= Cardinality(S) /\ Cardinality(Above(x)) # Cardinality(S)
    BY <1>1, <2>1, FS_Subset
  <2>3. Cardinality(Above(x)) < m
    BY <1>1, <1>2, <1>7, <2>2
  <2> QED BY <1>d, <2>3
<1>8. Cardinality(S) \in Nat /\ (Cardinality(S) <= m => P = S)
  BY <1>1, <1>3, <1>7
<1> QED BY <1>3, <1>4, <1>5, <1>6, <1>8 DEF End, P

\* One page of a walk, the rows up to the next cursor or all that are left.
Turned(s, r, left, more, page) ==
  /\ page \subseteq left /\ (~more => page = left)
  /\ s.got = r.got \cup page /\ s.twice = (r.twice \/ page \cap r.got # {})
  /\ s.at = (IF more THEN r.at ELSE "listed") /\ s.stay = r.stay
  /\ s.by = r.by /\ s.on = r.on /\ s.key = r.key /\ s.body = r.body /\ s.files = r.files
  /\ s.held = r.held /\ s.drop = r.drop /\ s.tags = r.tags /\ s.card = r.card

APage(r, left, page, more, c) ==
  /\ r \in Request /\ r.at \in Walking /\ page \subseteq left /\ left \subseteq Nat /\ c \in Nat
  /\ more \in BOOLEAN /\ (~more => page = left)

LEMMA ListedIs ==
  ASSUME NEW r, NEW left, NEW page, NEW more, NEW c, APage(r, left, page, more, c)
  PROVE  Listed(r, page, more, c) \in Request /\ Turned(Listed(r, page, more, c), r, left, more, page) /\ Listed(r, page, more, c).cursor = c
<1>0. /\ r \in Request /\ r.at \in Walking /\ page \subseteq left /\ left \subseteq Nat /\ c \in Nat /\ more \in BOOLEAN
      /\ (~more => page = left)
  BY DEF APage
<1>1. PICK t : t = (r.twice \/ page \cap r.got # {})
  OBVIOUS
<1>2. t \in BOOLEAN
  <2>1. r.twice \in BOOLEAN
    BY <1>0 DEF Request
  <2>2. (page \cap r.got # {}) \in BOOLEAN
    OBVIOUS
  <2> QED BY <1>1, <2>1, <2>2
<1>3. PICK g : g = r.got \cup page
  OBVIOUS
<1>4. g \subseteq Nat
  BY <1>0, <1>3 DEF Request
<1>9. PICK p : p = IF more THEN r.at ELSE "listed"
  OBVIOUS
<1>10. p \in Places
  <2>1. r.at \in Places
    BY <1>0 DEF Request
  <2>2. "listed" \in Places
    BY DEF Places, Walking
  <2> QED BY <1>9, <2>1, <2>2
<1>5. PICK s : s = [r EXCEPT !.got = g, !.twice = t, !.cursor = c, !.at = p]
  OBVIOUS
<1>6. Listed(r, page, more, c) = s
  BY <1>1, <1>3, <1>5, <1>9 DEF Listed
<1>11. s.got = g /\ s.twice = t /\ s.cursor = c /\ s.at = p /\ s.stay = r.stay
  BY <1>0, <1>5 DEF Request
<1>12. s \in Request
  BY <1>0, <1>2, <1>4, <1>5, <1>10 DEF Request
<1>7. s \in Request /\ s.got = g /\ s.twice = t /\ s.cursor = c /\ s.at = (IF more THEN r.at ELSE "listed") /\ s.stay = r.stay
  BY <1>9, <1>11, <1>12
<1>8. /\ s.by = r.by /\ s.on = r.on /\ s.key = r.key /\ s.body = r.body /\ s.files = r.files
      /\ s.held = r.held /\ s.drop = r.drop /\ s.tags = r.tags /\ s.card = r.card
  BY <1>0, <1>5 DEF Request
<1> QED BY <1>0, <1>1, <1>3, <1>6, <1>7, <1>8 DEF Turned

WentBack(s, r, S) == \E more \in BOOLEAN, page \in SUBSET S :
  /\ Turned(s, r, {x \in S : x < r.cursor}, more, page)
  /\ more => /\ s.cursor < r.cursor /\ \A x \in page : s.cursor <= x
             /\ \A x \in S : x < r.cursor /\ s.cursor <= x => x \in page
  /\ ~more => s.cursor = r.cursor

LEMMA BeforeIs ==
  ASSUME NEW r \in Request, r.at \in Walking, NEW n \in Nat, NEW S, S \subseteq 0 .. n
  PROVE  /\ BeforePage(r, S) \in Request
         /\ WentBack(BeforePage(r, S), r, S)
<1> DEFINE left == {x \in S : x < r.cursor}
           rows == Newest(left, PageLimit + 1)
           page == Newest(rows, PageLimit)
           more == Cardinality(rows) > PageLimit
           c == IF more THEN Least(page) ELSE r.cursor
<1>1. r.cursor \in Nat /\ left \subseteq 0 .. n /\ left \subseteq S /\ PageLimit \in Nat /\ PageLimit + 1 \in Nat /\ PageLimit # 0
  <2>1. r.cursor \in Nat
    BY DEF Request
  <2>2. PageLimit \in Nat /\ PageLimit + 1 \in Nat /\ PageLimit # 0
    BY Constants
  <2>3. left \subseteq S
    OBVIOUS
  <2> HIDE DEF left
  <2> QED BY <2>1, <2>2, <2>3
<1>l. \A x \in left : x < r.cursor
  OBVIOUS
<1>m. \A x \in S : x < r.cursor => x \in left
  OBVIOUS
<1> HIDE DEF left
<1>2. End(rows, left, PageLimit + 1, TRUE)
  BY <1>1, NewestIs
<1>3. rows \subseteq left /\ rows \subseteq 0 .. n
  BY <1>1, <1>2 DEF End
<1> HIDE DEF rows
<1>4. End(page, rows, PageLimit, TRUE)
  BY <1>1, <1>3, NewestIs
<1>5. page \subseteq rows /\ page \subseteq left /\ page \subseteq Nat
  <2>1. page \subseteq rows
    BY <1>4 DEF End
  <2> HIDE DEF page
  <2> QED BY <1>3, <2>1
<1> HIDE DEF page
<1>6. Cardinality(rows) \in Nat
  BY <1>4 DEF End
<1>7. more \in BOOLEAN
  OBVIOUS
<1>8. more => page # {}
  <2>1. rows = {} => Cardinality(rows) = 0
    BY FS_EmptySet
  <2>2. more => rows # {}
    BY <1>1, <2>1
  <2> QED BY <1>1, <1>4, <2>2 DEF End
<1>9. ~more => page = left
  <2>1. ~more => Cardinality(rows) <= PageLimit /\ Cardinality(rows) < PageLimit + 1
    BY <1>1, <1>6
  <2> QED BY <1>2, <1>4, <2>1 DEF End
<1>10. more => Least(page) \in page /\ \A y \in page : Least(page) <= y
  BY <1>5, <1>8, LeastIs
<1>11. ASSUME more, NEW x \in S, x < r.cursor, Least(page) <= x PROVE x \in page
  <2>1. x \in left /\ Least(page) \in rows
    BY <1>5, <1>10, <1>11, <1>m
  <2>2. x \in rows
    BY <1>2, <1>11, <2>1 DEF End
  <2> QED BY <1>4, <1>10, <1>11, <2>2 DEF End
<1>12. c \in Nat /\ (more => c = Least(page) /\ c < r.cursor) /\ (~more => c = r.cursor)
  BY <1>1, <1>5, <1>10, <1>l
<1>13. BeforePage(r, S) = Listed(r, page, more, c)
  BY SameCardinality DEF BeforePage, page, rows, left
<1> HIDE DEF more, c
<1>14. left \subseteq Nat
  BY <1>1
<1>15. /\ Listed(r, page, more, c) \in Request /\ Turned(Listed(r, page, more, c), r, left, more, page)
       /\ Listed(r, page, more, c).cursor = c
  <2>1. APage(r, left, page, more, c)
    BY <1>5, <1>7, <1>9, <1>12, <1>14 DEF APage
  <2> QED BY <2>1, ListedIs
<1>16. page \in SUBSET S
  BY <1>1, <1>5
<1>17. more => \A x \in page : c <= x
  BY <1>10, <1>12
<1>18. more => \A x \in S : x < r.cursor /\ c <= x => x \in page
  BY <1>11, <1>12
<1> QED BY <1>7, <1>12, <1>13, <1>15, <1>16, <1>17, <1>18 DEF left, WentBack

WentOn(s, r, S) == \E more \in BOOLEAN, page \in SUBSET S :
  /\ Turned(s, r, {x \in S : x > r.cursor}, more, page)
  /\ more => /\ r.cursor < s.cursor /\ \A x \in page : x <= s.cursor
             /\ \A x \in S : x > r.cursor /\ x <= s.cursor => x \in page
  /\ ~more => s.cursor = r.cursor

LEMMA AfterIs ==
  ASSUME NEW r \in Request, r.at \in Walking, NEW n \in Nat, NEW S, S \subseteq 0 .. n
  PROVE  /\ AfterPage(r, S) \in Request
         /\ WentOn(AfterPage(r, S), r, S)
<1> DEFINE left == {x \in S : x > r.cursor}
           rows == Oldest(left, PageLimit + 1)
           page == Oldest(rows, PageLimit)
           more == Cardinality(rows) > PageLimit
           c == IF more THEN Greatest(page) ELSE r.cursor
<1>1. r.cursor \in Nat /\ left \subseteq 0 .. n /\ left \subseteq S /\ PageLimit \in Nat /\ PageLimit + 1 \in Nat /\ PageLimit # 0
  <2>1. r.cursor \in Nat
    BY DEF Request
  <2>2. PageLimit \in Nat /\ PageLimit + 1 \in Nat /\ PageLimit # 0
    BY Constants
  <2>3. left \subseteq S
    OBVIOUS
  <2> HIDE DEF left
  <2> QED BY <2>1, <2>2, <2>3
<1>l. \A x \in left : x > r.cursor
  OBVIOUS
<1>m. \A x \in S : x > r.cursor => x \in left
  OBVIOUS
<1> HIDE DEF left
<1>2. End(rows, left, PageLimit + 1, FALSE)
  BY <1>1, OldestIs
<1>3. rows \subseteq left /\ rows \subseteq 0 .. n
  BY <1>1, <1>2 DEF End
<1> HIDE DEF rows
<1>4. End(page, rows, PageLimit, FALSE)
  BY <1>1, <1>3, OldestIs
<1>5. page \subseteq rows /\ page \subseteq left /\ page \subseteq Nat /\ page \subseteq 0 .. n
  <2>1. page \subseteq rows
    BY <1>4 DEF End
  <2> HIDE DEF page
  <2> QED BY <1>3, <2>1
<1> HIDE DEF page
<1>6. Cardinality(rows) \in Nat
  BY <1>4 DEF End
<1>7. more \in BOOLEAN
  OBVIOUS
<1>8. more => page # {}
  <2>1. rows = {} => Cardinality(rows) = 0
    BY FS_EmptySet
  <2>2. more => rows # {}
    BY <1>1, <2>1
  <2> QED BY <1>1, <1>4, <2>2 DEF End
<1>9. ~more => page = left
  <2>1. ~more => Cardinality(rows) <= PageLimit /\ Cardinality(rows) < PageLimit + 1
    BY <1>1, <1>6
  <2> QED BY <1>2, <1>4, <2>1 DEF End
<1>10. more => Greatest(page) \in page /\ \A y \in page : y <= Greatest(page)
  BY <1>5, <1>8, GreatestIs
<1>11. ASSUME more, NEW x \in S, x > r.cursor, x <= Greatest(page) PROVE x \in page
  <2>1. x \in left /\ Greatest(page) \in rows
    BY <1>5, <1>10, <1>11, <1>m
  <2>2. x \in rows
    BY <1>2, <1>11, <2>1 DEF End
  <2> QED BY <1>4, <1>10, <1>11, <2>2 DEF End
<1>12. c \in Nat /\ (more => c = Greatest(page) /\ r.cursor < c) /\ (~more => c = r.cursor)
  BY <1>1, <1>5, <1>10, <1>l
<1>13. AfterPage(r, S) = Listed(r, page, more, c)
  BY SameCardinality DEF AfterPage, page, rows, left
<1> HIDE DEF more, c
<1>14. left \subseteq Nat
  BY <1>1
<1>15. /\ Listed(r, page, more, c) \in Request /\ Turned(Listed(r, page, more, c), r, left, more, page)
       /\ Listed(r, page, more, c).cursor = c
  <2>1. APage(r, left, page, more, c)
    BY <1>5, <1>7, <1>9, <1>12, <1>14 DEF APage
  <2> QED BY <2>1, ListedIs
<1>16. page \in SUBSET S
  BY <1>1, <1>5
<1>17. more => \A x \in page : x <= c
  BY <1>10, <1>12
<1>18. more => \A x \in S : x > r.cursor /\ x <= c => x \in page
  BY <1>11, <1>12
<1> QED BY <1>7, <1>12, <1>13, <1>15, <1>16, <1>17, <1>18 DEF left, WentOn

-------------------------------------------------------------------------------
(* The rest of the actions.                                                *)

SameWalk(s, r) == s.cursor = r.cursor /\ s.got = r.got /\ s.twice = r.twice

LEMMA HidesIs ==
  ASSUME NEW r \in Request, NEW m
  PROVE  /\ Hides(r, m) \in Request /\ Alike(Hides(r, m), r) /\ SameWalk(Hides(r, m), r)
         /\ r.at = "search" => Hides(r, m).stay = r.stay \ {m}
         /\ r.at = "files" => Hides(r, m).stay = r.stay \ {Store!FilePlace(f) : f \in messages[m].files}
         /\ r.at \notin Searching => Hides(r, m) = r
<1>1. PICK t : t = CASE r.at = "search" -> r.stay \ {m}
                     [] r.at = "files"  -> r.stay \ {Store!FilePlace(f) : f \in messages[m].files}
                     [] OTHER -> r.stay
  OBVIOUS
<1>2. /\ r.at = "search" => t = r.stay \ {m}
      /\ r.at = "files" => t = r.stay \ {Store!FilePlace(f) : f \in messages[m].files}
      /\ r.at \notin Searching => t = r.stay
  BY <1>1 DEF Searching
<1>3. t \subseteq r.stay /\ r.stay \subseteq Nat
  BY <1>1, <1>2 DEF Request, Searching
<1>4. Hides(r, m) = [r EXCEPT !.stay = t]
  BY <1>1 DEF Hides
<1>5. t \subseteq Nat
  BY <1>3
<1>6. Hides(r, m) \in Request /\ Hides(r, m).stay = t
  BY <1>4, <1>5 DEF Request
<1>7. Alike(Hides(r, m), r) /\ SameWalk(Hides(r, m), r)
  BY <1>4 DEF Alike, SameWalk, Request
<1>8. t = r.stay => Hides(r, m) = r
  BY <1>4 DEF Request
<1> QED BY <1>2, <1>6, <1>7, <1>8

\* The others are as they were, but for what their walks have to list.
RestAlike(X) == \A q \in Requests \ X : Alike(req'[q], req[q]) /\ SameWalk(req'[q], req[q])

LEMMA RestIsAlike == ASSUME NEW X, Rest(X) PROVE RestAlike(X)
BY DEF Rest, RestAlike, Alike, SameWalk

Blanked(m) ==
  /\ \A n \in MessageIds \ {m} : messages'[n] = messages[n]
  /\ messages'[m].state = "deleted" /\ messages'[m].by = messages[m].by /\ messages'[m].key = messages[m].key
  /\ messages'[m].files = messages[m].files /\ messages'[m].body = Erased
  /\ messages' = [messages EXCEPT ![m].state = "deleted", ![m].body = Erased]

LEMMA SoftDeleteIs ==
  ASSUME Typed, NEW p \in Requests, SoftDeleteMessage(p), req[p].on \in MessageIds
  PROVE  /\ req[p].at = "delete" /\ Typed' /\ RestAlike({p})
         /\ UNCHANGED <<attachments, previews, readpos, mentions, channelVars, enricherVars, shown, late, unheard, cardless, moved>>
         /\ \/ Ends(p) /\ UNCHANGED <<messages, crossed>>
            \/ /\ messages[req[p].on].state # "deleted" /\ Blanked(req[p].on) /\ Crossing(p, req[p].on)
               /\ \A q \in Requests \ {p} : req'[q] = Hides(req[q], req[p].on)
               /\ req'[p].at = "tombstone" /\ req'[p].on = req[p].on /\ SameText(req'[p], req[p]) /\ req'[p].held = req[p].held
<1>1. /\ req[p].at = "delete" /\ req[p] \in Request /\ UNCHANGED budget
      /\ UNCHANGED <<attachments, previews, readpos, mentions, channelVars, enricherVars, shown, late, unheard, cardless, moved>>
  BY DEF SoftDeleteMessage, Typed
<1>2. messages' \in [MessageIds -> Store!MessageRow] /\ crossed' \subseteq MessageIds /\ req' \in [Requests -> Request] => Typed'
  BY <1>1 DEF Typed, Tables, Histories, Enricher, channelVars, enricherVars
<1>3. CASE messages[req[p].on].state = "deleted"
  <2>1. Done(p) /\ UNCHANGED <<messages, crossed>>
    BY <1>3 DEF SoftDeleteMessage
  <2>2. req' \in [Requests -> Request] /\ Ends(p)
    BY <2>1, DoneIs
  <2>3. messages' \in [MessageIds -> Store!MessageRow] /\ crossed' \subseteq MessageIds
    BY <2>1 DEF Typed, Tables, Histories
  <2>4. RestAlike({p})
    BY <2>2, RestIsAlike DEF Ends
  <2> QED BY <1>1, <1>2, <2>1, <2>2, <2>3, <2>4
<1>4. CASE messages[req[p].on].state # "deleted"
  <2>1. PICK m \in MessageIds : m = req[p].on
    OBVIOUS
  <2>2. /\ messages' = [messages EXCEPT ![m].state = "deleted", ![m].body = Erased]
        /\ req' = [q \in Requests |-> IF q = p THEN [req[p] EXCEPT !.at = "tombstone"] ELSE Hides(req[q], m)]
        /\ Crossing(p, m)
    BY <1>4, <2>1 DEF SoftDeleteMessage
  <2>3. PICK r : r = [req[p] EXCEPT !.at = "tombstone"]
    OBVIOUS
  <2>4. r \in Request /\ r.at = "tombstone" /\ r.on = m /\ SameText(r, req[p]) /\ r.held = req[p].held
    BY <1>1, <2>1, <2>3 DEF Request, Places, OnRow, Writing, SameText
  <2>5. req'[p] = r /\ \A q \in Requests \ {p} : req'[q] = Hides(req[q], m)
    BY <2>2, <2>3
  <2>6. \A q \in Requests : req[q] \in Request
    BY DEF Typed
  <2>7. req' \in [Requests -> Request]
    BY <2>2, <2>3, <2>4, <2>6, HidesIs
  <2>8. RestAlike({p})
    BY <2>5, <2>6, HidesIs DEF RestAlike
  <2>9. messages[m] \in Store!MessageRow
    BY DEF Typed, Tables
  <2>10. PICK row : row = [messages[m] EXCEPT !.state = "deleted", !.body = Erased]
    OBVIOUS
  <2>11. /\ row \in Store!MessageRow /\ row.state = "deleted" /\ row.by = messages[m].by /\ row.key = messages[m].key
         /\ row.files = messages[m].files /\ row.body = Erased
    BY <2>9, <2>10, Rowed, Constants
  <2>12. messages' = [messages EXCEPT ![m] = row]
    BY <2>2, <2>10 DEF Typed, Tables
  <2>13. /\ messages' \in [MessageIds -> Store!MessageRow] /\ messages'[m] = row
         /\ \A n \in MessageIds \ {m} : messages'[n] = messages[n]
    BY <2>11, <2>12 DEF Typed, Tables
  <2>14. Blanked(m)
    BY <2>2, <2>11, <2>13 DEF Blanked
  <2>15. crossed' \subseteq MessageIds
    BY <2>2, CrossingIs
  <2> QED BY <1>1, <1>2, <1>4, <2>1, <2>2, <2>4, <2>5, <2>7, <2>8, <2>13, <2>14, <2>15
<1> QED BY <1>3, <1>4

LEMMA TombstoneIs ==
  ASSUME Typed, NEW p \in Requests, AnnounceDeleted(p), req[p].on \in MessageIds
  PROVE  /\ req[p].at = "tombstone" /\ Ends(p) /\ Typed'
         /\ shown'[req[p].on].state = "deleted" /\ shown'[req[p].on].body = Erased
         /\ \A m \in MessageIds \ {req[p].on} : shown'[m] = shown[m]
         /\ UNCHANGED <<storeVars, mentions, channelVars, enricherVars>> /\ Corrected(req[p].on)
<1>1. req[p].at = "tombstone" /\ Corrected(req[p].on) /\ UNCHANGED <<storeVars, mentions, channelVars, enricherVars, budget>>
  BY DEF AnnounceDeleted
<1>2. PICK t : t = [state |-> "deleted", body |-> Erased, card |-> 0]
  OBVIOUS
<1>3. shown' = [shown EXCEPT ![req[p].on] = t]
  BY <1>2 DEF AnnounceDeleted
<1>4. t \in Told /\ t.state = "deleted" /\ t.body = Erased
  BY <1>2, Constants, Rowed DEF Told
<1>5. req' \in [Requests -> Request] /\ Ends(p)
  BY DoneIs DEF AnnounceDeleted
<1>6. shown' \in [MessageIds -> Told] /\ shown'[req[p].on] = t /\ \A m \in MessageIds \ {req[p].on} : shown'[m] = shown[m]
  BY <1>3, <1>4 DEF Typed, Tables
<1>7. Typed'
  BY <1>1, <1>5, <1>6 DEF Typed, Tables, Histories, Enricher, storeVars, channelVars, enricherVars, Corrected
<1> QED BY <1>1, <1>4, <1>5, <1>6, <1>7

LEMMA StoreReadIs ==
  ASSUME Typed, NEW p \in Requests, StoreReadPosition(p), req[p].on \in MessageIds, req[p].by \in Users
  PROVE  /\ req[p].at = "read" /\ Ends(p) /\ Typed'
         /\ readpos' = [readpos EXCEPT ![req[p].by] = IF req[p].on > @ THEN req[p].on ELSE @]
         /\ UNCHANGED <<messages, attachments, previews, mentions, channelVars, enricherVars, shown, ghostVars>>
<1>1. /\ req[p].at = "read" /\ UNCHANGED budget
      /\ readpos' = [readpos EXCEPT ![req[p].by] = IF req[p].on > @ THEN req[p].on ELSE @]
      /\ UNCHANGED <<messages, attachments, previews, mentions, channelVars, enricherVars, shown, ghostVars>>
  BY DEF StoreReadPosition
<1>2. req' \in [Requests -> Request] /\ Ends(p)
  BY DoneIs DEF StoreReadPosition
<1>3. readpos' \in [Users -> MessageIds \cup {0}]
  BY <1>1 DEF Typed, Tables
<1>4. Typed'
  BY <1>1, <1>2, <1>3 DEF Typed, Tables, Histories, Enricher, channelVars, enricherVars, ghostVars
<1> QED BY <1>1, <1>2, <1>4

FixedFiles == UNCHANGED <<messages, previews, readpos, mentions, members, e2ee, enricherVars, shown, ghostVars>>

LEMMA StoreBlobIs ==
  ASSUME Typed, NEW p \in Requests, StoreBlob(p)
  PROVE  /\ req[p].at = "blob" /\ Rest({p}) /\ Typed' /\ FixedFiles /\ UNCHANGED <<attachments, known>>
         /\ blobs' = blobs \cup req[p].files
         /\ req'[p].at = "row" /\ req'[p].on = req[p].on /\ SameText(req'[p], req[p]) /\ req'[p].held = req[p].held
<1>1. /\ req[p].at = "blob" /\ req[p] \in Request /\ FixedFiles /\ UNCHANGED <<attachments, known, budget>>
      /\ blobs' = blobs \cup req[p].files
  BY DEF StoreBlob, FixedFiles, storeVars, Typed
<1>2. PICK r : r = [req[p] EXCEPT !.at = "row"]
  OBVIOUS
<1>3. r \in Request /\ r.at = "row" /\ r.on = req[p].on /\ SameText(r, req[p]) /\ r.held = req[p].held
  BY <1>1, <1>2 DEF Request, Places, Uploading, SameText
<1>4. req' = [req EXCEPT ![p] = r]
  BY <1>1, <1>2 DEF StoreBlob, Goto, Typed, Request
<1>5. req' \in [Requests -> Request] /\ req'[p] = r /\ Rest({p})
  BY <1>3, <1>4, Moved
<1>6. req[p].files \subseteq Files
  BY <1>1 DEF Request
<1>7. Typed'
  BY <1>1, <1>5, <1>6 DEF Typed, Tables, Histories, Enricher, FixedFiles, enricherVars, ghostVars
<1> QED BY <1>1, <1>3, <1>5, <1>7

LEMMA DeleteBlobsIs ==
  ASSUME Typed, NEW p \in Requests, DeleteBlobs(p)
  PROVE  /\ req[p].at \in Uploading /\ Ends(p) /\ Typed' /\ FixedFiles /\ UNCHANGED <<attachments, known>>
         /\ blobs' = blobs \ req[p].files
<1>1. /\ req[p].at \in Uploading /\ FixedFiles /\ UNCHANGED <<attachments, known, budget>> /\ blobs' = blobs \ req[p].files
  BY DEF DeleteBlobs, FixedFiles, storeVars, Uploading
<1>2. req' \in [Requests -> Request] /\ Ends(p)
  BY DoneIs DEF DeleteBlobs
<1>3. Typed'
  BY <1>1, <1>2 DEF Typed, Tables, Histories, Enricher, FixedFiles, enricherVars, ghostVars
<1> QED BY <1>1, <1>2, <1>3

\* The row is stored; the answer arrives, or it does not and the bytes go.
LEMMA StoreRowIs ==
  ASSUME Typed, NEW p \in Requests, CreateAttachment(p) \/ LoseAnswer(p)
  PROVE  /\ req[p].at = "row" /\ Ends(p) /\ Typed' /\ FixedFiles /\ StoreRow(p)
         /\ \/ known' = known \cup req[p].files /\ blobs' = blobs
            \/ known' = known /\ blobs' = blobs \ req[p].files
<1>1. /\ req[p].at = "row" /\ req[p] \in Request /\ FixedFiles /\ UNCHANGED budget /\ StoreRow(p) /\ Done(p)
      /\ \/ known' = known \cup req[p].files /\ blobs' = blobs
         \/ known' = known /\ blobs' = blobs \ req[p].files
  BY DEF CreateAttachment, LoseAnswer, FixedFiles, Typed
<1>2. req' \in [Requests -> Request] /\ Ends(p)
  BY <1>1, DoneIs
<1>3. req[p].files \subseteq Files /\ req[p].by \in Users \cup {0}
  BY <1>1 DEF Request
<1>4. [stored |-> TRUE, by |-> req[p].by, msg |-> 0] \in Store!UploadRow
  BY <1>3, Rowed
<1>5. attachments' \in [Files -> Store!UploadRow]
  BY <1>1, <1>4 DEF StoreRow, Typed, Tables
<1>6. known' \subseteq Files /\ blobs' \subseteq Files
  BY <1>1, <1>3 DEF Typed, Tables
<1>7. Typed'
  BY <1>1, <1>2, <1>5, <1>6 DEF Typed, Tables, Histories, Enricher, FixedFiles, enricherVars, ghostVars
<1> QED BY <1>1, <1>2, <1>7

LEMMA RowsAre == Rows \subseteq 0 .. MaxMessages /\ Rows = {m \in MessageIds : messages[m] # NoRow} /\ Rows \subseteq MessageIds
<1>1. Rows = {m \in MessageIds : messages[m] # NoRow}
  BY Constants DEF Rows, Store!Rows
<1>2. MessageIds \subseteq 0 .. MaxMessages
  BY Constants
<1> QED BY <1>1, <1>2

LEMMA ShareIs == OlderShare \in Nat /\ NewerShare \in Nat /\ NewerShare + 1 \in Nat /\ NewerShare + 1 # 0
BY Constants DEF OlderShare, NewerShare

\* Only its walk is another.
Walked(p) ==
  /\ req'[p].at \in Walking /\ req'[p].by = req[p].by /\ req'[p].on = req[p].on
  /\ req'[p].held = req[p].held /\ req'[p].body = req[p].body

LEMMA HistoryIs ==
  ASSUME Typed, NEW p \in Requests, HistoryPage(p)
  PROVE  /\ req[p].at \in {"before", "after", "older", "newer"} /\ Typed' /\ Only /\ Rest({p})
         /\ \/ req'[p] = Idle
            \/ /\ Walked(p)
               /\ req[p].at = "before" => req'[p] = BeforePage(req[p], Rows)
               /\ req[p].at = "after" => req'[p] = AfterPage(req[p], Rows)
               /\ req[p].at = "older" => /\ req'[p].got = Newest({x \in Rows : x < req[p].cursor}, OlderShare)
                                         /\ req'[p].at = "newer" /\ req'[p].stay = req[p].stay /\ req'[p].cursor = req[p].cursor
               /\ req[p].at = "newer" => /\ req'[p].got = req[p].got \cup Oldest({x \in Rows : x >= req[p].cursor}, NewerShare + 1)
                                         /\ req'[p].at = "around" /\ req'[p].stay = req[p].stay /\ req'[p].cursor = req[p].cursor
<1>1. req[p].at \in {"before", "after", "older", "newer"} /\ req[p] \in Request /\ Only /\ UNCHANGED budget
  BY DEF HistoryPage, Only, Typed
<1>2. req' \in [Requests -> Request] => Typed'
  BY <1>1, OnlyTyped DEF Typed, Tables
<1>3. CASE Done(p)
  BY <1>1, <1>2, <1>3, DoneIs DEF Ends
<1>4. CASE ~Done(p)
  <2>0. req' = [req EXCEPT ![p] = CASE @.at = "before" -> BeforePage(@, Rows)
                                    [] @.at = "after"  -> AfterPage(@, Rows)
                                    [] @.at = "older"  -> AroundOlder(@, Rows)
                                    [] @.at = "newer"  -> AroundNewer(@, Rows)]
    BY <1>4 DEF HistoryPage
  <2>1. PICK r : r = CASE req[p].at = "before" -> BeforePage(req[p], Rows)
                       [] req[p].at = "after"  -> AfterPage(req[p], Rows)
                       [] req[p].at = "older"  -> AroundOlder(req[p], Rows)
                       [] req[p].at = "newer"  -> AroundNewer(req[p], Rows)
    OBVIOUS
  <2>2. req' = [req EXCEPT ![p] = r]
    BY <2>0, <2>1 DEF Typed
  <2>3. MaxMessages \in Nat /\ Rows \subseteq 0 .. MaxMessages /\ Rows \subseteq Nat
    BY Constants, RowsAre
  <2>w. req[p].at \in Walking
    BY <1>1 DEF Walking
  <2>4. CASE req[p].at = "before"
    <3>1. r = BeforePage(req[p], Rows)
      BY <2>1, <2>4
    <3>2. r \in Request /\ WentBack(r, req[p], Rows)
      BY <1>1, <2>3, <2>w, <3>1, BeforeIs
    <3>3. PICK more \in BOOLEAN, page \in SUBSET Rows : Turned(r, req[p], {x \in Rows : x < req[p].cursor}, more, page)
      BY <3>2 DEF WentBack
    <3>4. r.at \in Walking /\ r.by = req[p].by /\ r.on = req[p].on /\ r.held = req[p].held /\ r.body = req[p].body
      BY <2>w, <3>3 DEF Turned, Walking
    <3>5. req' \in [Requests -> Request] /\ req'[p] = r /\ Rest({p})
      BY <2>2, <3>2, Moved
    <3> QED BY <1>1, <1>2, <2>4, <3>1, <3>4, <3>5 DEF Walked
  <2>5. CASE req[p].at = "after"
    <3>1. r = AfterPage(req[p], Rows)
      BY <2>1, <2>5
    <3>2. r \in Request /\ WentOn(r, req[p], Rows)
      BY <1>1, <2>3, <2>w, <3>1, AfterIs
    <3>3. PICK more \in BOOLEAN, page \in SUBSET Rows : Turned(r, req[p], {x \in Rows : x > req[p].cursor}, more, page)
      BY <3>2 DEF WentOn
    <3>4. r.at \in Walking /\ r.by = req[p].by /\ r.on = req[p].on /\ r.held = req[p].held /\ r.body = req[p].body
      BY <2>w, <3>3 DEF Turned, Walking
    <3>5. req' \in [Requests -> Request] /\ req'[p] = r /\ Rest({p})
      BY <2>2, <3>2, Moved
    <3> QED BY <1>1, <1>2, <2>5, <3>1, <3>4, <3>5 DEF Walked
  <2>6. CASE req[p].at = "older"
    <3>1. PICK g : g = Newest({x \in Rows : x < req[p].cursor}, OlderShare)
      OBVIOUS
    <3>2. g \subseteq Nat
      BY <2>3, <3>1 DEF Newest, Store!Newest
    <3>3. r = [req[p] EXCEPT !.got = g, !.at = "newer"]
      BY <2>1, <2>6, <3>1 DEF AroundOlder
    <3>4. /\ r \in Request /\ r.at = "newer" /\ r.got = g /\ r.stay = req[p].stay /\ r.cursor = req[p].cursor
          /\ r.by = req[p].by /\ r.on = req[p].on /\ r.body = req[p].body /\ r.held = req[p].held
      BY <1>1, <3>2, <3>3 DEF Request, Places, Walking
    <3>5. req' \in [Requests -> Request] /\ req'[p] = r /\ Rest({p})
      BY <2>2, <3>4, Moved
    <3> QED BY <1>1, <1>2, <2>6, <3>1, <3>4, <3>5 DEF Walked, Walking
  <2>7. CASE req[p].at = "newer"
    <3>1. PICK g : g = req[p].got \cup Oldest({x \in Rows : x >= req[p].cursor}, NewerShare + 1)
      OBVIOUS
    <3>2. g \subseteq Nat
      <4>1. req[p].got \subseteq Nat
        BY <1>1 DEF Request
      <4> QED BY <2>3, <3>1, <4>1 DEF Oldest, Store!Oldest
    <3>3. r = [req[p] EXCEPT !.got = g, !.at = "around"]
      BY <2>1, <2>7, <3>1 DEF AroundNewer
    <3>4. /\ r \in Request /\ r.at = "around" /\ r.got = g /\ r.stay = req[p].stay /\ r.cursor = req[p].cursor
          /\ r.by = req[p].by /\ r.on = req[p].on /\ r.body = req[p].body /\ r.held = req[p].held
      BY <1>1, <3>2, <3>3 DEF Request, Places, Walking
    <3>5. req' \in [Requests -> Request] /\ req'[p] = r /\ Rest({p})
      BY <2>2, <3>4, Moved
    <3> QED BY <1>1, <1>2, <2>7, <3>1, <3>4, <3>5 DEF Walked, Walking
  <2> QED BY <1>1, <2>4, <2>5, <2>6, <2>7
<1> QED BY <1>3, <1>4

LEMMA SearchPageIs ==
  ASSUME Typed, NEW p \in Requests, SearchPage(p)
  PROVE  /\ req[p].at \in Searching /\ Typed' /\ Only /\ Rest({p}) /\ Walked(p)
         /\ req'[p] = BeforePage(req[p], Findable(req[p].by, req[p].at))
<1>1. req[p].at \in Searching /\ req[p] \in Request /\ Only /\ UNCHANGED budget
  BY DEF SearchPage, Only, Typed, Searching
<1>2. PICK F : F = Findable(req[p].by, req[p].at)
  OBVIOUS
<1>3. PICK n \in Nat : F \subseteq 0 .. n
  <2>1. F \subseteq Nat /\ \A x \in F : x < (MaxMessages + 1) * (Cardinality(Files) + 1)
    BY <1>1, <1>2, FoundIsNumber
  <2>2. PICK n \in Nat : n = (MaxMessages + 1) * (Cardinality(Files) + 1)
    BY Constants
  <2>3. ASSUME NEW x \in F PROVE x \in 0 .. n
    BY <2>1, <2>2, <2>3
  <2> QED BY <2>3
<1>4. PICK r : r = BeforePage(req[p], F)
  OBVIOUS
<1>w. req[p].at \in Walking
  BY <1>1 DEF Walking
<1>5. r \in Request /\ WentBack(r, req[p], F)
  BY <1>1, <1>3, <1>4, <1>w, BeforeIs
<1>6. PICK more \in BOOLEAN, page \in SUBSET F : Turned(r, req[p], {x \in F : x < req[p].cursor}, more, page)
  BY <1>5 DEF WentBack
<1>7. r.at \in Walking /\ r.by = req[p].by /\ r.on = req[p].on /\ r.held = req[p].held /\ r.body = req[p].body
  BY <1>6, <1>w DEF Turned, Walking
<1>8. req' = [req EXCEPT ![p] = r]
  BY <1>1, <1>2, <1>4 DEF SearchPage, Typed
<1>9. req' \in [Requests -> Request] /\ req'[p] = r /\ Rest({p})
  BY <1>5, <1>8, Moved
<1>10. Typed'
  BY <1>1, <1>9, OnlyTyped DEF Typed, Tables
<1> QED BY <1>1, <1>2, <1>4, <1>7, <1>9, <1>10 DEF Walked

Stayed == UNCHANGED <<messages, attachments, readpos, mentions, channelVars, req, crossed, unheard, moved>>

LEMMA TakeJobIs ==
  ASSUME Typed, TakeJob
  PROVE  /\ Stayed /\ UNCHANGED <<previews, shown, late, cardless>> /\ Typed' /\ worker.at = "idle"
         /\ jobs # <<>> /\ worker' = jobs[1] /\ jobs' = Tail(jobs)
<1>1. /\ Stayed /\ UNCHANGED <<previews, shown, late, cardless, budget>> /\ worker.at = "idle"
      /\ jobs # <<>> /\ worker' = Head(jobs) /\ jobs' = Tail(jobs)
  BY DEF TakeJob, Stayed, storeVars, ghostVars
<1>2. jobs \in Seq(Job) /\ Len(jobs) \in Nat /\ Len(jobs) # 0 /\ Len(jobs) <= QueueDepth
  BY <1>1 DEF Typed, Enricher
<1>3. Head(jobs) = jobs[1] /\ Head(jobs) \in Job /\ Tail(jobs) \in Seq(Job) /\ Len(Tail(jobs)) = Len(jobs) - 1
  BY <1>1, <1>2
<1>4. Enricher'
  BY <1>1, <1>2, <1>3, Constants DEF Enricher
<1>5. Typed'
  BY <1>1, <1>4 DEF Typed, Tables, Histories, Stayed, channelVars
<1> QED BY <1>1, <1>3, <1>5

LEMMA NoJobIs == NoJob \in Job /\ NoJob.at = "idle"
BY Constants, Rowed DEF NoJob, Job

LEMMA FailJobIs ==
  ASSUME Typed, FailJob, worker.on \in MessageIds
  PROVE  /\ Stayed /\ UNCHANGED <<previews, shown, late, jobs>> /\ Typed' /\ worker.at = "process"
         /\ worker' = NoJob /\ cardless' = cardless \cup {worker.on}
<1>1. /\ Stayed /\ UNCHANGED <<previews, shown, late, jobs, budget>> /\ worker.at = "process"
      /\ worker' = NoJob /\ cardless' = cardless \cup {worker.on}
  BY DEF FailJob, Stayed, storeVars
<1>2. Typed'
  BY <1>1, NoJobIs DEF Typed, Tables, Histories, Enricher, Stayed, channelVars
<1> QED BY <1>1, <1>2

\* The card is stored, or taken away if the text has no link.
LEMMA CardIs ==
  ASSUME Typed, SaveLinkPreview \/ RemovePreview, worker.on \in MessageIds
  PROVE  /\ Stayed /\ UNCHANGED <<shown, late, cardless, jobs>> /\ Typed' /\ worker.at = "process"
         /\ previews' = [previews EXCEPT ![worker.on] = worker.body.link]
         /\ \/ worker'.at = "tell" /\ worker'.on = worker.on
            \/ worker' = NoJob
<1>1. /\ Stayed /\ UNCHANGED <<shown, late, cardless, jobs, budget>> /\ worker.at = "process"
      /\ previews' = [previews EXCEPT ![worker.on] = worker.body.link]
      /\ (worker' = [worker EXCEPT !.at = "tell"] \/ worker' = NoJob)
  BY DEF SaveLinkPreview, RemovePreview, Stayed, ghostVars
<1>2. worker \in Job /\ worker.body.link \in Store!Links
  BY Rowed DEF Typed, Enricher, Job
<1>3. PICK w : w = [worker EXCEPT !.at = "tell"]
  OBVIOUS
<1>4. w \in Job /\ w.at = "tell" /\ w.on = worker.on
  BY <1>2, <1>3 DEF Job
<1>5. previews' \in [MessageIds -> Store!Links]
  BY <1>1, <1>2 DEF Typed, Tables
<1>6. worker' \in Job
  BY <1>1, <1>3, <1>4, NoJobIs
<1>7. Typed'
  BY <1>1, <1>5, <1>6 DEF Typed, Tables, Histories, Enricher, Stayed, channelVars
<1> QED BY <1>1, <1>3, <1>4, <1>7

LEMMA AnnounceCardIs ==
  ASSUME Typed, AnnounceCard, worker.on \in MessageIds
  PROVE  /\ Stayed /\ UNCHANGED <<previews, cardless, jobs>> /\ Typed' /\ worker.at = "tell" /\ worker' = NoJob
         /\ shown'[worker.on].state = "live" /\ shown'[worker.on].body = worker.body
         /\ \A m \in MessageIds \ {worker.on} : shown'[m] = shown[m]
         /\ late \subseteq late'
         /\ worker.on \in late' \/ (messages[worker.on].state = "live" /\ messages[worker.on].body = worker.body)
<1>1. /\ Stayed /\ UNCHANGED <<previews, cardless, jobs, budget>> /\ worker.at = "tell" /\ worker' = NoJob
      /\ late' = IF [state |-> messages[worker.on].state, body |-> messages[worker.on].body]
                      # [state |-> "live", body |-> worker.body]
                    THEN late \cup {worker.on} ELSE late
  BY DEF AnnounceCard, Stayed, storeVars
<1>2. PICK t : t = [state |-> "live", body |-> worker.body, card |-> worker.card]
  OBVIOUS
<1>3. shown' = [shown EXCEPT ![worker.on] = t]
  BY <1>2 DEF AnnounceCard
<1>4. t \in Told /\ t.state = "live" /\ t.body = worker.body
  <2>1. worker.body \in Bodies /\ worker.card \in Store!Links
    BY DEF Typed, Enricher, Job
  <2> QED BY <1>2, <2>1 DEF Told
<1>5. shown' \in [MessageIds -> Told] /\ shown'[worker.on] = t /\ \A m \in MessageIds \ {worker.on} : shown'[m] = shown[m]
  BY <1>3, <1>4 DEF Typed, Tables
<1>6. late' \subseteq MessageIds /\ late \subseteq late'
  BY <1>1 DEF Typed, Histories
<1>7. Typed'
  BY <1>1, <1>5, <1>6, NoJobIs DEF Typed, Tables, Histories, Enricher, Stayed, channelVars
<1>8. worker.on \in late' \/ (messages[worker.on].state = "live" /\ messages[worker.on].body = worker.body)
  BY <1>1
<1> QED BY <1>1, <1>4, <1>5, <1>6, <1>7, <1>8

LEMMA MembersIs ==
  ASSUME Typed, ChangeMembers
  PROVE  /\ UNCHANGED <<storeVars, mentions, e2ee, blobs, known, enricherVars, shown, crossed, late, unheard, cardless>>
         /\ Typed' /\ RestAlike({})
         /\ \E u \in Users :
              /\ members' \subseteq members \cup {u} /\ members \subseteq members' \cup {u} /\ moved' = moved \cup {u}
              /\ \A q \in Requests : req'[q].stay = IF req[q].at \in Searching /\ req[q].by = u THEN {} ELSE req[q].stay
<1>1. PICK u \in Users :
        /\ budget["Membership"] > 0
        /\ members' = IF u \in members THEN members \ {u} ELSE members \cup {u}
        /\ moved' = moved \cup {u}
        /\ budget' = [budget EXCEPT !["Membership"] = @ - 1]
        /\ req' = [p \in Requests |-> IF req[p].at \in {"search", "files"} /\ req[p].by = u THEN [req[p] EXCEPT !.stay = {}] ELSE req[p]]
        /\ UNCHANGED <<storeVars, mentions, e2ee, blobs, known, enricherVars, shown, crossed, late, unheard, cardless>>
  BY DEF ChangeMembers
<1>2. ASSUME NEW r \in Request
      PROVE  LET s == [r EXCEPT !.stay = {}] IN s \in Request /\ s.stay = {} /\ Alike(s, r) /\ SameWalk(s, r)
  BY DEF Request, Alike, SameWalk
<1>3. \A q \in Requests : req[q] \in Request
  BY DEF Typed
<1>4. ASSUME NEW q \in Requests
      PROVE  /\ req'[q] \in Request /\ Alike(req'[q], req[q]) /\ SameWalk(req'[q], req[q])
             /\ req'[q].stay = IF req[q].at \in Searching /\ req[q].by = u THEN {} ELSE req[q].stay
  <2>1. CASE req[q].at \in Searching /\ req[q].by = u
    <3>1. req'[q] = [req[q] EXCEPT !.stay = {}]
      BY <1>1, <2>1 DEF Searching
    <3> QED BY <1>2, <1>3, <2>1, <3>1
  <2>2. CASE ~(req[q].at \in Searching /\ req[q].by = u)
    <3>1. req'[q] = req[q]
      BY <1>1, <2>2 DEF Searching
    <3> QED BY <1>3, <2>2, <3>1 DEF Alike, SameWalk
  <2> QED BY <2>1, <2>2
<1>5. req' \in [Requests -> Request]
  <2>1. req' = [p \in Requests |-> req'[p]]
    BY <1>1
  <2> QED BY <1>4, <2>1
<1>6. budget' \in [Operations -> Nat]
  BY <1>1 DEF Typed, Tables, Operations
<1>7. members' \subseteq Users /\ moved' \subseteq Users
  BY <1>1 DEF Typed, Tables, Histories
<1>8. Typed'
  BY <1>1, <1>5, <1>6, <1>7 DEF Typed, Tables, Histories, Enricher, storeVars, enricherVars
<1>9. members' \subseteq members \cup {u} /\ members \subseteq members' \cup {u}
  BY <1>1
<1> QED BY <1>1, <1>4, <1>8, <1>9 DEF RestAlike

-------------------------------------------------------------------------------
(* Which message a request is about.                                       *)

\* Rows stay, and stay deleted.
Grows == \A m \in MessageIds :
  messages[m] # NoRow => messages'[m] # NoRow /\ (messages[m].state = "deleted" => messages'[m].state = "deleted")

\* An id that the step gives a row to is no other request's.
Sole(X) == \A q \in Requests \ X : req[q].at \in Claiming => messages'[req[q].on] = messages[req[q].on]

LEMMA RowStays ==
  ASSUME NEW r, NEW s, Alike(s, r), KnowsRow(r), Grows, r.at \in Claiming => messages'[r.on] = messages[r.on], 0 \notin MessageIds
  PROVE  KnowsRow(s)'
BY DEF KnowsRow, Alike, Grows, OnRow, Writing

LEMMA NumberedStep ==
  ASSUME Numbered, NEW p \in Requests, RestAlike({p}), Grows, Sole({p}), Stored', Queued', KnowsRow(req[p])',
         \A q \in Requests \ {p} : req'[p].at \in Claiming \/ req[q].at \in Claiming => req[q].on # req'[p].on
  PROVE  Numbered'
<1>1. ASSUME NEW q \in Requests PROVE KnowsRow(req[q])'
  <2>1. CASE q = p
    BY <2>1
  <2>2. CASE q # p
    <3>1. Alike(req'[q], req[q]) /\ KnowsRow(req[q]) /\ (req[q].at \in Claiming => messages'[req[q].on] = messages[req[q].on])
      BY <2>2 DEF RestAlike, Numbered, Sole
    <3>2. PICK s : s = req'[q]
      OBVIOUS
    <3>3. KnowsRow(s)'
      BY <3>1, <3>2, Constants, RowStays
    <3> QED BY <3>2, <3>3 DEF KnowsRow
  <2> QED BY <2>1, <2>2
<1>2. Reserved'
  <2> SUFFICES ASSUME NEW a \in Requests, NEW b \in Requests, a # b, req'[a].at \in Claiming PROVE req'[b].on # req'[a].on
    BY DEF Reserved
  <2>1. CASE a = p
    BY <2>1 DEF RestAlike, Alike
  <2>2. CASE b = p
    BY <2>2 DEF RestAlike, Alike
  <2>3. CASE a # p /\ b # p
    BY <2>3 DEF RestAlike, Alike, Numbered, Reserved
  <2> QED BY <2>1, <2>2, <2>3
<1> QED BY <1>1, <1>2 DEF Numbered

LEMMA NumberedRest ==
  ASSUME Numbered, RestAlike({}), UNCHANGED messages, Queued'
  PROVE  Numbered'
<1>1. Grows
  BY DEF Grows
<1>2. ASSUME NEW q \in Requests PROVE KnowsRow(req[q])'
  <2>1. Alike(req'[q], req[q]) /\ KnowsRow(req[q])
    BY DEF RestAlike, Numbered
  <2>2. PICK s : s = req'[q]
    OBVIOUS
  <2>3. KnowsRow(s)'
    BY <1>1, <2>1, <2>2, Constants, RowStays
  <2> QED BY <2>2, <2>3 DEF KnowsRow
<1>3. Reserved'
  BY DEF RestAlike, Alike, Numbered, Reserved
<1>4. Stored'
  BY DEF Numbered, Stored
<1> QED BY <1>2, <1>3, <1>4 DEF Numbered

\* The rows and the enricher stay.
LEMMA NumberedMove ==
  ASSUME Numbered, NEW p \in Requests, RestAlike({p}), UNCHANGED <<messages, jobs, worker>>, KnowsRow(req'[p]),
         req'[p].on # 0 => \A q \in Requests \ {p} : req'[p].at \in Claiming \/ req[q].at \in Claiming => req[q].on # req'[p].on
  PROVE  Numbered'
<1>1. Grows /\ Sole({p})
  BY DEF Grows, Sole
<1>2. Stored' /\ Queued'
  BY DEF Numbered, Stored, Queued
<1>3. KnowsRow(req[p])'
  BY DEF KnowsRow
<1>4. \A q \in Requests \ {p} : req'[p].at \in Claiming \/ req[q].at \in Claiming => req[q].on # req'[p].on
  <2>1. req'[p].on = 0 => req'[p].at \notin Claiming
    BY Constants DEF KnowsRow
  <2>2. \A q \in Requests : req[q].at \in Claiming => req[q].on # 0
    BY Constants DEF Numbered, KnowsRow
  <2> QED BY <2>1, <2>2
<1> QED BY <1>1, <1>2, <1>3, <1>4, NumberedStep

LEMMA IdleKnowsRow == KnowsRow(Idle)
BY IdleIs DEF KnowsRow, OnRow, Writing, Telling, Claiming

LEMMA NumberedEnd ==
  ASSUME Numbered, NEW p \in Requests, Ends(p), UNCHANGED <<messages, jobs, worker>>
  PROVE  Numbered'
BY IdleIs, IdleKnowsRow, NumberedMove, RestIsAlike DEF Ends

\* A request that is still about its row.
LEMMA OnIsNoId ==
  ASSUME Numbered, NEW m \in MessageIds, messages[m] # NoRow
  PROVE  \A q \in Requests : req[q].at \in Claiming => req[q].on # m
BY DEF Numbered, KnowsRow

LEMMA BeginNumbers ==
  ASSUME Typed, Numbered, NEW p \in Requests,
         SendMessage(p) \/ EditMessage(p) \/ DeleteMessage(p) \/ SetReadPosition(p) \/ UploadFile(p) \/ ListMessages(p) \/ Search(p)
  PROVE  Numbered'
<1>0. Only => UNCHANGED <<messages, jobs, worker>>
  BY DEF Only, storeVars, enricherVars
<1>1. ASSUME NEW u, Begins(p, u), req'[p].on = 0, req'[p].at \notin OnRow \cup Claiming, req'[p].at = "send" => req'[p].key \in Keys
      PROVE  Numbered'
  <2>1. KnowsRow(req'[p])
    BY <1>1 DEF KnowsRow, Begins, Claiming, OnRow, Writing
  <2> QED BY <1>0, <1>1, <2>1, NumberedMove, RestIsAlike DEF Begins
<1>2. ASSUME NEW u, Begins(p, u), req'[p].at \in {"edit", "delete", "read"}, req'[p].on \in MessageIds, messages[req'[p].on] # NoRow
      PROVE  Numbered'
  <2>1. KnowsRow(req'[p]) /\ req'[p].at \notin Claiming
    BY <1>2 DEF KnowsRow, Begins, Claiming, OnRow, Writing, Telling
  <2>2. \A q \in Requests : req[q].at \in Claiming => req[q].on # req'[p].on
    BY <1>2, OnIsNoId
  <2> QED BY <1>0, <1>2, <2>1, <2>2, NumberedMove, RestIsAlike DEF Begins
<1>a. {"send", "blob", "before", "after", "older", "search", "files"} \cap (OnRow \cup Claiming) = {}
  BY DEF OnRow, Writing, Telling, Claiming
<1>3. CASE SendMessage(p)
  BY <1>1, <1>3, <1>a, SendIs
<1>4. CASE EditMessage(p)
  BY <1>2, <1>4, EditIs
<1>5. CASE DeleteMessage(p)
  BY <1>2, <1>5, DeleteIs
<1>6. CASE SetReadPosition(p)
  BY <1>2, <1>6, ReadIs
<1>7. CASE UploadFile(p)
  BY <1>1, <1>7, <1>a, UploadIs
<1>8. CASE ListMessages(p)
  BY <1>1, <1>8, <1>a, ListIs
<1>9. CASE Search(p)
  BY <1>1, <1>9, <1>a, SearchIs
<1> QED BY <1>3, <1>4, <1>5, <1>6, <1>7, <1>8, <1>9

\* Where a request is about a message.
LEMMA OnIs ==
  ASSUME Typed, Numbered, NEW p \in Requests
  PROVE  /\ req[p] \in Request /\ KnowsRow(req[p])
         /\ req[p].at \in OnRow => req[p].on \in MessageIds /\ messages[req[p].on] # NoRow
         /\ req[p].at \in Claiming => req[p].on \in MessageIds /\ messages[req[p].on] = NoRow
         /\ req[p].at # "idle" => req[p].by \in Users
         /\ worker.at # "idle" => worker.on \in MessageIds /\ messages[worker.on] # NoRow
BY DEF Typed, Numbered, KnowsRow, Queued

LEMMA RowIsThere ==
  ASSUME Typed, NEW m \in MessageIds
  PROVE  messages[m].state # "none" => messages[m] # NoRow
BY Constants DEF Typed, Tables

\* A new row is stored, by the request that has its id or that takes it.
LEMMA PutNumbers ==
  ASSUME Typed, Numbered, NEW p \in Requests, NEW m \in MessageIds, Puts(m, req[p]), Rest({p}), UNCHANGED <<jobs, worker>>,
         req[p].at # "idle", req'[p].at = "announce", req'[p].on = m, SameText(req'[p], req[p]), messages[m] = NoRow,
         \A q \in Requests \ {p} : req[q].on # m
  PROVE  Numbered'
<1>1. req[p] \in Request /\ req[p].by \in Users
  BY OnIs
<1>2. messages'[m] = RowOf(req[p]) /\ \A n \in MessageIds \ {m} : messages'[n] = messages[n]
  BY <1>1, PutsIs
<1>3. RowOf(req[p]) # NoRow /\ RowOf(req[p]).state = "live" /\ RowOf(req[p]).by \in Users
  BY <1>1, RowOfIs
<1>4. Grows
  BY <1>2 DEF Grows
<1>5. Sole({p})
  BY <1>2 DEF Sole, Numbered, KnowsRow
<1>6. Stored'
  BY <1>2, <1>3 DEF Stored, Numbered
<1>7. Queued'
  BY <1>4 DEF Queued, Numbered, Grows
<1>8. KnowsRow(req[p])'
  BY <1>1, <1>2, <1>3 DEF KnowsRow, SameText, OnRow, Writing, Telling, Claiming
<1> QED BY <1>4, <1>5, <1>6, <1>7, <1>8, NumberedStep, RestIsAlike

LEMMA SendNumbers ==
  ASSUME Typed, Numbered, NEW p \in Requests, InsertMessage(p) \/ ClaimAttachment(p) \/ CommitMessage(p)
  PROVE  Typed' /\ Numbered'
<1>1. CASE InsertMessage(p)
  <2>1. req[p].at = "send" /\ Typed' /\ UNCHANGED <<jobs, worker>> /\ Rest({p})
    BY <1>1, InsertIs DEF Fixed
  <2>2. CASE req'[p] = Idle /\ UNCHANGED <<messages, mentions>>
    BY <2>1, <2>2, NumberedEnd DEF Ends
  <2>3. CASE \E m : New(m) /\ Puts(m, req[p]) /\ req'[p].at = "announce" /\ req'[p].on = m /\ SameText(req'[p], req[p])
    <3>1. PICK m : New(m) /\ Puts(m, req[p]) /\ req'[p].at = "announce" /\ req'[p].on = m /\ SameText(req'[p], req[p])
      BY <2>3
    <3> QED BY <2>1, <3>1, PutNumbers DEF New
  <2>4. CASE New(req'[p].on) /\ req'[p].at = "claim" /\ SameText(req'[p], req[p]) /\ UNCHANGED <<messages, mentions>>
    <3>1. KnowsRow(req[p]) /\ req[p].by \in Users
      BY <2>1, OnIs
    <3>2. KnowsRow(req'[p])
      BY <2>1, <2>4, <3>1 DEF KnowsRow, New, SameText, OnRow, Writing, Telling, Claiming
    <3> QED BY <2>1, <2>4, <3>2, NumberedMove, RestIsAlike DEF New
  <2> QED BY <1>1, <2>1, <2>2, <2>3, <2>4, InsertIs
<1>2. CASE ClaimAttachment(p)
  <2>1. req[p].at = "claim" /\ Typed' /\ UNCHANGED <<messages, jobs, worker>> /\ Rest({p})
    BY <1>2, ClaimIs DEF Only, storeVars, enricherVars
  <2>2. CASE req'[p] = Idle
    BY <2>1, <2>2, NumberedEnd DEF Ends
  <2>3. CASE req'[p].at \in Claiming /\ req'[p].on = req[p].on /\ SameText(req'[p], req[p])
    <3>1. KnowsRow(req[p]) /\ req[p].by \in Users
      BY <2>1, OnIs
    <3>2. KnowsRow(req'[p])
      BY <2>1, <2>3, <3>1 DEF KnowsRow, SameText, OnRow, Writing, Telling, Claiming
    <3>3. \A q \in Requests \ {p} : req[q].on # req[p].on
      BY <2>1 DEF Numbered, Reserved, Claiming
    <3> QED BY <2>1, <2>3, <3>2, <3>3, NumberedMove, RestIsAlike
  <2> QED BY <1>2, <2>1, <2>2, <2>3, ClaimIs DEF Claiming
<1>3. CASE CommitMessage(p)
  <2>1. req[p].at = "claimed"
    BY <1>3 DEF CommitMessage
  <2>2. req[p].on \in MessageIds /\ messages[req[p].on] = NoRow
    BY <2>1, OnIs DEF Claiming
  <2>3. \A q \in Requests \ {p} : req[q].on # req[p].on
    BY <2>1 DEF Numbered, Reserved, Claiming
  <2>4. /\ Typed' /\ UNCHANGED <<jobs, worker>> /\ Rest({p}) /\ Puts(req[p].on, req[p])
        /\ req'[p].at = "announce" /\ req'[p].on = req[p].on /\ SameText(req'[p], req[p])
    BY <1>3, <2>2, CommitIs DEF Fixed
  <2> QED BY <2>1, <2>2, <2>3, <2>4, PutNumbers
<1> QED BY <1>1, <1>2, <1>3

LEMMA EndNumbers ==
  ASSUME Typed, Numbered, NEW p \in Requests,
         RollbackMessage(p) \/ FinishList(p) \/ CutOff(p) \/ AnnounceDeleted(p) \/ StoreReadPosition(p)
           \/ DeleteBlobs(p) \/ CreateAttachment(p) \/ LoseAnswer(p)
  PROVE  Typed' /\ Numbered'
<1>1. CASE RollbackMessage(p) \/ FinishList(p)
  BY <1>1, RollbackIs, NumberedEnd DEF Only, storeVars, enricherVars
<1>2. CASE CutOff(p)
  <2>1. req[p].on \in MessageIds
    BY <1>2, OnIs DEF CutOff, OnRow, Writing, Telling
  <2> QED BY <1>2, <2>1, CutOffIs, NumberedEnd DEF storeVars, enricherVars
<1>3. CASE AnnounceDeleted(p)
  <2>1. req[p].on \in MessageIds
    BY <1>3, OnIs DEF AnnounceDeleted, OnRow, Writing
  <2> QED BY <1>3, <2>1, TombstoneIs, NumberedEnd DEF storeVars, enricherVars
<1>4. CASE StoreReadPosition(p)
  <2>1. req[p].on \in MessageIds /\ req[p].by \in Users
    BY <1>4, OnIs DEF StoreReadPosition, OnRow
  <2> QED BY <1>4, <2>1, StoreReadIs, NumberedEnd DEF enricherVars
<1>5. CASE DeleteBlobs(p)
  BY <1>5, DeleteBlobsIs, NumberedEnd DEF FixedFiles, enricherVars
<1>6. CASE CreateAttachment(p) \/ LoseAnswer(p)
  BY <1>6, StoreRowIs, NumberedEnd DEF FixedFiles, enricherVars
<1> QED BY <1>1, <1>2, <1>3, <1>4, <1>5, <1>6

LEMMA EnqueueNumbers ==
  ASSUME Typed, Numbered, NEW p \in Requests, Enqueue(p)
  PROVE  Typed' /\ Numbered'
<1>1. req[p].on \in MessageIds /\ messages[req[p].on] # NoRow
  BY OnIs DEF Enqueue, OnRow, Writing, Telling
<1>2. Typed' /\ Ends(p) /\ UNCHANGED <<messages, worker>> /\ (jobs' = jobs \/ jobs' = Append(jobs, JobOf(req[p])))
  BY <1>1, EnqueueIs DEF storeVars
<1>3. jobs \in Seq(Job)
  BY DEF Typed, Enricher
<1>4. JobOf(req[p]).at = "process" /\ JobOf(req[p]).on = req[p].on
  BY DEF JobOf
<1>5. Queued'
  <2>1. ASSUME NEW i \in DOMAIN jobs' PROVE jobs'[i].at = "process" /\ jobs'[i].on \in MessageIds /\ messages[jobs'[i].on] # NoRow
    <3>1. jobs'[i] = JobOf(req[p]) \/ (i \in DOMAIN jobs /\ jobs'[i] = jobs[i])
      BY <1>2, <1>3, AppendProperties
    <3> QED BY <1>1, <1>4, <3>1 DEF Numbered, Queued
  <2> QED BY <1>2, <2>1 DEF Numbered, Queued
<1>6. Grows /\ Sole({p}) /\ Stored'
  BY <1>2 DEF Grows, Sole, Numbered, Stored
<1>7. KnowsRow(req[p])'
  BY <1>2, IdleKnowsRow DEF Ends, KnowsRow
<1>8. RestAlike({p}) /\ req'[p].on = 0 /\ req'[p].at = "idle"
  BY <1>2, IdleIs, RestIsAlike DEF Ends
<1>9. \A q \in Requests \ {p} : req'[p].at \in Claiming \/ req[q].at \in Claiming => req[q].on # req'[p].on
  BY <1>8, Constants DEF Claiming, Numbered, KnowsRow
<1> QED BY <1>2, <1>5, <1>6, <1>7, <1>8, <1>9, NumberedStep

\* A step of a request that stays with its row, or with none.
LEMMA StayNumbers ==
  ASSUME Typed, Numbered, NEW p \in Requests,
         AnnounceMessage(p) \/ BeginUpdate(p) \/ LoadMessageCards(p) \/ StoreBlob(p) \/ HistoryPage(p) \/ SearchPage(p)
  PROVE  Typed' /\ Numbered'
<1>0. req[p] \in Request /\ KnowsRow(req[p])
  BY OnIs
<1>1. ASSUME req[p].at \in OnRow, req'[p].at \in OnRow \ {"tombstone"}, req'[p].on = req[p].on, req'[p].by = req[p].by, Rest({p}),
             UNCHANGED <<messages, jobs, worker>>
      PROVE  Numbered'
  <2>0. OnRow \cap Claiming = {} /\ "idle" \notin OnRow /\ "send" \notin OnRow
    BY DEF OnRow, Writing, Telling, Claiming
  <2>1. KnowsRow(req'[p]) /\ req'[p].at \notin Claiming
    BY <1>0, <1>1, <2>0 DEF KnowsRow
  <2>2. \A q \in Requests : req[q].at \in Claiming => req[q].on # req'[p].on
    BY <1>1, OnIs, OnIsNoId
  <2> QED BY <1>1, <2>1, <2>2, NumberedMove, RestIsAlike
<1>2. ASSUME req[p].at \in Walking \cup Uploading, req'[p].at \in Walking \cup Uploading, req'[p].on = req[p].on, req'[p].by = req[p].by, Rest({p}),
             UNCHANGED <<messages, jobs, worker>>
      PROVE  Numbered'
  <2>1. (Walking \cup Uploading) \cap (OnRow \cup Claiming \cup {"idle", "send", "tombstone"}) = {}
    BY DEF OnRow, Writing, Telling, Claiming, Walking, Uploading, Searching
  <2>2. KnowsRow(req'[p]) /\ req'[p].on = 0
    BY <1>0, <1>2, <2>1 DEF KnowsRow
  <2> QED BY <1>2, <2>2, NumberedMove, RestIsAlike
<1>a. {"announce", "enrich", "edit", "apply", "cards"} \subseteq OnRow \ {"tombstone"}
  BY DEF OnRow, Writing, Telling
<1>b. {"blob", "row"} \subseteq Walking \cup Uploading
  BY DEF Uploading
<1>3. CASE AnnounceMessage(p)
  <2>1. req[p].on \in MessageIds
    BY <1>3, <1>a, OnIs DEF AnnounceMessage
  <2>2. req[p].at = "announce" /\ req'[p].at = "enrich"
    BY <1>3, <2>1, AnnounceIs
  <2> QED BY <1>1, <1>3, <1>a, <2>1, <2>2, AnnounceIs DEF SameText, storeVars, enricherVars
<1>4. CASE BeginUpdate(p)
  <2>1. req[p].on \in MessageIds
    BY <1>4, <1>a, OnIs DEF BeginUpdate
  <2>2. req[p].at = "edit" /\ req'[p].at = "apply"
    BY <1>4, <2>1, BeginUpdateIs
  <2> QED BY <1>1, <1>4, <1>a, <2>1, <2>2, BeginUpdateIs DEF SameText, storeVars, enricherVars
<1>5. CASE LoadMessageCards(p)
  <2>1. req[p].on \in MessageIds
    BY <1>5, <1>a, OnIs DEF LoadMessageCards
  <2>2. req[p].at = "cards" /\ req'[p].at = "announce"
    BY <1>5, <2>1, LoadIs
  <2> QED BY <1>1, <1>5, <1>a, <2>1, <2>2, LoadIs DEF SameText, Only, storeVars, enricherVars
<1>6. CASE StoreBlob(p)
  <2>1. req[p].at = "blob" /\ req'[p].at = "row"
    BY <1>6, StoreBlobIs
  <2> QED BY <1>2, <1>6, <1>b, <2>1, StoreBlobIs DEF SameText, FixedFiles, enricherVars
<1>7. CASE HistoryPage(p)
  <2>1. Rest({p}) /\ UNCHANGED <<messages, jobs, worker>> /\ Typed' /\ req[p].at \in Walking /\ (req'[p] = Idle \/ Walked(p))
    BY <1>7, HistoryIs DEF Only, storeVars, enricherVars, Walking
  <2>2. CASE req'[p] = Idle
    BY <2>1, <2>2, NumberedEnd DEF Ends
  <2>3. CASE Walked(p)
    BY <1>2, <2>1, <2>3 DEF Walked
  <2> QED BY <2>1, <2>2, <2>3
<1>8. CASE SearchPage(p)
  <2>1. Rest({p}) /\ UNCHANGED <<messages, jobs, worker>> /\ Typed' /\ req[p].at \in Walking /\ Walked(p)
    BY <1>8, SearchPageIs DEF Only, storeVars, enricherVars, Walking
  <2> QED BY <1>2, <2>1 DEF Walked
<1> QED BY <1>3, <1>4, <1>5, <1>6, <1>7, <1>8

LEMMA EditNumbers ==
  ASSUME Typed, Numbered, NEW p \in Requests, UpdateMessageContent(p) \/ SoftDeleteMessage(p)
  PROVE  Typed' /\ Numbered'
<1>0. OnRow \cap Claiming = {} /\ {"idle", "send"} \cap OnRow = {} /\ {"apply", "cards", "delete", "tombstone"} \subseteq OnRow
  BY DEF OnRow, Writing, Telling, Claiming
<1>1. req[p] \in Request /\ KnowsRow(req[p]) /\ req[p].at \in OnRow /\ req[p].on \in MessageIds /\ messages[req[p].on] # NoRow
  BY <1>0, OnIs DEF UpdateMessageContent, SoftDeleteMessage
<1>2. PICK m \in MessageIds : m = req[p].on
  BY <1>1
<1>3. \A q \in Requests : req[q].at \in Claiming => req[q].on # m
  BY <1>1, <1>2, OnIsNoId
<1>4. messages[m].state \in {"live", "deleted"} /\ messages[m].by \in Users
  <2>1. messages[m] \in Store!MessageRow
    BY DEF Typed, Tables
  <2>2. messages[m].state \in {"none", "live", "deleted"}
    BY <2>1, Rowed
  <2> QED BY <1>1, <1>2, <2>2 DEF Numbered, Stored
<1>5. ASSUME \A n \in MessageIds \ {m} : messages'[n] = messages[n], messages'[m].by = messages[m].by,
             messages'[m].state \in {"live", "deleted"}, messages'[m].state = "deleted" => messages'[m].body = Erased,
             messages[m].state = "deleted" => messages'[m].state = "deleted",
             RestAlike({p}), UNCHANGED <<jobs, worker>>, req'[p].on = m, req'[p].by = req[p].by,
             req'[p].at = "cards" \/ (req'[p].at = "tombstone" /\ messages'[m].state = "deleted")
      PROVE  Numbered'
  <2>1. messages'[m] # NoRow
    <3>1. NoRow.by = 0
      BY Constants
    <3> QED BY <1>4, <1>5, <3>1, Constants
  <2>2. Grows
    BY <1>5, <2>1 DEF Grows
  <2>3. Sole({p})
    BY <1>3, <1>5 DEF Sole, Numbered, KnowsRow
  <2>4. Stored'
    BY <1>4, <1>5 DEF Numbered, Stored
  <2>5. Queued'
    BY <1>5, <2>2 DEF Numbered, Queued, Grows
  <2>6. KnowsRow(req[p])'
    BY <1>0, <1>1, <1>2, <1>5, <2>1 DEF KnowsRow
  <2>7. req'[p].at \notin Claiming
    BY <1>5 DEF Claiming
  <2> QED BY <1>3, <1>5, <2>2, <2>3, <2>4, <2>5, <2>6, <2>7, NumberedStep
<1>6. CASE UpdateMessageContent(p)
  <2>1. Typed' /\ Rest({p}) /\ UNCHANGED <<jobs, worker>>
    BY <1>1, <1>6, UpdateIs DEF enricherVars
  <2>2. CASE req'[p] = Idle /\ UNCHANGED <<messages, mentions>>
    BY <2>1, <2>2, NumberedEnd DEF Ends
  <2>3. CASE /\ messages[req[p].on].state # "deleted" /\ Edited(req[p].on, req[p].body)
             /\ req'[p].at = "cards" /\ req'[p].on = req[p].on /\ SameText(req'[p], req[p])
    BY <1>2, <1>4, <1>5, <2>1, <2>3, RestIsAlike DEF Edited, SameText
  <2> QED BY <1>1, <1>6, <2>1, <2>2, <2>3, UpdateIs
<1>7. CASE SoftDeleteMessage(p)
  <2>1. Typed' /\ RestAlike({p}) /\ UNCHANGED <<jobs, worker>>
    BY <1>1, <1>7, SoftDeleteIs DEF enricherVars
  <2>2. CASE Ends(p) /\ UNCHANGED <<messages, crossed>>
    BY <2>1, <2>2, NumberedEnd
  <2>3. CASE /\ Blanked(req[p].on)
             /\ req'[p].at = "tombstone" /\ req'[p].on = req[p].on /\ SameText(req'[p], req[p])
    BY <1>2, <1>5, <2>1, <2>3 DEF Blanked, SameText
  <2> QED BY <1>1, <1>7, <2>1, <2>2, <2>3, SoftDeleteIs
<1> QED BY <1>6, <1>7

LEMMA WorkNumbers ==
  ASSUME Typed, Numbered, TakeJob \/ FailJob \/ SaveLinkPreview \/ RemovePreview \/ AnnounceCard \/ ChangeMembers
  PROVE  Typed' /\ Numbered'
<1>0. UNCHANGED req => RestAlike({})
  BY DEF RestAlike, Alike, SameWalk
<1>1. CASE TakeJob
  <2>1. /\ Typed' /\ UNCHANGED <<messages, req>> /\ jobs # <<>> /\ worker' = jobs[1] /\ jobs' = Tail(jobs)
    BY <1>1, TakeJobIs DEF Stayed
  <2>2. jobs \in Seq(Job) /\ 1 \in DOMAIN jobs /\ \A i \in DOMAIN jobs' : i + 1 \in DOMAIN jobs /\ jobs'[i] = jobs[i + 1]
    BY <2>1 DEF Typed, Enricher
  <2>3. Queued'
    BY <2>1, <2>2 DEF Numbered, Queued
  <2> QED BY <1>0, <2>1, <2>3, NumberedRest
<1>2. CASE FailJob \/ SaveLinkPreview \/ RemovePreview \/ AnnounceCard
  <2>1. worker.on \in MessageIds /\ messages[worker.on] # NoRow
    BY <1>2 DEF FailJob, SaveLinkPreview, RemovePreview, AnnounceCard, Numbered, Queued
  <2>2. Typed' /\ UNCHANGED <<messages, req, jobs>> /\ (worker' = NoJob \/ (worker'.at = "tell" /\ worker'.on = worker.on))
    BY <1>2, <2>1, FailJobIs, CardIs, AnnounceCardIs DEF Stayed
  <2>3. Queued'
    BY <2>1, <2>2, NoJobIs DEF Numbered, Queued
  <2> QED BY <1>0, <2>2, <2>3, NumberedRest
<1>3. CASE ChangeMembers
  <2>1. Typed' /\ RestAlike({}) /\ UNCHANGED <<messages, jobs, worker>>
    BY <1>3, MembersIs DEF storeVars, enricherVars
  <2>2. Queued'
    BY <2>1 DEF Numbered, Queued
  <2> QED BY <2>1, <2>2, NumberedRest
<1> QED BY <1>1, <1>2, <1>3

\* The message that the channel begins with.
First == [NoRow EXCEPT !.state = "live", !.by = CHOOSE u \in Users : \A v \in Users : u <= v,
                       !.body = CHOOSE b \in Bodies : b.link = 0 /\ b.mentions = {}]

LEMMA FirstIs ==
  /\ First \in Store!MessageRow /\ First.state = "live" /\ First.by \in Users /\ First.key = 0 /\ First.body.link = 0
  /\ First.body.mentions = {} /\ First.body \in Bodies /\ First.files = {} /\ First # NoRow
<1>1. PICK u : u = CHOOSE w \in Users : \A v \in Users : w <= v
  OBVIOUS
<1>2. u \in Users
  <2>1. \E x \in Users : \A y \in Users : x <= y
    BY Constants, SmallestOf
  <2> QED BY <1>1, <2>1
<1>3. PICK b : b = CHOOSE c \in Bodies : c.link = 0 /\ c.mentions = {}
  OBVIOUS
<1>4. b \in Bodies /\ b.link = 0 /\ b.mentions = {}
  <2>1. Erased \in Bodies /\ Erased.link = 0 /\ Erased.mentions = {}
    BY Constants
  <2> QED BY <1>3, <2>1
<1>5. First = [state |-> "live", by |-> u, key |-> 0, body |-> b, files |-> {}]
  <2>1. First = [NoRow EXCEPT !.state = "live", !.by = u, !.body = b]
    BY <1>1, <1>3 DEF First
  <2>2. NoRow = [state |-> "none", by |-> 0, key |-> 0, body |-> Erased, files |-> {}]
    BY Constants
  <2> QED BY <2>1, <2>2
<1>6. First \in Store!MessageRow
  BY <1>2, <1>4, <1>5, Rowed
<1>7. First # NoRow
  BY <1>5, Constants
<1> QED BY <1>2, <1>4, <1>5, <1>6, <1>7

LEMMA InitIs ==
  ASSUME Init
  PROVE  /\ messages \in [MessageIds -> Store!MessageRow] /\ messages[1] = First /\ \A m \in MessageIds \ {1} : messages[m] = NoRow
         /\ shown \in [MessageIds -> Told] /\ shown[1].state = "live" /\ shown[1].body = First.body
         /\ \A m \in MessageIds \ {1} : shown[m].state = "none" /\ shown[m].body = Erased
         /\ attachments = [f \in Files |-> [stored |-> FALSE, by |-> 0, msg |-> 0]]
<1>1. /\ messages = [m \in MessageIds |-> IF m = 1 THEN First ELSE NoRow]
      /\ shown = [m \in MessageIds |-> IF m = 1 THEN [Untold EXCEPT !.state = "live", !.body = First.body] ELSE Untold]
      /\ attachments = [f \in Files |-> Store!NoUpload]
  BY DEF Init, First
<1>2. PICK t : t = [Untold EXCEPT !.state = "live", !.body = First.body]
  OBVIOUS
<1>3. Untold \in Told /\ Untold.state = "none" /\ Untold.body = Erased
  BY Constants, Rowed DEF Untold, Told
<1>4. t \in Told /\ t.state = "live" /\ t.body = First.body
  BY <1>2, FirstIs, Constants, Rowed DEF Untold, Told
<1>5. Store!NoUpload = [stored |-> FALSE, by |-> 0, msg |-> 0]
  BY DEF Store!NoUpload, Store!Nobody
<1>6. messages \in [MessageIds -> Store!MessageRow]
  BY <1>1, FirstIs, Rowed
<1>7. shown \in [MessageIds -> Told]
  BY <1>1, <1>2, <1>3, <1>4
<1> QED BY <1>1, <1>2, <1>3, <1>4, <1>5, <1>6, <1>7, Constants

LEMMA InitNumbers == Init => Typed /\ Numbered
<1> SUFFICES ASSUME Init PROVE Typed /\ Numbered
  OBVIOUS
<1>1. attachments \in [Files -> Store!UploadRow]
  <2>1. [stored |-> FALSE, by |-> 0, msg |-> 0] \in Store!UploadRow
    BY Rowed
  <2> QED BY <2>1, InitIs
<1>2. previews \in [MessageIds -> Store!Links] /\ readpos \in [Users -> MessageIds \cup {0}]
  BY Rowed DEF Init
<1>3. /\ mentions = {} /\ members = Users /\ e2ee \in BOOLEAN /\ blobs = {} /\ known = {} /\ jobs = <<>> /\ worker = NoJob
      /\ crossed = {} /\ late = {} /\ unheard = {} /\ cardless = {} /\ moved = {} /\ req = [p \in Requests |-> Idle]
      /\ budget \in [Operations -> Nat]
  BY MessagesAssumptions DEF Init
<1>4. Tables
  BY <1>1, <1>2, <1>3, InitIs DEF Tables
<1>5. Histories
  BY <1>3 DEF Histories
<1>6. Enricher
  BY <1>3, NoJobIs, Constants DEF Enricher
<1>7. req \in [Requests -> Request]
  BY <1>3, IdleIs
<1>8. \A p \in Requests : KnowsRow(req[p]) /\ req[p].at = "idle"
  BY <1>3, IdleIs, IdleKnowsRow
<1>9. Reserved
  BY <1>8 DEF Reserved, Claiming
<1>10. Stored
  <2>1. NoRow.state = "none"
    BY Constants
  <2> QED BY <2>1, InitIs, FirstIs DEF Stored
<1>11. Queued
  BY <1>3, NoJobIs DEF Queued
<1> QED BY <1>4, <1>5, <1>6, <1>7, <1>8, <1>9, <1>10, <1>11 DEF Typed, Numbered

\* The actions by the lemmas that treat them.
Beginning(p) ==
  SendMessage(p) \/ EditMessage(p) \/ DeleteMessage(p) \/ SetReadPosition(p) \/ UploadFile(p) \/ ListMessages(p) \/ Search(p)
Sending(p) == InsertMessage(p) \/ ClaimAttachment(p) \/ CommitMessage(p)
Ending(p) ==
  RollbackMessage(p) \/ FinishList(p) \/ CutOff(p) \/ AnnounceDeleted(p) \/ StoreReadPosition(p)
    \/ DeleteBlobs(p) \/ CreateAttachment(p) \/ LoseAnswer(p)
Staying(p) == AnnounceMessage(p) \/ BeginUpdate(p) \/ LoadMessageCards(p) \/ StoreBlob(p) \/ HistoryPage(p) \/ SearchPage(p)
Editing(p) == UpdateMessageContent(p) \/ SoftDeleteMessage(p)
Background == TakeJob \/ FailJob \/ SaveLinkPreview \/ RemovePreview \/ AnnounceCard \/ ChangeMembers

LEMMA NextIs ==
  Next <=> \/ \E p \in Requests : Beginning(p) \/ Sending(p) \/ Ending(p) \/ Enqueue(p) \/ Staying(p) \/ Editing(p)
           \/ Background
BY DEF Next, Beginning, Sending, Ending, Staying, Editing, Background

LEMMA TypedNext == Typed /\ Numbered /\ Next => Typed' /\ Numbered'
<1> SUFFICES ASSUME Typed, Numbered, Next PROVE Typed' /\ Numbered'
  OBVIOUS
<1>1. ASSUME NEW p \in Requests, Beginning(p) PROVE Typed' /\ Numbered'
  <2>1. Numbered'
    BY <1>1, BeginNumbers DEF Beginning
  <2>2. Typed'
    BY <1>1, SendIs, EditIs, DeleteIs, ReadIs, UploadIs, ListIs, SearchIs DEF Beginning, Begins
  <2> QED BY <2>1, <2>2
<1>2. ASSUME NEW p \in Requests, Sending(p) \/ Ending(p) \/ Enqueue(p) \/ Staying(p) \/ Editing(p) PROVE Typed' /\ Numbered'
  BY <1>2, SendNumbers, EndNumbers, EnqueueNumbers, StayNumbers, EditNumbers DEF Sending, Ending, Staying, Editing
<1>3. CASE Background
  BY <1>3, WorkNumbers DEF Background
<1> QED BY <1>1, <1>2, <1>3, NextIs

-------------------------------------------------------------------------------
(* Files and keys.                                                         *)

\* What a request relies on of the uploads stays.
Undisturbed(r) ==
  /\ r.at \in Claiming => \A f \in r.held : attachments'[f] = attachments[f]
  /\ r.at \in Uploading => \A f \in r.files : attachments'[f] = attachments[f] /\ (f \in blobs => f \in blobs')
SameKeys == \A m \in MessageIds : messages'[m].by = messages[m].by /\ messages'[m].key = messages[m].key
SameFiles == UNCHANGED <<attachments, known, blobs>> /\ \A m \in MessageIds : messages'[m].files = messages[m].files
\* A request that claims and uploads nothing.
Calm(r) == r.at \notin Claiming \cup Uploading /\ r.held = {} /\ (r.at = "send" => r.files \subseteq known)

LEMMA FilesStay ==
  ASSUME NEW r, NEW s, Alike(s, r), KnowsFiles(r), known \subseteq known', Undisturbed(r)
  PROVE  KnowsFiles(s)'
BY DEF KnowsFiles, Alike, Undisturbed, Claiming, Uploading

LEMMA KeyStays ==
  ASSUME NEW r, NEW s, Alike(s, r), KnowsKey(r), SameKeys
  PROVE  KnowsKey(s)'
BY DEF KnowsKey, Alike, SameKeys, Uses

LEMMA CalmKnows ==
  ASSUME NEW r, Calm(r)
  PROVE  KnowsFiles(r) /\ KnowsKey(r) /\ \A s : ApartFiles(r, s)
BY DEF Calm, KnowsFiles, KnowsKey, ApartFiles, Claiming, Uploading

LEMMA ApartIsMutual == \A r, s : ApartFiles(r, s) => ApartFiles(s, r)
BY DEF ApartFiles

LEMMA ApartStays == ASSUME NEW r, NEW s, NEW t, NEW u, Alike(t, r), Alike(u, s), ApartFiles(r, s) PROVE ApartFiles(t, u)
BY DEF ApartFiles, Alike

LEMMA ClaimsStep ==
  ASSUME Claims, NEW X, RestAlike(X), known \subseteq known', Whole',
         \A q \in Requests \ X : Undisturbed(req[q]) /\ KnowsKey(req[q])',
         \A q \in Requests \cap X : KnowsFiles(req[q])' /\ KnowsKey(req[q])' /\ \A o \in Requests \ {q} : ApartFiles(req'[q], req'[o])
  PROVE  Claims'
<1>1. ASSUME NEW q \in Requests PROVE KnowsFiles(req[q])' /\ KnowsKey(req[q])'
  <2>1. CASE q \in X
    BY <2>1
  <2>2. CASE q \notin X
    <3>1. Alike(req'[q], req[q]) /\ KnowsFiles(req[q]) /\ Undisturbed(req[q]) /\ KnowsKey(req[q])'
      BY <2>2 DEF RestAlike, Claims
    <3>2. PICK s : s = req'[q]
      OBVIOUS
    <3>3. KnowsFiles(s)'
      BY <3>1, <3>2, FilesStay
    <3> QED BY <3>1, <3>2, <3>3 DEF KnowsFiles
  <2> QED BY <2>1, <2>2
<1>2. ASSUME NEW a \in Requests, NEW b \in Requests, a # b PROVE ApartFiles(req'[a], req'[b])
  <2>1. CASE a \in X
    BY <1>2, <2>1
  <2>2. CASE b \in X
    BY <1>2, <2>2, ApartIsMutual
  <2>3. CASE a \notin X /\ b \notin X
    <3>1. Alike(req'[a], req[a]) /\ Alike(req'[b], req[b])
      BY <2>3 DEF RestAlike
    <3>2. ApartFiles(req[a], req[b])
      BY <1>2 DEF Claims
    <3> QED BY <3>1, <3>2, ApartStays
  <2> QED BY <2>1, <2>2, <2>3
<1>3. (\A a, b \in Requests : a # b => ApartFiles(req[a], req[b]))'
  BY <1>2 DEF ApartFiles
<1> QED BY <1>1, <1>3 DEF Claims

LEMMA KeysStay == ASSUME Claims, NEW X, RestAlike(X), SameKeys PROVE \A q \in Requests \ X : KnowsKey(req[q])'
<1> SUFFICES ASSUME NEW q \in Requests \ X PROVE KnowsKey(req[q])'
  OBVIOUS
<1>1. Alike(req'[q], req[q]) /\ KnowsKey(req[q])
  BY DEF RestAlike, Claims
<1>2. PICK s : s = req'[q]
  OBVIOUS
<1>3. KnowsKey(s)'
  BY <1>1, <1>2, KeyStays
<1> QED BY <1>2, <1>3 DEF KnowsKey, Uses

\* Most steps leave the uploads and the keys alone.
LEMMA ClaimsRest ==
  ASSUME Claims, RestAlike({}), SameKeys, SameFiles
  PROVE  Claims'
<1>1. Whole'
  BY DEF Claims, Whole, SameFiles
<1>2. \A q \in Requests : Undisturbed(req[q])
  BY DEF Undisturbed, SameFiles
<1> QED BY <1>1, <1>2, KeysStay, ClaimsStep DEF SameFiles

LEMMA ClaimsCalm ==
  ASSUME Claims, NEW p \in Requests, RestAlike({p}), SameKeys, SameFiles, Calm(req'[p])
  PROVE  Claims'
<1>1. Whole'
  BY DEF Claims, Whole, SameFiles
<1>2. \A q \in Requests : Undisturbed(req[q])
  BY DEF Undisturbed, SameFiles
<1>3. KnowsFiles(req[p])' /\ KnowsKey(req[p])' /\ \A o \in Requests : ApartFiles(req'[p], req'[o])
  <2>1. \A o \in Requests : ApartFiles(req'[p], req'[o])
    BY CalmKnows
  <2>2. KnowsFiles(req[p])' /\ KnowsKey(req[p])'
    BY DEF SameFiles, Calm, KnowsFiles, KnowsKey, Claiming, Uploading
  <2> QED BY <2>1, <2>2
<1> QED BY <1>1, <1>2, <1>3, KeysStay, ClaimsStep DEF SameFiles

LEMMA IdleIsCalm == Calm(Idle)
BY IdleIs DEF Calm, Claiming, Uploading

LEMMA ClaimsEnd ==
  ASSUME Claims, NEW p \in Requests, Ends(p), SameKeys, SameFiles
  PROVE  Claims'
BY IdleIsCalm, ClaimsCalm, RestIsAlike DEF Ends

LEMMA HeldIsEmpty == ASSUME Claims, NEW p \in Requests, req[p].at \notin Claiming PROVE req[p].held = {}
BY DEF Claims, KnowsFiles

LEMMA UploadClaims ==
  ASSUME Typed, Claims, NEW p \in Requests, UploadFile(p)
  PROVE  Claims'
<1>1. PICK u : /\ Begins(p, u) /\ req'[p].at = "blob" /\ req'[p].held = {}
               /\ \E f \in Files : req'[p].files = {f}
               /\ \A f \in req'[p].files : ~attachments[f].stored /\ \A q \in Requests : f \notin req[q].files
  BY UploadIs
<1>2. Rest({p}) /\ UNCHANGED <<messages, attachments, known, blobs>>
  BY <1>1 DEF Begins, Only, storeVars, channelVars
<1>3. SameKeys /\ SameFiles /\ RestAlike({p})
  BY <1>2, RestIsAlike DEF SameKeys, SameFiles
<1>4. Whole' /\ \A q \in Requests : Undisturbed(req[q])
  BY <1>2 DEF Claims, Whole, Undisturbed
<1>5. KnowsFiles(req[p])' /\ KnowsKey(req[p])'
  BY <1>1, <1>2 DEF KnowsFiles, KnowsKey, Claiming, Uploading
<1>6. ASSUME NEW o \in Requests \ {p} PROVE ApartFiles(req'[p], req'[o])
  <2>1. req'[o] = req[o]
    BY <1>2 DEF Rest
  <2> QED BY <1>1, <2>1 DEF ApartFiles, Claiming
<1> QED BY <1>2, <1>3, <1>4, <1>5, <1>6, KeysStay, ClaimsStep

LEMMA BeginClaims ==
  ASSUME Typed, Claims, NEW p \in Requests, Beginning(p)
  PROVE  Claims'
<1>1. CASE UploadFile(p)
  BY <1>1, UploadClaims
<1>2. ASSUME NEW u, Begins(p, u), Calm(req'[p]) PROVE Claims'
  <2>1. Rest({p}) /\ SameKeys /\ SameFiles
    BY <1>2 DEF Begins, Only, SameKeys, SameFiles, storeVars, channelVars
  <2> QED BY <1>2, <2>1, ClaimsCalm, RestIsAlike
<1>3. CASE SendMessage(p)
  <2>1. PICK u : Begins(p, u) /\ req'[p].at = "send" /\ req'[p].held = {} /\ req'[p].files \subseteq known
    BY <1>3, SendIs
  <2> QED BY <1>2, <2>1 DEF Calm, Claiming, Uploading
<1>4. CASE EditMessage(p)
  <2>1. PICK u : Begins(p, u) /\ req'[p].at = "edit" /\ req'[p].held = {}
    BY <1>4, EditIs
  <2> QED BY <1>2, <2>1 DEF Calm, Claiming, Uploading
<1>5. CASE DeleteMessage(p)
  <2>1. PICK u : Begins(p, u) /\ req'[p].at = "delete" /\ req'[p].held = {}
    BY <1>5, DeleteIs
  <2> QED BY <1>2, <2>1 DEF Calm, Claiming, Uploading
<1>6. CASE SetReadPosition(p)
  <2>1. PICK u : Begins(p, u) /\ req'[p].at = "read" /\ req'[p].held = {}
    BY <1>6, ReadIs
  <2> QED BY <1>2, <2>1 DEF Calm, Claiming, Uploading
<1>7. CASE ListMessages(p)
  <2>1. PICK u : Begins(p, u) /\ req'[p].at \in {"before", "after", "older"} /\ req'[p].held = {}
    BY <1>7, ListIs
  <2> QED BY <1>2, <2>1 DEF Calm, Claiming, Uploading
<1>8. CASE Search(p)
  <2>1. PICK u : Begins(p, u) /\ req'[p].at \in {"search", "files"} /\ req'[p].held = {}
    BY <1>8, SearchIs
  <2> QED BY <1>2, <2>1 DEF Calm, Claiming, Uploading
<1> QED BY <1>1, <1>3, <1>4, <1>5, <1>6, <1>7, <1>8 DEF Beginning

\* A message without files takes its key: nobody was about to take it.
LEMMA InsertClaims ==
  ASSUME Typed, Numbered, Claims, NEW p \in Requests, InsertMessage(p)
  PROVE  Claims'
<1>1. /\ req[p].at = "send" /\ ~KeyHeld(p) /\ Typed' /\ UNCHANGED <<attachments, known, blobs>> /\ Rest({p})
  BY InsertIs DEF Fixed
<1>2. \A q \in Requests : Undisturbed(req[q])
  BY <1>1 DEF Undisturbed
<1>3. RestAlike({p}) /\ req[p] \in Request /\ req[p].held = {} /\ req[p].files \subseteq known
  <2>1. RestAlike({p}) /\ req[p] \in Request
    BY <1>1, RestIsAlike DEF Typed
  <2>2. req[p].files \subseteq known /\ req[p].held = {}
    BY <1>1 DEF Claims, KnowsFiles, Claiming
  <2> QED BY <2>1, <2>2
<1>4. \A q \in Requests \ {p} : req[q].at \in Claiming => <<req[q].by, req[q].key>> # <<req[p].by, req[p].key>>
  BY <1>1 DEF KeyHeld, Claiming
<1>5. CASE req'[p] = Idle /\ UNCHANGED <<messages, mentions>>
  BY <1>1, <1>5, ClaimsEnd DEF Ends, SameKeys, SameFiles
<1>6. CASE /\ ~KeyUsed(p) /\ req[p].files = {}
           /\ \E m : New(m) /\ Puts(m, req[p]) /\ req'[p].at = "announce" /\ req'[p].held = req[p].held
  <2>1. PICK m : New(m) /\ Puts(m, req[p]) /\ req'[p].at = "announce" /\ req'[p].held = {}
    BY <1>3, <1>6
  <2>2. m \in MessageIds /\ messages[m] = NoRow
    BY <2>1 DEF New
  <2>3. messages'[m] = RowOf(req[p]) /\ \A n \in MessageIds \ {m} : messages'[n] = messages[n]
    BY <1>3, <2>1, <2>2, PutsIs
  <2>4. RowOf(req[p]).by = req[p].by /\ RowOf(req[p]).key = req[p].key /\ RowOf(req[p]).files = {}
    BY <1>3, <1>6, RowOfIs
  <2>5. NoRow.files = {}
    BY Constants
  <2>6. Whole'
    <3>1. \A n \in MessageIds : messages'[n].files = messages[n].files
      BY <2>2, <2>3, <2>4, <2>5
    <3> QED BY <1>1, <3>1 DEF Claims, Whole
  <2>7. ASSUME NEW q \in Requests \ {p} PROVE KnowsKey(req[q])'
    <3>1. req'[q] = req[q] /\ KnowsKey(req[q])
      BY <1>1 DEF Rest, Claims
    <3>2. req[q].at \in Claiming => \A n \in MessageIds : <<messages'[n].by, messages'[n].key>> # <<req[q].by, req[q].key>>
      BY <1>4, <2>3, <2>4, <3>1 DEF KnowsKey, Uses
    <3> QED BY <3>1, <3>2 DEF KnowsKey, Uses
  <2>8. KnowsFiles(req[p])' /\ KnowsKey(req[p])' /\ \A o \in Requests : ApartFiles(req'[p], req'[o])
    BY <2>1 DEF KnowsFiles, KnowsKey, ApartFiles, Claiming, Uploading
  <2> QED BY <1>1, <1>2, <1>3, <2>6, <2>7, <2>8, ClaimsStep
<1>7. CASE /\ ~KeyUsed(p) /\ UNCHANGED <<messages, mentions>>
           /\ req'[p].at = "claim" /\ SameText(req'[p], req[p]) /\ req'[p].held = req[p].held
  <2>1. Whole' /\ SameKeys
    BY <1>1, <1>7 DEF Claims, Whole, SameKeys
  <2>2. req'[p].held = {} /\ req'[p].files \subseteq known /\ req'[p].by = req[p].by /\ req'[p].key = req[p].key
    BY <1>3, <1>7 DEF SameText
  <2>3. KnowsFiles(req[p])'
    BY <1>1, <1>7, <2>2 DEF KnowsFiles, Claiming, Uploading
  <2>4. KnowsKey(req[p])'
    BY <1>7, <2>2 DEF KnowsKey, KeyUsed, Uses
  <2>5. ASSUME NEW o \in Requests \ {p} PROVE ApartFiles(req'[p], req'[o])
    <3>1. req'[o] = req[o]
      BY <1>1 DEF Rest
    <3> QED BY <1>4, <1>7, <2>2, <3>1 DEF ApartFiles, Claiming, Uploading
  <2> QED BY <1>1, <1>2, <1>3, <2>1, <2>3, <2>4, <2>5, KeysStay, ClaimsStep
<1> QED BY <1>5, <1>6, <1>7, InsertIs

\* The rows are locked in order, none that another request has.
LEMMA ClaimClaims ==
  ASSUME Typed, Claims, NEW p \in Requests, ClaimAttachment(p)
  PROVE  Claims'
<1>1. req[p].at = "claim" /\ UNCHANGED <<messages, attachments, known, blobs>> /\ Rest({p})
  BY ClaimIs DEF Only, storeVars, channelVars
<1>2. SameKeys /\ SameFiles /\ RestAlike({p})
  BY <1>1, RestIsAlike DEF SameKeys, SameFiles
<1>3. CASE req'[p] = Idle
  BY <1>1, <1>2, <1>3, ClaimsEnd DEF Ends
<1>4. ASSUME NEW f \in Files, NextFile(p, f), Claimable(p, f), \A q \in Requests \ {p} : f \notin req[q].held,
             req'[p].at = (IF Unlocked(p) = {f} THEN "claimed" ELSE "claim"),
             req'[p].held = req[p].held \cup {f}, SameText(req'[p], req[p])
      PROVE  Claims'
  <2>1. Whole' /\ \A q \in Requests : Undisturbed(req[q])
    BY <1>1 DEF Claims, Whole, Undisturbed
  <2>2. /\ req[p].files \subseteq known /\ req[p].held \subseteq req[p].files
        /\ \A g \in req[p].held : attachments[g] = [stored |-> TRUE, by |-> req[p].by, msg |-> 0]
        /\ \A g \in req[p].held, h \in req[p].files \ req[p].held : g < h
    BY <1>1 DEF Claims, KnowsFiles, Claiming
  <2>3. /\ f \in req[p].files \ req[p].held /\ \A g \in req[p].files \ req[p].held : f <= g
        /\ attachments[f] = [stored |-> TRUE, by |-> req[p].by, msg |-> 0]
    BY <1>4 DEF NextFile, Unlocked, Claimable
  <2>4. req'[p].at \in Claiming /\ req'[p].by = req[p].by /\ req'[p].key = req[p].key /\ req'[p].files = req[p].files
    BY <1>4 DEF Claiming, SameText
  <2>5. req'[p].at = "claimed" => req'[p].held = req'[p].files
    BY <1>4, <2>2, <2>3, <2>4 DEF Unlocked
  <2>6. \A g \in req'[p].held, h \in req'[p].files \ req'[p].held : g < h
    <3> SUFFICES ASSUME NEW g \in req'[p].held, NEW h \in req'[p].files \ req'[p].held PROVE g < h
      OBVIOUS
    <3>1. h \in req[p].files \ req[p].held /\ h # f
      BY <1>4, <2>4
    <3>2. f \in Nat /\ h \in Nat
      BY <3>1, Constants DEF Typed, Request
    <3>3. CASE g = f
      BY <2>3, <3>1, <3>2, <3>3
    <3>4. CASE g \in req[p].held
      BY <2>2, <3>1, <3>4
    <3> QED BY <1>4, <3>3, <3>4
  <2>7. KnowsFiles(req[p])'
    <3>1. req'[p].held \subseteq req'[p].files /\ \A g \in req'[p].held : attachments'[g] = [stored |-> TRUE, by |-> req'[p].by, msg |-> 0]
      BY <1>1, <1>4, <2>2, <2>3, <2>4
    <3>2. req'[p].files \subseteq known' /\ req'[p].at \notin Uploading
      BY <1>1, <2>2, <2>4 DEF Claiming, Uploading
    <3> QED BY <2>4, <2>5, <2>6, <3>1, <3>2 DEF KnowsFiles, Uploading
  <2>8. KnowsKey(req[p])'
    BY <1>1, <2>4 DEF Claims, KnowsKey, Uses, Claiming
  <2>9. ASSUME NEW o \in Requests \ {p} PROVE ApartFiles(req'[p], req'[o])
    <3>1. req'[o] = req[o] /\ ApartFiles(req[p], req[o]) /\ f \notin req[o].held
      BY <1>1, <1>4 DEF Rest, Claims
    <3>2. req'[p].at \notin Uploading /\ req[p].at \in Claiming
      BY <1>1, <2>4 DEF Claiming, Uploading
    <3> QED BY <1>4, <2>4, <3>1, <3>2 DEF ApartFiles
  <2> QED BY <1>1, <1>2, <2>1, <2>7, <2>8, <2>9, KeysStay, ClaimsStep
<1> QED BY <1>3, <1>4, ClaimIs

\* All the files a message names become its own with it.
LEMMA CommitClaims ==
  ASSUME Typed, Numbered, Claims, NEW p \in Requests, CommitMessage(p)
  PROVE  Claims'
<1>1. req[p].at = "claimed"
  BY DEF CommitMessage
<1>2. req[p].on \in MessageIds /\ messages[req[p].on] = NoRow /\ req[p] \in Request
  BY <1>1, OnIs DEF Claiming
<1>3. /\ UNCHANGED <<known, blobs>> /\ Rest({p}) /\ Puts(req[p].on, req[p]) /\ Attach(p)
      /\ req'[p].at = "announce" /\ req'[p].held = {}
  BY <1>2, CommitIs DEF Fixed
<1> DEFINE F == req[p].files  m == req[p].on
<1>4. F \subseteq known /\ req[p].held = F /\ F \subseteq Files
  BY <1>1, <1>2 DEF Claims, KnowsFiles, Claiming, Request
<1>5. \A f \in F : attachments[f].stored /\ attachments[f].msg = 0
  <2>1. \A f \in req[p].held : attachments[f] = [stored |-> TRUE, by |-> req[p].by, msg |-> 0]
    BY <1>1 DEF Claims, KnowsFiles, Claiming
  <2> QED BY <1>4, <2>1
<1>6. /\ \A f \in Files \ F : attachments'[f] = attachments[f]
      /\ \A f \in F : attachments'[f].stored = attachments[f].stored /\ attachments'[f].msg = m
  <2>1. \A f \in F : attachments[f] \in [stored : BOOLEAN, by : Users \cup {0}, msg : MessageIds \cup {0}]
    BY <1>4, Rowed DEF Typed, Tables
  <2>2. attachments' = [f \in Files |-> IF f \in F THEN [attachments[f] EXCEPT !.msg = m] ELSE attachments[f]]
    BY <1>3 DEF Attach
  <2> HIDE DEF F, m
  <2> QED BY <1>4, <2>1, <2>2
<1>7. messages'[m] = RowOf(req[p]) /\ \A n \in MessageIds \ {m} : messages'[n] = messages[n]
  BY <1>2, <1>3, PutsIs
<1>8. RowOf(req[p]).by = req[p].by /\ RowOf(req[p]).key = req[p].key /\ RowOf(req[p]).files = F /\ NoRow.files = {}
  BY <1>2, RowOfIs, Constants
<1>9. \A q \in Requests \ {p} : Undisturbed(req[q])
  <2> SUFFICES ASSUME NEW q \in Requests \ {p} PROVE Undisturbed(req[q])
    OBVIOUS
  <2>1. ApartFiles(req[p], req[q]) /\ KnowsFiles(req[q]) /\ req[q] \in Request
    BY DEF Claims, Typed
  <2>2. req[q].at \in Claiming => \A f \in req[q].held : f \in Files \ F
    BY <1>1, <1>4, <2>1 DEF ApartFiles, Claiming, Request
  <2>3. req[q].at \in Uploading => \A f \in req[q].files : f \in Files \ F
    BY <1>5, <2>1 DEF KnowsFiles, Request
  <2> QED BY <1>3, <1>6, <2>2, <2>3 DEF Undisturbed
<1>10. ASSUME NEW q \in Requests \ {p} PROVE KnowsKey(req[q])'
  <2>1. req'[q] = req[q] /\ KnowsKey(req[q]) /\ ApartFiles(req[p], req[q])
    BY <1>3 DEF Rest, Claims
  <2>2. req[q].at \in Claiming => <<req[p].by, req[p].key>> # <<req[q].by, req[q].key>>
    BY <1>1, <2>1 DEF ApartFiles, Claiming
  <2>3. req[q].at \in Claiming => \A n \in MessageIds : <<messages'[n].by, messages'[n].key>> # <<req[q].by, req[q].key>>
    BY <1>7, <1>8, <2>1, <2>2 DEF KnowsKey, Uses
  <2> QED BY <2>1, <2>3 DEF KnowsKey, Uses
<1>11. Whole'
  <2>1. /\ \A f \in known : attachments[f].stored /\ f \in blobs
        /\ \A f \in Files : ~attachments[f].stored => attachments[f].msg = 0
        /\ \A f \in Files : attachments[f].msg # 0 => f \in known
        /\ \A f \in Files, n \in MessageIds : f \in messages[n].files <=> attachments[f].msg = n
    BY DEF Claims, Whole
  <2>2. known \subseteq Files
    BY DEF Typed, Tables
  <2> HIDE DEF F, m
  <2>3. \A f \in known : attachments'[f].stored /\ f \in blobs
    BY <1>6, <2>1, <2>2
  <2>4. \A f \in Files : ~attachments'[f].stored => attachments'[f].msg = 0
    BY <1>5, <1>6, <2>1
  <2>5. \A f \in Files : attachments'[f].msg # 0 => f \in known
    BY <1>4, <1>6, <2>1
  <2>6. ASSUME NEW f \in Files, NEW n \in MessageIds PROVE f \in messages'[n].files <=> attachments'[f].msg = n
    <3>1. CASE n = m
      <4>1. messages[m].files = {} /\ messages'[m].files = F /\ m \in MessageIds
        BY <1>2, <1>7, <1>8 DEF m
      <4> QED BY <1>6, <2>1, <3>1, <4>1
    <3>2. CASE n # m
      <4>1. messages'[n] = messages[n] /\ n # 0
        BY <1>7, <3>2, Constants
      <4> QED BY <1>5, <1>6, <2>1, <3>2, <4>1
    <3> QED BY <3>1, <3>2
  <2> QED BY <1>3, <2>3, <2>4, <2>5, <2>6 DEF Whole
<1>12. KnowsFiles(req[p])' /\ KnowsKey(req[p])' /\ \A o \in Requests : ApartFiles(req'[p], req'[o])
  BY <1>3 DEF KnowsFiles, KnowsKey, ApartFiles, Claiming, Uploading
<1>13. RestAlike({p}) /\ known \subseteq known'
  BY <1>3, RestIsAlike
<1> QED BY <1>9, <1>10, <1>11, <1>12, <1>13, ClaimsStep

\* An upload disturbs no other, and no file that somebody has the id of.
LEMMA UploadingApart ==
  ASSUME Typed, Claims, NEW p \in Requests, req[p].at \in Uploading
  PROVE  /\ \A q \in Requests \ {p} : req[q].at \in Claiming => req[q].held \cap req[p].files = {}
         /\ \A q \in Requests \ {p} : req[q].at \in Uploading => req[q].files \cap req[p].files = {}
         /\ req[p].files \cap known = {} /\ req[p].files \subseteq Files
         /\ \A f \in req[p].files : attachments[f].msg = 0 /\ ~attachments[f].stored
<1>1. req[p].files \subseteq Files /\ \A f \in req[p].files : ~attachments[f].stored
  BY DEF Claims, KnowsFiles, Typed, Request
<1>2. \A q \in Requests \ {p} : req[q].at \in Claiming => req[q].held \cap req[p].files = {}
  <2>1. \A q \in Requests : req[q].at \in Claiming => \A f \in req[q].held : attachments[f] = [stored |-> TRUE, by |-> req[q].by, msg |-> 0]
    BY DEF Claims, KnowsFiles
  <2>2. ASSUME NEW q \in Requests, req[q].at \in Claiming, NEW f \in req[q].held PROVE attachments[f].stored
    <3>1. attachments[f] = [stored |-> TRUE, by |-> req[q].by, msg |-> 0]
      BY <2>1, <2>2
    <3> QED BY <3>1
  <2> QED BY <1>1, <2>2
<1>3. \A q \in Requests \ {p} : req[q].at \in Uploading => req[q].files \cap req[p].files = {}
  BY DEF Claims, ApartFiles
<1>4. req[p].files \cap known = {} /\ \A f \in req[p].files : attachments[f].msg = 0
  BY <1>1 DEF Claims, Whole
<1> QED BY <1>1, <1>2, <1>3, <1>4

LEMMA StoreBlobClaims ==
  ASSUME Typed, Claims, NEW p \in Requests, StoreBlob(p)
  PROVE  Claims'
<1>1. /\ req[p].at = "blob" /\ Rest({p}) /\ UNCHANGED <<messages, attachments, known>> /\ blobs' = blobs \cup req[p].files
      /\ req'[p].at = "row" /\ SameText(req'[p], req[p]) /\ req'[p].held = req[p].held
  BY StoreBlobIs DEF FixedFiles
<1>2. SameKeys /\ RestAlike({p}) /\ \A q \in Requests : Undisturbed(req[q])
  BY <1>1, RestIsAlike DEF SameKeys, Undisturbed
<1>3. Whole'
  BY <1>1 DEF Claims, Whole
<1>4. KnowsFiles(req[p])' /\ KnowsKey(req[p])'
  <2>1. req'[p].files = req[p].files /\ req'[p].held = {}
    BY <1>1, HeldIsEmpty DEF SameText, Claiming
  <2>2. (\E f \in Files : req[p].files = {f}) /\ \A f \in req[p].files : ~attachments[f].stored
    BY <1>1 DEF Claims, KnowsFiles, Uploading
  <2> QED BY <1>1, <2>1, <2>2 DEF KnowsFiles, KnowsKey, Claiming, Uploading
<1>5. ASSUME NEW o \in Requests \ {p} PROVE ApartFiles(req'[p], req'[o])
  <2>1. req'[o] = req[o] /\ ApartFiles(req[p], req[o])
    BY <1>1 DEF Rest, Claims
  <2> QED BY <1>1, <2>1 DEF ApartFiles, SameText, Claiming, Uploading
<1> QED BY <1>1, <1>2, <1>3, <1>4, <1>5, KeysStay, ClaimsStep

LEMMA IdleClaims ==
  ASSUME NEW p \in Requests, req'[p] = Idle
  PROVE  KnowsFiles(req[p])' /\ KnowsKey(req[p])' /\ \A o \in Requests : ApartFiles(req'[p], req'[o])
BY IdleIs DEF KnowsFiles, KnowsKey, ApartFiles, Claiming, Uploading

LEMMA DeleteBlobsClaims ==
  ASSUME Typed, Claims, NEW p \in Requests, DeleteBlobs(p)
  PROVE  Claims'
<1>1. req[p].at \in Uploading /\ Rest({p}) /\ req'[p] = Idle /\ UNCHANGED <<messages, attachments, known>> /\ blobs' = blobs \ req[p].files
  BY DeleteBlobsIs DEF FixedFiles, Ends
<1>2. SameKeys /\ RestAlike({p})
  BY <1>1, RestIsAlike DEF SameKeys
<1>3. \A q \in Requests \ {p} : Undisturbed(req[q])
  BY <1>1, UploadingApart DEF Undisturbed
<1>4. Whole'
  BY <1>1, UploadingApart DEF Claims, Whole
<1> QED BY <1>1, <1>2, <1>3, <1>4, IdleClaims, KeysStay, ClaimsStep

LEMMA StoreRowClaims ==
  ASSUME Typed, Claims, NEW p \in Requests, CreateAttachment(p) \/ LoseAnswer(p)
  PROVE  Claims'
<1>1. /\ req[p].at = "row" /\ Rest({p}) /\ req'[p] = Idle /\ UNCHANGED messages /\ StoreRow(p)
      /\ \/ known' = known \cup req[p].files /\ blobs' = blobs
         \/ known' = known /\ blobs' = blobs \ req[p].files
  BY StoreRowIs DEF FixedFiles, Ends
<1> DEFINE F == req[p].files
<1>2. /\ \A q \in Requests \ {p} : req[q].at \in Claiming => req[q].held \cap F = {}
      /\ \A q \in Requests \ {p} : req[q].at \in Uploading => req[q].files \cap F = {}
      /\ F \cap known = {} /\ F \subseteq Files
      /\ \A f \in F : attachments[f].msg = 0 /\ ~attachments[f].stored
  BY <1>1, UploadingApart DEF Uploading
<1>3. /\ \A f \in Files \ F : attachments'[f] = attachments[f]
      /\ \A f \in F : attachments'[f].stored /\ attachments'[f].msg = 0
  <2>1. attachments' = [f \in Files |-> IF f \in F THEN [stored |-> TRUE, by |-> req[p].by, msg |-> 0] ELSE attachments[f]]
    BY <1>1 DEF StoreRow
  <2> HIDE DEF F
  <2> QED BY <1>2, <2>1
<1>4. F \subseteq blobs
  BY <1>1 DEF Claims, KnowsFiles
<1>5. SameKeys /\ RestAlike({p}) /\ known \subseteq known'
  BY <1>1, RestIsAlike DEF SameKeys
<1>6. ASSUME NEW q \in Requests \ {p} PROVE Undisturbed(req[q])
  <2>1. req[q] \in Request
    BY DEF Typed
  <2>2. req[q].at \in Claiming => \A f \in req[q].held : f \in Files \ F
    BY <1>2, <2>1 DEF Request
  <2>3. req[q].at \in Uploading => \A f \in req[q].files : f \in Files \ F
    BY <1>2, <2>1 DEF Request
  <2> QED BY <1>1, <1>3, <2>2, <2>3 DEF Undisturbed
<1>7. Whole'
  <2>1. /\ \A f \in known : attachments[f].stored /\ f \in blobs
        /\ \A f \in Files : ~attachments[f].stored => attachments[f].msg = 0
        /\ \A f \in Files : attachments[f].msg # 0 => f \in known
        /\ \A f \in Files, n \in MessageIds : f \in messages[n].files <=> attachments[f].msg = n
    BY DEF Claims, Whole
  <2>2. known \subseteq Files
    BY DEF Typed, Tables
  <2>3. \A f \in Files : attachments'[f].msg = attachments[f].msg
    BY <1>2, <1>3
  <2> HIDE DEF F
  <2>4. \A f \in known' : attachments'[f].stored /\ f \in blobs'
    <3>1. \A f \in known : attachments'[f].stored /\ f \in blobs'
      BY <1>1, <1>2, <1>3, <2>1, <2>2 DEF F
    <3>2. \A f \in known' \ known : attachments'[f].stored /\ f \in blobs'
      BY <1>1, <1>3, <1>4 DEF F
    <3> QED BY <3>1, <3>2
  <2>5. \A f \in Files : ~attachments'[f].stored => attachments'[f].msg = 0
    BY <1>3, <2>1
  <2> QED BY <1>1, <1>5, <2>1, <2>3, <2>4, <2>5 DEF Whole
<1> QED BY <1>1, <1>5, <1>6, <1>7, IdleClaims, KeysStay, ClaimsStep

LEMMA EndClaims ==
  ASSUME Typed, Numbered, Claims, NEW p \in Requests, Ending(p)
  PROVE  Claims'
<1>1. ASSUME UNCHANGED <<messages, attachments, known, blobs>>, Ends(p) PROVE Claims'
  BY <1>1, ClaimsEnd DEF SameKeys, SameFiles
<1>2. CASE RollbackMessage(p) \/ FinishList(p)
  BY <1>1, <1>2, RollbackIs DEF Only, storeVars, channelVars
<1>3. CASE CutOff(p)
  <2>1. req[p].on \in MessageIds
    BY <1>3, OnIs DEF CutOff, OnRow, Writing, Telling
  <2> QED BY <1>1, <1>3, <2>1, CutOffIs DEF storeVars, channelVars
<1>4. CASE AnnounceDeleted(p)
  <2>1. req[p].on \in MessageIds
    BY <1>4, OnIs DEF AnnounceDeleted, OnRow, Writing, Telling
  <2> QED BY <1>1, <1>4, <2>1, TombstoneIs DEF storeVars, channelVars
<1>5. CASE StoreReadPosition(p)
  <2>1. req[p].on \in MessageIds /\ req[p].by \in Users
    BY <1>5, OnIs DEF StoreReadPosition, OnRow, Writing, Telling
  <2> QED BY <1>1, <1>5, <2>1, StoreReadIs DEF channelVars
<1> QED BY <1>2, <1>3, <1>4, <1>5, DeleteBlobsClaims, StoreRowClaims DEF Ending

LEMMA EnqueueClaims ==
  ASSUME Typed, Numbered, Claims, NEW p \in Requests, Enqueue(p)
  PROVE  Claims'
<1>1. req[p].on \in MessageIds
  BY OnIs DEF Enqueue, OnRow, Writing, Telling
<1>2. UNCHANGED <<messages, attachments, known, blobs>> /\ Ends(p)
  BY <1>1, EnqueueIs DEF storeVars, channelVars
<1> QED BY <1>2, ClaimsEnd DEF SameKeys, SameFiles

LEMMA StayClaims ==
  ASSUME Typed, Numbered, Claims, NEW p \in Requests, Staying(p)
  PROVE  Claims'
<1>1. ASSUME UNCHANGED <<messages, attachments, known, blobs>>, Rest({p}), Calm(req'[p]) PROVE Claims'
  BY <1>1, ClaimsCalm, RestIsAlike DEF SameKeys, SameFiles
<1>2. CASE AnnounceMessage(p)
  <2>1. req[p].on \in MessageIds /\ req[p].held = {}
    BY <1>2, OnIs, HeldIsEmpty DEF AnnounceMessage, OnRow, Writing, Telling, Claiming
  <2>2. UNCHANGED <<messages, attachments, known, blobs>> /\ Rest({p}) /\ req'[p].at = "enrich" /\ req'[p].held = {}
    BY <1>2, <2>1, AnnounceIs DEF storeVars, channelVars
  <2> QED BY <1>1, <2>2 DEF Calm, Claiming, Uploading
<1>3. CASE BeginUpdate(p)
  <2>1. req[p].on \in MessageIds /\ req[p].held = {}
    BY <1>3, OnIs, HeldIsEmpty DEF BeginUpdate, OnRow, Writing, Telling, Claiming
  <2>2. UNCHANGED <<messages, attachments, known, blobs>> /\ Rest({p}) /\ req'[p].at = "apply" /\ req'[p].held = {}
    BY <1>3, <2>1, BeginUpdateIs DEF storeVars, channelVars
  <2> QED BY <1>1, <2>2 DEF Calm, Claiming, Uploading
<1>4. CASE LoadMessageCards(p)
  <2>1. req[p].on \in MessageIds /\ req[p].held = {}
    BY <1>4, OnIs, HeldIsEmpty DEF LoadMessageCards, OnRow, Writing, Telling, Claiming
  <2>2. UNCHANGED <<messages, attachments, known, blobs>> /\ Rest({p}) /\ req'[p].at = "announce" /\ req'[p].held = {}
    BY <1>4, <2>1, LoadIs DEF Only, storeVars, channelVars
  <2> QED BY <1>1, <2>2 DEF Calm, Claiming, Uploading
<1>5. CASE HistoryPage(p)
  <2>1. req[p].held = {}
    BY <1>5, HeldIsEmpty DEF HistoryPage, Claiming
  <2>2. UNCHANGED <<messages, attachments, known, blobs>> /\ Rest({p}) /\ (req'[p] = Idle \/ Walked(p))
    BY <1>5, HistoryIs DEF Only, storeVars, channelVars
  <2>3. Walked(p) => Calm(req'[p])
    BY <2>1 DEF Walked, Calm, Walking, Searching, Claiming, Uploading
  <2> QED BY <1>1, <2>2, <2>3, IdleIsCalm
<1>6. CASE SearchPage(p)
  <2>1. req[p].held = {}
    BY <1>6, HeldIsEmpty DEF SearchPage, Claiming
  <2>2. UNCHANGED <<messages, attachments, known, blobs>> /\ Rest({p}) /\ Walked(p)
    BY <1>6, SearchPageIs DEF Only, storeVars, channelVars
  <2>3. Walked(p) => Calm(req'[p])
    BY <2>1 DEF Walked, Calm, Walking, Searching, Claiming, Uploading
  <2> QED BY <1>1, <2>2, <2>3
<1> QED BY <1>2, <1>3, <1>4, <1>5, <1>6, StoreBlobClaims DEF Staying

LEMMA EditClaims ==
  ASSUME Typed, Numbered, Claims, NEW p \in Requests, Editing(p)
  PROVE  Claims'
<1>1. CASE UpdateMessageContent(p)
  <2>1. req[p].on \in MessageIds /\ req[p].held = {}
    BY <1>1, OnIs, HeldIsEmpty DEF UpdateMessageContent, OnRow, Writing, Telling, Claiming
  <2>2. UNCHANGED <<attachments, known, blobs>> /\ Rest({p})
    BY <1>1, <2>1, UpdateIs DEF channelVars
  <2>3. CASE req'[p] = Idle /\ UNCHANGED <<messages, mentions>>
    BY <2>2, <2>3, ClaimsEnd DEF Ends, SameKeys, SameFiles
  <2>4. CASE Edited(req[p].on, req[p].body) /\ req'[p].at = "cards" /\ req'[p].held = req[p].held
    <3>1. SameKeys /\ SameFiles
      BY <2>1, <2>2, <2>4 DEF Edited, SameKeys, SameFiles
    <3>2. Calm(req'[p])
      BY <2>1, <2>4 DEF Calm, Claiming, Uploading
    <3> QED BY <2>2, <3>1, <3>2, ClaimsCalm, RestIsAlike
  <2> QED BY <1>1, <2>1, <2>3, <2>4, UpdateIs
<1>2. CASE SoftDeleteMessage(p)
  <2>1. req[p].on \in MessageIds /\ req[p].held = {}
    BY <1>2, OnIs, HeldIsEmpty DEF SoftDeleteMessage, OnRow, Writing, Telling, Claiming
  <2>2. UNCHANGED <<attachments, known, blobs>> /\ RestAlike({p})
    BY <1>2, <2>1, SoftDeleteIs DEF channelVars
  <2>3. CASE Ends(p) /\ UNCHANGED <<messages, crossed>>
    BY <2>2, <2>3, ClaimsEnd DEF SameKeys, SameFiles
  <2>4. CASE Blanked(req[p].on) /\ req'[p].at = "tombstone" /\ req'[p].held = req[p].held
    <3>1. SameKeys /\ SameFiles
      BY <2>1, <2>2, <2>4 DEF Blanked, SameKeys, SameFiles
    <3>2. Calm(req'[p])
      BY <2>1, <2>4 DEF Calm, Claiming, Uploading
    <3> QED BY <2>2, <3>1, <3>2, ClaimsCalm
  <2> QED BY <1>2, <2>1, <2>3, <2>4, SoftDeleteIs
<1> QED BY <1>1, <1>2 DEF Editing

\* The enricher changes neither requests nor rows; a member that comes or goes
\* only what walks have to list.
LEMMA BackgroundIs ==
  ASSUME Typed, Numbered, Background
  PROVE  RestAlike({}) /\ UNCHANGED <<messages, attachments, readpos, mentions, e2ee, blobs, known, crossed, unheard>> /\ Typed'
<1>1. CASE ChangeMembers
  BY <1>1, MembersIs DEF storeVars
<1>2. ASSUME Stayed PROVE RestAlike({}) /\ UNCHANGED <<messages, attachments, readpos, mentions, e2ee, blobs, known, crossed, unheard>>
  BY <1>2 DEF Stayed, RestAlike, Alike, SameWalk, channelVars
<1>3. CASE TakeJob
  BY <1>2, <1>3, TakeJobIs
<1>4. CASE FailJob \/ SaveLinkPreview \/ RemovePreview \/ AnnounceCard
  <2>1. worker.at # "idle"
    BY <1>4 DEF FailJob, SaveLinkPreview, RemovePreview, AnnounceCard
  <2>2. worker.on \in MessageIds
    BY <2>1 DEF Numbered, Queued
  <2>3. Stayed /\ Typed'
    BY <1>4, <2>2, FailJobIs, CardIs, AnnounceCardIs
  <2> QED BY <1>2, <2>3
<1> QED BY <1>1, <1>3, <1>4 DEF Background

LEMMA ClaimsNext == Typed /\ Numbered /\ Claims /\ Next => Claims'
<1> SUFFICES ASSUME Typed, Numbered, Claims, Next PROVE Claims'
  OBVIOUS
<1>1. ASSUME NEW p \in Requests, Beginning(p) \/ Sending(p) \/ Ending(p) \/ Enqueue(p) \/ Staying(p) \/ Editing(p) PROVE Claims'
  BY <1>1, BeginClaims, InsertClaims, ClaimClaims, CommitClaims, EndClaims, EnqueueClaims, StayClaims, EditClaims DEF Sending
<1>2. CASE Background
  BY <1>2, BackgroundIs, ClaimsRest DEF SameKeys, SameFiles
<1> QED BY <1>1, <1>2, NextIs

LEMMA InitClaims == Init => Claims
<1> SUFFICES ASSUME Init PROVE Claims
  OBVIOUS
<1>1. \A p \in Requests : req[p] = Idle
  BY DEF Init
<1>2. known = {} /\ blobs = {} /\ \A f \in Files : attachments[f] = [stored |-> FALSE, by |-> 0, msg |-> 0]
  BY InitIs DEF Init
<1>3. \A m \in MessageIds : messages[m].files = {} /\ m # 0
  <2>1. NoRow.files = {} /\ First.files = {} /\ 0 \notin MessageIds
    BY FirstIs, Constants
  <2> QED BY <2>1, InitIs
<1>4. Whole
  BY <1>2, <1>3 DEF Whole
<1> QED BY <1>1, <1>4, IdleIsCalm, CalmKnows DEF Claims

\* What the runs check of the files and of the waiting.
LEMMA ClaimsAreWhole == Typed /\ Numbered /\ Claims => FilesAreWhole /\ SendersNeverWaitInCircle
<1> SUFFICES ASSUME Typed, Numbered, Claims PROVE FilesAreWhole /\ SendersNeverWaitInCircle
  OBVIOUS
<1>1. FilesAreWhole
  BY DEF Claims, Whole, FilesAreWhole
<1>2. ASSUME NEW p \in Requests, NEW q \in Requests, p # q, WaitsFor(p, q), WaitsFor(q, p) PROVE FALSE
  <2>1. ~(req[p].at = "send" /\ req[q].at \in Claiming) \/ ~(req[q].at = "send" /\ req[p].at \in Claiming)
    BY DEF Claiming
  <2>2. \A r \in Requests : req[r].held # {} => req[r].at \in Claiming
    BY HeldIsEmpty
  <2>3. req[p].at = "claim" /\ req[q].at = "claim"
    BY <1>2, <2>2 DEF WaitsFor, LockedBy, Claiming
  <2>4. PICK f \in Files : NextFile(p, f) /\ LockedBy(q, f)
    BY <1>2, <2>3 DEF WaitsFor
  <2>5. PICK g \in Files : NextFile(q, g) /\ LockedBy(p, g)
    BY <1>2, <2>3 DEF WaitsFor
  <2>6. f \in req[p].files \ req[p].held /\ f \in req[q].held /\ g \in req[q].files \ req[q].held /\ g \in req[p].held
    BY <2>4, <2>5 DEF NextFile, Unlocked, LockedBy
  <2>7. g < f /\ f < g
    BY <2>3, <2>6 DEF Claims, KnowsFiles, Claiming
  <2>8. f \in Nat /\ g \in Nat
    BY Constants
  <2> QED BY <2>7, <2>8
<1> QED BY <1>1, <1>2 DEF SendersNeverWaitInCircle

-------------------------------------------------------------------------------
(* Mentions, and what is announced.                                        *)

\* What a request relies on of the message that it writes stays, unless two
\* writes overlap.
KeepsText(r) == r.at \in Writing /\ r.on \notin crossed' =>
  messages'[r.on] = messages[r.on] /\ \A u \in Users : <<r.on, u>> \in mentions' <=> <<r.on, u>> \in mentions

LEMMA TextStays ==
  ASSUME NEW r, NEW s, Alike(s, r), KnowsTags(r), KnowsText(r), crossed \subseteq crossed', moved \subseteq moved', KeepsText(r)
  PROVE  KnowsTags(s)' /\ KnowsText(s)'
<1>1. KnowsTags(s)'
  BY DEF KnowsTags, Alike, KeepsText, Writing, MentionsOf
<1>2. KnowsText(s)'
  BY DEF KnowsText, Alike, KeepsText, Writing
<1> QED BY <1>1, <1>2

\* Two writes of a message are noted as such.
Meets(r, s) == r.at \in Writing /\ s.at \in Writing /\ r.on = s.on => r.on \in crossed'

LEMMA TextsStep ==
  ASSUME Texts, NEW X, RestAlike(X), crossed \subseteq crossed', moved \subseteq moved', Tagged',
         \A q \in Requests \ X : KeepsText(req[q]),
         \A q \in Requests \cap X : KnowsTags(req[q])' /\ KnowsText(req[q])' /\ \A o \in Requests \ {q} : Meets(req'[q], req'[o])
  PROVE  Texts'
<1>1. ASSUME NEW q \in Requests PROVE KnowsTags(req[q])' /\ KnowsText(req[q])'
  <2>1. CASE q \in X
    BY <2>1
  <2>2. CASE q \notin X
    <3>1. Alike(req'[q], req[q]) /\ KnowsTags(req[q]) /\ KnowsText(req[q]) /\ KeepsText(req[q])
      BY <2>2 DEF RestAlike, Texts
    <3>2. PICK s : s = req'[q]
      OBVIOUS
    <3>3. KnowsTags(s)' /\ KnowsText(s)'
      BY <3>1, <3>2, TextStays
    <3> QED BY <3>2, <3>3 DEF KnowsTags, KnowsText, MentionsOf
  <2> QED BY <2>1, <2>2
<1>2. ASSUME NEW a \in Requests, NEW b \in Requests, a # b PROVE Meets(req'[a], req'[b])
  <2>1. CASE a \in X
    BY <1>2, <2>1
  <2>2. CASE b \in X
    BY <1>2, <2>2 DEF Meets
  <2>3. CASE a \notin X /\ b \notin X
    BY <1>2, <2>3 DEF RestAlike, Alike, Texts, ApartWrites, Meets
  <2> QED BY <2>1, <2>2, <2>3
<1>3. (\A a, b \in Requests : a # b => ApartWrites(req[a], req[b]))'
  BY <1>2 DEF ApartWrites, Meets
<1> QED BY <1>1, <1>3 DEF Texts

\* A request that writes nothing, or is still about what it wrote or will write.
Quietly(s, r) ==
  \/ s.at \notin Claiming \cup Writing
  \/ s.at \in Telling /\ r.at \in Telling /\ s.on = r.on /\ s.body = r.body
  \/ s.at \in Claiming /\ r.at \in Claiming /\ s.tags = r.tags /\ s.body = r.body

SameTexts == UNCHANGED <<messages, mentions, members, moved, crossed>>

LEMMA TextsCalm ==
  ASSUME Texts, NEW p \in Requests, RestAlike({p}), SameTexts, Quietly(req'[p], req[p])
  PROVE  Texts'
<1>1. Tagged' /\ \A q \in Requests : KeepsText(req[q])
  <2>1. \A m : MentionsOf(m)' = MentionsOf(m)
    BY DEF MentionsOf, SameTexts
  <2>2. Tagged
    BY DEF Texts
  <2>3. MentionsFollowText'
    BY <2>1, <2>2 DEF Tagged, MentionsFollowText, SameTexts
  <2>4. \A q \in Requests : KeepsText(req[q])
    BY DEF SameTexts, KeepsText
  <2> QED BY <2>1, <2>2, <2>3, <2>4 DEF Tagged, SameTexts
<1>2. KnowsTags(req[p])' /\ KnowsText(req[p])'
  <2>1. KnowsTags(req[p]) /\ KnowsText(req[p])
    BY DEF Texts
  <2>2. CASE req'[p].at \notin Claiming \cup Writing
    BY <2>2 DEF KnowsTags, KnowsText, Writing
  <2>3. CASE req'[p].at \in Telling /\ req[p].at \in Telling /\ req'[p].on = req[p].on /\ req'[p].body = req[p].body
    BY <2>1, <2>3 DEF KnowsTags, KnowsText, SameTexts, Telling, Claiming
  <2>4. CASE req'[p].at \in Claiming /\ req[p].at \in Claiming /\ req'[p].tags = req[p].tags /\ req'[p].body = req[p].body
    BY <2>1, <2>4 DEF KnowsTags, KnowsText, SameTexts, Telling, Claiming
  <2> QED BY <2>2, <2>3, <2>4 DEF Quietly
<1>3. ASSUME NEW o \in Requests \ {p} PROVE Meets(req'[p], req'[o])
  <2>1. Alike(req'[o], req[o]) /\ ApartWrites(req[p], req[o])
    BY DEF RestAlike, Texts
  <2> QED BY <2>1 DEF Alike, ApartWrites, Meets, Quietly, SameTexts, Writing, Claiming, Telling
<1> QED BY <1>1, <1>2, <1>3, TextsStep DEF SameTexts

LEMMA TextsEnd == ASSUME Texts, NEW p \in Requests, Ends(p), SameTexts PROVE Texts'
<1>1. Quietly(Idle, req[p])
  BY IdleIs DEF Quietly, Claiming, Writing, Telling
<1> QED BY <1>1, TextsCalm, RestIsAlike DEF Ends

LEMMA TaggingIs == \A m, us, n, v : <<n, v>> \in Tagging(m, us) <=> n = m /\ v \in us
BY DEF Tagging

LEMMA BodyIs == ASSUME NEW b \in Bodies PROVE b.mentions \subseteq Users /\ b.link \in Nat
BY Constants

LEMMA BeginTexts ==
  ASSUME Typed, Texts, NEW p \in Requests, Beginning(p)
  PROVE  Texts'
<1>1. ASSUME NEW u, Begins(p, u), req'[p].at \notin Claiming \cup Writing PROVE Texts'
  <2>1. Rest({p}) /\ SameTexts
    BY <1>1 DEF Begins, Only, SameTexts, storeVars, channelVars, ghostVars
  <2> QED BY <1>1, <2>1, TextsCalm, RestIsAlike DEF Quietly
<1>2. \E u : Begins(p, u) /\ req'[p].at \in {"send", "edit", "delete", "read", "blob", "before", "after", "older", "search", "files"}
  BY SendIs, EditIs, DeleteIs, ReadIs, UploadIs, ListIs, SearchIs DEF Beginning
<1> QED BY <1>1, <1>2 DEF Claiming, Writing, Telling

\* The text's members are what is to be written.
LEMMA TagsAre ==
  ASSUME Typed, Texts, NEW b \in Bodies
  PROVE  b.mentions \cap members \subseteq b.mentions /\ b.mentions \ moved \subseteq b.mentions \cap members
BY BodyIs DEF Texts, Tagged

\* A message is new, with its mentions.
LEMMA PutTexts ==
  ASSUME Typed, Numbered, Texts, NEW p \in Requests, NEW m \in MessageIds, NEW T, Puts(m, req[p]), Rest({p}),
         UNCHANGED <<members, moved, crossed>>, messages[m] = NoRow, \A q \in Requests \ {p} : req[q].on # m,
         req'[p].at = "announce", req'[p].on = m, SameText(req'[p], req[p]),
         mentions' = mentions \cup Tagging(m, T), T \subseteq req[p].body.mentions, req[p].body.mentions \ moved \subseteq T
  PROVE  Texts'
<1>1. req[p] \in Request /\ req[p].body.mentions \subseteq Users
  BY BodyIs DEF Typed, Request
<1>2. messages'[m] = RowOf(req[p]) /\ \A n \in MessageIds \ {m} : messages'[n] = messages[n]
  BY <1>1, PutsIs
<1>3. RowOf(req[p]) # NoRow /\ RowOf(req[p]).state = "live" /\ RowOf(req[p]).body = req[p].body
  BY <1>1, RowOfIs
<1>4. MentionsOf(m) = {}
  BY DEF Texts, Tagged
<1>5. MentionsOf(m)' = T /\ \A n \in MessageIds \ {m} : MentionsOf(n)' = MentionsOf(n)
  BY <1>1, <1>4, TaggingIs DEF MentionsOf
<1>6. Tagged'
  <2>1. \A n \in MessageIds : messages'[n] = NoRow => MentionsOf(n)' = {}
    BY <1>2, <1>3, <1>5 DEF Texts, Tagged
  <2>2. MentionsFollowText'
    <3> SUFFICES ASSUME NEW n \in MessageIds, messages'[n].state = "live", n \notin crossed
                 PROVE  MentionsOf(n)' \ moved = messages'[n].body.mentions \ moved
      BY DEF MentionsFollowText
    <3>1. CASE n = m
      BY <1>2, <1>3, <1>5, <3>1
    <3>2. CASE n # m
      BY <1>2, <1>5, <3>2 DEF Texts, Tagged, MentionsFollowText
    <3> QED BY <3>1, <3>2
  <2> QED BY <2>1, <2>2 DEF Texts, Tagged
<1>7. ASSUME NEW q \in Requests \ {p} PROVE KeepsText(req[q]) /\ Meets(req'[p], req'[q])
  <2>1. req[q].on # m /\ req'[q] = req[q] /\ req[q] \in Request /\ 0 \notin MessageIds
    BY Constants DEF Rest, Typed
  <2>2. CASE req[q].on \in MessageIds
    BY <1>2, <2>1, <2>2, TaggingIs DEF KeepsText, Meets
  <2>3. CASE req[q].on = 0
    <3>1. req[q].at \notin Writing
      BY <2>1, <2>3, OnIs DEF OnRow
    <3> QED BY <2>1, <3>1 DEF KeepsText, Meets
  <2> QED BY <2>1, <2>2, <2>3 DEF Request
<1>8. KnowsTags(req[p])' /\ KnowsText(req[p])'
  BY <1>2, <1>3 DEF KnowsTags, KnowsText, SameText, Claiming
<1> QED BY <1>6, <1>7, <1>8, RestIsAlike, TextsStep

LEMMA SendTexts ==
  ASSUME Typed, Numbered, Texts, NEW p \in Requests, Sending(p)
  PROVE  Texts'
<1>0. req[p] \in Request /\ req[p].body \in Bodies
  BY DEF Typed, Request
<1>1. CASE InsertMessage(p)
  <2>1. req[p].at = "send" /\ UNCHANGED <<members, moved, crossed>> /\ Rest({p})
    BY <1>1, InsertIs DEF Fixed
  <2>2. CASE req'[p] = Idle /\ UNCHANGED <<messages, mentions>>
    BY <2>1, <2>2, TextsEnd DEF Ends, SameTexts
  <2>3. CASE \E m : /\ New(m) /\ Puts(m, req[p])
                    /\ mentions' = mentions \cup Tagging(m, req[p].body.mentions \cap members)
                    /\ req'[p].at = "announce" /\ req'[p].on = m /\ SameText(req'[p], req[p])
    <3>1. PICK m : /\ New(m) /\ Puts(m, req[p])
                   /\ mentions' = mentions \cup Tagging(m, req[p].body.mentions \cap members)
                   /\ req'[p].at = "announce" /\ req'[p].on = m /\ SameText(req'[p], req[p])
      BY <2>3
    <3>2. m \in MessageIds /\ messages[m] = NoRow /\ \A q \in Requests : req[q].on # m
      BY <3>1 DEF New
    <3>3. PICK T : T = req[p].body.mentions \cap members
      OBVIOUS
    <3>4. T \subseteq req[p].body.mentions /\ req[p].body.mentions \ moved \subseteq T
      BY <1>0, <3>3, TagsAre
    <3>5. mentions' = mentions \cup Tagging(m, T)
      BY <3>1, <3>3
    <3> QED BY <2>1, <3>1, <3>2, <3>4, <3>5, PutTexts
  <2>4. CASE /\ UNCHANGED <<messages, mentions>> /\ New(req'[p].on) /\ req'[p].at = "claim" /\ SameText(req'[p], req[p])
             /\ req'[p].tags = req[p].body.mentions \cap members
    <3>1. Tagged' /\ \A q \in Requests : KeepsText(req[q])
      <4>1. \A m : MentionsOf(m)' = MentionsOf(m)
        BY <2>4 DEF MentionsOf
      <4>2. Tagged
        BY DEF Texts
      <4>3. MentionsFollowText'
        BY <2>1, <2>4, <4>1, <4>2 DEF Tagged, MentionsFollowText
      <4>4. \A q \in Requests : KeepsText(req[q])
        BY <2>4 DEF KeepsText
      <4> QED BY <2>1, <2>4, <4>1, <4>2, <4>3, <4>4 DEF Tagged
    <3>2. KnowsTags(req[p])' /\ KnowsText(req[p])'
      <4>1. req'[p].body = req[p].body /\ moved' = moved
        BY <2>1, <2>4 DEF SameText
      <4>2. req'[p].tags \subseteq req'[p].body.mentions /\ req'[p].body.mentions \ moved \subseteq req'[p].tags
        BY <1>0, <2>4, <4>1, TagsAre
      <4> QED BY <2>4, <4>1, <4>2 DEF KnowsTags, KnowsText, Telling
    <3>3. \A o \in Requests : Meets(req'[p], req'[o])
      BY <2>4 DEF Meets, Writing, Telling
    <3> QED BY <2>1, <3>1, <3>2, <3>3, TextsStep, RestIsAlike
  <2> QED BY <1>1, <2>2, <2>3, <2>4, InsertIs
<1>2. CASE ClaimAttachment(p)
  <2>1. req[p].at = "claim" /\ SameTexts /\ Rest({p})
    BY <1>2, ClaimIs DEF Only, SameTexts, storeVars, channelVars, ghostVars
  <2>2. CASE req'[p] = Idle
    BY <2>1, <2>2, TextsEnd DEF Ends
  <2>3. CASE req'[p].at \in Claiming /\ SameText(req'[p], req[p]) /\ req'[p].tags = req[p].tags
    <3>1. Quietly(req'[p], req[p])
      BY <2>1, <2>3 DEF Quietly, Claiming, SameText
    <3> QED BY <2>1, <3>1, TextsCalm, RestIsAlike
  <2> QED BY <1>2, <2>2, <2>3, ClaimIs DEF Claiming
<1>3. CASE CommitMessage(p)
  <2>1. req[p].at = "claimed"
    BY <1>3 DEF CommitMessage
  <2>2. req[p].on \in MessageIds /\ messages[req[p].on] = NoRow
    BY <2>1, OnIs DEF Claiming
  <2>3. \A q \in Requests \ {p} : req[q].on # req[p].on
    BY <2>1 DEF Numbered, Reserved, Claiming
  <2>4. /\ UNCHANGED <<members, moved, crossed>> /\ Rest({p}) /\ Puts(req[p].on, req[p])
        /\ req'[p].at = "announce" /\ req'[p].on = req[p].on /\ SameText(req'[p], req[p])
        /\ mentions' = mentions \cup Tagging(req[p].on, req[p].tags)
    BY <1>3, <2>2, CommitIs DEF Fixed
  <2>5. req[p].tags \subseteq req[p].body.mentions /\ req[p].body.mentions \ moved \subseteq req[p].tags
    BY <2>1 DEF Texts, KnowsTags, Claiming
  <2> QED BY <2>2, <2>3, <2>4, <2>5, PutTexts
<1> QED BY <1>1, <1>2, <1>3 DEF Sending

LEMMA EndTexts ==
  ASSUME Typed, Numbered, Texts, NEW p \in Requests, Ending(p)
  PROVE  Texts'
<1>1. ASSUME SameTexts, Ends(p) PROVE Texts'
  BY <1>1, TextsEnd
<1>2. CASE RollbackMessage(p) \/ FinishList(p)
  BY <1>1, <1>2, RollbackIs DEF Only, SameTexts, storeVars, channelVars, ghostVars
<1>3. CASE CutOff(p)
  <2>1. req[p].on \in MessageIds
    BY <1>3, OnIs DEF CutOff, OnRow, Writing, Telling
  <2> QED BY <1>1, <1>3, <2>1, CutOffIs DEF SameTexts, storeVars, channelVars
<1>4. CASE AnnounceDeleted(p)
  <2>1. req[p].on \in MessageIds
    BY <1>4, OnIs DEF AnnounceDeleted, OnRow, Writing, Telling
  <2> QED BY <1>1, <1>4, <2>1, TombstoneIs DEF SameTexts, storeVars, channelVars, Corrected
<1>5. CASE StoreReadPosition(p)
  <2>1. req[p].on \in MessageIds /\ req[p].by \in Users
    BY <1>5, OnIs DEF StoreReadPosition, OnRow, Writing, Telling
  <2> QED BY <1>1, <1>5, <2>1, StoreReadIs DEF SameTexts, channelVars, ghostVars
<1>6. CASE DeleteBlobs(p)
  BY <1>1, <1>6, DeleteBlobsIs DEF FixedFiles, SameTexts, ghostVars
<1>7. CASE CreateAttachment(p) \/ LoseAnswer(p)
  BY <1>1, <1>7, StoreRowIs DEF FixedFiles, SameTexts, ghostVars
<1> QED BY <1>2, <1>3, <1>4, <1>5, <1>6, <1>7 DEF Ending

LEMMA EnqueueTexts ==
  ASSUME Typed, Numbered, Texts, NEW p \in Requests, Enqueue(p)
  PROVE  Texts'
<1>1. req[p].on \in MessageIds
  BY OnIs DEF Enqueue, OnRow, Writing, Telling
<1>2. SameTexts /\ Ends(p)
  BY <1>1, EnqueueIs DEF SameTexts, storeVars, channelVars
<1> QED BY <1>2, TextsEnd

\* An edit begins: what it drops is what it sees.
LEMMA BeginUpdateTexts ==
  ASSUME Typed, Numbered, Texts, NEW p \in Requests, BeginUpdate(p)
  PROVE  Texts'
<1>1. req[p].on \in MessageIds /\ req[p].body \in Bodies
  BY OnIs DEF BeginUpdate, OnRow, Typed, Request
<1>2. PICK m : m = req[p].on
  OBVIOUS
<1>3. /\ Rest({p}) /\ Crossing(p, m) /\ UNCHANGED <<messages, mentions, members, moved>>
      /\ req'[p].at = "apply" /\ req'[p].on = m /\ SameText(req'[p], req[p])
      /\ req'[p].drop = MentionsOf(m) \ req[p].body.mentions
      /\ req'[p].tags = req[p].body.mentions \cap members
  BY <1>1, <1>2, BeginUpdateIs DEF storeVars, channelVars
<1>4. crossed \subseteq crossed' /\ (m \notin crossed' => \A q \in Requests \ {p} : req[q].at \in Writing => req[q].on # m)
  BY <1>1, <1>2, <1>3, CrossingIs
<1>5. \A n : MentionsOf(n)' = MentionsOf(n)
  BY <1>3 DEF MentionsOf
<1>6. Tagged'
  <2>1. Tagged
    BY DEF Texts
  <2>2. MentionsFollowText'
    BY <1>3, <1>4, <1>5, <2>1 DEF Tagged, MentionsFollowText
  <2> QED BY <1>3, <1>5, <2>1, <2>2 DEF Tagged
<1>7. \A q \in Requests : KeepsText(req[q])
  BY <1>3 DEF KeepsText
<1>8. KnowsTags(req[p])' /\ KnowsText(req[p])'
  <2>1. PICK r : r = req'[p]
    OBVIOUS
  <2>2. r.at = "apply" /\ r.on = m /\ r.body = req[p].body /\ r.drop = MentionsOf(m)' \ r.body.mentions
    BY <1>3, <1>5, <2>1 DEF SameText
  <2>3. r.tags \subseteq r.body.mentions /\ r.body.mentions \ moved' \subseteq r.tags
    BY <1>1, <1>3, <2>1, <2>2, TagsAre
  <2>4. KnowsTags(r)'
    BY <2>2, <2>3 DEF KnowsTags
  <2>5. KnowsText(r)'
    BY <2>2 DEF KnowsText, Telling
  <2> QED BY <2>1, <2>4, <2>5 DEF KnowsTags, KnowsText, MentionsOf
<1>9. \A o \in Requests \ {p} : Meets(req'[p], req'[o])
  BY <1>3, <1>4 DEF Meets, Rest
<1> QED BY <1>3, <1>4, <1>6, <1>7, <1>8, <1>9, TextsStep, RestIsAlike

LEMMA StayTexts ==
  ASSUME Typed, Numbered, Texts, NEW p \in Requests, Staying(p)
  PROVE  Texts'
<1>1. ASSUME SameTexts, Rest({p}), Quietly(req'[p], req[p]) PROVE Texts'
  BY <1>1, TextsCalm, RestIsAlike
<1>2. CASE AnnounceMessage(p)
  <2>1. req[p].on \in MessageIds
    BY <1>2, OnIs DEF AnnounceMessage, OnRow, Writing, Telling
  <2>2. SameTexts /\ Rest({p}) /\ req[p].at = "announce" /\ req'[p].at = "enrich" /\ req'[p].on = req[p].on /\ SameText(req'[p], req[p])
    BY <1>2, <2>1, AnnounceIs DEF SameTexts, storeVars, channelVars, Corrected
  <2> QED BY <1>1, <2>2 DEF Quietly, Telling, SameText
<1>3. CASE LoadMessageCards(p)
  <2>1. req[p].on \in MessageIds
    BY <1>3, OnIs DEF LoadMessageCards, OnRow, Writing, Telling
  <2>2. SameTexts /\ Rest({p}) /\ req[p].at = "cards" /\ req'[p].at = "announce" /\ req'[p].on = req[p].on /\ SameText(req'[p], req[p])
    BY <1>3, <2>1, LoadIs DEF Only, SameTexts, storeVars, channelVars, ghostVars
  <2> QED BY <1>1, <2>2 DEF Quietly, Telling, SameText
<1>4. CASE StoreBlob(p)
  <2>1. SameTexts /\ Rest({p}) /\ req'[p].at = "row"
    BY <1>4, StoreBlobIs DEF FixedFiles, SameTexts, ghostVars
  <2> QED BY <1>1, <2>1 DEF Quietly, Claiming, Writing, Telling
<1>5. CASE HistoryPage(p) \/ SearchPage(p)
  <2>1. SameTexts /\ Rest({p}) /\ (req'[p] = Idle \/ req'[p].at \in Walking)
    BY <1>5, HistoryIs, SearchPageIs DEF Walked, Only, SameTexts, storeVars, channelVars, ghostVars
  <2>2. req'[p].at \notin Claiming \cup Writing
    BY <2>1, IdleIs DEF Walking, Searching, Claiming, Writing, Telling
  <2> QED BY <1>1, <2>1, <2>2 DEF Quietly
<1> QED BY <1>2, <1>3, <1>4, <1>5, BeginUpdateTexts DEF Staying

LEMMA UpdateTexts ==
  ASSUME Typed, Numbered, Texts, NEW p \in Requests, UpdateMessageContent(p)
  PROVE  Texts'
<1>1. req[p].at = "apply" /\ req[p].on \in MessageIds /\ messages[req[p].on] # NoRow /\ req[p].body \in Bodies
  BY OnIs DEF UpdateMessageContent, OnRow, Writing, Typed, Request
<1>2. PICK m : m = req[p].on
  OBVIOUS
<1>3. Rest({p}) /\ UNCHANGED <<members, moved, crossed>>
  BY <1>1, UpdateIs DEF channelVars, ghostVars
<1>4. CASE req'[p] = Idle /\ UNCHANGED <<messages, mentions>>
  BY <1>3, <1>4, TextsEnd DEF Ends, SameTexts
<1>5. CASE /\ messages[m].state # "deleted" /\ Edited(m, req[p].body)
           /\ mentions' = (mentions \ Tagging(m, req[p].drop)) \cup Tagging(m, req[p].tags)
           /\ req'[p].at = "cards" /\ req'[p].on = m /\ SameText(req'[p], req[p])
  <2>1. messages[m].state = "live"
    <3>1. messages[m] \in Store!MessageRow /\ messages[m].state # "none"
      BY <1>1, <1>2 DEF Typed, Tables, Numbered, Stored
    <3> QED BY <1>5, <3>1, Rowed
  <2>2. messages'[m].state = "live" /\ messages'[m].body = req[p].body /\ \A n \in MessageIds \ {m} : messages'[n] = messages[n]
    BY <1>5, <2>1 DEF Edited
  <2>3. messages'[m] # NoRow
    BY <2>2, Constants
  <2>4. /\ req[p].tags \subseteq req[p].body.mentions /\ req[p].body.mentions \ moved \subseteq req[p].tags
        /\ m \notin crossed => req[p].drop = MentionsOf(m) \ req[p].body.mentions
    BY <1>1, <1>2 DEF Texts, KnowsTags
  <2>5. req[p].body.mentions \subseteq Users
    BY <1>1, BodyIs
  <2>6. MentionsOf(m)' = (MentionsOf(m) \ req[p].drop) \cup req[p].tags
    BY <1>5, <2>4, <2>5, TaggingIs DEF MentionsOf
  <2>7. ASSUME NEW n \in MessageIds \ {m}, NEW u \in Users PROVE <<n, u>> \in mentions' <=> <<n, u>> \in mentions
    <3>1. <<n, u>> \notin Tagging(m, req[p].drop) /\ <<n, u>> \notin Tagging(m, req[p].tags)
      BY TaggingIs
    <3> QED BY <1>5, <3>1
  <2>8. \A n \in MessageIds \ {m} : MentionsOf(n)' = MentionsOf(n)
    BY <2>7 DEF MentionsOf
  <2>9. Tagged'
    <3>1. \A n \in MessageIds : messages'[n] = NoRow => MentionsOf(n)' = {}
      BY <2>2, <2>3, <2>8 DEF Texts, Tagged
    <3>2. ASSUME NEW n \in MessageIds, messages'[n].state = "live", n \notin crossed
          PROVE  MentionsOf(n)' \ moved = messages'[n].body.mentions \ moved
      <4>1. CASE n = m
        BY <2>2, <2>4, <2>6, <3>2, <4>1
      <4>2. CASE n # m
        BY <2>2, <2>8, <3>2, <4>2 DEF Texts, Tagged, MentionsFollowText
      <4> QED BY <4>1, <4>2
    <3>3. MentionsFollowText'
      BY <1>3, <3>2 DEF MentionsFollowText
    <3> QED BY <1>3, <3>1, <3>3 DEF Texts, Tagged
  <2>10. ASSUME NEW q \in Requests \ {p} PROVE KeepsText(req[q]) /\ Meets(req'[p], req'[q])
    <3>1. ApartWrites(req[p], req[q]) /\ req'[q] = req[q]
      BY <1>3 DEF Texts, Rest
    <3>2. req[q].at \in Writing => req[q].on \in MessageIds
      BY OnIs DEF OnRow
    <3>3. req[q].at \in Writing /\ req[q].on = m => m \in crossed
      BY <1>1, <1>2, <3>1 DEF ApartWrites, Writing
    <3> QED BY <1>3, <1>5, <2>2, <2>7, <3>1, <3>2, <3>3 DEF KeepsText, Meets
  <2>11. KnowsTags(req[p])' /\ KnowsText(req[p])'
    BY <1>5, <2>2 DEF KnowsTags, KnowsText, SameText, Claiming
  <2> QED BY <1>3, <2>9, <2>10, <2>11, TextsStep, RestIsAlike
<1> QED BY <1>1, <1>2, <1>4, <1>5, UpdateIs

LEMMA SoftDeleteTexts ==
  ASSUME Typed, Numbered, Texts, NEW p \in Requests, SoftDeleteMessage(p)
  PROVE  Texts'
<1>1. req[p].at = "delete" /\ req[p].on \in MessageIds
  BY OnIs DEF SoftDeleteMessage, OnRow
<1>2. PICK m : m = req[p].on
  OBVIOUS
<1>3. RestAlike({p}) /\ UNCHANGED <<mentions, members, moved>>
  BY <1>1, SoftDeleteIs DEF channelVars
<1>4. CASE Ends(p) /\ UNCHANGED <<messages, crossed>>
  BY <1>3, <1>4, TextsEnd DEF SameTexts
<1>5. CASE Blanked(m) /\ Crossing(p, m) /\ req'[p].at = "tombstone" /\ req'[p].on = m
  <2>1. crossed \subseteq crossed' /\ (m \notin crossed' => \A q \in Requests \ {p} : req[q].at \in Writing => req[q].on # m)
    BY <1>1, <1>2, <1>5, CrossingIs
  <2>2. messages'[m].state = "deleted" /\ \A n \in MessageIds \ {m} : messages'[n] = messages[n]
    BY <1>5 DEF Blanked
  <2>3. messages'[m] # NoRow
    BY <2>2, Constants
  <2>4. \A n : MentionsOf(n)' = MentionsOf(n)
    BY <1>3 DEF MentionsOf
  <2>5. Tagged'
    <3>1. Tagged
      BY DEF Texts
    <3>2. \A n \in MessageIds : messages'[n] = NoRow => MentionsOf(n)' = {}
      BY <2>2, <2>3, <2>4, <3>1 DEF Tagged
    <3>3. ASSUME NEW n \in MessageIds, messages'[n].state = "live", n \notin crossed'
          PROVE  MentionsOf(n)' \ moved = messages'[n].body.mentions \ moved
      <4>1. n # m /\ n \notin crossed
        BY <2>1, <2>2, <3>3
      <4> QED BY <2>2, <2>4, <3>1, <3>3, <4>1 DEF Tagged, MentionsFollowText
    <3>4. MentionsFollowText'
      BY <1>3, <3>3 DEF MentionsFollowText
    <3> QED BY <1>3, <3>1, <3>2, <3>4 DEF Tagged
  <2>6. ASSUME NEW q \in Requests \ {p} PROVE KeepsText(req[q]) /\ Meets(req'[p], req'[q])
    <3>1. req'[q].at = req[q].at /\ req'[q].on = req[q].on
      BY <1>3 DEF RestAlike, Alike
    <3>2. req[q].at \in Writing => req[q].on \in MessageIds
      BY OnIs DEF OnRow
    <3> QED BY <1>3, <1>5, <2>1, <2>2, <3>1, <3>2 DEF KeepsText, Meets
  <2>7. KnowsTags(req[p])' /\ KnowsText(req[p])'
    BY <1>5 DEF KnowsTags, KnowsText, Claiming, Telling
  <2> QED BY <1>3, <2>1, <2>5, <2>6, <2>7, TextsStep
<1> QED BY <1>1, <1>2, <1>4, <1>5, SoftDeleteIs

LEMMA BackgroundTexts ==
  ASSUME Typed, Numbered, Texts, Background
  PROVE  Texts'
<1>1. RestAlike({}) /\ UNCHANGED <<messages, mentions, crossed>>
  BY BackgroundIs
<1>2. \E u \in Users : members' \subseteq members \cup {u} /\ members \subseteq members' \cup {u} /\ moved \subseteq moved' /\ (moved' = moved \cup {u} \/ UNCHANGED <<members, moved>>)
  <2>1. CASE ChangeMembers
    BY <2>1, MembersIs
  <2>2. CASE TakeJob \/ FailJob \/ SaveLinkPreview \/ RemovePreview \/ AnnounceCard
    <3>1. UNCHANGED <<members, moved>>
      BY <2>2 DEF TakeJob, FailJob, SaveLinkPreview, RemovePreview, AnnounceCard, channelVars, ghostVars
    <3> QED BY <3>1, Constants
  <2> QED BY <2>1, <2>2 DEF Background
<1>3. \A n : MentionsOf(n)' = MentionsOf(n)
  BY <1>1 DEF MentionsOf
<1>4. Tagged'
  <2>1. Tagged
    BY DEF Texts
  <2>2. Users \ members' \subseteq moved'
    BY <1>2, <2>1 DEF Tagged
  <2>3. MentionsFollowText'
    BY <1>1, <1>2, <1>3, <2>1 DEF Tagged, MentionsFollowText
  <2> QED BY <1>1, <1>3, <2>1, <2>2, <2>3 DEF Tagged
<1>5. \A q \in Requests : KeepsText(req[q])
  BY <1>1 DEF KeepsText
<1> QED BY <1>1, <1>2, <1>4, <1>5, TextsStep

LEMMA TextsNext == Typed /\ Numbered /\ Texts /\ Next => Texts'
<1> SUFFICES ASSUME Typed, Numbered, Texts, Next PROVE Texts'
  OBVIOUS
<1>1. ASSUME NEW p \in Requests, Beginning(p) \/ Sending(p) \/ Ending(p) \/ Enqueue(p) \/ Staying(p) \/ Editing(p) PROVE Texts'
  BY <1>1, BeginTexts, SendTexts, EndTexts, EnqueueTexts, StayTexts, UpdateTexts, SoftDeleteTexts DEF Editing
<1> QED BY <1>1, BackgroundTexts, NextIs

LEMMA InitTexts == Init => Texts
<1> SUFFICES ASSUME Init PROVE Texts
  OBVIOUS
<1>1. \A p \in Requests : req[p] = Idle
  BY DEF Init
<1>2. mentions = {} /\ members = Users
  BY DEF Init
<1>3. \A m \in MessageIds : messages[m].body.mentions = {}
  <2>1. NoRow.body.mentions = {} /\ First.body.mentions = {}
    BY FirstIs, Constants
  <2> QED BY <2>1, InitIs
<1>4. Tagged
  BY <1>2, <1>3 DEF Tagged, MentionsFollowText, MentionsOf
<1>5. KnowsTags(Idle) /\ KnowsText(Idle) /\ ApartWrites(Idle, Idle)
  BY IdleIs DEF KnowsTags, KnowsText, ApartWrites, Claiming, Telling, Writing
<1> QED BY <1>1, <1>4, <1>5 DEF Texts

-------------------------------------------------------------------------------
(* What members are told.                                                  *)

Tells(r, m) == r.on = m /\ r.at \in {"cards", "announce", "tombstone"}
Agree(m) == shown[m].state = messages[m].state /\ shown[m].body = messages[m].body
\* What may have been told wrongly stays known as such.
Noted == crossed \subseteq crossed' /\ late \subseteq late' /\ unheard \subseteq unheard'
Suspect(m) == m \in crossed \cup late \cup unheard
NotedBut(m) == \A n \in MessageIds \ {m} : Suspect(n) => Suspect(n)'

LEMMA AnnouncedIs == Announced <=> \A m \in MessageIds : Suspect(m) \/ (\E p \in Requests : Tells(req[p], m)) \/ Agree(m)
BY DEF Announced, TellsIt, Tells, Agree, Suspect

LEMMA NotedIs == ASSUME Noted, NEW m PROVE NotedBut(m)
BY DEF Noted, NotedBut, Suspect

LEMMA CorrectedIs == ASSUME NEW m, Corrected(m) PROVE NotedBut(m) /\ UNCHANGED crossed
BY DEF Corrected, NotedBut, Suspect

\* A step that touches one message, and all that its request has to tell.
LEMMA AnnouncedStep ==
  ASSUME Announced, NEW p \in Requests, RestAlike({p}), NEW m, NotedBut(m),
         \A n \in MessageIds \ {m} : messages'[n] = messages[n] /\ shown'[n] = shown[n] /\ ~Tells(req[p], n),
         m \in MessageIds => Suspect(m)' \/ Tells(req'[p], m) \/ Agree(m)'
  PROVE  Announced'
<1>1. ASSUME NEW n \in MessageIds PROVE Suspect(n)' \/ (\E q \in Requests : Tells(req'[q], n)) \/ Agree(n)'
  <2>1. CASE n = m
    BY <2>1
  <2>2. CASE n # m
    <3>1. CASE Suspect(n)
      BY <2>2, <3>1 DEF NotedBut
    <3>2. CASE \E q \in Requests : Tells(req[q], n)
      <4>1. PICK q \in Requests : Tells(req[q], n)
        BY <3>2
      <4>2. q # p
        BY <2>2, <4>1
      <4>3. Tells(req'[q], n)
        BY <4>1, <4>2 DEF RestAlike, Alike, Tells
      <4> QED BY <4>3
    <3>3. CASE Agree(n)
      BY <2>2, <3>3 DEF Agree
    <3> QED BY <3>1, <3>2, <3>3, AnnouncedIs
  <2> QED BY <2>1, <2>2
<1>2. (\A n \in MessageIds : Suspect(n) \/ (\E q \in Requests : Tells(req[q], n)) \/ Agree(n))'
  BY <1>1 DEF Tells
<1> QED BY <1>2 DEF Announced, TellsIt, Tells, Agree, Suspect

\* A request that has nothing to tell.
LEMMA AnnouncedCalm ==
  ASSUME Announced, Noted, NEW p \in Requests, RestAlike({p}), UNCHANGED <<messages, shown>>,
         req[p].at \notin {"cards", "announce", "tombstone"}
  PROVE  Announced'
<1>1. \A n \in MessageIds \ {0} : messages'[n] = messages[n] /\ shown'[n] = shown[n] /\ ~Tells(req[p], n)
  BY DEF Tells
<1>2. 0 \notin MessageIds
  BY Constants
<1> QED BY <1>1, <1>2, AnnouncedStep, NotedIs

LEMMA AnnouncedRest ==
  ASSUME Announced, Noted, RestAlike({}), UNCHANGED <<messages, shown>>
  PROVE  Announced'
<1>1. ASSUME NEW n \in MessageIds PROVE Suspect(n)' \/ (\E q \in Requests : Tells(req'[q], n)) \/ Agree(n)'
  BY AnnouncedIs DEF Suspect, Noted, RestAlike, Alike, Tells, Agree
<1>2. (\A n \in MessageIds : Suspect(n) \/ (\E q \in Requests : Tells(req[q], n)) \/ Agree(n))'
  BY <1>1 DEF Tells
<1> QED BY <1>2 DEF Announced, TellsIt, Tells, Agree, Suspect

LEMMA BeginAnnounced ==
  ASSUME Typed, Announced, NEW p \in Requests, Beginning(p)
  PROVE  Announced'
<1>1. \E u : Begins(p, u)
  BY SendIs, EditIs, DeleteIs, ReadIs, UploadIs, ListIs, SearchIs DEF Beginning
<1>2. req[p].at = "idle" /\ Rest({p}) /\ UNCHANGED <<messages, shown>> /\ Noted
  BY <1>1 DEF Begins, Only, Noted, storeVars, ghostVars
<1> QED BY <1>2, AnnouncedCalm, RestIsAlike

LEMMA PutAnnounced ==
  ASSUME Typed, Announced, NEW p \in Requests, NEW m \in MessageIds, Puts(m, req[p]), Rest({p}), UNCHANGED shown, Noted,
         req[p].at \notin {"cards", "announce", "tombstone"}, req'[p].at = "announce", req'[p].on = m
  PROVE  Announced'
<1>1. req[p] \in Request
  BY DEF Typed
<1>2. \A n \in MessageIds \ {m} : messages'[n] = messages[n]
  BY <1>1, PutsIs
<1>3. \A n \in MessageIds \ {m} : ~Tells(req[p], n)
  BY DEF Tells
<1>4. Tells(req'[p], m)
  BY DEF Tells
<1> QED BY <1>2, <1>3, <1>4, AnnouncedStep, RestIsAlike, NotedIs

LEMMA SendAnnounced ==
  ASSUME Typed, Numbered, Announced, NEW p \in Requests, Sending(p)
  PROVE  Announced'
<1>1. CASE InsertMessage(p)
  <2>1. req[p].at = "send" /\ UNCHANGED shown /\ Noted /\ Rest({p})
    BY <1>1, InsertIs DEF Fixed, Noted
  <2>2. CASE UNCHANGED <<messages, mentions>>
    BY <2>1, <2>2, AnnouncedCalm, RestIsAlike
  <2>3. CASE \E m : New(m) /\ Puts(m, req[p]) /\ req'[p].at = "announce" /\ req'[p].on = m
    BY <2>1, <2>3, PutAnnounced DEF New
  <2> QED BY <1>1, <2>2, <2>3, InsertIs
<1>2. CASE ClaimAttachment(p)
  <2>1. req[p].at = "claim" /\ UNCHANGED <<messages, shown>> /\ Noted /\ Rest({p})
    BY <1>2, ClaimIs DEF Only, Noted, storeVars, ghostVars
  <2> QED BY <2>1, AnnouncedCalm, RestIsAlike
<1>3. CASE CommitMessage(p)
  <2>1. req[p].at = "claimed" /\ req[p].on \in MessageIds
    BY <1>3, OnIs DEF CommitMessage, Claiming
  <2>2. UNCHANGED shown /\ Noted /\ Rest({p}) /\ Puts(req[p].on, req[p]) /\ req'[p].at = "announce" /\ req'[p].on = req[p].on
    BY <1>3, <2>1, CommitIs DEF Fixed, Noted
  <2> QED BY <2>1, <2>2, PutAnnounced
<1> QED BY <1>1, <1>2, <1>3 DEF Sending

\* The request that announces says what is stored, for no other writes it.
LEMMA EndAnnounced ==
  ASSUME Typed, Numbered, Texts, Announced, NEW p \in Requests, Ending(p)
  PROVE  Announced'
<1>1. CASE RollbackMessage(p) \/ FinishList(p)
  <2>1. req[p].at \in Claiming \cup {"listed", "around"} /\ Rest({p}) /\ UNCHANGED <<messages, shown>> /\ Noted
    BY <1>1, RollbackIs DEF Ends, Only, Noted, storeVars, ghostVars
  <2> QED BY <2>1, AnnouncedCalm, RestIsAlike DEF Claiming
<1>2. CASE CutOff(p)
  <2>1. req[p].on \in MessageIds
    BY <1>2, OnIs DEF CutOff, OnRow, Writing, Telling
  <2>2. Rest({p}) /\ UNCHANGED <<messages, shown>> /\ Noted /\ req[p].on \in unheard'
    BY <1>2, <2>1, CutOffIs DEF Ends, Noted, storeVars
  <2>3. PICK m : m = req[p].on
    OBVIOUS
  <2>4. \A n \in MessageIds \ {m} : messages'[n] = messages[n] /\ shown'[n] = shown[n] /\ ~Tells(req[p], n)
    BY <2>2, <2>3 DEF Tells
  <2>5. Suspect(m)'
    BY <2>2, <2>3 DEF Suspect
  <2> QED BY <2>2, <2>4, <2>5, AnnouncedStep, RestIsAlike, NotedIs
<1>3. CASE AnnounceDeleted(p)
  <2>1. req[p].at = "tombstone" /\ req[p].on \in MessageIds
    BY <1>3, OnIs DEF AnnounceDeleted, OnRow, Writing, Telling
  <2>2. PICK m : m = req[p].on
    OBVIOUS
  <2>3. /\ Rest({p}) /\ UNCHANGED messages /\ NotedBut(m) /\ shown'[m].state = "deleted" /\ shown'[m].body = Erased
        /\ \A n \in MessageIds \ {m} : shown'[n] = shown[n]
    BY <1>3, <2>1, <2>2, TombstoneIs, CorrectedIs DEF Ends, storeVars
  <2>4. messages[m].state = "deleted" /\ messages[m].body = Erased
    BY <2>1, <2>2 DEF Numbered, KnowsRow, Stored
  <2>5. Agree(m)'
    BY <2>3, <2>4 DEF Agree
  <2>6. \A n \in MessageIds \ {m} : messages'[n] = messages[n] /\ shown'[n] = shown[n] /\ ~Tells(req[p], n)
    BY <2>2, <2>3 DEF Tells
  <2> QED BY <2>3, <2>5, <2>6, AnnouncedStep, RestIsAlike
<1>4. CASE StoreReadPosition(p)
  <2>1. req[p].on \in MessageIds /\ req[p].by \in Users
    BY <1>4, OnIs DEF StoreReadPosition, OnRow, Writing, Telling
  <2>2. req[p].at = "read" /\ Rest({p}) /\ UNCHANGED <<messages, shown>> /\ Noted
    BY <1>4, <2>1, StoreReadIs DEF Ends, Noted, ghostVars
  <2> QED BY <2>2, AnnouncedCalm, RestIsAlike
<1>5. CASE DeleteBlobs(p) \/ CreateAttachment(p) \/ LoseAnswer(p)
  <2>1. req[p].at \in Uploading /\ Rest({p}) /\ UNCHANGED <<messages, shown>> /\ Noted
    BY <1>5, DeleteBlobsIs, StoreRowIs DEF Ends, FixedFiles, Noted, ghostVars, Uploading
  <2> QED BY <2>1, AnnouncedCalm, RestIsAlike DEF Uploading
<1> QED BY <1>1, <1>2, <1>3, <1>4, <1>5 DEF Ending

LEMMA StayAnnounced ==
  ASSUME Typed, Numbered, Texts, Announced, NEW p \in Requests, Staying(p) \/ Enqueue(p)
  PROVE  Announced'
<1>1. CASE Enqueue(p)
  <2>1. req[p].on \in MessageIds
    BY <1>1, OnIs DEF Enqueue, OnRow, Writing, Telling
  <2>2. req[p].at = "enrich" /\ Rest({p}) /\ UNCHANGED <<messages, shown>> /\ Noted
    BY <1>1, <2>1, EnqueueIs DEF Ends, Noted, storeVars
  <2> QED BY <2>2, AnnouncedCalm, RestIsAlike
<1>2. CASE AnnounceMessage(p)
  <2>1. req[p].at = "announce" /\ req[p].on \in MessageIds
    BY <1>2, OnIs DEF AnnounceMessage, OnRow, Writing, Telling
  <2>2. PICK m : m = req[p].on
    OBVIOUS
  <2>3. /\ Rest({p}) /\ UNCHANGED <<messages, crossed>> /\ NotedBut(m) /\ shown'[m].state = "live" /\ shown'[m].body = req[p].body
        /\ \A n \in MessageIds \ {m} : shown'[n] = shown[n]
    BY <1>2, <2>1, <2>2, AnnounceIs, CorrectedIs DEF storeVars
  <2>4. m \notin crossed => messages[m].state = "live" /\ messages[m].body = req[p].body
    BY <2>1, <2>2 DEF Texts, KnowsText, Telling
  <2>5. Suspect(m)' \/ Agree(m)'
    BY <2>3, <2>4 DEF Agree, Suspect
  <2>6. \A n \in MessageIds \ {m} : messages'[n] = messages[n] /\ shown'[n] = shown[n] /\ ~Tells(req[p], n)
    BY <2>2, <2>3 DEF Tells
  <2> QED BY <2>3, <2>5, <2>6, AnnouncedStep, RestIsAlike
<1>3. CASE BeginUpdate(p)
  <2>1. req[p].on \in MessageIds
    BY <1>3, OnIs DEF BeginUpdate, OnRow
  <2>2. req[p].at = "edit" /\ Rest({p}) /\ UNCHANGED <<messages, shown>> /\ Noted
    BY <1>3, <2>1, BeginUpdateIs, CrossingIs DEF Noted, storeVars
  <2> QED BY <2>2, AnnouncedCalm, RestIsAlike
<1>4. CASE LoadMessageCards(p)
  <2>1. req[p].on \in MessageIds
    BY <1>4, OnIs DEF LoadMessageCards, OnRow, Writing, Telling
  <2>2. PICK m : m = req[p].on
    OBVIOUS
  <2>3. Rest({p}) /\ UNCHANGED <<messages, shown>> /\ Noted /\ req'[p].at = "announce" /\ req'[p].on = m
    BY <1>4, <2>1, <2>2, LoadIs DEF Only, Noted, storeVars, ghostVars
  <2>4. \A n \in MessageIds \ {m} : messages'[n] = messages[n] /\ shown'[n] = shown[n] /\ ~Tells(req[p], n)
    BY <2>2, <2>3 DEF Tells
  <2>5. Tells(req'[p], m)
    BY <2>3 DEF Tells
  <2> QED BY <2>3, <2>4, <2>5, AnnouncedStep, RestIsAlike, NotedIs
<1>5. CASE StoreBlob(p)
  <2>1. req[p].at = "blob" /\ Rest({p}) /\ UNCHANGED <<messages, shown>> /\ Noted
    BY <1>5, StoreBlobIs DEF FixedFiles, Noted, ghostVars
  <2> QED BY <2>1, AnnouncedCalm, RestIsAlike
<1>6. CASE HistoryPage(p) \/ SearchPage(p)
  <2>1. req[p].at \in Searching \cup {"before", "after", "older", "newer"} /\ Rest({p}) /\ UNCHANGED <<messages, shown>> /\ Noted
    BY <1>6, HistoryIs, SearchPageIs DEF Only, Noted, storeVars, ghostVars
  <2> QED BY <2>1, AnnouncedCalm, RestIsAlike DEF Searching
<1> QED BY <1>1, <1>2, <1>3, <1>4, <1>5, <1>6 DEF Staying

LEMMA EditAnnounced ==
  ASSUME Typed, Numbered, Announced, NEW p \in Requests, Editing(p)
  PROVE  Announced'
<1>0. req[p].at \in {"apply", "delete"} /\ req[p].on \in MessageIds
  BY OnIs DEF Editing, UpdateMessageContent, SoftDeleteMessage, OnRow, Writing
<1>1. PICK m : m = req[p].on
  OBVIOUS
<1>2. RestAlike({p}) /\ UNCHANGED shown /\ Noted
  <2>1. CASE UpdateMessageContent(p)
    BY <1>0, <2>1, UpdateIs, RestIsAlike DEF Noted, ghostVars
  <2>2. CASE SoftDeleteMessage(p)
    BY <1>0, <2>2, SoftDeleteIs, CrossingIs DEF Noted
  <2> QED BY <2>1, <2>2 DEF Editing
<1>3. UNCHANGED messages \/ (req'[p].on = m /\ req'[p].at \in {"cards", "tombstone"} /\ \A n \in MessageIds \ {m} : messages'[n] = messages[n])
  BY <1>0, <1>1, UpdateIs, SoftDeleteIs DEF Editing, Edited, Blanked
<1>4. CASE UNCHANGED messages
  BY <1>0, <1>2, <1>4, AnnouncedCalm
<1>5. CASE req'[p].on = m /\ req'[p].at \in {"cards", "tombstone"} /\ \A n \in MessageIds \ {m} : messages'[n] = messages[n]
  <2>1. \A n \in MessageIds \ {m} : messages'[n] = messages[n] /\ shown'[n] = shown[n] /\ ~Tells(req[p], n)
    BY <1>0, <1>2, <1>5 DEF Tells
  <2>2. Tells(req'[p], m)
    BY <1>5 DEF Tells
  <2> QED BY <1>2, <2>1, <2>2, AnnouncedStep, NotedIs
<1> QED BY <1>3, <1>4, <1>5

LEMMA BackgroundAnnounced ==
  ASSUME Typed, Numbered, Announced, Background
  PROVE  Announced'
<1>1. RestAlike({}) /\ UNCHANGED <<messages, crossed, unheard>>
  BY BackgroundIs
<1>2. CASE AnnounceCard
  <2>1. worker.on \in MessageIds
    BY <1>2 DEF AnnounceCard, Numbered, Queued
  <2>2. PICK m : m = worker.on
    OBVIOUS
  <2>3. /\ shown'[m].state = "live" /\ shown'[m].body = worker.body /\ \A n \in MessageIds \ {m} : shown'[n] = shown[n]
        /\ late \subseteq late' /\ (m \in late' \/ (messages[m].state = "live" /\ messages[m].body = worker.body))
    BY <1>2, <2>1, <2>2, AnnounceCardIs
  <2>4. ASSUME NEW n \in MessageIds PROVE Suspect(n)' \/ (\E q \in Requests : Tells(req'[q], n)) \/ Agree(n)'
    <3>1. CASE n = m
      BY <1>1, <2>3, <3>1 DEF Suspect, Agree
    <3>2. CASE n # m
      BY <1>1, <2>3, <3>2, AnnouncedIs DEF Suspect, Agree, RestAlike, Alike, Tells
    <3> QED BY <3>1, <3>2
  <2>5. (\A n \in MessageIds : Suspect(n) \/ (\E q \in Requests : Tells(req[q], n)) \/ Agree(n))'
    BY <2>4 DEF Tells
  <2> QED BY <2>5 DEF Announced, TellsIt, Tells, Agree, Suspect
<1>3. CASE TakeJob \/ FailJob \/ SaveLinkPreview \/ RemovePreview \/ ChangeMembers
  <2>1. UNCHANGED <<shown, late>>
    BY <1>3 DEF TakeJob, FailJob, SaveLinkPreview, RemovePreview, ChangeMembers, ghostVars
  <2> QED BY <1>1, <2>1, AnnouncedRest DEF Noted
<1> QED BY <1>2, <1>3 DEF Background

LEMMA AnnouncedNext == Typed /\ Numbered /\ Texts /\ Announced /\ Next => Announced'
<1> SUFFICES ASSUME Typed, Numbered, Texts, Announced, Next PROVE Announced'
  OBVIOUS
<1>1. ASSUME NEW p \in Requests, Beginning(p) \/ Sending(p) \/ Ending(p) \/ Enqueue(p) \/ Staying(p) \/ Editing(p) PROVE Announced'
  BY <1>1, BeginAnnounced, SendAnnounced, EndAnnounced, StayAnnounced, EditAnnounced
<1> QED BY <1>1, BackgroundAnnounced, NextIs

LEMMA InitAnnounced == Init => Announced
<1> SUFFICES ASSUME Init PROVE Announced
  OBVIOUS
<1>1. NoRow.state = "none" /\ NoRow.body = Erased
  BY Constants
<1>2. \A m \in MessageIds : Agree(m)
  BY <1>1, InitIs, FirstIs DEF Agree
<1> QED BY <1>2, AnnouncedIs

LEMMA AnnouncedTells == Announced => ToldWhatIsStored
<1> SUFFICES ASSUME Announced, Quiet, NEW m \in MessageIds \ (crossed \cup late \cup unheard)
             PROVE  <<shown[m].state, shown[m].body>> = <<messages[m].state, messages[m].body>>
  BY DEF ToldWhatIsStored
<1>1. ~TellsIt(m)
  BY DEF TellsIt, Quiet
<1> QED BY <1>1 DEF Announced

-------------------------------------------------------------------------------
(* Link previews.                                                          *)

Sends(r, m) == r.on = m /\ r.at \in Telling
\* What may have no card, or another's, stays known as such.
Counted == crossed \subseteq crossed' /\ cardless \subseteq cardless'
Loose(m) == m \in crossed \cup cardless
LinksFollow == \A m \in MessageIds : Loose(m) \/ messages[m].state # "live" \/ Follows(m)
SameJobs == UNCHANGED <<previews, jobs, worker, e2ee>>

LEMMA CardsAre == Cards <=> LinksFollow /\ (e2ee => Unlinked)
BY DEF Cards, LinksFollow, Loose

LEMMA SendsItStays ==
  ASSUME NEW X, RestAlike(X), NEW m, \A q \in Requests \cap X : ~Sends(req[q], m), SendsIt(m)
  PROVE  SendsIt(m)'
<1>1. PICK q \in Requests : Sends(req[q], m)
  BY DEF SendsIt, Sends
<1>2. q \notin X
  BY <1>1
<1>3. req'[q].on = m /\ req'[q].at \in Telling
  BY <1>1, <1>2 DEF RestAlike, Alike, Sends
<1> QED BY <1>3 DEF SendsIt

\* A step that touches one message, and all that its request has to hand over.
LEMMA CardsStep ==
  ASSUME Cards, Counted, NEW p \in Requests, RestAlike({p}), SameJobs, NEW m,
         \A n \in MessageIds \ {m} : messages'[n] = messages[n] /\ ~Sends(req[p], n),
         m \in MessageIds => /\ Loose(m)' \/ messages'[m].state # "live" \/ Sends(req'[p], m)
                             /\ messages'[m].body \in {messages[m].body, req[p].body, Erased},
         e2ee => req'[p].body.link = 0
  PROVE  Cards'
<1>1. ASSUME NEW n \in MessageIds PROVE Loose(n)' \/ messages'[n].state # "live" \/ Follows(n)'
  <2>1. CASE n = m
    BY <2>1 DEF Follows, SendsIt, Sends
  <2>2. CASE n # m
    <3>1. messages'[n] = messages[n]
      BY <2>2
    <3>2. CASE Loose(n) \/ messages[n].state # "live"
      BY <3>1, <3>2 DEF Loose, Counted
    <3>3. CASE SendsIt(n)
      <4>1. SendsIt(n)'
        BY <2>2, <3>3, SendsItStays
      <4> QED BY <4>1 DEF Follows
    <3>4. CASE Follows(n) /\ ~SendsIt(n)
      <4>1. Waits(n)' = Waits(n) /\ Works(n)' = Works(n) /\ WaitsLast(n)' = WaitsLast(n)
        BY <3>1 DEF Waits, Works, WaitsLast, SameJobs
      <4> QED BY <3>1, <3>4, <4>1 DEF Follows, SameJobs
    <3> QED BY <3>2, <3>3, <3>4, CardsAre DEF LinksFollow
  <2> QED BY <2>1, <2>2
<1>2. ASSUME e2ee PROVE Unlinked'
  <2>1. Unlinked
    BY <1>2, CardsAre
  <2>2. Erased.link = 0
    BY Constants
  <2>3. \A n \in MessageIds : messages'[n].body.link = 0
    BY <2>1, <2>2 DEF Unlinked
  <2>4. \A q \in Requests : req'[q].body.link = 0
    BY <1>2, <2>1 DEF Unlinked, RestAlike, Alike
  <2> QED BY <2>1, <2>3, <2>4 DEF Unlinked, SameJobs
<1>3. LinksFollow'
  BY <1>1 DEF LinksFollow
<1>4. e2ee' = e2ee
  BY DEF SameJobs
<1> QED BY <1>2, <1>3, <1>4 DEF Cards, LinksFollow, Loose

LEMMA CardsCalm ==
  ASSUME Cards, Counted, NEW p \in Requests, RestAlike({p}), SameJobs, UNCHANGED messages, req[p].at \notin Telling,
         e2ee => req'[p].body.link = 0
  PROVE  Cards'
<1>1. \A n \in MessageIds \ {0} : messages'[n] = messages[n] /\ ~Sends(req[p], n)
  BY DEF Sends
<1>2. 0 \notin MessageIds
  BY Constants
<1> QED BY <1>1, <1>2, CardsStep

LEMMA BodyLinks == ASSUME Cards, e2ee, NEW p \in Requests PROVE req[p].body.link = 0
BY DEF Cards, Unlinked

LEMMA CardsEnd ==
  ASSUME Cards, Counted, NEW p \in Requests, Ends(p), SameJobs, UNCHANGED messages, req[p].at \notin Telling
  PROVE  Cards'
BY IdleIs, CardsCalm, RestIsAlike DEF Ends

LEMMA BeginCards ==
  ASSUME Typed, Cards, NEW p \in Requests, Beginning(p)
  PROVE  Cards'
<1>1. \E u : Begins(p, u) /\ (e2ee => req'[p].body.link = 0)
  BY SendIs, EditIs, DeleteIs, ReadIs, UploadIs, ListIs, SearchIs DEF Beginning
<1>2. req[p].at = "idle" /\ Rest({p}) /\ UNCHANGED messages /\ SameJobs /\ Counted
  BY <1>1 DEF Begins, Only, Counted, SameJobs, storeVars, ghostVars, channelVars, enricherVars
<1> QED BY <1>1, <1>2, CardsCalm, RestIsAlike DEF Telling

LEMMA PutCards ==
  ASSUME Typed, Cards, NEW p \in Requests, NEW m \in MessageIds, Puts(m, req[p]), Rest({p}), SameJobs, Counted,
         req[p].at \notin Telling, req'[p].at = "announce", req'[p].on = m, SameText(req'[p], req[p])
  PROVE  Cards'
<1>1. req[p] \in Request
  BY DEF Typed
<1>2. messages'[m] = RowOf(req[p]) /\ \A n \in MessageIds \ {m} : messages'[n] = messages[n]
  BY <1>1, PutsIs
<1>3. messages'[m].body = req[p].body
  BY <1>1, <1>2, RowOfIs
<1>4. \A n \in MessageIds \ {m} : messages'[n] = messages[n] /\ ~Sends(req[p], n)
  BY <1>2 DEF Sends
<1>5. Sends(req'[p], m)
  BY DEF Sends, Telling
<1>6. e2ee => req'[p].body.link = 0
  BY BodyLinks DEF SameText
<1> QED BY <1>3, <1>4, <1>5, <1>6, CardsStep, RestIsAlike

LEMMA SendCards ==
  ASSUME Typed, Numbered, Cards, NEW p \in Requests, Sending(p)
  PROVE  Cards'
<1>1. CASE InsertMessage(p)
  <2>1. req[p].at = "send" /\ SameJobs /\ Counted /\ Rest({p})
    BY <1>1, InsertIs DEF Fixed, Counted, SameJobs
  <2>2. CASE req'[p] = Idle /\ UNCHANGED <<messages, mentions>>
    BY <2>1, <2>2, CardsEnd DEF Ends, Telling
  <2>3. CASE \E m : New(m) /\ Puts(m, req[p]) /\ req'[p].at = "announce" /\ req'[p].on = m /\ SameText(req'[p], req[p])
    BY <2>1, <2>3, PutCards DEF New, Telling
  <2>4. CASE UNCHANGED <<messages, mentions>> /\ SameText(req'[p], req[p])
    <3>1. e2ee => req'[p].body.link = 0
      BY <2>4, BodyLinks DEF SameText
    <3> QED BY <2>1, <2>4, <3>1, CardsCalm, RestIsAlike DEF Telling
  <2> QED BY <1>1, <2>2, <2>3, <2>4, InsertIs
<1>2. CASE ClaimAttachment(p)
  <2>1. req[p].at = "claim" /\ UNCHANGED messages /\ SameJobs /\ Counted /\ Rest({p})
    BY <1>2, ClaimIs DEF Only, Counted, SameJobs, storeVars, ghostVars, channelVars, enricherVars
  <2>2. req'[p] = Idle \/ SameText(req'[p], req[p])
    BY <1>2, ClaimIs
  <2>3. e2ee => req'[p].body.link = 0
    BY <2>2, BodyLinks, IdleIs DEF SameText
  <2> QED BY <2>1, <2>3, CardsCalm, RestIsAlike DEF Telling
<1>3. CASE CommitMessage(p)
  <2>1. req[p].at = "claimed" /\ req[p].on \in MessageIds
    BY <1>3, OnIs DEF CommitMessage, Claiming
  <2>2. /\ SameJobs /\ Counted /\ Rest({p}) /\ Puts(req[p].on, req[p]) /\ req'[p].at = "announce" /\ req'[p].on = req[p].on
        /\ SameText(req'[p], req[p])
    BY <1>3, <2>1, CommitIs DEF Fixed, Counted, SameJobs
  <2> QED BY <2>1, <2>2, PutCards DEF Telling
<1> QED BY <1>1, <1>2, <1>3 DEF Sending

LEMMA EndCards ==
  ASSUME Typed, Numbered, Cards, NEW p \in Requests, Ending(p)
  PROVE  Cards'
<1>1. CASE RollbackMessage(p) \/ FinishList(p)
  <2>1. req[p].at \in Claiming \cup {"listed", "around"} /\ Ends(p) /\ UNCHANGED messages /\ SameJobs /\ Counted
    BY <1>1, RollbackIs DEF Only, Counted, SameJobs, storeVars, ghostVars, channelVars, enricherVars
  <2> QED BY <2>1, CardsEnd DEF Claiming, Telling
<1>2. CASE CutOff(p)
  <2>1. req[p].on \in MessageIds
    BY <1>2, OnIs DEF CutOff, OnRow, Writing, Telling
  <2>2. Rest({p}) /\ req'[p] = Idle /\ UNCHANGED messages /\ SameJobs /\ Counted /\ req[p].on \in cardless'
    BY <1>2, <2>1, CutOffIs DEF Ends, Counted, SameJobs, storeVars, channelVars, enricherVars
  <2>3. PICK m : m = req[p].on
    OBVIOUS
  <2>4. \A n \in MessageIds \ {m} : messages'[n] = messages[n] /\ ~Sends(req[p], n)
    BY <2>2, <2>3 DEF Sends
  <2>5. Loose(m)' /\ messages'[m].body = messages[m].body
    BY <2>2, <2>3 DEF Loose
  <2> QED BY <2>2, <2>4, <2>5, CardsStep, RestIsAlike, IdleIs
<1>3. CASE AnnounceDeleted(p)
  <2>1. req[p].on \in MessageIds
    BY <1>3, OnIs DEF AnnounceDeleted, OnRow, Writing, Telling
  <2>2. req[p].at = "tombstone" /\ Ends(p) /\ UNCHANGED messages /\ SameJobs /\ Counted
    BY <1>3, <2>1, TombstoneIs DEF Counted, SameJobs, storeVars, Corrected, channelVars, enricherVars
  <2> QED BY <2>2, CardsEnd DEF Telling
<1>4. CASE StoreReadPosition(p)
  <2>1. req[p].on \in MessageIds /\ req[p].by \in Users
    BY <1>4, OnIs DEF StoreReadPosition, OnRow, Writing, Telling
  <2>2. req[p].at = "read" /\ Ends(p) /\ UNCHANGED messages /\ SameJobs /\ Counted
    BY <1>4, <2>1, StoreReadIs DEF Counted, SameJobs, ghostVars, channelVars, enricherVars
  <2> QED BY <2>2, CardsEnd DEF Telling
<1>5. CASE DeleteBlobs(p) \/ CreateAttachment(p) \/ LoseAnswer(p)
  <2>1. req[p].at \in Uploading /\ Ends(p) /\ UNCHANGED messages /\ SameJobs /\ Counted
    BY <1>5, DeleteBlobsIs, StoreRowIs DEF FixedFiles, Counted, SameJobs, ghostVars, enricherVars, Uploading
  <2> QED BY <2>1, CardsEnd DEF Uploading, Telling
<1> QED BY <1>1, <1>2, <1>3, <1>4, <1>5 DEF Ending

LEMMA StayCards ==
  ASSUME Typed, Numbered, Cards, NEW p \in Requests, Staying(p)
  PROVE  Cards'
<1>1. ASSUME NEW m, m = req[p].on, Rest({p}), UNCHANGED messages, SameJobs, Counted, req'[p].at \in Telling, req'[p].on = m,
             SameText(req'[p], req[p])
      PROVE  Cards'
  <2>1. \A n \in MessageIds \ {m} : messages'[n] = messages[n] /\ ~Sends(req[p], n)
    BY <1>1 DEF Sends
  <2>2. Sends(req'[p], m) /\ messages'[m].body = messages[m].body
    BY <1>1 DEF Sends
  <2>3. e2ee => req'[p].body.link = 0
    BY <1>1, BodyLinks DEF SameText
  <2> QED BY <1>1, <2>1, <2>2, <2>3, CardsStep, RestIsAlike
<1>2. CASE AnnounceMessage(p)
  <2>1. req[p].on \in MessageIds
    BY <1>2, OnIs DEF AnnounceMessage, OnRow, Writing, Telling
  <2>2. /\ Rest({p}) /\ UNCHANGED messages /\ SameJobs /\ Counted /\ req'[p].at = "enrich" /\ req'[p].on = req[p].on
        /\ SameText(req'[p], req[p])
    BY <1>2, <2>1, AnnounceIs DEF Counted, SameJobs, storeVars, Corrected, channelVars, enricherVars
  <2> QED BY <1>1, <2>2 DEF Telling
<1>3. CASE LoadMessageCards(p)
  <2>1. req[p].on \in MessageIds
    BY <1>3, OnIs DEF LoadMessageCards, OnRow, Writing, Telling
  <2>2. /\ Rest({p}) /\ UNCHANGED messages /\ SameJobs /\ Counted /\ req'[p].at = "announce" /\ req'[p].on = req[p].on
        /\ SameText(req'[p], req[p])
    BY <1>3, <2>1, LoadIs DEF Only, Counted, SameJobs, storeVars, ghostVars, channelVars, enricherVars
  <2> QED BY <1>1, <2>2 DEF Telling
<1>4. CASE BeginUpdate(p)
  <2>1. req[p].on \in MessageIds
    BY <1>4, OnIs DEF BeginUpdate, OnRow
  <2>2. req[p].at = "edit" /\ Rest({p}) /\ UNCHANGED messages /\ SameJobs /\ Counted /\ SameText(req'[p], req[p])
    BY <1>4, <2>1, BeginUpdateIs, CrossingIs DEF Counted, SameJobs, storeVars, channelVars, enricherVars
  <2>3. e2ee => req'[p].body.link = 0
    BY <2>2, BodyLinks DEF SameText
  <2> QED BY <2>2, <2>3, CardsCalm, RestIsAlike DEF Telling
<1>5. CASE StoreBlob(p)
  <2>1. req[p].at = "blob" /\ Rest({p}) /\ UNCHANGED messages /\ SameJobs /\ Counted /\ SameText(req'[p], req[p])
    BY <1>5, StoreBlobIs DEF FixedFiles, Counted, SameJobs, ghostVars, enricherVars
  <2>2. e2ee => req'[p].body.link = 0
    BY <2>1, BodyLinks DEF SameText
  <2> QED BY <2>1, <2>2, CardsCalm, RestIsAlike DEF Telling
<1>6. CASE HistoryPage(p) \/ SearchPage(p)
  <2>1. req[p].at \in Searching \cup {"before", "after", "older", "newer"} /\ Rest({p}) /\ UNCHANGED messages /\ SameJobs /\ Counted
    BY <1>6, HistoryIs, SearchPageIs DEF Only, Counted, SameJobs, storeVars, ghostVars, channelVars, enricherVars
  <2>2. req'[p] = Idle \/ req'[p].body = req[p].body
    BY <1>6, HistoryIs, SearchPageIs DEF Walked
  <2>3. e2ee => req'[p].body.link = 0
    BY <2>2, BodyLinks, IdleIs
  <2> QED BY <2>1, <2>3, CardsCalm, RestIsAlike DEF Searching, Telling
<1> QED BY <1>2, <1>3, <1>4, <1>5, <1>6 DEF Staying

LEMMA EditCards ==
  ASSUME Typed, Numbered, Cards, NEW p \in Requests, Editing(p)
  PROVE  Cards'
<1>0. req[p].at \in {"apply", "delete"} /\ req[p].on \in MessageIds
  BY OnIs DEF Editing, UpdateMessageContent, SoftDeleteMessage, OnRow, Writing
<1>1. PICK m : m = req[p].on
  OBVIOUS
<1>2. RestAlike({p}) /\ SameJobs /\ Counted
  <2>1. CASE UpdateMessageContent(p)
    BY <1>0, <2>1, UpdateIs, RestIsAlike DEF Counted, SameJobs, ghostVars, channelVars, enricherVars
  <2>2. CASE SoftDeleteMessage(p)
    BY <1>0, <2>2, SoftDeleteIs, CrossingIs DEF Counted, SameJobs, channelVars, enricherVars
  <2> QED BY <2>1, <2>2 DEF Editing
<1>3. \/ UNCHANGED messages /\ req'[p] = Idle
      \/ /\ SameText(req'[p], req[p]) /\ \A n \in MessageIds \ {m} : messages'[n] = messages[n]
         /\ messages'[m].body \in {req[p].body, Erased}
         /\ messages'[m].state # "live" \/ (req'[p].on = m /\ req'[p].at = "cards")
  BY <1>0, <1>1, UpdateIs, SoftDeleteIs DEF Editing, Edited, Blanked, Ends
<1>4. CASE UNCHANGED messages /\ req'[p] = Idle
  BY <1>0, <1>2, <1>4, CardsCalm, IdleIs DEF Telling
<1>5. CASE /\ SameText(req'[p], req[p]) /\ \A n \in MessageIds \ {m} : messages'[n] = messages[n]
           /\ messages'[m].body \in {req[p].body, Erased}
           /\ messages'[m].state # "live" \/ (req'[p].on = m /\ req'[p].at = "cards")
  <2>1. \A n \in MessageIds \ {m} : messages'[n] = messages[n] /\ ~Sends(req[p], n)
    BY <1>0, <1>5 DEF Sends, Telling
  <2>2. messages'[m].state # "live" \/ Sends(req'[p], m)
    BY <1>5 DEF Sends, Telling
  <2>3. e2ee => req'[p].body.link = 0
    BY <1>5, BodyLinks DEF SameText
  <2> QED BY <1>2, <1>5, <2>1, <2>2, <2>3, CardsStep
<1> QED BY <1>3, <1>4, <1>5

\* The copy that is handed over is of the text that is stored.
LEMMA EnqueueCards ==
  ASSUME Typed, Numbered, Texts, Cards, NEW p \in Requests, Enqueue(p)
  PROVE  Cards'
<1>1. req[p].on \in MessageIds
  BY OnIs DEF Enqueue, OnRow, Writing, Telling
<1>2. PICK m : m = req[p].on
  OBVIOUS
<1>3. /\ req[p].at = "enrich" /\ Rest({p}) /\ req'[p] = Idle /\ Counted
      /\ UNCHANGED <<messages, previews, worker, e2ee, crossed, unheard>>
  BY <1>1, EnqueueIs DEF Ends, Counted, storeVars, channelVars
<1>4. RestAlike({p})
  BY <1>3, RestIsAlike
<1>5. \A n \in MessageIds \ {m} : messages'[n] = messages[n] /\ ~Sends(req[p], n)
  BY <1>2, <1>3 DEF Sends
<1>6. CASE e2ee /\ UNCHANGED <<jobs, cardless>>
  <2>1. Unlinked
    BY <1>6, CardsAre
  <2>2. Unlinked'
    <3>1. \A q \in Requests : req'[q].body.link = 0
      BY <1>3, <1>4, <2>1, IdleIs DEF Unlinked, RestAlike, Alike
    <3> QED BY <1>3, <1>6, <2>1, <3>1 DEF Unlinked
  <2>3. \A n \in MessageIds : Follows(n)'
    BY <2>2, NoJobIs DEF Unlinked, Follows, Waits, Works
  <2> QED BY <2>2, <2>3 DEF Cards
<1>7. CASE ~e2ee /\ jobs' = jobs /\ cardless' = cardless \cup {req[p].on}
  <2>1. SameJobs /\ Loose(m)' /\ messages'[m].body = messages[m].body
    BY <1>2, <1>3, <1>7 DEF SameJobs, Loose
  <2> QED BY <1>3, <1>4, <1>5, <1>7, <2>1, CardsStep
<1>8. CASE ~e2ee /\ jobs' = Append(jobs, JobOf(req[p])) /\ UNCHANGED cardless
  <2>1. PICK j : j = JobOf(req[p])
    OBVIOUS
  <2>2. j.on = m /\ j.body = req[p].body
    BY <1>2, <2>1 DEF JobOf
  <2>3. jobs \in Seq(Job) /\ Len(jobs) \in Nat
    BY DEF Typed, Enricher
  <2>4. /\ DOMAIN jobs = 1 .. Len(jobs) /\ DOMAIN jobs' = 1 .. Len(jobs) + 1
        /\ jobs'[Len(jobs) + 1] = j /\ \A i \in DOMAIN jobs : jobs'[i] = jobs[i]
    BY <1>8, <2>1, <2>3
  <2>5. ASSUME NEW n \in MessageIds PROVE Loose(n)' \/ messages'[n].state # "live" \/ Follows(n)'
    <3>1. CASE n = m
      <4>1. m \in crossed \/ messages[m].body = req[p].body
        BY <1>2, <1>3 DEF Texts, KnowsText, Telling
      <4>2. CASE m \in crossed
        BY <1>3, <3>1, <4>2 DEF Loose
      <4>3. CASE messages[m].body = req[p].body
        <5>1. WaitsLast(n)'
          <6>1. Len(jobs) + 1 \in DOMAIN jobs' /\ jobs'[Len(jobs) + 1].on = n /\ jobs'[Len(jobs) + 1].body = messages'[n].body
            BY <1>3, <2>2, <2>3, <2>4, <3>1, <4>3
          <6>2. \A i \in DOMAIN jobs' : ~(i > Len(jobs) + 1)
            BY <2>3, <2>4
          <6> QED BY <6>1, <6>2 DEF WaitsLast
        <5> QED BY <5>1 DEF Follows
      <4> QED BY <4>1, <4>2, <4>3
    <3>2. CASE n # m
      <4>1. CASE Loose(n) \/ messages[n].state # "live"
        BY <1>3, <4>1 DEF Loose, Counted
      <4>2. CASE SendsIt(n)
        <5>1. SendsIt(n)'
          BY <1>4, <1>5, <3>2, <4>2, SendsItStays
        <5> QED BY <5>1 DEF Follows
      <4>3. CASE WaitsLast(n)
        <5>1. PICK i \in DOMAIN jobs : jobs[i].on = n /\ jobs[i].body = messages[n].body /\ \A k \in DOMAIN jobs : k > i => jobs[k].on # n
          BY <4>3 DEF WaitsLast
        <5>2. \A k \in DOMAIN jobs' : k \in DOMAIN jobs \/ k = Len(jobs) + 1
          BY <2>3, <2>4
        <5>3. \A k \in DOMAIN jobs' : k > i => jobs'[k].on # n
          BY <2>2, <2>4, <3>2, <5>1, <5>2
        <5>4. i \in DOMAIN jobs' /\ jobs'[i].on = n /\ jobs'[i].body = messages'[n].body
          BY <1>3, <2>3, <2>4, <5>1
        <5>5. WaitsLast(n)'
          BY <5>3, <5>4 DEF WaitsLast
        <5> QED BY <5>5 DEF Follows
      <4>4. CASE ~Waits(n) /\ (Works(n) => worker.body = messages[n].body) /\ (~Works(n) => previews[n] = messages[n].body.link)
        <5>1. \A k \in DOMAIN jobs' : k \in DOMAIN jobs \/ k = Len(jobs) + 1
          BY <2>3, <2>4
        <5>2. ~Waits(n)'
          BY <2>2, <2>4, <3>2, <4>4, <5>1 DEF Waits
        <5>3. Works(n)' = Works(n)
          BY <1>3 DEF Works
        <5> QED BY <1>3, <4>4, <5>2, <5>3 DEF Follows
      <4> QED BY <4>1, <4>2, <4>3, <4>4, CardsAre DEF LinksFollow, Follows
    <3> QED BY <3>1, <3>2
  <2>6. LinksFollow' /\ ~e2ee'
    BY <1>3, <1>8, <2>5 DEF LinksFollow
  <2> QED BY <2>6 DEF Cards, LinksFollow, Loose
<1> QED BY <1>1, <1>6, <1>7, <1>8, EnqueueIs

\* The enricher takes the oldest job.
LEMMA TakeJobCards ==
  ASSUME Typed, Numbered, Cards, TakeJob
  PROVE  Cards'
<1>1. /\ UNCHANGED <<messages, req, e2ee, crossed, unheard, cardless, previews>> /\ worker.at = "idle"
      /\ jobs # <<>> /\ worker' = jobs[1] /\ jobs' = Tail(jobs)
  BY TakeJobIs DEF Stayed, channelVars
<1>2. ~e2ee
  BY <1>1, CardsAre DEF Unlinked
<1>3. jobs \in Seq(Job) /\ Len(jobs) \in Nat /\ DOMAIN jobs = 1 .. Len(jobs) /\ Len(jobs) # 0
  BY <1>1 DEF Typed, Enricher
<1>4. DOMAIN jobs' = 1 .. Len(jobs) - 1 /\ \A i \in DOMAIN jobs' : jobs'[i] = jobs[i + 1]
  BY <1>1, <1>3
<1>5. worker'.at = "process" /\ 1 \in DOMAIN jobs
  BY <1>1, <1>3 DEF Numbered, Queued
<1>6. ASSUME NEW n \in MessageIds PROVE Loose(n)' \/ messages'[n].state # "live" \/ Follows(n)'
  <2>1. CASE Loose(n) \/ messages[n].state # "live"
    BY <1>1, <2>1 DEF Loose
  <2>2. CASE SendsIt(n)
    BY <1>1, <2>2 DEF SendsIt, Follows
  <2>3. CASE WaitsLast(n)
    <3>1. PICK i \in DOMAIN jobs : jobs[i].on = n /\ jobs[i].body = messages[n].body /\ \A k \in DOMAIN jobs : k > i => jobs[k].on # n
      BY <2>3 DEF WaitsLast
    <3>2. CASE i = 1
      <4>1. ASSUME NEW k \in DOMAIN jobs' PROVE jobs'[k].on # n
        <5>1. k + 1 \in DOMAIN jobs /\ k + 1 > i
          BY <1>3, <1>4, <3>2
        <5> QED BY <1>4, <3>1, <5>1
      <4>2. ~Waits(n)'
        BY <4>1 DEF Waits
      <4>3. Works(n)' /\ worker'.body = messages'[n].body
        BY <1>1, <1>5, <3>1, <3>2 DEF Works
      <4> QED BY <4>2, <4>3 DEF Follows
    <3>3. CASE i # 1
      <4>1. i - 1 \in DOMAIN jobs' /\ i - 1 + 1 = i
        BY <1>3, <1>4, <3>1, <3>3
      <4>2. jobs'[i - 1].on = n /\ jobs'[i - 1].body = messages'[n].body
        BY <1>1, <1>4, <3>1, <4>1
      <4>3. ASSUME NEW k \in DOMAIN jobs', k > i - 1 PROVE jobs'[k].on # n
        <5>1. k + 1 \in DOMAIN jobs /\ k + 1 > i
          BY <1>3, <1>4, <4>3, <3>1
        <5> QED BY <1>4, <3>1, <5>1
      <4>4. WaitsLast(n)'
        BY <4>1, <4>2, <4>3 DEF WaitsLast
      <4> QED BY <4>4 DEF Follows
    <3> QED BY <3>2, <3>3
  <2>4. CASE ~Waits(n) /\ previews[n] = messages[n].body.link
    <3>1. ~Waits(n)'
      <4>1. ASSUME NEW k \in DOMAIN jobs' PROVE k + 1 \in DOMAIN jobs
        BY <1>3, <1>4
      <4> QED BY <1>4, <2>4, <4>1 DEF Waits
    <3>2. ~Works(n)'
      BY <1>1, <1>5, <2>4 DEF Works, Waits
    <3> QED BY <1>1, <2>4, <3>1, <3>2 DEF Follows
  <2>5. ~Works(n)
    BY <1>1 DEF Works
  <2> QED BY <2>1, <2>2, <2>3, <2>4, <2>5, CardsAre DEF LinksFollow, Follows
<1>7. LinksFollow' /\ ~e2ee'
  BY <1>1, <1>2, <1>6 DEF LinksFollow
<1> QED BY <1>7 DEF Cards, LinksFollow, Loose

\* It ends with a job: only the message it is of can be another after it.
LEMMA WorkCards ==
  ASSUME Typed, Numbered, Cards, FailJob \/ SaveLinkPreview \/ RemovePreview \/ AnnounceCard
  PROVE  Cards'
<1>1. worker.at # "idle" /\ worker # NoJob
  BY NoJobIs DEF FailJob, SaveLinkPreview, RemovePreview, AnnounceCard
<1>2. worker.on \in MessageIds
  BY <1>1 DEF Numbered, Queued
<1>3. PICK m : m = worker.on
  OBVIOUS
<1>4. /\ UNCHANGED <<messages, req, e2ee, jobs, crossed, unheard>> /\ cardless \subseteq cardless' /\ worker'.at # "process"
      /\ \/ worker.at = "process" /\ m \in cardless' /\ UNCHANGED previews
         \/ worker.at = "process" /\ previews' = [previews EXCEPT ![m] = worker.body.link]
         \/ worker.at = "tell" /\ UNCHANGED previews
  BY <1>2, <1>3, FailJobIs, CardIs, AnnounceCardIs, NoJobIs DEF Stayed, channelVars
<1>5. \A n \in MessageIds \ {m} : previews'[n] = previews[n]
  BY <1>2, <1>3, <1>4 DEF Typed, Tables
<1>6. ~e2ee
  BY <1>1, CardsAre DEF Unlinked
<1>7. ASSUME NEW n \in MessageIds PROVE Loose(n)' \/ messages'[n].state # "live" \/ Follows(n)'
  <2>1. CASE Loose(n) \/ messages[n].state # "live"
    BY <1>4, <2>1 DEF Loose
  <2>2. CASE SendsIt(n)
    BY <1>4, <2>2 DEF SendsIt, Follows
  <2>3. CASE WaitsLast(n)
    BY <1>4, <2>3 DEF WaitsLast, Follows
  <2>4. CASE ~Waits(n) /\ (Works(n) => worker.body = messages[n].body) /\ (~Works(n) => previews[n] = messages[n].body.link)
    <3>1. ~Waits(n)' /\ ~Works(n)'
      BY <1>4, <2>4 DEF Waits, Works
    <3>2. CASE n # m
      BY <1>3, <1>4, <1>5, <2>4, <3>1, <3>2 DEF Follows, Works
    <3>3. CASE n = m /\ m \in cardless'
      BY <3>3 DEF Loose
    <3>4. CASE n = m /\ worker.at = "process" /\ previews' = [previews EXCEPT ![m] = worker.body.link]
      <4>1. previews'[n] = worker.body.link
        BY <1>2, <1>3, <3>4 DEF Typed, Tables
      <4>2. worker.body = messages[n].body
        BY <1>3, <2>4, <3>4 DEF Works
      <4> QED BY <1>4, <3>1, <4>1, <4>2 DEF Follows
    <3>5. CASE n = m /\ worker.at = "tell" /\ UNCHANGED previews
      BY <1>4, <2>4, <3>1, <3>5 DEF Follows, Works
    <3> QED BY <1>4, <3>2, <3>3, <3>4, <3>5
  <2> QED BY <2>1, <2>2, <2>3, <2>4, CardsAre DEF LinksFollow, Follows
<1>8. LinksFollow' /\ ~e2ee'
  BY <1>4, <1>6, <1>7 DEF LinksFollow
<1> QED BY <1>8 DEF Cards, LinksFollow, Loose

LEMMA MembersCards ==
  ASSUME Typed, Cards, ChangeMembers
  PROVE  Cards'
<1>1. RestAlike({}) /\ UNCHANGED <<messages, previews, e2ee, jobs, worker, crossed, unheard, cardless>>
  BY MembersIs DEF storeVars, enricherVars
<1>2. ASSUME NEW n \in MessageIds PROVE Loose(n)' \/ messages'[n].state # "live" \/ Follows(n)'
  <2>1. SendsIt(n) => SendsIt(n)'
    BY <1>1, SendsItStays
  <2>2. Waits(n)' = Waits(n) /\ Works(n)' = Works(n) /\ WaitsLast(n)' = WaitsLast(n)
    BY <1>1 DEF Waits, Works, WaitsLast
  <2> QED BY <1>1, <2>1, <2>2, CardsAre DEF LinksFollow, Loose, Follows
<1>3. e2ee => Unlinked'
  BY <1>1, CardsAre DEF Unlinked, RestAlike, Alike
<1>4. LinksFollow'
  BY <1>2 DEF LinksFollow
<1> QED BY <1>1, <1>3, <1>4 DEF Cards, LinksFollow, Loose

LEMMA CardsNext == Typed /\ Numbered /\ Texts /\ Cards /\ Next => Cards'
<1> SUFFICES ASSUME Typed, Numbered, Texts, Cards, Next PROVE Cards'
  OBVIOUS
<1>1. ASSUME NEW p \in Requests, Beginning(p) \/ Sending(p) \/ Ending(p) \/ Enqueue(p) \/ Staying(p) \/ Editing(p) PROVE Cards'
  BY <1>1, BeginCards, SendCards, EndCards, EnqueueCards, StayCards, EditCards
<1>2. CASE Background
  BY <1>2, TakeJobCards, WorkCards, MembersCards DEF Background
<1> QED BY <1>1, <1>2, NextIs

LEMMA InitCards == Init => Cards
<1> SUFFICES ASSUME Init PROVE Cards
  OBVIOUS
<1>1. jobs = <<>> /\ worker = NoJob /\ (\A m \in MessageIds : previews[m] = 0) /\ \A p \in Requests : req[p] = Idle
  BY DEF Init
<1>2. \A m \in MessageIds : messages[m].body.link = 0
  <2>1. NoRow.body.link = 0 /\ First.body.link = 0
    BY FirstIs, Constants
  <2> QED BY <2>1, InitIs
<1>3. Unlinked
  BY <1>1, <1>2, IdleIs DEF Unlinked
<1>4. \A m \in MessageIds : Follows(m)
  BY <1>3, NoJobIs DEF Unlinked, Follows, Waits, Works
<1> QED BY <1>3, <1>4 DEF Cards

LEMMA CardsFollow == Cards => CardFollowsText
<1> SUFFICES ASSUME Cards, Quiet, NEW m \in MessageIds \ (crossed \cup cardless), messages[m].state = "live"
             PROVE  previews[m] = messages[m].body.link
  BY DEF CardFollowsText
<1>1. ~SendsIt(m)
  BY DEF SendsIt, Quiet, Telling
<1>2. ~WaitsLast(m) /\ ~Works(m)
  BY NoJobIs DEF WaitsLast, Works, Quiet
<1> QED BY <1>1, <1>2 DEF Cards, Follows

-------------------------------------------------------------------------------
(* History and search.                                                     *)

\* What can be read and found stays, and more may come.
Grown ==
  /\ Rows \subseteq Rows' /\ Store!Searchable \subseteq (Store!Searchable)'
  /\ Store!SearchableFiles \subseteq (Store!SearchableFiles)' /\ UNCHANGED <<members, e2ee>>

LEMMA FoundStays ==
  ASSUME NEW u, NEW kind, Store!Searchable \subseteq (Store!Searchable)', Store!SearchableFiles \subseteq (Store!SearchableFiles)',
         e2ee' = e2ee, u \in members => u \in members'
  PROVE  Findable(u, kind) \subseteq Findable(u, kind)'
BY DEF Findable

LEMMA WalkStays ==
  ASSUME NEW r, NEW s, s.at = r.at, s.by = r.by, SameWalk(s, r), KnowsWalk(r), Rows \subseteq Rows',
         s.stay \subseteq r.stay, r.at \notin Searching => s.stay = r.stay,
         r.at \in Searching => s.stay \subseteq Findable(r.by, r.at)'
  PROVE  KnowsWalk(s)'
<1>1. CASE r.at \in Searching
  <2>1. Backward(s)
    BY <1>1 DEF KnowsWalk, Backward, SameWalk
  <2>2. r.at \in {"search", "files"}
    BY <1>1 DEF Searching
  <2> QED BY <1>1, <2>1, <2>2 DEF KnowsWalk, Backward
<1>2. CASE r.at \notin Searching
  <2>1. s.cursor = r.cursor /\ s.got = r.got /\ s.twice = r.twice /\ s.stay = r.stay /\ s.at = r.at
    BY <1>2 DEF SameWalk
  <2>2. r.at \in {"before", "after", "older", "newer", "around"} => s.stay \subseteq Rows'
    BY <2>1 DEF KnowsWalk
  <2>3. r.at = "before" => Backward(s)
    BY <2>1 DEF KnowsWalk, Backward
  <2>4. r.at = "after" => Forward(s)
    BY <2>1 DEF KnowsWalk, Forward
  <2>5. r.at \in {"older", "newer", "around"} => s.cursor \in s.stay
    BY <2>1 DEF KnowsWalk
  <2>6. r.at = "newer" => \E R \in SUBSET Rows' : Halves(s, R)
    BY <2>1 DEF KnowsWalk, Halves
  <2>7. ASSUME r.at = "around" PROVE \E R, S \in SUBSET Rows' : Whole2(s, R, S)
    <3>1. PICK R, S \in SUBSET Rows : Whole2(r, R, S)
      BY <2>7 DEF KnowsWalk
    <3>2. Whole2(s, R, S)
      BY <2>1, <3>1 DEF Whole2
    <3> QED BY <3>1, <3>2
  <2>8. r.at = "listed" => ~s.twice /\ s.stay \subseteq s.got
    BY <2>1 DEF KnowsWalk
  <2>9. Backward(s)' = Backward(s) /\ Forward(s)' = Forward(s)
    BY DEF Backward, Forward
  <2> QED BY <1>2, <2>1, <2>2, <2>3, <2>4, <2>5, <2>6, <2>7, <2>8, <2>9 DEF KnowsWalk, Halves, Whole2, Newest, Oldest, Store!Newest, Store!Oldest
<1> QED BY <1>1, <1>2

\* A walk that is another's, or that its step leaves as it is.
LEMMA OtherWalks ==
  ASSUME Walks, Grown, NEW q \in Requests, req'[q] = req[q]
  PROVE  KnowsWalk(req[q])'
<1>1. PICK s : s = req[q]
  OBVIOUS
<1>2. KnowsWalk(s)
  BY <1>1 DEF Walks
<1>3. Findable(s.by, s.at) \subseteq Findable(s.by, s.at)'
  BY FoundStays DEF Grown
<1>4. s.at \in Searching => s.stay \subseteq Findable(s.by, s.at)
  BY <1>2 DEF KnowsWalk
<1>5. KnowsWalk(s)'
  BY <1>2, <1>3, <1>4, WalkStays DEF SameWalk, Grown
<1> QED BY <1>1, <1>5 DEF KnowsWalk, Backward, Forward, Halves, Whole2, Rows, Findable, Newest, Oldest

LEMMA StandsStill == ASSUME NEW r, r.at \notin Walking PROVE KnowsWalk(r) /\ KnowsWalk(r)'
BY DEF KnowsWalk, Walking, Searching

\* A step of a request that walks nowhere.
LEMMA WalksCalm ==
  ASSUME Walks, Grown, NEW p \in Requests, Rest({p}), req'[p].at \notin Walking
  PROVE  Walks'
<1>1. \A q \in Requests \ {p} : KnowsWalk(req[q])'
  BY OtherWalks DEF Rest
<1>2. KnowsWalk(req[p])'
  BY DEF KnowsWalk, Walking, Searching
<1> QED BY <1>1, <1>2 DEF Walks

\* A page of a walk: only the request that walks is another.
LEMMA WalksPage ==
  ASSUME Walks, Only, NEW p \in Requests, Rest({p}), KnowsWalk(req'[p])
  PROVE  Walks'
<1>1. UNCHANGED <<messages, attachments, members, e2ee>>
  BY DEF Only, storeVars, channelVars
<1>2. Rows' = Rows /\ (Store!Searchable)' = Store!Searchable /\ (Store!SearchableFiles)' = Store!SearchableFiles
  BY <1>1 DEF Rows, Store!Rows, Store!Searchable, Store!SearchableFiles, Store!FilePlace
<1>3. Grown
  BY <1>1, <1>2 DEF Grown
<1>4. \A q \in Requests \ {p} : KnowsWalk(req[q])'
  BY <1>3, OtherWalks DEF Rest
<1>5. PICK s : s = req'[p]
  OBVIOUS
<1>6. Findable(s.by, s.at) \subseteq Findable(s.by, s.at)'
  BY <1>3, FoundStays DEF Grown
<1>7. KnowsWalk(s)'
  <2>1. KnowsWalk(s) /\ (s.at \in Searching => s.stay \subseteq Findable(s.by, s.at))
    BY <1>5 DEF KnowsWalk
  <2> QED BY <1>2, <1>6, <2>1, WalkStays DEF SameWalk
<1>8. KnowsWalk(req[p])'
  <2>1. Backward(s)' => Backward(req[p])'
    BY <1>5 DEF Backward
  <2>2. Forward(s)' => Forward(req[p])'
    BY <1>5 DEF Forward
  <2>3. \A R : Halves(s, R)' => Halves(req[p], R)'
    BY <1>5 DEF Halves
  <2>4. \A R, S : Whole2(s, R, S)' => Whole2(req[p], R, S)'
    BY <1>5 DEF Whole2
  <2> QED BY <1>5, <1>7, <2>1, <2>2, <2>3, <2>4 DEF KnowsWalk
<1> QED BY <1>4, <1>8 DEF Walks

\* A walk begins before everything that it has to list.
LEMMA BeginWalks ==
  ASSUME Typed, Walks, NEW p \in Requests, Beginning(p)
  PROVE  Walks'
<1>1. ASSUME NEW u, Begins(p, u), KnowsWalk(req'[p]) PROVE Walks'
  BY <1>1, WalksPage DEF Begins
<1>2. CASE ListMessages(p)
  <2>1. PICK u : /\ Begins(p, u) /\ req'[p].at \in {"before", "after", "older"}
                 /\ req'[p].got = {} /\ req'[p].twice = FALSE /\ req'[p].stay = Rows
                 /\ (req'[p].at = "before" => req'[p].cursor = MaxMessages + 1) /\ (req'[p].at = "after" => req'[p].cursor = 0)
                 /\ (req'[p].at = "older" => req'[p].cursor \in Rows)
    BY <1>2, ListIs
  <2>2. \A x \in Rows : 0 < x /\ x < MaxMessages + 1
    BY RowsAre, Constants
  <2>3. req'[p].at = "before" => Backward(req'[p])
    BY <2>1, <2>2 DEF Backward
  <2>4. req'[p].at = "after" => Forward(req'[p])
    BY <2>1, <2>2 DEF Forward
  <2>5. KnowsWalk(req'[p])
    BY <2>1, <2>3, <2>4 DEF KnowsWalk, Searching
  <2> QED BY <1>1, <2>1, <2>5
<1>3. CASE Search(p)
  <2>1. PICK u : /\ Begins(p, u) /\ req'[p].at \in {"search", "files"}
                 /\ req'[p].got = {} /\ req'[p].twice = FALSE /\ req'[p].stay = Findable(u, req'[p].at)
                 /\ req'[p].cursor = (MaxMessages + 1) * (Cardinality(Files) + 1)
    BY <1>3, SearchIs
  <2>2. req'[p].by = u /\ req'[p].at \in Searching
    BY <2>1 DEF Begins, Searching
  <2>3. \A x \in Findable(u, req'[p].at) : x < (MaxMessages + 1) * (Cardinality(Files) + 1)
    BY <2>2, FoundIsNumber
  <2>4. Backward(req'[p])
    BY <2>1, <2>3 DEF Backward
  <2>5. KnowsWalk(req'[p])
    BY <2>1, <2>2, <2>4 DEF KnowsWalk
  <2> QED BY <1>1, <2>1, <2>5
<1>4. CASE SendMessage(p) \/ EditMessage(p) \/ DeleteMessage(p) \/ SetReadPosition(p) \/ UploadFile(p)
  <2>1. \E u : Begins(p, u) /\ req'[p].at \in {"send", "edit", "delete", "read", "blob"}
    BY <1>4, SendIs, EditIs, DeleteIs, ReadIs, UploadIs
  <2>2. req'[p].at \notin Walking
    BY <2>1 DEF Walking, Searching
  <2> QED BY <1>1, <2>1, <2>2, StandsStill
<1> QED BY <1>2, <1>3, <1>4 DEF Beginning

LEMMA BackPage ==
  ASSUME NEW r \in Request, NEW s \in Request, NEW S \in SUBSET Nat, WentBack(s, r, S), Backward(r), r.stay \subseteq S
  PROVE  /\ s.stay = r.stay /\ s.by = r.by
         /\ \/ s.at = r.at /\ Backward(s)
            \/ s.at = "listed" /\ ~s.twice /\ s.stay \subseteq s.got
<1>1. PICK more \in BOOLEAN, page \in SUBSET S :
        /\ Turned(s, r, {x \in S : x < r.cursor}, more, page)
        /\ more => /\ s.cursor < r.cursor /\ \A x \in page : s.cursor <= x
                   /\ \A x \in S : x < r.cursor /\ s.cursor <= x => x \in page
        /\ ~more => s.cursor = r.cursor
  BY DEF WentBack
<1>2. /\ page \subseteq {x \in S : x < r.cursor} /\ (~more => page = {x \in S : x < r.cursor})
      /\ s.got = r.got \cup page /\ s.twice = (r.twice \/ page \cap r.got # {})
      /\ s.at = (IF more THEN r.at ELSE "listed") /\ s.stay = r.stay /\ s.by = r.by
  BY <1>1 DEF Turned
<1>3. r.cursor \in Nat /\ s.cursor \in Nat /\ r.got \subseteq Nat
  BY DEF Request
<1>4. ~r.twice /\ (\A x \in r.stay : x \in r.got \/ x < r.cursor) /\ \A x \in r.got : r.cursor <= x
  BY DEF Backward
<1>5. ~s.twice
  <2>1. \A x \in page : x \notin r.got
    <3> SUFFICES ASSUME NEW x \in page, x \in r.got PROVE FALSE
      OBVIOUS
    <3>1. x < r.cursor /\ r.cursor <= x /\ x \in Nat
      BY <1>2, <1>4
    <3> QED BY <1>3, <3>1
  <2> QED BY <1>2, <1>4, <2>1
<1>6. CASE more
  <2>1. \A x \in s.stay : x \in s.got \/ x < s.cursor
    <3> SUFFICES ASSUME NEW x \in s.stay, x \notin s.got PROVE x < s.cursor
      OBVIOUS
    <3>1. x \in S /\ x \in Nat /\ x < r.cursor /\ x \notin page
      BY <1>2, <1>4
    <3> QED BY <1>1, <1>3, <1>6, <3>1
  <2>2. \A x \in s.got : s.cursor <= x
    <3> SUFFICES ASSUME NEW x \in s.got PROVE s.cursor <= x
      OBVIOUS
    <3>1. CASE x \in page
      BY <1>1, <1>6, <3>1
    <3>2. CASE x \in r.got
      <4>1. x \in Nat /\ r.cursor <= x /\ s.cursor < r.cursor
        BY <1>1, <1>3, <1>4, <1>6, <3>2
      <4> QED BY <1>3, <4>1
    <3> QED BY <1>2, <3>1, <3>2
  <2> QED BY <1>2, <1>5, <1>6, <2>1, <2>2 DEF Backward
<1>7. CASE ~more
  <2>1. s.stay \subseteq s.got
    BY <1>2, <1>4, <1>7
  <2> QED BY <1>2, <1>5, <1>7, <2>1
<1> QED BY <1>6, <1>7

LEMMA OnPage ==
  ASSUME NEW r \in Request, NEW s \in Request, NEW S \in SUBSET Nat, WentOn(s, r, S), Forward(r), r.stay \subseteq S
  PROVE  /\ s.stay = r.stay /\ s.by = r.by
         /\ \/ s.at = r.at /\ Forward(s)
            \/ s.at = "listed" /\ ~s.twice /\ s.stay \subseteq s.got
<1>1. PICK more \in BOOLEAN, page \in SUBSET S :
        /\ Turned(s, r, {x \in S : x > r.cursor}, more, page)
        /\ more => /\ r.cursor < s.cursor /\ \A x \in page : x <= s.cursor
                   /\ \A x \in S : x > r.cursor /\ x <= s.cursor => x \in page
        /\ ~more => s.cursor = r.cursor
  BY DEF WentOn
<1>2. /\ page \subseteq {x \in S : x > r.cursor} /\ (~more => page = {x \in S : x > r.cursor})
      /\ s.got = r.got \cup page /\ s.twice = (r.twice \/ page \cap r.got # {})
      /\ s.at = (IF more THEN r.at ELSE "listed") /\ s.stay = r.stay /\ s.by = r.by
  BY <1>1 DEF Turned
<1>3. r.cursor \in Nat /\ s.cursor \in Nat /\ r.got \subseteq Nat
  BY DEF Request
<1>4. ~r.twice /\ (\A x \in r.stay : x \in r.got \/ r.cursor < x) /\ \A x \in r.got : x <= r.cursor
  BY DEF Forward
<1>5. ~s.twice
  <2>1. \A x \in page : x \notin r.got
    <3> SUFFICES ASSUME NEW x \in page, x \in r.got PROVE FALSE
      OBVIOUS
    <3>1. x > r.cursor /\ x <= r.cursor /\ x \in Nat
      BY <1>2, <1>4
    <3> QED BY <1>3, <3>1
  <2> QED BY <1>2, <1>4, <2>1
<1>6. CASE more
  <2>1. \A x \in s.stay : x \in s.got \/ s.cursor < x
    <3> SUFFICES ASSUME NEW x \in s.stay, x \notin s.got PROVE s.cursor < x
      OBVIOUS
    <3>1. x \in S /\ x \in Nat /\ r.cursor < x /\ x \notin page
      BY <1>2, <1>4
    <3>2. x > r.cursor
      BY <1>3, <3>1
    <3>3. ~(x <= s.cursor)
      BY <1>1, <1>6, <3>1, <3>2
    <3> QED BY <1>3, <3>1, <3>3
  <2>2. \A x \in s.got : x <= s.cursor
    <3> SUFFICES ASSUME NEW x \in s.got PROVE x <= s.cursor
      OBVIOUS
    <3>1. CASE x \in page
      BY <1>1, <1>6, <3>1
    <3>2. CASE x \in r.got
      <4>1. x \in Nat /\ x <= r.cursor /\ r.cursor < s.cursor
        BY <1>1, <1>3, <1>4, <1>6, <3>2
      <4> QED BY <1>3, <4>1
    <3> QED BY <1>2, <3>1, <3>2
  <2> QED BY <1>2, <1>5, <1>6, <2>1, <2>2 DEF Forward
<1>7. CASE ~more
  <2>1. \A x \in r.stay : x \in r.got \/ x \in {y \in S : y > r.cursor}
    <3> SUFFICES ASSUME NEW x \in r.stay, x \notin r.got PROVE x \in {y \in S : y > r.cursor}
      OBVIOUS
    <3>1. x \in S /\ x \in Nat /\ r.cursor < x
      BY <1>4
    <3> QED BY <1>3, <3>1
  <2>2. s.stay \subseteq s.got
    BY <1>2, <1>7, <2>1
  <2> QED BY <1>2, <1>5, <1>7, <2>2
<1> QED BY <1>6, <1>7

\* Every page goes on where the last one ended.
LEMMA PageWalks ==
  ASSUME Typed, Walks, NEW p \in Requests, HistoryPage(p) \/ SearchPage(p)
  PROVE  Walks'
<1>1. KnowsWalk(req[p]) /\ req[p] \in Request
  BY DEF Walks, Typed
<1>2. CASE HistoryPage(p)
  <2>1. req[p].at \in {"before", "after", "older", "newer"} /\ Only /\ Rest({p}) /\ req' \in [Requests -> Request]
    BY <1>2, HistoryIs DEF Typed
  <2>2. CASE req'[p] = Idle
    <3>1. KnowsWalk(req'[p])
      BY <2>2, IdleIs, StandsStill DEF Walking, Searching
    <3> QED BY <2>1, <3>1, WalksPage
  <2>3. CASE req[p].at = "before" /\ req'[p] = BeforePage(req[p], Rows)
    <3>1. WentBack(req'[p], req[p], Rows)
      BY <1>1, <2>3, BeforeIs, RowsAre, Constants DEF Walking, Searching
    <3>2. Backward(req[p]) /\ req[p].stay \subseteq Rows
      BY <1>1, <2>3 DEF KnowsWalk
    <3>3. Rows \in SUBSET Nat /\ req'[p] \in Request
      BY <2>1, RowsAre, Constants
    <3>4. /\ req'[p].stay = req[p].stay
          /\ \/ req'[p].at = "before" /\ Backward(req'[p])
             \/ req'[p].at = "listed" /\ ~req'[p].twice /\ req'[p].stay \subseteq req'[p].got
      BY <1>1, <2>3, <3>1, <3>2, <3>3, BackPage
    <3>5. KnowsWalk(req'[p])
      BY <3>2, <3>4 DEF KnowsWalk, Searching
    <3> QED BY <2>1, <3>5, WalksPage
  <2>4. CASE req[p].at = "after" /\ req'[p] = AfterPage(req[p], Rows)
    <3>1. WentOn(req'[p], req[p], Rows)
      BY <1>1, <2>4, AfterIs, RowsAre, Constants DEF Walking, Searching
    <3>2. Forward(req[p]) /\ req[p].stay \subseteq Rows
      BY <1>1, <2>4 DEF KnowsWalk
    <3>3. Rows \in SUBSET Nat /\ req'[p] \in Request
      BY <2>1, RowsAre, Constants
    <3>4. /\ req'[p].stay = req[p].stay
          /\ \/ req'[p].at = "after" /\ Forward(req'[p])
             \/ req'[p].at = "listed" /\ ~req'[p].twice /\ req'[p].stay \subseteq req'[p].got
      BY <1>1, <2>4, <3>1, <3>2, <3>3, OnPage
    <3>5. KnowsWalk(req'[p])
      BY <3>2, <3>4 DEF KnowsWalk, Searching
    <3> QED BY <2>1, <3>5, WalksPage
  <2>5. CASE /\ req[p].at = "older" /\ req'[p].got = Newest({x \in Rows : x < req[p].cursor}, OlderShare)
             /\ req'[p].at = "newer" /\ req'[p].stay = req[p].stay /\ req'[p].cursor = req[p].cursor
    <3>1. req[p].stay \subseteq Rows /\ req[p].cursor \in req[p].stay
      BY <1>1, <2>5 DEF KnowsWalk
    <3>2. Halves(req'[p], Rows)
      BY <2>5, <3>1 DEF Halves
    <3>3. KnowsWalk(req'[p])
      BY <2>5, <3>1, <3>2 DEF KnowsWalk, Searching
    <3> QED BY <2>1, <3>3, WalksPage
  <2>6. CASE /\ req[p].at = "newer" /\ req'[p].got = req[p].got \cup Oldest({x \in Rows : x >= req[p].cursor}, NewerShare + 1)
             /\ req'[p].at = "around" /\ req'[p].stay = req[p].stay /\ req'[p].cursor = req[p].cursor
    <3>1. req[p].stay \subseteq Rows /\ req[p].cursor \in req[p].stay
      BY <1>1, <2>6 DEF KnowsWalk
    <3>2. PICK R \in SUBSET Rows : Halves(req[p], R)
      BY <1>1, <2>6 DEF KnowsWalk
    <3>3. Whole2(req'[p], R, Rows)
      BY <2>6, <3>1, <3>2 DEF Halves, Whole2
    <3>4. KnowsWalk(req'[p])
      BY <2>6, <3>1, <3>2, <3>3 DEF KnowsWalk, Searching
    <3> QED BY <2>1, <3>4, WalksPage
  <2> QED BY <1>2, <2>1, <2>2, <2>3, <2>4, <2>5, <2>6, HistoryIs
<1>3. CASE SearchPage(p)
  <2>1. /\ req[p].at \in Searching /\ Only /\ Rest({p}) /\ req' \in [Requests -> Request]
        /\ req'[p] = BeforePage(req[p], Findable(req[p].by, req[p].at))
    BY <1>3, SearchPageIs DEF Typed
  <2>2. PICK S : S = Findable(req[p].by, req[p].at)
    OBVIOUS
  <2>3. PICK n : n = (MaxMessages + 1) * (Cardinality(Files) + 1)
    OBVIOUS
  <2>4. n \in Nat
    <3>1. MaxMessages + 1 \in Nat /\ Cardinality(Files) + 1 \in Nat
      BY Constants
    <3> QED BY <2>3, <3>1
  <2>5. S \subseteq Nat /\ \A x \in S : x < n
    BY <2>1, <2>2, <2>3, FoundIsNumber
  <2>6. S \subseteq 0 .. n
    BY <2>4, <2>5
  <2>7. WentBack(req'[p], req[p], S)
    BY <1>1, <2>1, <2>2, <2>4, <2>6, BeforeIs DEF Walking
  <2>8. Backward(req[p]) /\ req[p].stay \subseteq S
    BY <1>1, <2>1, <2>2 DEF KnowsWalk
  <2>9. /\ req'[p].stay = req[p].stay /\ req'[p].by = req[p].by
        /\ \/ req'[p].at = req[p].at /\ Backward(req'[p])
           \/ req'[p].at = "listed" /\ ~req'[p].twice /\ req'[p].stay \subseteq req'[p].got
    BY <1>1, <2>1, <2>5, <2>7, <2>8, BackPage
  <2>10. CASE req'[p].at = req[p].at /\ Backward(req'[p])
    <3>1. req'[p].at \in {"search", "files"} /\ req'[p].stay \subseteq Findable(req'[p].by, req'[p].at)
      BY <2>1, <2>2, <2>8, <2>9, <2>10 DEF Searching
    <3>2. KnowsWalk(req'[p])
      BY <2>10, <3>1 DEF KnowsWalk
    <3> QED BY <2>1, <3>2, WalksPage
  <2>11. CASE req'[p].at = "listed" /\ ~req'[p].twice /\ req'[p].stay \subseteq req'[p].got
    <3>1. KnowsWalk(req'[p])
      BY <2>11 DEF KnowsWalk, Searching
    <3> QED BY <2>1, <3>1, WalksPage
  <2> QED BY <2>9, <2>10, <2>11
<1> QED BY <1>2, <1>3

LEMMA SameIsGrown == ASSUME UNCHANGED <<messages, attachments, members, e2ee>> PROVE Grown
BY DEF Grown, Rows, Store!Rows, Store!Searchable, Store!SearchableFiles, Store!FilePlace

\* Rows that come, and files that become a message's, only add to what is found.
LEMMA MoreIsGrown ==
  ASSUME UNCHANGED <<members, e2ee>>,
         \A m \in MessageIds : messages[m] # NoRow => messages'[m] # NoRow /\ (messages[m].state = "live" => messages'[m].state = "live"),
         \A f \in Files : attachments[f].msg \in MessageIds => attachments'[f].msg = attachments[f].msg
  PROVE  Grown
<1>1. Rows \subseteq Rows' /\ Store!Searchable \subseteq (Store!Searchable)' /\ Store!Searchable \subseteq MessageIds
  BY Constants DEF Rows, Store!Rows, Store!Searchable
<1>2. Store!SearchableFiles \subseteq (Store!SearchableFiles)'
  <2> SUFFICES ASSUME NEW x \in Store!SearchableFiles PROVE x \in (Store!SearchableFiles)'
    OBVIOUS
  <2>1. PICK f \in Files : attachments[f].msg \in Store!Searchable /\ x = Store!FilePlace(f)
    BY DEF Store!SearchableFiles
  <2>2. attachments'[f].msg = attachments[f].msg
    BY <1>1, <2>1
  <2>3. attachments'[f].msg \in (Store!Searchable)' /\ x = Store!FilePlace(f)'
    BY <1>1, <2>1, <2>2 DEF Store!FilePlace
  <2> QED BY <2>3 DEF Store!SearchableFiles
<1> QED BY <1>1, <1>2 DEF Grown

LEMMA IdleStands == ASSUME NEW p, req'[p] = Idle PROVE req'[p].at \notin Walking
BY IdleIs DEF Walking, Searching

LEMMA PutWalks ==
  ASSUME Typed, Walks, NEW p \in Requests, NEW m \in MessageIds, messages[m] = NoRow, Puts(m, req[p]), Rest({p}),
         UNCHANGED <<members, e2ee>>, req'[p].at = "announce",
         \A f \in Files : attachments[f].msg \in MessageIds => attachments'[f].msg = attachments[f].msg
  PROVE  Walks'
<1>1. req[p] \in Request
  BY DEF Typed
<1>2. \A n \in MessageIds \ {m} : messages'[n] = messages[n]
  BY <1>1, PutsIs
<1>3. Grown
  BY <1>2, MoreIsGrown
<1>4. req'[p].at \notin Walking
  BY DEF Walking, Searching
<1> QED BY <1>3, <1>4, WalksCalm

LEMMA SendWalks ==
  ASSUME Typed, Numbered, Claims, Walks, NEW p \in Requests, Sending(p)
  PROVE  Walks'
<1>1. CASE InsertMessage(p)
  <2>1. UNCHANGED <<attachments, members, e2ee>> /\ Rest({p})
    BY <1>1, InsertIs DEF Fixed
  <2>2. CASE UNCHANGED <<messages, mentions>> /\ (req'[p] = Idle \/ req'[p].at = "claim")
    <3>1. req'[p].at \notin Walking
      BY <2>2, IdleStands DEF Walking, Searching
    <3> QED BY <2>1, <2>2, <3>1, SameIsGrown, WalksCalm
  <2>3. CASE \E m : New(m) /\ Puts(m, req[p]) /\ req'[p].at = "announce"
    BY <2>1, <2>3, PutWalks DEF New
  <2> QED BY <1>1, <2>2, <2>3, InsertIs
<1>2. CASE ClaimAttachment(p)
  <2>1. UNCHANGED <<messages, attachments, members, e2ee>> /\ Rest({p})
    BY <1>2, ClaimIs DEF Only, storeVars, channelVars
  <2>2. req'[p] = Idle \/ req'[p].at \in Claiming
    BY <1>2, ClaimIs DEF Claiming
  <2>3. req'[p].at \notin Walking
    BY <2>2, IdleStands DEF Walking, Searching, Claiming
  <2> QED BY <2>1, <2>3, SameIsGrown, WalksCalm
<1>3. CASE CommitMessage(p)
  <2>1. req[p].at = "claimed" /\ req[p].on \in MessageIds /\ messages[req[p].on] = NoRow
    BY <1>3, OnIs DEF CommitMessage, Claiming
  <2>2. UNCHANGED <<members, e2ee>> /\ Rest({p}) /\ Puts(req[p].on, req[p]) /\ Attach(p) /\ req'[p].at = "announce"
    BY <1>3, <2>1, CommitIs DEF Fixed
  <2>3. req[p].held = req[p].files /\ \A f \in req[p].held : attachments[f] = [stored |-> TRUE, by |-> req[p].by, msg |-> 0]
    BY <2>1 DEF Claims, KnowsFiles, Claiming
  <2>4. \A f \in req[p].files : attachments[f].msg = 0
    BY <2>3
  <2>5. \A f \in Files : f \notin req[p].files => attachments'[f] = attachments[f]
    BY <2>2 DEF Attach
  <2>6. \A f \in Files : attachments[f].msg \in MessageIds => attachments'[f].msg = attachments[f].msg
    BY <2>4, <2>5, Constants
  <2> QED BY <2>1, <2>2, <2>6, PutWalks
<1> QED BY <1>1, <1>2, <1>3 DEF Sending

LEMMA EndWalks ==
  ASSUME Typed, Numbered, Claims, Walks, NEW p \in Requests, Ending(p) \/ Enqueue(p)
  PROVE  Walks'
<1>1. ASSUME UNCHANGED <<messages, attachments, members, e2ee>>, Ends(p) PROVE Walks'
  BY <1>1, SameIsGrown, WalksCalm, IdleStands DEF Ends
<1>2. CASE RollbackMessage(p) \/ FinishList(p)
  BY <1>1, <1>2, RollbackIs DEF Only, storeVars, channelVars
<1>3. CASE CutOff(p)
  <2>1. req[p].on \in MessageIds
    BY <1>3, OnIs DEF CutOff, OnRow, Writing, Telling
  <2> QED BY <1>1, <1>3, <2>1, CutOffIs DEF storeVars, channelVars
<1>4. CASE AnnounceDeleted(p)
  <2>1. req[p].on \in MessageIds
    BY <1>4, OnIs DEF AnnounceDeleted, OnRow, Writing, Telling
  <2> QED BY <1>1, <1>4, <2>1, TombstoneIs DEF storeVars, channelVars
<1>5. CASE StoreReadPosition(p)
  <2>1. req[p].on \in MessageIds /\ req[p].by \in Users
    BY <1>5, OnIs DEF StoreReadPosition, OnRow, Writing, Telling
  <2> QED BY <1>1, <1>5, <2>1, StoreReadIs DEF channelVars
<1>6. CASE DeleteBlobs(p)
  BY <1>1, <1>6, DeleteBlobsIs DEF FixedFiles
<1>7. CASE CreateAttachment(p) \/ LoseAnswer(p)
  <2>1. req[p].at = "row" /\ Ends(p) /\ UNCHANGED <<messages, members, e2ee>> /\ StoreRow(p)
    BY <1>7, StoreRowIs DEF FixedFiles
  <2>2. \A f \in req[p].files : attachments[f].msg = 0
    BY <2>1, UploadingApart DEF Uploading
  <2>3. \A f \in Files : f \notin req[p].files => attachments'[f] = attachments[f]
    BY <2>1 DEF StoreRow
  <2>4. \A f \in Files : attachments[f].msg \in MessageIds => attachments'[f].msg = attachments[f].msg
    BY <2>2, <2>3, Constants
  <2>5. Grown
    BY <2>1, <2>4, MoreIsGrown
  <2> QED BY <2>1, <2>5, WalksCalm, IdleStands DEF Ends
<1>8. CASE Enqueue(p)
  <2>1. req[p].on \in MessageIds
    BY <1>8, OnIs DEF Enqueue, OnRow, Writing, Telling
  <2> QED BY <1>1, <1>8, <2>1, EnqueueIs DEF storeVars, channelVars
<1> QED BY <1>2, <1>3, <1>4, <1>5, <1>6, <1>7, <1>8 DEF Ending

LEMMA StayWalks ==
  ASSUME Typed, Numbered, Walks, NEW p \in Requests, Staying(p)
  PROVE  Walks'
<1>1. CASE HistoryPage(p) \/ SearchPage(p)
  BY <1>1, PageWalks
<1>2. CASE AnnounceMessage(p) \/ BeginUpdate(p) \/ LoadMessageCards(p) \/ StoreBlob(p)
  <2>1. req[p].on \in MessageIds \/ StoreBlob(p)
    BY <1>2, OnIs DEF AnnounceMessage, BeginUpdate, LoadMessageCards, OnRow, Writing, Telling
  <2>2. /\ UNCHANGED <<messages, attachments, members, e2ee>> /\ Rest({p})
        /\ req'[p].at \in {"enrich", "apply", "announce", "row"}
    BY <1>2, <2>1, AnnounceIs, BeginUpdateIs, LoadIs, StoreBlobIs DEF Only, FixedFiles, storeVars, channelVars
  <2>3. req'[p].at \notin Walking
    BY <2>2 DEF Walking, Searching
  <2> QED BY <2>2, <2>3, SameIsGrown, WalksCalm
<1> QED BY <1>1, <1>2 DEF Staying

LEMMA UpdateWalks ==
  ASSUME Typed, Numbered, Walks, NEW p \in Requests, UpdateMessageContent(p)
  PROVE  Walks'
<1>1. req[p].on \in MessageIds
  BY OnIs DEF UpdateMessageContent, OnRow, Writing
<1>2. PICK m : m = req[p].on
  OBVIOUS
<1>3. /\ UNCHANGED <<attachments, members, e2ee>> /\ Rest({p})
      /\ (req'[p] = Idle /\ UNCHANGED messages) \/ (req'[p].at = "cards" /\ Edited(m, req[p].body))
  BY <1>1, <1>2, UpdateIs DEF channelVars
<1>4. req'[p].at \notin Walking
  BY <1>3, IdleStands DEF Walking, Searching
<1>5. CASE UNCHANGED messages
  BY <1>3, <1>4, <1>5, SameIsGrown, WalksCalm
<1>6. CASE Edited(m, req[p].body)
  <2>1. messages'[m].state = messages[m].state /\ \A n \in MessageIds \ {m} : messages'[n] = messages[n]
    BY <1>6 DEF Edited
  <2>2. messages[m] # NoRow => messages'[m] # NoRow
    <3>1. messages[m] # NoRow => messages[m].state # "none"
      BY <1>1, <1>2 DEF Numbered, Stored
    <3>2. NoRow.state = "none"
      BY Constants
    <3> QED BY <2>1, <3>1, <3>2
  <2>3. Grown
    BY <1>3, <2>1, <2>2, MoreIsGrown
  <2> QED BY <1>3, <1>4, <2>3, WalksCalm
<1> QED BY <1>3, <1>5, <1>6

\* What is deleted no longer has to be found; everything else still is.
LEMMA DeletedIsNotFound ==
  ASSUME Typed, Numbered, Claims, NEW m \in MessageIds, Blanked(m), UNCHANGED <<attachments, members, e2ee>>
  PROVE  /\ Rows \subseteq Rows'
         /\ Store!Searchable \ {m} \subseteq (Store!Searchable)'
         /\ Store!SearchableFiles \ {Store!FilePlace(f) : f \in messages[m].files} \subseteq (Store!SearchableFiles)'
<1>1. messages'[m] # NoRow /\ \A n \in MessageIds \ {m} : messages'[n] = messages[n]
  <2>1. NoRow.state = "none"
    BY Constants
  <2> QED BY <2>1 DEF Blanked
<1>2. Rows \subseteq Rows' /\ Store!Searchable \ {m} \subseteq (Store!Searchable)' /\ Store!Searchable \subseteq MessageIds
  BY <1>1, Constants DEF Rows, Store!Rows, Store!Searchable
<1>3. ASSUME NEW x \in Store!SearchableFiles, x \notin {Store!FilePlace(f) : f \in messages[m].files} PROVE x \in (Store!SearchableFiles)'
  <2>1. PICK f \in Files : attachments[f].msg \in Store!Searchable /\ x = Store!FilePlace(f)
    BY DEF Store!SearchableFiles
  <2>2. f \notin messages[m].files
    BY <1>3, <2>1
  <2>3. attachments[f].msg # m
    BY <2>2 DEF Claims, Whole
  <2>4. attachments'[f].msg \in (Store!Searchable)' /\ x = Store!FilePlace(f)'
    BY <1>2, <2>1, <2>3 DEF Store!FilePlace
  <2> QED BY <2>4 DEF Store!SearchableFiles
<1> QED BY <1>2, <1>3

LEMMA SoftDeleteWalks ==
  ASSUME Typed, Numbered, Claims, Walks, NEW p \in Requests, SoftDeleteMessage(p)
  PROVE  Walks'
<1>1. req[p].on \in MessageIds
  BY OnIs DEF SoftDeleteMessage, OnRow
<1>2. PICK m : m = req[p].on
  OBVIOUS
<1>3. UNCHANGED <<attachments, members, e2ee>>
  BY <1>1, SoftDeleteIs DEF channelVars
<1>4. CASE Ends(p) /\ UNCHANGED messages
  BY <1>3, <1>4, SameIsGrown, WalksCalm, IdleStands DEF Ends
<1>5. CASE Blanked(m) /\ (\A q \in Requests \ {p} : req'[q] = Hides(req[q], m)) /\ req'[p].at = "tombstone"
  <2>1. /\ Rows \subseteq Rows'
        /\ Store!Searchable \ {m} \subseteq (Store!Searchable)'
        /\ Store!SearchableFiles \ {Store!FilePlace(f) : f \in messages[m].files} \subseteq (Store!SearchableFiles)'
    BY <1>1, <1>2, <1>3, <1>5, DeletedIsNotFound
  <2>2. ASSUME NEW q \in Requests \ {p} PROVE KnowsWalk(req[q])'
    <3>1. PICK r : r = req[q]
      OBVIOUS
    <3>2. PICK s : s = req'[q]
      OBVIOUS
    <3>3. r \in Request /\ KnowsWalk(r) /\ s = Hides(r, m)
      BY <1>5, <3>1, <3>2 DEF Typed, Walks
    <3>4. /\ Alike(s, r) /\ SameWalk(s, r)
          /\ r.at = "search" => s.stay = r.stay \ {m}
          /\ r.at = "files" => s.stay = r.stay \ {Store!FilePlace(f) : f \in messages[m].files}
          /\ r.at \notin Searching => s = r
      BY <3>3, HidesIs
    <3>5. s.at = r.at /\ s.by = r.by /\ s.stay \subseteq r.stay /\ (r.at \notin Searching => s.stay = r.stay)
      BY <3>4 DEF Alike, Searching
    <3>6. r.at \in Searching => r.stay \subseteq Findable(r.by, r.at)
      BY <3>3 DEF KnowsWalk
    <3>7. r.at = "search" => s.stay \subseteq Findable(r.by, r.at)'
      BY <1>3, <2>1, <3>4, <3>6 DEF Findable, Searching
    <3>8. r.at = "files" => s.stay \subseteq Findable(r.by, r.at)'
      BY <1>3, <2>1, <3>4, <3>6 DEF Findable, Searching
    <3>9. KnowsWalk(s)'
      BY <2>1, <3>3, <3>4, <3>5, <3>7, <3>8, WalkStays DEF Searching
    <3>10. Backward(s)' => Backward(req[q])'
      BY <3>2 DEF Backward
    <3>11. Forward(s)' => Forward(req[q])'
      BY <3>2 DEF Forward
    <3>12. \A R : Halves(s, R)' => Halves(req[q], R)'
      BY <3>2 DEF Halves
    <3>13. \A R, S : Whole2(s, R, S)' => Whole2(req[q], R, S)'
      BY <3>2 DEF Whole2
    <3> QED BY <3>2, <3>9, <3>10, <3>11, <3>12, <3>13 DEF KnowsWalk
  <2>3. KnowsWalk(req[p])'
    BY <1>5 DEF KnowsWalk, Searching
  <2> QED BY <2>2, <2>3 DEF Walks
<1> QED BY <1>1, <1>2, <1>4, <1>5, SoftDeleteIs

\* A search of somebody who comes or goes no longer has to find anything.
LEMMA MembersWalks ==
  ASSUME Typed, Walks, ChangeMembers
  PROVE  Walks'
<1>1. UNCHANGED <<messages, attachments, e2ee>> /\ RestAlike({})
  BY MembersIs DEF storeVars
<1>2. PICK u \in Users :
        /\ members \subseteq members' \cup {u}
        /\ \A q \in Requests : req'[q].stay = IF req[q].at \in Searching /\ req[q].by = u THEN {} ELSE req[q].stay
  BY MembersIs
<1>3. Rows' = Rows /\ (Store!Searchable)' = Store!Searchable /\ (Store!SearchableFiles)' = Store!SearchableFiles
  BY <1>1 DEF Rows, Store!Rows, Store!Searchable, Store!SearchableFiles, Store!FilePlace
<1>4. ASSUME NEW q \in Requests PROVE KnowsWalk(req[q])'
  <2>1. PICK r : r = req[q]
    OBVIOUS
  <2>2. PICK s : s = req'[q]
    OBVIOUS
  <2>3. Alike(s, r) /\ SameWalk(s, r) /\ KnowsWalk(r) /\ s.stay = IF r.at \in Searching /\ r.by = u THEN {} ELSE r.stay
    BY <1>1, <1>2, <2>1, <2>2 DEF RestAlike, Walks
  <2>4. s.at = r.at /\ s.by = r.by /\ s.stay \subseteq r.stay /\ (r.at \notin Searching => s.stay = r.stay)
    BY <2>3 DEF Alike
  <2>5. r.at \in Searching => s.stay \subseteq Findable(r.by, r.at)'
    <3>1. CASE r.by = u
      BY <2>3, <3>1
    <3>2. CASE r.by # u
      <4>1. Findable(r.by, r.at) \subseteq Findable(r.by, r.at)'
        BY <1>1, <1>2, <1>3, <3>2, FoundStays
      <4> QED BY <2>3, <3>2, <4>1 DEF KnowsWalk
    <3> QED BY <3>1, <3>2
  <2>6. KnowsWalk(s)'
    BY <1>3, <2>3, <2>4, <2>5, WalkStays
  <2>7. Backward(s)' => Backward(req[q])'
    BY <2>2 DEF Backward
  <2>8. Forward(s)' => Forward(req[q])'
    BY <2>2 DEF Forward
  <2>9. \A R : Halves(s, R)' => Halves(req[q], R)'
    BY <2>2 DEF Halves
  <2>10. \A R, S : Whole2(s, R, S)' => Whole2(req[q], R, S)'
    BY <2>2 DEF Whole2
  <2> QED BY <2>2, <2>6, <2>7, <2>8, <2>9, <2>10 DEF KnowsWalk
<1> QED BY <1>4 DEF Walks

LEMMA BackgroundWalks ==
  ASSUME Typed, Numbered, Walks, Background
  PROVE  Walks'
<1>1. CASE ChangeMembers
  BY <1>1, MembersWalks
<1>2. CASE TakeJob \/ FailJob \/ SaveLinkPreview \/ RemovePreview \/ AnnounceCard
  <2>1. UNCHANGED <<req, messages, attachments, members, e2ee>>
    BY <1>2 DEF TakeJob, FailJob, SaveLinkPreview, RemovePreview, AnnounceCard, storeVars, channelVars
  <2>2. \A q \in Requests : KnowsWalk(req[q])'
    BY <2>1, SameIsGrown, OtherWalks
  <2> QED BY <2>2 DEF Walks
<1> QED BY <1>1, <1>2 DEF Background

LEMMA WalksNext == Typed /\ Numbered /\ Claims /\ Walks /\ Next => Walks'
<1> SUFFICES ASSUME Typed, Numbered, Claims, Walks, Next PROVE Walks'
  OBVIOUS
<1>1. ASSUME NEW p \in Requests, Beginning(p) \/ Sending(p) \/ Ending(p) \/ Enqueue(p) \/ Staying(p) \/ Editing(p) PROVE Walks'
  BY <1>1, BeginWalks, SendWalks, EndWalks, StayWalks, UpdateWalks, SoftDeleteWalks DEF Editing
<1> QED BY <1>1, BackgroundWalks, NextIs

LEMMA InitWalks == Init => Walks
<1> SUFFICES ASSUME Init PROVE Walks
  OBVIOUS
<1>1. \A p \in Requests : req[p] = Idle
  BY DEF Init
<1>2. KnowsWalk(Idle)
  BY IdleIs DEF KnowsWalk, Searching
<1> QED BY <1>1, <1>2 DEF Walks

\* A page around a message, of the rows R that were there for its older half
\* and the rows S that were there for its newer half, has no hole.
LEMMA AroundHasNoHole ==
  ASSUME NEW r \in Request, NEW R, NEW S, S \subseteq 0 .. MaxMessages, Whole2(r, R, S), r.cursor \in r.stay, NEW m \in r.stay,
         Least(r.got) <= m, m <= Greatest(r.got)
  PROVE  m \in r.got
<1> DEFINE O == {x \in R : x < r.cursor}  N == {x \in S : x >= r.cursor}
           A == Newest(O, OlderShare)  B == Oldest(N, NewerShare + 1)
<1>1. r.stay \subseteq R /\ R \subseteq S /\ r.got = A \cup B
  BY DEF Whole2
<1>2. O \subseteq 0 .. MaxMessages /\ N \subseteq 0 .. MaxMessages /\ MaxMessages \in Nat
  BY <1>1, Constants
<1>3. End(A, O, OlderShare, TRUE) /\ End(B, N, NewerShare + 1, FALSE)
  BY <1>2, ShareIs, NewestIs, OldestIs
<1> HIDE DEF A, B
<1>4. A \subseteq O /\ B \subseteq N /\ (\A x \in A, y \in O : x <= y => y \in A) /\ \A x \in B, y \in N : y <= x => y \in B
  BY <1>3 DEF End
<1>5. r.cursor \in N /\ r.cursor \in Nat /\ m \in S /\ m \in R /\ m \in Nat
  BY <1>1, <1>2 DEF Request
<1>6. B # {}
  BY <1>3, <1>5, ShareIs DEF End
<1>7. r.got \subseteq 0 .. MaxMessages /\ r.got # {}
  BY <1>1, <1>2, <1>4, <1>6
<1>8. Least(r.got) \in r.got /\ Greatest(r.got) \in r.got /\ Least(r.got) \in Nat /\ Greatest(r.got) \in Nat
  <2>1. r.got \subseteq Nat
    BY <1>7, Constants
  <2> QED BY <1>2, <1>7, <2>1, LeastIs, GreatestIs
<1>9. CASE m < r.cursor
  <2>1. m \in O
    BY <1>5, <1>9
  <2>2. Least(r.got) \notin B
    <3> SUFFICES ASSUME Least(r.got) \in B PROVE FALSE
      OBVIOUS
    <3>1. Least(r.got) >= r.cursor
      BY <1>4
    <3> QED BY <1>5, <1>8, <1>9, <3>1
  <2> QED BY <1>1, <1>4, <1>8, <2>1, <2>2
<1>10. CASE ~(m < r.cursor)
  <2>1. m \in N
    BY <1>5, <1>10
  <2>2. Greatest(r.got) \notin A
    <3> SUFFICES ASSUME Greatest(r.got) \in A PROVE FALSE
      OBVIOUS
    <3>1. Greatest(r.got) < r.cursor
      BY <1>4
    <3> QED BY <1>5, <1>8, <1>10, <3>1
  <2> QED BY <1>1, <1>4, <1>8, <2>1, <2>2
<1> QED BY <1>9, <1>10

LEMMA WalksAreComplete == Typed /\ Walks => WalkIsComplete
<1> SUFFICES ASSUME Typed, Walks, NEW p \in Requests
             PROVE  /\ req[p].at = "listed" => req[p].stay \subseteq req[p].got /\ ~req[p].twice
                    /\ req[p].at = "around" => \A m \in req[p].stay :
                         Least(req[p].got) <= m /\ m <= Greatest(req[p].got) => m \in req[p].got
                    /\ req[p].at = "around" /\ req[p].stay = Rows =>
                         req[p].got = Store!Around(Rows, req[p].cursor, OlderShare, NewerShare)
  BY DEF WalkIsComplete
<1>1. KnowsWalk(req[p]) /\ req[p] \in Request
  BY DEF Walks, Typed
<1>2. ASSUME req[p].at = "around"
      PROVE  /\ \A m \in req[p].stay : Least(req[p].got) <= m /\ m <= Greatest(req[p].got) => m \in req[p].got
             /\ req[p].stay = Rows => req[p].got = Store!Around(Rows, req[p].cursor, OlderShare, NewerShare)
  <2>1. PICK R, S \in SUBSET Rows : Whole2(req[p], R, S)
    BY <1>1, <1>2 DEF KnowsWalk
  <2>2. req[p].cursor \in req[p].stay /\ S \subseteq 0 .. MaxMessages
    BY <1>1, <1>2, RowsAre DEF KnowsWalk
  <2>3. ASSUME req[p].stay = Rows PROVE req[p].got = Store!Around(Rows, req[p].cursor, OlderShare, NewerShare)
    <3>1. R = Rows /\ S = Rows
      BY <2>1, <2>3 DEF Whole2
    <3> QED BY <2>1, <3>1 DEF Whole2, Store!Around, Newest, Oldest
  <2> QED BY <1>1, <2>1, <2>2, <2>3, AroundHasNoHole
<1> QED BY <1>1, <1>2 DEF KnowsWalk

-------------------------------------------------------------------------------
(* The invariant, and what follows from it.                                *)

LEMMA InitHolds == Init => IInv
BY InitNumbers, InitClaims, InitTexts, InitAnnounced, InitCards, InitWalks DEF IInv

LEMMA StillHolds == IInv /\ UNCHANGED vars => IInv'
<1> SUFFICES ASSUME IInv, UNCHANGED vars PROVE IInv'
  OBVIOUS
<1>1. /\ UNCHANGED <<messages, attachments, previews, readpos, mentions, members, e2ee, blobs, known, jobs, worker, shown>>
      /\ UNCHANGED <<req, budget, crossed, late, unheard, cardless, moved>>
  BY DEF vars, storeVars, channelVars, enricherVars, ghostVars
<1>2. RestAlike({}) /\ SameKeys /\ SameFiles
  BY <1>1 DEF RestAlike, Alike, SameWalk, SameKeys, SameFiles
<1>3. Typed'
  BY <1>1 DEF IInv, Typed, Tables, Histories, Enricher
<1>4. Numbered'
  BY <1>1, <1>2, NumberedRest DEF IInv, Numbered, Queued
<1>5. Claims'
  BY <1>2, ClaimsRest DEF IInv
<1>6. Texts'
  <2>1. \A n : MentionsOf(n)' = MentionsOf(n)
    BY <1>1 DEF MentionsOf
  <2>2. Tagged
    BY DEF IInv, Texts
  <2>3. MentionsFollowText'
    BY <1>1, <2>1, <2>2 DEF Tagged, MentionsFollowText
  <2>4. Tagged'
    BY <1>1, <2>1, <2>2, <2>3 DEF Tagged
  <2>5. \A q \in Requests : KeepsText(req[q])
    BY <1>1 DEF KeepsText
  <2> QED BY <1>1, <1>2, <2>4, <2>5, TextsStep DEF IInv
<1>7. Announced'
  BY <1>1, <1>2, AnnouncedRest DEF IInv, Noted
<1>8. Cards'
  BY <1>1 DEF IInv, Cards, Follows, SendsIt, Waits, WaitsLast, Works, Unlinked
<1>9. Walks'
  <2>1. \A q \in Requests : KnowsWalk(req[q])'
    BY <1>1, SameIsGrown, OtherWalks DEF IInv
  <2> QED BY <2>1 DEF Walks
<1> QED BY <1>3, <1>4, <1>5, <1>6, <1>7, <1>8, <1>9 DEF IInv

LEMMA NextHolds == IInv /\ [Next]_vars => IInv'
<1> SUFFICES ASSUME IInv, [Next]_vars PROVE IInv'
  OBVIOUS
<1>1. CASE Next
  BY <1>1, TypedNext, ClaimsNext, TextsNext, AnnouncedNext, CardsNext, WalksNext DEF IInv
<1>2. CASE UNCHANGED vars
  BY <1>2, StillHolds
<1> QED BY <1>1, <1>2

\* The rows, locks, histories and copies of every reachable state fit each
\* other (IInv), whatever requests, files and messages there are.
THEOREM Invariant == Spec => []IInv
BY InitHolds, NextHolds, PTL DEF Spec

LEMMA TypedIsOK == Typed => TypeOK
<1> SUFFICES ASSUME Typed PROVE TypeOK
  OBVIOUS
<1>1. DOMAIN worker = DOMAIN NoJob
  <2>1. worker \in Job /\ NoJob \in Job
    BY NoJobIs DEF Typed, Enricher
  <2> QED BY <2>1 DEF Job
<1>2. \A p \in Requests : DOMAIN req[p] = DOMAIN Idle
  <2>1. Idle \in Request /\ \A p \in Requests : req[p] \in Request
    BY IdleIs DEF Typed
  <2> QED BY <2>1 DEF Request
<1>3. \A m \in MessageIds : shown[m].state \in {"none", "live", "deleted"}
  BY DEF Typed, Tables, Told
<1> QED BY <1>1, <1>2, <1>3 DEF TypeOK, Typed, Tables, Histories, Enricher

\* A send gets all the files it names or none, no file is in two messages, and
\* sends that lock files (SELECT ... ORDER BY id FOR UPDATE) or keys never wait
\* for each other.
THEOREM ClaimsAreSoundAlways == Spec => []ClaimsAreSound
<1>1. IInv => ClaimsAreSound
  BY TypedIsOK, ClaimsAreWhole DEF IInv, ClaimsAreSound
<1> QED BY Invariant, <1>1, PTL

\* The mentions of a message follow its text, although an edit decides what to
\* drop before it waits for the row; and so does the card that the enricher
\* stores from a copy of the message.
THEOREM RowsFollowTextAlways == Spec => []RowsFollowText
<1>1. IInv => RowsFollowText
  BY CardsFollow DEF IInv, Texts, Tagged, RowsFollowText
<1> QED BY Invariant, <1>1, PTL

\* When nothing runs, members were last told what the row says: an announcement
\* that another write overtook is the only one that can be wrong.
THEOREM ToldWhatIsStoredAlways == Spec => []ToldWhatIsStored
<1>1. IInv => ToldWhatIsStored
  BY AnnouncedTells DEF IInv
<1> QED BY Invariant, <1>1, PTL

\* History and search return everything that was there from the first page to
\* the last, and nothing twice, whatever is sent, deleted and uploaded between
\* two pages and for every page size; a page around a message has no hole.
THEOREM WalkIsCompleteAlways == Spec => []WalkIsComplete
<1>1. IInv => WalkIsComplete
  BY WalksAreComplete DEF IInv
<1> QED BY Invariant, <1>1, PTL

-------------------------------------------------------------------------------
(* The statements do to the tables what the operations of the store do.    *)

LEMMA InitRefines == Init => Store!Init
<1> SUFFICES ASSUME Init PROVE Store!Init
  OBVIOUS
<1>1. Typed
  BY InitNumbers
<1>2. /\ messages[1] = First /\ (\A m \in MessageIds \ {1} : messages[m] = NoRow)
      /\ attachments = [f \in Files |-> [stored |-> FALSE, by |-> 0, msg |-> 0]]
  BY InitIs
<1>3. First.by # 0 /\ NoRow.by = 0
  BY FirstIs, Constants
<1>4. ASSUME NEW m \in MessageIds, NEW n \in MessageIds, m # n, messages[m] # NoRow
      PROVE  <<messages[n].by, messages[n].key>> # <<messages[m].by, messages[m].key>>
  BY <1>2, <1>3, <1>4
<1>5. \A f \in Files : attachments[f].msg = 0
  BY <1>2
<1> QED BY <1>1, <1>4, <1>5, Constants DEF Store!Init, Typed, Tables

\* The files of a new message have it, and the others stay.
LEMMA CreateRefines ==
  ASSUME Typed, NEW m \in MessageIds, NEW r \in Request, messages[m] = NoRow, r.by \in Users, r.key \in Keys,
         \A n \in MessageIds : ~Uses(r, n),
         \A f \in r.files : attachments[f] = [stored |-> TRUE, by |-> r.by, msg |-> 0],
         Puts(m, r), attachments' = Store!Claimed(m, r.files), UNCHANGED <<previews, readpos>>
  PROVE  Store!Operation
<1>1. r.body \in Bodies /\ r.files \in SUBSET Files
  BY DEF Request
<1>2. Store!CreateMessage(m, r.by, r.key, r.body, r.files)
  <2>1. messages' = [messages EXCEPT ![m] = Store!NewMessage(r.by, r.key, r.body, r.files)]
    BY DEF Puts, RowOf, Store!NewMessage
  <2>2. ~Store!KeyTaken(r.by, r.key)
    BY Constants DEF Store!KeyTaken, Uses
  <2>3. Store!Claimable(r.by, r.files)
    BY Constants DEF Store!Claimable
  <2> QED BY <2>1, <2>2, <2>3, Constants DEF Store!CreateMessage
<1> QED BY <1>1, <1>2, Constants DEF Store!Operation

LEMMA SendRefines ==
  ASSUME Typed, Numbered, Claims, NEW p \in Requests, Sending(p)
  PROVE  Store!Operation \/ UNCHANGED storeVars
<1> DEFINE r == req[p]
<1>1. /\ r \in Request /\ (r.at \in Claiming => r.on \in MessageIds /\ messages[r.on] = NoRow)
      /\ (r.at \in Claiming \cup {"send"} => r.by \in Users /\ r.key \in Keys)
  BY OnIs DEF KnowsRow, Claiming
<1>2. CASE ClaimAttachment(p)
  BY <1>2 DEF ClaimAttachment
<1>3. CASE InsertMessage(p)
  <2>1. CASE UNCHANGED messages
    BY <1>3, <2>1, InsertIs DEF Fixed, storeVars
  <2>2. CASE ~UNCHANGED messages
    <3>1. r.at = "send" /\ Fixed /\ UNCHANGED attachments /\ ~KeyUsed(p) /\ r.files = {}
      BY <1>3, <2>2, InsertIs
    <3>2. PICK m : New(m) /\ Puts(m, r)
      BY <1>3, <2>2, InsertIs
    <3>3. \A n \in MessageIds : ~Uses(r, n)
      BY <3>1 DEF KeyUsed, Uses
    <3>4. attachments' = Store!Claimed(m, r.files)
      BY <3>1 DEF Store!Claimed, Typed, Tables
    <3> HIDE DEF r
    <3> QED BY <1>1, <3>1, <3>2, <3>3, <3>4, CreateRefines DEF New, Fixed
  <2> QED BY <2>1, <2>2
<1>4. CASE CommitMessage(p)
  <2>1. r.at = "claimed"
    BY <1>4 DEF CommitMessage
  <2>2. r.on \in MessageIds
    BY <1>1, <2>1 DEF Claiming
  <2>3. Puts(r.on, r) /\ Attach(p) /\ Fixed
    BY <1>4, <2>2, CommitIs
  <2>4. KnowsFiles(r) /\ KnowsKey(r)
    BY DEF Claims
  <2>5. \A f \in r.files : attachments[f] = [stored |-> TRUE, by |-> r.by, msg |-> 0]
    BY <2>1, <2>4 DEF KnowsFiles, Claiming
  <2>6. \A n \in MessageIds : ~Uses(r, n)
    BY <2>1, <2>4 DEF KnowsKey, Claiming
  <2>7. attachments' = Store!Claimed(r.on, r.files)
    BY <2>3 DEF Attach, Store!Claimed
  <2>8. r.by \in Users /\ r.key \in Keys /\ messages[r.on] = NoRow
    BY <1>1, <2>1 DEF Claiming
  <2>9. UNCHANGED <<previews, readpos>>
    BY <2>3 DEF Fixed
  <2> HIDE DEF r
  <2> QED BY <1>1, <2>2, <2>3, <2>5, <2>6, <2>7, <2>8, <2>9, CreateRefines
<1> QED BY <1>2, <1>3, <1>4 DEF Sending

\* Only a row that is there and not deleted is edited or deleted.
LEMMA EditRefines ==
  ASSUME Typed, Numbered, NEW p \in Requests, Editing(p)
  PROVE  Store!Operation \/ UNCHANGED storeVars
<1>1. req[p].at \in OnRow
  BY DEF Editing, UpdateMessageContent, SoftDeleteMessage, OnRow, Writing
<1>2. PICK m : m = req[p].on
  OBVIOUS
<1>3. m \in MessageIds /\ messages[m] # NoRow /\ req[p].body \in Bodies
  BY <1>1, <1>2, OnIs DEF Request
<1>4. messages[m].state # "deleted" => messages[m].state = "live"
  <2>1. messages[m] \in Store!MessageRow /\ messages[m].state # "none"
    BY <1>3 DEF Typed, Tables, Numbered, Stored
  <2> QED BY <2>1, Rowed
<1>5. CASE UpdateMessageContent(p)
  <2>1. /\ UNCHANGED <<attachments, previews, readpos>>
        /\ \/ UNCHANGED messages
           \/ messages[m].state # "deleted" /\ messages' = [messages EXCEPT ![m].body = req[p].body]
    BY <1>2, <1>3, <1>5, UpdateIs DEF Edited
  <2>2. UNCHANGED messages \/ Store!UpdateMessageContent(m, req[p].body)
    BY <1>4, <2>1 DEF Store!UpdateMessageContent
  <2> QED BY <1>3, <2>1, <2>2, Constants DEF Store!Operation, storeVars
<1>6. CASE SoftDeleteMessage(p)
  <2>1. /\ UNCHANGED <<attachments, previews, readpos>>
        /\ \/ UNCHANGED messages
           \/ messages[m].state # "deleted" /\ messages' = [messages EXCEPT ![m].state = "deleted", ![m].body = Erased]
    BY <1>2, <1>3, <1>6, SoftDeleteIs DEF Blanked
  <2>2. UNCHANGED messages \/ Store!SoftDeleteMessage(m)
    BY <1>4, <2>1, Constants DEF Store!SoftDeleteMessage
  <2> QED BY <1>3, <2>1, <2>2, Constants DEF Store!Operation, storeVars
<1> QED BY <1>5, <1>6 DEF Editing

LEMMA EndRefines ==
  ASSUME Typed, Numbered, Claims, NEW p \in Requests, Ending(p)
  PROVE  Store!Operation \/ UNCHANGED storeVars
<1>1. CASE RollbackMessage(p) \/ FinishList(p) \/ CutOff(p) \/ AnnounceDeleted(p) \/ DeleteBlobs(p)
  BY <1>1 DEF RollbackMessage, FinishList, CutOff, AnnounceDeleted, DeleteBlobs
<1>2. CASE StoreReadPosition(p)
  <2>1. PICK m, u : m = req[p].on /\ u = req[p].by
    OBVIOUS
  <2>2. m \in MessageIds /\ messages[m] # NoRow /\ u \in Users /\ m \in Nat
    BY <1>2, <2>1, OnIs, Constants DEF StoreReadPosition, OnRow
  <2>3. /\ readpos' = [readpos EXCEPT ![u] = IF m > readpos[u] THEN m ELSE readpos[u]]
        /\ UNCHANGED <<messages, attachments, previews>>
    BY <1>2, <2>1 DEF StoreReadPosition
  <2>4. CASE m > readpos[u]
    <3>1. Store!SetReadPosition(u, m)
      BY <2>2, <2>3, <2>4, Constants DEF Store!SetReadPosition
    <3> QED BY <2>2, <3>1, Constants DEF Store!Operation
  <2>5. CASE ~(m > readpos[u])
    <3>1. readpos' = readpos
      BY <2>2, <2>3, <2>5 DEF Typed, Tables
    <3> QED BY <2>3, <3>1 DEF storeVars
  <2> QED BY <2>4, <2>5
<1>3. CASE CreateAttachment(p) \/ LoseAnswer(p)
  <2>1. /\ req[p].at = "row" /\ UNCHANGED <<messages, previews, readpos>> /\ StoreRow(p)
    BY <1>3 DEF CreateAttachment, LoseAnswer
  <2>2. PICK u : u = req[p].by
    OBVIOUS
  <2>3. u \in Users
    BY <2>1, <2>2, OnIs
  <2>4. KnowsFiles(req[p])
    BY DEF Claims
  <2>5. PICK f \in Files : req[p].files = {f} /\ ~attachments[f].stored
    BY <2>1, <2>4 DEF KnowsFiles, Uploading
  <2>6. attachments' = [attachments EXCEPT ![f] = [stored |-> TRUE, by |-> u, msg |-> 0]]
    BY <2>1, <2>2, <2>5 DEF StoreRow, Typed, Tables
  <2>7. Store!CreateAttachment(f, u)
    BY <2>1, <2>5, <2>6, Constants DEF Store!CreateAttachment
  <2> QED BY <2>3, <2>7 DEF Store!Operation
<1> QED BY <1>1, <1>2, <1>3 DEF Ending

\* A card is stored with the link of its text, or deleted when the text has none.
LEMMA WorkRefines ==
  ASSUME Typed, Numbered, Background
  PROVE  Store!Operation \/ UNCHANGED storeVars
<1>1. CASE TakeJob \/ FailJob \/ AnnounceCard \/ ChangeMembers
  BY <1>1 DEF TakeJob, FailJob, AnnounceCard, ChangeMembers
<1>2. CASE SaveLinkPreview \/ RemovePreview
  <2>1. PICK m, l : m = worker.on /\ l = worker.body.link
    OBVIOUS
  <2>2. worker.at # "idle"
    BY <1>2 DEF SaveLinkPreview, RemovePreview
  <2>3. m \in MessageIds /\ messages[m] # NoRow
    BY <2>1, <2>2 DEF Numbered, Queued
  <2>4. l \in Store!Links
    BY <2>1, Rowed DEF Typed, Enricher, Job
  <2>5. previews' = [previews EXCEPT ![m] = l] /\ UNCHANGED <<messages, attachments, readpos>>
    BY <1>2, <2>1 DEF SaveLinkPreview, RemovePreview
  <2>6. CASE l = 0
    <3>1. Store!DeleteLinkPreview(m)
      BY <2>5, <2>6 DEF Store!DeleteLinkPreview
    <3> QED BY <2>3, <3>1, Constants DEF Store!Operation
  <2>7. CASE l # 0
    <3>1. Store!SaveLinkPreview(m, l)
      BY <2>3, <2>5, Constants DEF Store!SaveLinkPreview
    <3> QED BY <2>3, <2>4, <2>7, <3>1, Constants DEF Store!Operation
  <2> QED BY <2>6, <2>7
<1> QED BY <1>1, <1>2 DEF Background

LEMMA StepRefines == IInv /\ [Next]_vars => [Store!Next]_(Store!storeVars)
<1> SUFFICES ASSUME IInv, [Next]_vars PROVE Store!Operation \/ UNCHANGED storeVars
  BY DEF Store!Next, Store!storeVars, storeVars
<1>1. Typed /\ Numbered /\ Claims
  BY DEF IInv
<1>2. ASSUME NEW p \in Requests, Beginning(p) PROVE UNCHANGED storeVars
  BY <1>2 DEF Beginning, SendMessage, EditMessage, DeleteMessage, SetReadPosition, UploadFile, ListMessages, Search
<1>3. ASSUME NEW p \in Requests, Staying(p) \/ Enqueue(p) PROVE UNCHANGED storeVars
  BY <1>3 DEF Staying, Enqueue, AnnounceMessage, BeginUpdate, LoadMessageCards, StoreBlob, HistoryPage, SearchPage
<1>4. UNCHANGED vars => UNCHANGED storeVars
  BY DEF vars
<1> QED BY <1>1, <1>2, <1>3, <1>4, NextIs, SendRefines, EditRefines, EndRefines, WorkRefines

\* What a send, an edit, a deletion, an upload or a preview does to the tables on
\* PostgreSQL, statement by statement and with others in between, is what the
\* operation does as one step on SQLite (server/internal/sqlitestore/messages.go).
THEOREM RefinesStoreAlways == Spec => RefinesStore
BY Invariant, InitRefines, StepRefines, PTL DEF Spec, RefinesStore, Store!Spec
===============================================================================
