------------------------------ MODULE Telegram ------------------------------
(***************************************************************************)
(* The Telegram surface: api/v1/webhooks.py (telegram_webhook),            *)
(* queue/tasks.py (handle_telegram_update),                                *)
(* services/telegram/{dedupe,dispatch,capture,confirm,linking}.py and      *)
(* services/chat_engine/proposals.py.                                      *)
(*                                                                         *)
(* An update travels webhook, queue, worker.  The worker claims it in      *)
(* Redis, resolves its sender, acts inside one transaction, commits,       *)
(* queues what it saved, and answers; the message is acknowledged last.    *)
(* Each step is one await, and a worker may be killed or may fail between  *)
(* any two.                                                                *)
(***************************************************************************)
EXTENDS Naturals, Sequences, FiniteSets

CONSTANTS
    Users,
    Chats,        \* Telegram identities; a private chat is its sender's
    Tokens,       \* link tokens
    Offers,       \* proposal tokens
    Updates,      \* update ids
    Workers,
    Linked,       \* the chats linked when the behaviour starts, each by a token
    HeldBy,       \* HeldBy[k]: who minted the token of such a link
    Cards,        \* cards that may be on a linked chat's screen by then
    None,
    MaxRetries,   \* max_retries of handle_telegram_update
    MaxCopies,    \* bound: copies of one update in the queue
    MaxFaults     \* bound: kills, exceptions, repeated deliveries, Redis or broker errors

ASSUME ConstantsAssumption ==
    /\ Linked \subseteq Chats \X Tokens
    /\ \A a, b \in Linked : a[1] = b[1] \/ a[2] = b[2] => a = b
    /\ HeldBy \in [{a[2] : a \in Linked} -> Users]
    /\ Cards \subseteq {a[1] : a \in Linked} \X Offers
    /\ \A c, d \in Cards : c[2] = d[2] => c = d
    /\ None \notin Users \cup Chats \cup Tokens \cup Offers \cup Updates
    /\ MaxRetries \in Nat /\ MaxCopies \in Nat \ {0} /\ MaxFaults \in Nat

VARIABLES
    bound,      \* telegram_accounts: <<chat, the token that linked it>>
    link,       \* telegram_link_tokens
    web,        \* the transaction of a request of the settings page, or None
    offer,      \* the proposals in Redis
    shown,      \* cards sent: <<chat, offer>>
    sent,       \* what each update says, or None
    copies,     \* copies of each update on the queue
    tries,      \* retries of each update so far
    claimed,    \* update ids claimed in Redis
    turn,       \* what each worker is doing
    writes,     \* what the bot's transactions wrote, in commit order
    jobs,       \* updates whose memory was queued for processing
    told,       \* answers sent: <<update, answer>>
    faults,
    loose,      \* history: updates that were let through by a failed claim
    spokeFor    \* history: whom the sender was linked to since an update was sent

queue == <<copies, tries, claimed>>
vars == <<bound, link, web, offer, shown, sent, copies, tries, claimed, turn,
          writes, jobs, told, faults, loose, spokeFor>>

Kinds == {"link", "ask", "disconnect", "start", "tap"}
Acts == {"note", "delete", "answer"}

Update == [kind : Kinds, from : Chats, ref : Tokens \cup Offers \cup {None}, yes : BOOLEAN]
LinkToken == [user : Users \cup {None}, at : {"none", "live", "expired", "used"}]
Offer == [user : Users \cup {None}, act : Acts, at : {"none", "live", "gone"}]
Account == Chats \X Tokens

ASSUME NoneAssumption == None \notin Update

\* What the transaction of a turn will write when it commits.
Plan == [write : {"none", "save", "delete", "bind", "refresh", "burn", "unbind"},
         row : Account \cup {None}, drops : Account \cup {None}]
Nothing == [write |-> "none", row |-> None, drops |-> None]
Turn == [at : {"acting", "asking", "spent", "flushed", "committed", "answering"},
         upd : Updates, user : Users \cup {None}, usable : BOOLEAN,
         row : Account \cup {None}, offer : Offers \cup {None}, plan : Plan,
         answer : {"none", "saved", "declined", "asked", "told"}]
Idle == [at |-> "idle"]

Request == [user : Users, mints : Tokens \cup {None}, discards : SUBSET Tokens,
            drops : Account \cup {None}]
Write == [upd : Updates, owner : Users, offer : Offers \cup {None}, what : {"save", "delete"}]

TypeOK ==
    /\ bound \subseteq Account
    /\ link \in [Tokens -> LinkToken]
    /\ web \in Request \cup {None}
    /\ offer \in [Offers -> Offer]
    /\ shown \subseteq Chats \X Offers
    /\ sent \in [Updates -> Update \cup {None}]
    /\ copies \in [Updates -> 0..MaxCopies]
    /\ tries \in [Updates -> 0..MaxRetries]
    /\ claimed \subseteq Updates
    /\ turn \in [Workers -> Turn \cup {Idle}]
    /\ writes \in Seq(Write)
    /\ jobs \subseteq Updates
    /\ told \subseteq Updates \X {"saved", "declined", "asked", "told"}
    /\ faults \in 0..MaxFaults
    /\ loose \subseteq Updates
    /\ spokeFor \in [Updates -> SUBSET Users]

UserOf(account) == link[account[2]].user
\* get_by_telegram_user_id: the unique index leaves at most one.
AccountOf(t) == {a \in bound : a[1] = t}
SpeaksFor(t) == {UserOf(a) : a \in AccountOf(t)}
\* get_for_user: any of them, and one is what there should be.
AccountsFor(u) == {a \in bound : UserOf(a) = u}

Init ==
    /\ bound = Linked
    /\ link = [k \in Tokens |->
                 IF k \in {a[2] : a \in Linked} THEN [user |-> HeldBy[k], at |-> "used"]
                                                ELSE [user |-> None, at |-> "none"]]
    /\ web = None
    /\ shown \in SUBSET Cards
    /\ offer \in [Offers -> Offer]
    /\ \A o \in Offers :
         \/ /\ \E c \in shown : c[2] = o /\ offer[o].user \in SpeaksFor(c[1])
            /\ offer[o].at = "live"
         \/ /\ \A c \in shown : c[2] # o
            /\ offer[o] = [user |-> None, act |-> "note", at |-> "none"]
    /\ claimed = {} /\ jobs = {} /\ told = {} /\ loose = {}
    /\ sent = [u \in Updates |-> None]
    /\ copies = [u \in Updates |-> 0]
    /\ tries = [u \in Updates |-> 0]
    /\ turn = [w \in Workers |-> Idle]
    /\ writes = <<>>
    /\ faults = 0
    /\ spokeFor = [u \in Updates |-> {}]

Fault == faults < MaxFaults /\ faults' = faults + 1

-----------------------------------------------------------------------------
(* The settings page: one request at a time, answered before it commits *)

\* The token rows that an open transaction holds locked.
LockedByTurns == {turn[w].plan.row[2] : w \in {v \in Workers :
                     turn[v].at = "flushed" /\ turn[v].plan.write \in {"bind", "refresh", "burn"}}}

\* create_link: outstanding tokens are expired, and one is handed out.
CreateLink(u, k) ==
    LET outstanding == {j \in Tokens : link[j] = [user |-> u, at |-> "live"]} IN
    /\ web = None /\ link[k].at = "none"
    /\ outstanding \cap LockedByTurns = {}
    /\ web' = [user |-> u, mints |-> k, discards |-> outstanding, drops |-> None]
    /\ UNCHANGED <<bound, link, offer, shown, sent, queue, turn, writes, jobs, told, faults,
                   loose, spokeFor>>

\* DELETE /integrations/telegram
Disconnect(u) ==
    /\ web = None
    /\ \E a \in AccountsFor(u) :
         web' = [user |-> u, mints |-> None, discards |-> {}, drops |-> a]
    /\ UNCHANGED <<bound, link, offer, shown, sent, queue, turn, writes, jobs, told, faults,
                   loose, spokeFor>>

WebCommit ==
    /\ web # None
    /\ link' = [k \in Tokens |->
                  IF k = web.mints THEN [user |-> web.user, at |-> "live"]
                  ELSE IF k \in web.discards THEN [link[k] EXCEPT !.at = "expired"] ELSE link[k]]
    /\ bound' = bound \ {web.drops}
    /\ web' = None
    /\ UNCHANGED <<offer, shown, sent, queue, turn, writes, jobs, told, faults, loose, spokeFor>>

\* The commit fails after the answer went out: nothing was written.
WebRollback ==
    /\ web # None /\ Fault
    /\ web' = None
    /\ UNCHANGED <<bound, link, offer, shown, sent, queue, turn, writes, jobs, told, loose, spokeFor>>

\* TELEGRAM_LINK_TOKEN_TTL_MINUTES, PROPOSAL_TTL_SECONDS
Expire ==
    /\ \/ /\ \E k \in Tokens : link[k].at = "live" /\ link' = [link EXCEPT ![k].at = "expired"]
          /\ UNCHANGED offer
       \/ /\ \E o \in Offers : offer[o].at = "live" /\ offer' = [offer EXCEPT ![o].at = "gone"]
          /\ UNCHANGED link
    /\ UNCHANGED <<bound, web, shown, sent, queue, turn, writes, jobs, told, faults, loose, spokeFor>>

-----------------------------------------------------------------------------
(* The webhook *)

\* A deep link exists as soon as the request that mints it has answered.
Handed == {k \in Tokens : link[k].at # "none"} \cup (IF web = None THEN {} ELSE {web.mints} \ {None})

\* What a chat may send: a link or file, a question, a command, a tap on a card
\* (an option of a question has no No).
Messages(t) ==
    [kind : {"link", "ask", "disconnect"}, from : {t}, ref : {None}, yes : {FALSE}]
    \cup [kind : {"start"}, from : {t}, ref : Handed, yes : {FALSE}]
    \cup {m \in [kind : {"tap"}, from : {t}, ref : Offers, yes : BOOLEAN] :
            <<t, m.ref>> \in shown /\ (offer[m.ref].act = "answer" => m.yes)}

\* telegram_webhook: queued, or answered 202 and told that it was not.
Receive(u) ==
    /\ sent[u] = None
    /\ \E t \in Chats : \E m \in Messages(t) :
         /\ sent' = [sent EXCEPT ![u] = m]
         /\ spokeFor' = [spokeFor EXCEPT ![u] = SpeaksFor(t)]
    /\ \/ /\ copies' = [copies EXCEPT ![u] = 1]
          /\ UNCHANGED <<told, faults>>
       \/ /\ Fault
          /\ told' = told \cup {<<u, "told">>}
          /\ UNCHANGED copies
    /\ UNCHANGED <<bound, link, web, offer, shown, tries, claimed, turn, writes, jobs, loose>>

\* Telegram never saw the 202.
ReceiveAgain(u) ==
    /\ sent[u] # None /\ copies[u] < MaxCopies /\ Fault
    /\ copies' = [copies EXCEPT ![u] = @ + 1]
    /\ UNCHANGED <<bound, link, web, offer, shown, sent, tries, claimed, turn, writes, jobs, told,
                   loose, spokeFor>>

-----------------------------------------------------------------------------
(* A turn of the worker *)

\* Mutant: two workers that look at once both find the update unclaimed.
ClaimLate(u) == claimed' = claimed \cup {u} /\ UNCHANGED <<faults, loose>>
\* dedupe.claim: SET NX, and an error lets the update through.
Claim(u) ==
    \/ u \notin claimed /\ claimed' = claimed \cup {u} /\ UNCHANGED <<faults, loose>>
    \/ Fault /\ loose' = loose \cup {u} /\ UNCHANGED claimed

\* Mutant: a tap is taken as its token's owner.
SenderOfTap(m) == IF m.kind = "tap" THEN {offer[m.ref].user} ELSE SpeaksFor(m.from)
\* links.resolve: the account row is all that turns a chat into a user.
Sender(m) == SpeaksFor(m.from)

\* The update is claimed and its sender resolved; for /start, the two rows
\* are read that decide what becomes of the token.
Begin(w, u) ==
    LET m == sent[u]
        users == Sender(m)
        user == IF users = {} THEN None ELSE CHOOSE v \in users : TRUE
        known == m.kind = "start" \/ user # None IN
    /\ turn[w] = Idle /\ copies[u] > 0 /\ Claim(u)
    /\ copies' = [copies EXCEPT ![u] = @ - 1]
    /\ turn' = [turn EXCEPT ![w] =
         [at |-> IF ~known THEN "answering" ELSE IF m.kind = "ask" THEN "asking" ELSE "acting",
          upd |-> u, user |-> user,
          usable |-> m.kind = "start" /\ link[m.ref].at = "live",
          row |-> IF m.kind = "start" /\ AccountOf(m.from) # {}
                    THEN CHOOSE a \in AccountOf(m.from) : TRUE ELSE None,
          offer |-> None, plan |-> Nothing, answer |-> IF known THEN "none" ELSE "told"]]
    /\ UNCHANGED <<bound, link, web, offer, shown, sent, tries, writes, jobs, told, spokeFor>>

\* A redelivery: acknowledged, and nothing more.
Duplicate(w, u) ==
    /\ turn[w] = Idle /\ copies[u] > 0 /\ u \in claimed
    /\ copies' = [copies EXCEPT ![u] = @ - 1]
    /\ UNCHANGED <<bound, link, web, offer, shown, sent, tries, claimed, turn, writes, jobs, told,
                   faults, loose, spokeFor>>

Message(w) == sent[turn[w].upd]
At(w, place) == turn[w].at = place
Acting(w, kind) == At(w, "acting") /\ Message(w).kind = kind

\* Nothing to write: straight to the answer.
Say(w, answer, o) ==
    turn' = [turn EXCEPT ![w] = [@ EXCEPT !.at = "answering", !.answer = answer, !.offer = o,
                                          !.user = None, !.usable = FALSE, !.row = None]]
AnswerWith(w, answer) == Say(w, answer, None)
Flush(w, plan, answer) ==
    turn' = [turn EXCEPT ![w] = [@ EXCEPT !.at = "flushed", !.plan = plan, !.answer = answer,
                                          !.usable = FALSE, !.row = None]]
OnlyTurn == UNCHANGED <<bound, link, web, offer, shown, sent, queue, writes, jobs, told, faults,
                        loose, spokeFor>>

\* limits.allow says no, or the file cannot be kept.
Refuse(w) ==
    /\ At(w, "acting") \/ At(w, "asking")
    /\ Message(w).kind \notin {"start", "disconnect"}
    /\ AnswerWith(w, "told")
    /\ OnlyTurn

\* Mutant: the memory is queued by the call that saves it.
CaptureAndQueue(w) ==
    /\ Acting(w, "link")
    /\ Flush(w, [Nothing EXCEPT !.write = "save"], "saved")
    /\ jobs' = jobs \cup {turn[w].upd}
    /\ UNCHANGED <<bound, link, web, offer, shown, sent, queue, writes, told, faults, loose, spokeFor>>
\* TelegramCaptureService.capture: a new row, flushed.
Capture(w) ==
    /\ Acting(w, "link")
    /\ Flush(w, [Nothing EXCEPT !.write = "save"], "saved")
    /\ OnlyTurn

\* The engine answers, and may offer something: the token is minted in Redis.
Ask(w) ==
    /\ At(w, "asking")
    /\ \/ AnswerWith(w, "told") /\ UNCHANGED offer
       \/ \E o \in Offers, act \in Acts :
            /\ offer[o].at = "none"
            /\ offer' = [offer EXCEPT ![o] = [user |-> turn[w].user, act |-> act, at |-> "live"]]
            /\ Say(w, "asked", o)
    /\ UNCHANGED <<bound, link, web, shown, sent, queue, writes, jobs, told, faults, loose, spokeFor>>

\* Mutant: the token is read and left where it is.
TakeByGet(o) == UNCHANGED offer
\* GETDEL
Take(o) == offer' = [offer EXCEPT ![o].at = "gone"]

\* A token minted for somebody else is burnt, not used.
MayUse(w, o) == offer[o].user = turn[w].user

\* Mutant: the general prefix is tested first, and a No is read as a Yes.
AcceptsAny(w) == TRUE
\* confirm.parse: a button's data is a No's prefix, a Yes's or an option's.
Accepts(w) == Message(w).yes

\* confirm.execute: the token is spent before anything is written.
Spend(w) ==
    LET o == Message(w).ref IN
    /\ Acting(w, "tap") /\ turn[w].offer = None
    /\ \/ /\ offer[o].at # "live"
          /\ AnswerWith(w, "told") /\ UNCHANGED <<offer, faults>>
       \/ /\ Fault                  \* Redis did not answer
          /\ AnswerWith(w, "told") /\ UNCHANGED offer
       \/ /\ offer[o].at = "live" /\ Take(o)
          /\ CASE ~MayUse(w, o) -> AnswerWith(w, "told")
               [] MayUse(w, o) /\ ~Accepts(w) -> AnswerWith(w, "declined")
               [] OTHER -> turn' = [turn EXCEPT ![w].at = "spent", ![w].offer = o]
          /\ UNCHANGED faults
    /\ UNCHANGED <<bound, link, web, shown, sent, queue, writes, jobs, told, loose, spokeFor>>

\* What the token authorised: a note, a deletion (or an edge), or an option's
\* text, which is handled as if it had been typed.
Act(w) ==
    LET act == offer[turn[w].offer].act IN
    /\ At(w, "spent")
    /\ \/ act = "note" /\ Flush(w, [Nothing EXCEPT !.write = "save"], "saved")
       \/ act = "delete" /\ Flush(w, [Nothing EXCEPT !.write = "delete"], "told")
       \/ act = "delete" /\ AnswerWith(w, "told")     \* nothing left to delete
       \/ /\ act = "answer"
          /\ LET users == SpeaksFor(Message(w).from) IN
             turn' = [turn EXCEPT
               ![w].at = IF users = {} THEN "answering" ELSE "asking",
               ![w].answer = IF users = {} THEN "told" ELSE "none",
               ![w].user = IF users = {} THEN None ELSE CHOOSE v \in users : TRUE]
    /\ OnlyTurn

Leave(w) ==
    /\ Acting(w, "disconnect")
    /\ \/ AccountsFor(turn[w].user) = {} /\ AnswerWith(w, "told")
       \/ \E a \in AccountsFor(turn[w].user) :
            Flush(w, [Nothing EXCEPT !.write = "unbind", !.drops = a], "told")
    /\ OnlyTurn

\* The token's row, and the unique index on the chat, make others wait.
Unlocked(k, t) ==
    /\ k \notin LockedByTurns
    /\ web # None => k \notin web.discards
    /\ ~\E v \in Workers : At(v, "flushed") /\ turn[v].plan.write = "bind" /\ turn[v].plan.row[1] = t

\* TelegramLinkService.consume: the token is marked used and the chat bound,
\* in one transaction.
Redeem(w) ==
    LET k == Message(w).ref
        t == Message(w).from
        user == link[k].user
        row == turn[w].row
        binding == [Nothing EXCEPT !.row = <<t, k>>] IN
    /\ Acting(w, "start")
    /\ \/ ~turn[w].usable /\ AnswerWith(w, "told")
       \/ /\ turn[w].usable /\ Unlocked(k, t)
          /\ \/ /\ row # None /\ UserOf(row) # user
                /\ Flush(w, [binding EXCEPT !.write = "burn"], "told")
             \/ /\ row \in bound /\ UserOf(row) = user
                /\ Flush(w, [binding EXCEPT !.write = "refresh"], "told")
             \/ /\ row = None /\ AccountOf(t) = {}
                /\ \E prior \in IF AccountsFor(user) = {} THEN {None} ELSE AccountsFor(user) :
                     Flush(w, [binding EXCEPT !.write = "bind", !.drops = prior], "told")
    /\ OnlyTurn

Written(w) ==
    [upd |-> turn[w].upd, owner |-> turn[w].user, offer |-> turn[w].offer, what |-> turn[w].plan.write]

\* The transaction commits, and only then is anything queued or said.
Commit(w) ==
    LET plan == turn[w].plan
        bound2 == (bound \ {plan.drops}) \cup (IF plan.write = "bind" THEN {plan.row} ELSE {}) IN
    /\ At(w, "flushed")
    /\ writes' = IF plan.write \in {"save", "delete"} THEN Append(writes, Written(w)) ELSE writes
    /\ bound' = bound2
    /\ link' = IF plan.write \in {"bind", "refresh", "burn"}
                 THEN [link EXCEPT ![plan.row[2]].at = "used"] ELSE link
    /\ spokeFor' = [u \in Updates |->
                      IF sent[u] = None THEN {}
                      ELSE spokeFor[u] \cup {UserOf(a) : a \in {b \in bound2 : b[1] = sent[u].from}}]
    /\ turn' = [turn EXCEPT ![w] =
         [@ EXCEPT !.at = IF plan.write = "save" THEN "committed" ELSE "answering",
                   !.plan = Nothing, !.offer = None, !.user = None]]
    /\ UNCHANGED <<web, offer, shown, sent, queue, jobs, told, faults, loose>>

\* enqueue_process_item, whose failure is logged and no more.
Enqueue(w) ==
    /\ At(w, "committed")
    /\ \/ jobs' = jobs \cup {turn[w].upd} /\ UNCHANGED faults
       \/ Fault /\ UNCHANGED jobs
    /\ turn' = [turn EXCEPT ![w].at = "answering"]
    /\ UNCHANGED <<bound, link, web, offer, shown, sent, queue, writes, told, loose, spokeFor>>

\* send_message, and the message is acknowledged.
Answer(w) ==
    /\ At(w, "answering")
    /\ told' = told \cup {<<turn[w].upd, turn[w].answer>>}
    /\ shown' = IF turn[w].answer = "asked" THEN shown \cup {<<Message(w).from, turn[w].offer>>}
                                            ELSE shown
    /\ turn' = [turn EXCEPT ![w] = Idle]
    /\ UNCHANGED <<bound, link, web, offer, sent, queue, writes, jobs, faults, loose, spokeFor>>

\* The transaction is rolled back, and the update queued again while it has
\* a retry left.
RollBack(w) ==
    LET u == turn[w].upd IN
    /\ \/ /\ tries[u] < MaxRetries /\ copies[u] < MaxCopies
          /\ tries' = [tries EXCEPT ![u] = @ + 1]
          /\ copies' = [copies EXCEPT ![u] = @ + 1]
       \/ tries[u] = MaxRetries /\ UNCHANGED <<tries, copies>>
    /\ turn' = [turn EXCEPT ![w] = Idle]
    /\ UNCHANGED <<bound, link, web, offer, shown, sent, claimed, writes, jobs, told, loose, spokeFor>>

\* The database, a provider or Telegram raises.
Fail(w) == turn[w] # Idle /\ ~At(w, "committed") /\ Fault /\ RollBack(w)

\* The row to refresh is gone, or the chat has been linked meanwhile: an
\* IntegrityError, or a StaleDataError.
Conflict(w) ==
    LET t == Message(w).from IN
    /\ Acting(w, "start") /\ turn[w].usable /\ Unlocked(Message(w).ref, t)
    /\ \/ turn[w].row = None /\ AccountOf(t) # {}
       \/ turn[w].row \notin bound \cup {None} /\ UserOf(turn[w].row) = link[Message(w).ref].user
    /\ RollBack(w)
    /\ UNCHANGED faults

\* The worker is lost: the broker delivers the update again.
Kill(w) ==
    LET u == turn[w].upd IN
    /\ turn[w] # Idle /\ copies[u] < MaxCopies /\ Fault
    /\ copies' = [copies EXCEPT ![u] = @ + 1]
    /\ turn' = [turn EXCEPT ![w] = Idle]
    /\ UNCHANGED <<bound, link, web, offer, shown, sent, tries, claimed, writes, jobs, told, loose,
                   spokeFor>>

Next ==
    \/ \E u \in Users : \E k \in Tokens : CreateLink(u, k)
    \/ \E u \in Users : Disconnect(u)
    \/ WebCommit \/ WebRollback \/ Expire
    \/ \E u \in Updates : Receive(u) \/ ReceiveAgain(u)
    \/ \E w \in Workers, u \in Updates : Begin(w, u) \/ Duplicate(w, u)
    \/ \E w \in Workers :
         \/ Refuse(w) \/ Capture(w) \/ Ask(w) \/ Spend(w) \/ Act(w) \/ Leave(w) \/ Redeem(w)
         \/ Commit(w) \/ Enqueue(w) \/ Answer(w) \/ Fail(w) \/ Conflict(w)
         \/ Kill(w)

Spec == Init /\ [][Next]_vars

-----------------------------------------------------------------------------
(* Properties *)

Of(o) == {i \in DOMAIN writes : writes[i].offer = o}
Single == INSTANCE SingleUse WITH Credentials <- Offers,
            at <- [o \in Offers |-> offer[o].at],
            deeds <- [o \in Offers |-> Cardinality(Of(o))]

\* A card's token is spent before anything is written on its authority, and
\* authorises one write at most, whatever is tapped twice, delivered twice,
\* retried or killed (RedisProposalStore.spend, confirm.execute).
OffersAreSingleUse == Single!Spec

\* A write made on a token's authority is in the vault of the person it was
\* minted for, and follows a Yes (RedisProposalStore.spend).
OfferActsForItsOwner ==
    \A i \in DOMAIN writes : writes[i].offer # None =>
        writes[i].owner = offer[writes[i].offer].user /\ sent[writes[i].upd].yes

\* What the bot writes goes to a vault its sender was linked to at some time
\* since the message was sent, however the link is moved, dropped or made
\* again meanwhile (TelegramLinkService.resolve).
WritesForASpeaker ==
    \A i \in DOMAIN writes : writes[i].owner \in spokeFor[writes[i].upd]

\* Unless Redis let it through, an update is acted on once: redelivered by
\* Telegram, by the broker or by a retry, it saves no second copy (dedupe.claim).
ActedOnOnce ==
    \A i, j \in DOMAIN writes :
        writes[i].upd = writes[j].upd /\ writes[i].upd \notin loose => i = j

\* Nobody is told that something was saved, and nothing is queued for
\* processing, before the row is there for a worker to read (the commit in
\* _handle_telegram_update).
AnnouncedIsSaved ==
    \A u \in Updates : u \in jobs \/ <<u, "saved">> \in told =>
        \E i \in DOMAIN writes : writes[i].upd = u /\ writes[i].what = "save"

\* "a worker killed mid-job returns the message to the queue instead of
\* dropping the user's capture" (queue/celery_app.py): a link that reached
\* the queue, and met no exception, is on the queue, in a worker's hands,
\* answered or saved.
CaptureIsNotDropped ==
    \A u \in Updates :
        (sent[u] # None /\ sent[u].kind = "link" /\ tries[u] = 0 /\ spokeFor[u] # {}) =>
            \/ copies[u] > 0
            \/ \E w \in Workers : turn[w] # Idle /\ turn[w].upd = u
            \/ \E i \in DOMAIN writes : writes[i].upd = u
            \/ \E a \in {"told", "saved"} : <<u, a>> \in told
=============================================================================
