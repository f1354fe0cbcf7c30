--------------------------- MODULE Telegram_proofs ---------------------------
(***************************************************************************)
(* Proofs about Telegram, for any number of people, chats, updates,        *)
(* workers and faults.                                                     *)
(***************************************************************************)
EXTENDS Telegram, FiniteSetTheorems, TLAPS

USE ConstantsAssumption, NoneAssumption

-------------------------------------------------------------------------------
(* Type correctness                                                        *)

\* A token that was handed out is somebody's, and one that linked a chat was.
LinksKnown ==
  /\ \A k \in Tokens : link[k].at # "none" => link[k].user # None
  /\ \A a \in bound : link[a[2]].at # "none"
  /\ web # None => /\ web.mints # None => link[web.mints].at = "none"
                   /\ \A k \in web.discards : link[k].at # "none"

\* What is on the queue was sent, and refers to what its kind says.
UpdatesKnown ==
  \A u \in Updates :
    /\ copies[u] > 0 => sent[u] # None
    /\ sent[u] # None => /\ sent[u].kind = "start" => sent[u].ref \in Tokens
                         /\ sent[u].kind = "tap" => sent[u].ref \in Offers

\* A turn knows what its place says: whom it acts for, what it was authorised
\* by, which token it redeems.
Sound(t) ==
  t # Idle =>
    /\ sent[t.upd] # None
    /\ t.at = "acting" =>
         t.offer = None /\ (sent[t.upd].kind # "start" => t.user # None)
    /\ t.at \in {"asking", "spent"} => t.user # None
    /\ t.at = "spent" => t.offer # None
    /\ t.usable => sent[t.upd].kind = "start" /\ link[sent[t.upd].ref].at # "none"
    /\ t.at = "flushed" =>
         /\ t.plan.write \in {"save", "delete"} => t.user # None
         /\ t.plan.write \in {"bind", "refresh", "burn"} =>
              t.plan.row \in Account /\ link[t.plan.row[2]].at # "none"
    /\ t.at \in {"flushed", "committed"} => t.answer \in {"saved", "told"}
    /\ t.at = "answering" => t.answer # "none" /\ (t.answer = "asked" => t.offer # None)
TurnsKnown == \A w \in Workers : Sound(turn[w])

TypeInv == TypeOK /\ LinksKnown /\ UpdatesKnown /\ TurnsKnown

\* No turn is mistaken for no turn.
LEMMA TurnIsNotIdle == \A t \in Turn : t # Idle
  BY DEF Turn, Idle

\* The people a chat speaks for are people.
LEMMA SpeakersAreUsers ==
  ASSUME TypeInv
  PROVE  /\ \A t : SpeaksFor(t) \subseteq Users
         /\ \A a \in bound : a \in Account /\ UserOf(a) \in Users
<1>1. ASSUME NEW a \in bound PROVE a \in Account /\ UserOf(a) \in Users
  <2>1. a \in Account /\ a[2] \in Tokens
    BY DEF TypeInv, TypeOK, Account
  <2> QED BY <2>1 DEF TypeInv, TypeOK, LinksKnown, UserOf, LinkToken
<1> QED BY <1>1 DEF SpeaksFor, AccountOf

\* The first state has its types.
LEMMA TypeInit == Init => TypeInv
<1> SUFFICES ASSUME Init PROVE TypeInv
  OBVIOUS
<1>1. Linked \subseteq Account /\ \A a \in Linked : a[2] \in Tokens
  BY DEF Account
<1>2. link \in [Tokens -> LinkToken]
  BY <1>1 DEF Init, LinkToken
<1>3. shown \subseteq Chats \X Offers
  BY DEF Init
<1>4. \A a \in Linked : link[a[2]].at = "used"
  BY <1>1 DEF Init
<1>5. \A k \in Tokens : link[k].at # "none" => link[k].user # None
  BY <1>1 DEF Init
<1>6. writes \in Seq(Write)
  BY DEF Init
<1> QED BY <1>1, <1>2, <1>3, <1>4, <1>5, <1>6
        DEF Init, TypeInv, TypeOK, LinksKnown, UpdatesKnown, TurnsKnown, Sound


\* A request of the settings page keeps the types, committed or not.
LEMMA WebTypes ==
  ASSUME TypeInv,
         \/ \E u \in Users, k \in Tokens : CreateLink(u, k)
         \/ \E u \in Users : Disconnect(u)
         \/ WebCommit \/ WebRollback
  PROVE  TypeInv'
<1> USE DEF TypeInv, TypeOK
<1>1. ASSUME NEW u \in Users, NEW k \in Tokens, CreateLink(u, k) PROVE TypeInv'
  <2>1. web' \in Request
    BY <1>1 DEF CreateLink, Request
  <2>2. LinksKnown'
    BY <1>1 DEF CreateLink, LinksKnown
  <2>3. UpdatesKnown' /\ TurnsKnown'
    BY <1>1 DEF CreateLink, queue, UpdatesKnown, TurnsKnown, Sound
  <2> QED BY <1>1, <2>1, <2>2, <2>3 DEF CreateLink, queue
<1>2. ASSUME NEW u \in Users, Disconnect(u) PROVE TypeInv'
  <2>1. web' \in Request
    BY <1>2 DEF Disconnect, Request, AccountsFor
  <2>2. LinksKnown'
    BY <1>2 DEF Disconnect, LinksKnown
  <2>3. UpdatesKnown' /\ TurnsKnown'
    BY <1>2 DEF Disconnect, queue, UpdatesKnown, TurnsKnown, Sound
  <2> QED BY <1>2, <2>1, <2>2, <2>3 DEF Disconnect, queue
<1>3. CASE WebCommit
  <2>1. /\ web \in Request /\ link \in [Tokens -> LinkToken]
        /\ \A k \in Tokens : link'[k] = IF k = web.mints THEN [user |-> web.user, at |-> "live"]
                  ELSE IF k \in web.discards THEN [link[k] EXCEPT !.at = "expired"] ELSE link[k]
    BY <1>3 DEF WebCommit
  <2>2. link' \in [Tokens -> LinkToken]
    BY <1>3, <2>1 DEF WebCommit, Request, LinkToken
  <2>3. \A k \in Tokens : link'[k].at # "none" => link'[k].user # None
    BY <1>3, <2>1 DEF WebCommit, Request, LinkToken, LinksKnown
  <2>4. ASSUME NEW k \in Tokens, link[k].at # "none" PROVE link'[k].at # "none"
    <3>1. link[k] \in LinkToken /\ [link[k] EXCEPT !.at = "expired"].at = "expired"
      BY <2>1 DEF LinkToken
    <3>2. CASE k = web.mints
      <4>1. link'[k] = [user |-> web.user, at |-> "live"]
        BY <2>1, <3>2
      <4>2. link'[k].at = "live"
        BY <4>1
      <4> QED BY <4>2
    <3>3. CASE k # web.mints /\ k \in web.discards
      BY <2>1, <3>1, <3>3
    <3>4. CASE k # web.mints /\ k \notin web.discards
      BY <2>1, <2>4, <3>4
    <3> QED BY <3>2, <3>3, <3>4
  <2>5. LinksKnown'
    BY <1>3, <2>3, <2>4 DEF WebCommit, LinksKnown, Account
  <2>6. UpdatesKnown'
    BY <1>3 DEF WebCommit, queue, UpdatesKnown
  <2>7. TurnsKnown'
    <3> SUFFICES ASSUME NEW w \in Workers PROVE Sound(turn[w])'
      BY DEF TurnsKnown
    <3>1. Sound(turn[w]) /\ turn'[w] = turn[w] /\ sent' = sent
      BY <1>3 DEF WebCommit, TurnsKnown
    <3>2. turn[w] # Idle => turn[w] \in Turn /\ sent[turn[w].upd] \in Update
      BY <3>1 DEF Sound, Turn
    <3>3. turn[w] # Idle /\ turn[w].usable => sent[turn[w].upd].ref \in Tokens
      BY <3>1, <3>2 DEF Sound, UpdatesKnown, Turn
    <3>4. turn[w] # Idle /\ turn[w].plan.row \in Account => turn[w].plan.row[2] \in Tokens
      BY DEF Account
    <3> QED BY <2>4, <3>1, <3>2, <3>3, <3>4 DEF Sound
  <2> QED BY <1>3, <2>2, <2>5, <2>6, <2>7 DEF WebCommit, queue
<1>4. CASE WebRollback
  BY <1>4 DEF WebRollback, Fault, queue, LinksKnown, UpdatesKnown, TurnsKnown, Sound
<1> QED BY <1>1, <1>2, <1>3, <1>4

\* So does the passing of time.
LEMMA ExpireTypes == TypeInv /\ Expire => TypeInv'
<1> SUFFICES ASSUME TypeInv, Expire PROVE TypeInv'
  OBVIOUS
<1> USE DEF TypeInv, TypeOK
<1>1. /\ link' \in [Tokens -> LinkToken] /\ offer' \in [Offers -> Offer]
      /\ \A k \in Tokens : /\ link'[k].user = link[k].user
                           /\ link'[k].at = "none" <=> link[k].at = "none"
  <2>1. CASE /\ \E k \in Tokens : link[k].at = "live"
                                   /\ link' = [link EXCEPT ![k].at = "expired"]
             /\ UNCHANGED offer
    <3>1. PICK k \in Tokens : link[k].at = "live" /\ link' = [link EXCEPT ![k].at = "expired"]
      BY <2>1
    <3>2. link[k] \in LinkToken
      OBVIOUS
    <3>3. /\ link'[k] \in LinkToken /\ link'[k].user = link[k].user /\ link'[k].at = "expired"
      BY <3>1, <3>2 DEF LinkToken
    <3>4. \A j \in Tokens \ {k} : link'[j] = link[j]
      BY <3>1
    <3>5. link' \in [Tokens -> LinkToken]
      BY <3>1, <3>3, <3>4
    <3> QED BY <2>1, <3>1, <3>3, <3>4, <3>5
  <2>2. CASE /\ \E o \in Offers : offer[o].at = "live"
                                   /\ offer' = [offer EXCEPT ![o].at = "gone"]
             /\ UNCHANGED link
    <3>1. PICK o \in Offers : offer' = [offer EXCEPT ![o].at = "gone"]
      BY <2>2
    <3>2. offer[o] \in Offer
      OBVIOUS
    <3>3. offer'[o] \in Offer
      BY <3>1, <3>2 DEF Offer
    <3> QED BY <2>2, <3>1, <3>3
  <2> QED BY <2>1, <2>2 DEF Expire
<1>2. LinksKnown'
  <2>1. web # None => web \in Request
    OBVIOUS
  <2> QED BY <1>1, <2>1 DEF Expire, LinksKnown, Account, Request
<1>3. UpdatesKnown'
  BY DEF Expire, queue, UpdatesKnown
<1>4. TurnsKnown'
  <2> SUFFICES ASSUME NEW w \in Workers PROVE Sound(turn[w])'
    BY DEF TurnsKnown
  <2>1. Sound(turn[w]) /\ turn'[w] = turn[w] /\ sent' = sent
    BY DEF Expire, TurnsKnown
  <2>2. turn[w] # Idle => turn[w] \in Turn /\ sent[turn[w].upd] \in Update
    BY <2>1 DEF Sound, Turn
  <2>3. turn[w] # Idle /\ turn[w].usable => sent[turn[w].upd].ref \in Tokens
    BY <2>1, <2>2 DEF Sound, UpdatesKnown, Turn
  <2>4. turn[w] # Idle /\ turn[w].plan.row \in Account => turn[w].plan.row[2] \in Tokens
    BY DEF Account
  <2> QED BY <1>1, <2>1, <2>2, <2>3, <2>4 DEF Sound
<1> QED BY <1>1, <1>2, <1>3, <1>4 DEF Expire, queue

\* So do the webhook and a redelivery that is dropped.
LEMMA DeliveryTypes ==
  ASSUME TypeInv, NEW u \in Updates,
         Receive(u) \/ ReceiveAgain(u) \/ \E w \in Workers : Duplicate(w, u)
  PROVE  TypeInv'
<1> USE DEF TypeInv, TypeOK
<1>1. CASE Receive(u)
  <2>1. PICK t \in Chats : \E m \in Messages(t) :
          /\ sent' = [sent EXCEPT ![u] = m]
          /\ spokeFor' = [spokeFor EXCEPT ![u] = SpeaksFor(t)]
    BY <1>1 DEF Receive
  <2>2. PICK m \in Messages(t) : /\ sent' = [sent EXCEPT ![u] = m]
                                 /\ spokeFor' = [spokeFor EXCEPT ![u] = SpeaksFor(t)]
    BY <2>1
  <2>3. Handed \subseteq Tokens
    BY DEF Handed, Request
  <2>4. m \in Update /\ (m.kind = "start" => m.ref \in Tokens) /\ (m.kind = "tap" => m.ref \in Offers)
    <3>1. CASE m \in [kind : {"link", "ask", "disconnect"}, from : {t}, ref : {None}, yes : {FALSE}]
      BY <3>1 DEF Update, Kinds
    <3>2. CASE m \in [kind : {"start"}, from : {t}, ref : Handed, yes : {FALSE}]
      BY <2>3, <3>2 DEF Update, Kinds
    <3>3. CASE m \in [kind : {"tap"}, from : {t}, ref : Offers, yes : BOOLEAN]
      BY <3>3 DEF Update, Kinds
    <3> QED BY <2>2, <3>1, <3>2, <3>3 DEF Messages
  <2>5. SpeaksFor(t) \in SUBSET Users
    BY SpeakersAreUsers
  <2>6. sent[u] = None /\ sent'[u] = m /\ m # None /\ \A v \in Updates \ {u} : sent'[v] = sent[v]
    BY <1>1, <2>2, <2>4 DEF Receive
  <2>7. /\ copies' \in [Updates -> 0..MaxCopies] /\ \A v \in Updates \ {u} : copies'[v] = copies[v]
        /\ faults' \in 0..MaxFaults
        /\ told' \subseteq Updates \X {"saved", "declined", "asked", "told"}
    <3>1. <<u, "told">> \in Updates \X {"saved", "declined", "asked", "told"}
      OBVIOUS
    <3>2. CASE copies' = [copies EXCEPT ![u] = 1] /\ UNCHANGED <<told, faults>>
      BY <3>2
    <3>3. CASE Fault /\ told' = told \cup {<<u, "told">>} /\ UNCHANGED copies
      BY <3>1, <3>3 DEF Fault
    <3> QED BY <1>1, <3>2, <3>3 DEF Receive
  <2>8. UpdatesKnown'
    BY <2>4, <2>6, <2>7 DEF UpdatesKnown
  <2>9. TurnsKnown'
    <3> SUFFICES ASSUME NEW w \in Workers PROVE Sound(turn[w])'
      BY DEF TurnsKnown
    <3>1. Sound(turn[w]) /\ turn'[w] = turn[w] /\ link' = link
      BY <1>1 DEF Receive, TurnsKnown
    <3>2. turn[w] # Idle => sent[turn[w].upd] # None /\ turn[w].upd \in Updates
      BY <3>1 DEF Sound, Turn
    <3> QED BY <2>6, <3>1, <3>2 DEF Sound
  <2>10. LinksKnown'
    BY <1>1 DEF Receive, LinksKnown
  <2> QED BY <1>1, <2>2, <2>4, <2>5, <2>7, <2>8, <2>9, <2>10 DEF Receive
<1>2. CASE ReceiveAgain(u)
  BY <1>2 DEF ReceiveAgain, Fault, LinksKnown, UpdatesKnown, TurnsKnown, Sound
<1>3. ASSUME NEW w \in Workers, Duplicate(w, u) PROVE TypeInv'
  BY <1>3 DEF Duplicate, LinksKnown, UpdatesKnown, TurnsKnown, Sound
<1> QED BY <1>1, <1>2, <1>3

\* A worker that takes an update up knows what it needs.
LEMMA BeginTypes ==
  ASSUME TypeInv, NEW u \in Updates, NEW w \in Workers, Begin(w, u)
  PROVE  TypeInv'
<1> USE DEF TypeInv, TypeOK
<1> DEFINE m == sent[u]
           users == Sender(m)
           user == IF users = {} THEN None ELSE CHOOSE v \in users : TRUE
           known == m.kind = "start" \/ user # None
           t == [at |-> IF ~known THEN "answering" ELSE IF m.kind = "ask" THEN "asking" ELSE "acting",
                 upd |-> u, user |-> user,
                 usable |-> m.kind = "start" /\ link[m.ref].at = "live",
                 row |-> IF m.kind = "start" /\ AccountOf(m.from) # {}
                           THEN CHOOSE a \in AccountOf(m.from) : TRUE ELSE None,
                 offer |-> None, plan |-> Nothing, answer |-> IF known THEN "none" ELSE "told"]
<1>1. m # None /\ m \in Update
  BY DEF Begin, UpdatesKnown
<1>2. user \in Users \cup {None}
  BY SpeakersAreUsers DEF Sender
<1>3. t.row \in Account \cup {None}
  BY DEF AccountOf
<1>4. t.usable => m.kind = "start" /\ link[m.ref].at # "none"
  OBVIOUS
<1>5. Nothing \in Plan
  BY DEF Nothing, Plan
<1>6. t \in Turn
  BY <1>2, <1>3, <1>5 DEF Turn
<1>7. turn' = [turn EXCEPT ![w] = t] /\ UNCHANGED <<bound, link, web, sent>>
  BY DEF Begin
<1>8. turn'[w] = t /\ turn' \in [Workers -> Turn \cup {Idle}]
      /\ \A v \in Workers \ {w} : turn'[v] = turn[v]
  BY <1>6, <1>7
<1>9. known /\ m.kind # "start" => user # None
  OBVIOUS
<1>10. known /\ m.kind = "ask" => user # None
  BY <1>9
<1>11. Sound(t)
  <2>1. t.at = IF ~known THEN "answering" ELSE IF m.kind = "ask" THEN "asking" ELSE "acting"
    OBVIOUS
  <2>2. /\ t.upd = u /\ t.user = user /\ t.offer = None
        /\ t.answer = IF known THEN "none" ELSE "told"
    OBVIOUS
  <2> HIDE DEF t, known
  <2> QED BY <1>1, <1>4, <1>9, <1>10, <2>1, <2>2 DEF Sound
<1> HIDE DEF t
<1>12. TurnsKnown'
  BY <1>7, <1>8, <1>11 DEF TurnsKnown, Sound
<1>13. /\ copies' \in [Updates -> 0..MaxCopies] /\ claimed' \subseteq Updates
       /\ loose' \subseteq Updates /\ faults' \in 0..MaxFaults
       /\ \A v \in Updates : copies'[v] > 0 => copies[v] > 0
  BY DEF Begin, Claim, Fault
<1>14. LinksKnown' /\ UpdatesKnown'
  BY <1>7, <1>13 DEF LinksKnown, UpdatesKnown
<1> QED BY <1>8, <1>12, <1>13, <1>14 DEF Begin

\* A step of a turn keeps the types when it leaves a sound turn and the rest alone.
LEMMA TurnTypes ==
  ASSUME TypeInv, NEW w \in Workers, NEW t \in Turn \cup {Idle}, Sound(t),
         turn' = [turn EXCEPT ![w] = t],
         offer' \in [Offers -> Offer], faults' \in 0..MaxFaults,
         UNCHANGED <<bound, link, web, shown, sent, copies, tries, claimed, writes, jobs, told,
                     loose, spokeFor>>
  PROVE  TypeInv'
<1>1. turn' \in [Workers -> Turn \cup {Idle}] /\ TurnsKnown'
  BY DEF TypeInv, TypeOK, TurnsKnown, Sound
<1> QED BY <1>1 DEF TypeInv, TypeOK, LinksKnown, UpdatesKnown

\* A turn that has something to say is sound.
LEMMA SayTypes ==
  ASSUME TypeInv, NEW w \in Workers, turn[w] # Idle,
         NEW answer \in {"declined", "asked", "told"},
         NEW o \in Offers \cup {None}, answer = "asked" => o # None
  PROVE  LET t == [turn[w] EXCEPT !.at = "answering", !.answer = answer, !.offer = o,
                                  !.user = None, !.usable = FALSE, !.row = None]
         IN t \in Turn /\ Sound(t)
<1> DEFINE t == [turn[w] EXCEPT !.at = "answering", !.answer = answer, !.offer = o,
                                !.user = None, !.usable = FALSE, !.row = None]
<1>1. turn[w] \in Turn /\ sent[turn[w].upd] # None
  BY DEF TypeInv, TypeOK, TurnsKnown, Sound
<1>2. t \in Turn
  BY <1>1 DEF Turn
<1>3. /\ t.at = "answering" /\ t.usable = FALSE /\ t.upd = turn[w].upd
      /\ t.answer = answer /\ t.offer = o
  BY <1>1 DEF Turn
<1> HIDE DEF t
<1>4. Sound(t)
  BY <1>1, <1>3 DEF Sound
<1> QED BY <1>2, <1>4 DEF t

\* So is a turn whose transaction has been flushed, of a plan with all it needs.
LEMMA FlushTypes ==
  ASSUME TypeInv, NEW w \in Workers, turn[w] # Idle, NEW plan \in Plan,
         NEW answer \in {"saved", "told"},
         plan.write \in {"save", "delete"} => turn[w].user # None,
         plan.write \in {"bind", "refresh", "burn"} =>
           plan.row \in Account /\ link[plan.row[2]].at # "none"
  PROVE  LET t == [turn[w] EXCEPT !.at = "flushed", !.plan = plan, !.answer = answer,
                                  !.usable = FALSE, !.row = None]
         IN t \in Turn /\ Sound(t)
<1> DEFINE t == [turn[w] EXCEPT !.at = "flushed", !.plan = plan, !.answer = answer,
                                !.usable = FALSE, !.row = None]
<1>1. turn[w] \in Turn /\ sent[turn[w].upd] # None
  BY DEF TypeInv, TypeOK, TurnsKnown, Sound
<1>2. t \in Turn
  BY <1>1 DEF Turn
<1>3. /\ t.at = "flushed" /\ t.usable = FALSE /\ t.upd = turn[w].upd
      /\ t.plan = plan /\ t.user = turn[w].user /\ t.answer = answer
  BY <1>1 DEF Turn
<1> HIDE DEF t
<1>4. Sound(t)
  BY <1>1, <1>3 DEF Sound
<1> QED BY <1>2, <1>4 DEF t

\* What a worker does before its transaction is flushed, or to flush it.
TurnStep(w) ==
  Refuse(w) \/ Capture(w) \/ Ask(w) \/ Spend(w) \/ Act(w) \/ Leave(w) \/ Redeem(w)

\* Where there is something to do there is a turn, and a message behind it.
LEMMA AtWork ==
  ASSUME TypeInv, NEW w \in Workers,
         turn[w].at \in {"acting", "asking", "spent", "flushed", "committed", "answering"}
  PROVE  turn[w] # Idle /\ turn[w] \in Turn /\ Sound(turn[w]) /\ Message(w) \in Update
         /\ Message(w) # None
<1>1. turn[w] # Idle
  BY DEF Idle
<1> QED BY <1>1 DEF TypeInv, TypeOK, TurnsKnown, Sound, Message, Turn

\* Saying something keeps the types.
LEMMA SaidTypes ==
  ASSUME TypeInv, NEW w \in Workers, turn[w] # Idle,
         NEW answer \in {"declined", "asked", "told"},
         NEW o \in Offers \cup {None}, answer = "asked" => o # None, Say(w, answer, o),
         offer' \in [Offers -> Offer], faults' \in 0..MaxFaults,
         UNCHANGED <<bound, link, web, shown, sent, copies, tries, claimed, writes, jobs, told,
                     loose, spokeFor>>
  PROVE  TypeInv'
<1> DEFINE t == [turn[w] EXCEPT !.at = "answering", !.answer = answer, !.offer = o,
                                !.user = None, !.usable = FALSE, !.row = None]
<1>1. t \in Turn /\ Sound(t)
  BY SayTypes
<1>2. turn' = [turn EXCEPT ![w] = t]
  BY DEF Say
<1> HIDE DEF t
<1> QED BY <1>1, <1>2, TurnTypes

\* So does flushing.
LEMMA FlushedTypes ==
  ASSUME TypeInv, NEW w \in Workers, turn[w] # Idle, NEW plan \in Plan,
         NEW answer \in {"saved", "told"},
         plan.write \in {"save", "delete"} => turn[w].user # None,
         plan.write \in {"bind", "refresh", "burn"} =>
           plan.row \in Account /\ link[plan.row[2]].at # "none",
         Flush(w, plan, answer), OnlyTurn
  PROVE  TypeInv'
<1> DEFINE t == [turn[w] EXCEPT !.at = "flushed", !.plan = plan, !.answer = answer,
                                !.usable = FALSE, !.row = None]
<1>1. t \in Turn /\ Sound(t)
  BY FlushTypes
<1>2. turn' = [turn EXCEPT ![w] = t]
  BY DEF Flush
<1>3. offer' \in [Offers -> Offer] /\ faults' \in 0..MaxFaults
  BY DEF OnlyTurn, TypeInv, TypeOK
<1> HIDE DEF t
<1> QED BY <1>1, <1>2, <1>3, TurnTypes DEF OnlyTurn, queue

\* Every step of a turn before its commit keeps the types.
LEMMA TurnStepTypes ==
  ASSUME TypeInv, NEW w \in Workers, TurnStep(w)
  PROVE  TypeInv'
<1>1. /\ turn[w].at \in {"acting", "asking", "spent"}
      /\ turn[w] # Idle /\ turn[w] \in Turn /\ Sound(turn[w]) /\ Message(w) \in Update
  BY AtWork DEF TurnStep, Refuse, Capture, Ask, Spend, Act, Leave, Redeem, Acting, At
<1>2. /\ offer \in [Offers -> Offer] /\ faults \in 0..MaxFaults /\ bound \subseteq Account
      /\ link \in [Tokens -> LinkToken]
      /\ (Message(w).kind = "tap" => Message(w).ref \in Offers)
      /\ (Message(w).kind = "start" => Message(w).ref \in Tokens)
  BY <1>1, AtWork DEF TypeInv, TypeOK, UpdatesKnown, Message, Turn
<1>3. CASE Refuse(w)
  BY <1>1, <1>2, <1>3, SaidTypes DEF Refuse, AnswerWith, OnlyTurn, queue
<1>4. CASE Capture(w)
  <2>1. [Nothing EXCEPT !.write = "save"] \in Plan /\ [Nothing EXCEPT !.write = "save"].write = "save"
    BY DEF Nothing, Plan
  <2>2. turn[w].user # None
    BY <1>1, <1>4 DEF Capture, Acting, At, Sound, Message
  <2> QED BY <1>1, <1>4, <2>1, <2>2, FlushedTypes DEF Capture
<1>5. CASE Ask(w)
  <2>1. CASE AnswerWith(w, "told") /\ UNCHANGED offer
    BY <1>1, <1>2, <1>5, <2>1, SaidTypes DEF Ask, AnswerWith, queue
  <2>2. ASSUME NEW o \in Offers, NEW act \in Acts,
               offer' = [offer EXCEPT ![o] = [user |-> turn[w].user, act |-> act, at |-> "live"]],
               Say(w, "asked", o)
        PROVE  TypeInv'
    <3>1. offer' \in [Offers -> Offer]
      BY <1>1, <1>2, <2>2 DEF Offer, Turn
    <3> QED BY <1>1, <1>2, <1>5, <2>2, <3>1, SaidTypes DEF Ask, queue
  <2> QED BY <1>5, <2>1, <2>2 DEF Ask
<1>6. CASE Spend(w)
  <2> DEFINE o == Message(w).ref
  <2>1. o \in Offers /\ offer[o] \in Offer
    BY <1>2, <1>6 DEF Spend, Acting
  <2>2. offer' \in [Offers -> Offer] /\ faults' \in 0..MaxFaults
    <3>1. [offer[o] EXCEPT !.at = "gone"] \in Offer
      BY <2>1 DEF Offer
    <3> QED BY <1>2, <1>6, <2>1, <3>1 DEF Spend, Take, Fault
  <2>3. CASE AnswerWith(w, "told")
    BY <1>1, <1>6, <2>2, <2>3, SaidTypes DEF Spend, AnswerWith, queue
  <2>4. CASE AnswerWith(w, "declined")
    BY <1>1, <1>6, <2>2, <2>4, SaidTypes DEF Spend, AnswerWith, queue
  <2>5. CASE turn' = [turn EXCEPT ![w].at = "spent", ![w].offer = o]
    <3> DEFINE t == [turn[w] EXCEPT !.at = "spent", !.offer = o]
    <3>1. t \in Turn
      BY <1>1, <2>1 DEF Turn
    <3>2. /\ t.at = "spent" /\ t.offer = o /\ t.upd = turn[w].upd /\ t.user = turn[w].user
          /\ t.usable = turn[w].usable
      BY <1>1 DEF Turn
    <3>3. turn[w].at = "acting" /\ Message(w).kind = "tap"
      BY <1>6 DEF Spend, Acting, At
    <3>4. turn' = [turn EXCEPT ![w] = t]
      BY <1>1, <2>5
    <3> HIDE DEF t
    <3>5. Sound(t)
      BY <1>1, <2>1, <3>2, <3>3 DEF Sound, Message
    <3> QED BY <1>6, <2>2, <3>1, <3>4, <3>5, TurnTypes DEF Spend, queue
  <2> QED BY <1>6, <2>3, <2>4, <2>5 DEF Spend
<1>7. CASE Act(w)
  <2> DEFINE act == offer[turn[w].offer].act
             users == SpeaksFor(Message(w).from)
  <2>1. turn[w].user # None /\ turn[w].offer # None
    BY <1>1, <1>7 DEF Act, At, Sound
  <2>2. CASE Flush(w, [Nothing EXCEPT !.write = "save"], "saved")
    <3>1. [Nothing EXCEPT !.write = "save"] \in Plan /\ [Nothing EXCEPT !.write = "save"].write = "save"
      BY DEF Nothing, Plan
    <3> QED BY <1>1, <1>7, <2>1, <2>2, <3>1, FlushedTypes DEF Act
  <2>3. CASE Flush(w, [Nothing EXCEPT !.write = "delete"], "told")
    <3>1. [Nothing EXCEPT !.write = "delete"] \in Plan /\ [Nothing EXCEPT !.write = "delete"].write = "delete"
      BY DEF Nothing, Plan
    <3> QED BY <1>1, <1>7, <2>1, <2>3, <3>1, FlushedTypes DEF Act
  <2>4. CASE AnswerWith(w, "told")
    BY <1>1, <1>2, <1>7, <2>4, SaidTypes DEF Act, AnswerWith, OnlyTurn, queue
  <2>5. CASE turn' = [turn EXCEPT
               ![w].at = IF users = {} THEN "answering" ELSE "asking",
               ![w].answer = IF users = {} THEN "told" ELSE "none",
               ![w].user = IF users = {} THEN None ELSE CHOOSE v \in users : TRUE]
    <3> DEFINE user == IF users = {} THEN None ELSE CHOOSE v \in users : TRUE
               t == [turn[w] EXCEPT !.at = IF users = {} THEN "answering" ELSE "asking",
                                    !.answer = IF users = {} THEN "told" ELSE "none",
                                    !.user = user]
    <3>1. users \subseteq Users
      BY SpeakersAreUsers
    <3>2. user \in Users \cup {None} /\ (users # {} => user # None)
      BY <3>1
    <3>3. turn' = [turn EXCEPT ![w] = t]
      BY <1>1, <2>5
    <3> HIDE DEF users, user
    <3>4. t \in Turn
      BY <1>1, <3>2 DEF Turn
    <3>5. /\ t.at = (IF users = {} THEN "answering" ELSE "asking")
          /\ t.answer = (IF users = {} THEN "told" ELSE "none")
          /\ t.user = user /\ t.upd = turn[w].upd /\ t.usable = turn[w].usable
      BY <1>1 DEF Turn
    <3> HIDE DEF t
    <3>6. Sound(t)
      BY <1>1, <3>2, <3>5 DEF Sound
    <3> QED BY <1>2, <1>7, <3>3, <3>4, <3>6, TurnTypes DEF Act, OnlyTurn, queue
  <2> QED BY <1>7, <2>2, <2>3, <2>4, <2>5 DEF Act
<1>8. CASE Leave(w)
  <2>1. CASE AnswerWith(w, "told")
    BY <1>1, <1>2, <1>8, <2>1, SaidTypes DEF Leave, AnswerWith, OnlyTurn, queue
  <2>2. ASSUME NEW a \in AccountsFor(turn[w].user),
               Flush(w, [Nothing EXCEPT !.write = "unbind", !.drops = a], "told")
        PROVE  TypeInv'
    <3> DEFINE plan == [Nothing EXCEPT !.write = "unbind", !.drops = a]
    <3>1. a \in Account
      BY <1>2 DEF AccountsFor
    <3>2. plan \in Plan /\ plan.write = "unbind"
      BY <3>1 DEF Nothing, Plan
    <3> HIDE DEF plan
    <3> QED BY <1>1, <1>8, <2>2, <3>2, FlushedTypes DEF Leave, plan
  <2> QED BY <1>8, <2>1, <2>2 DEF Leave
<1>9. CASE Redeem(w)
  <2> DEFINE k == Message(w).ref
             t == Message(w).from
             user == link[k].user
             binding == [Nothing EXCEPT !.row = <<t, k>>]
  <2>1. CASE AnswerWith(w, "told")
    BY <1>1, <1>2, <1>9, <2>1, SaidTypes DEF Redeem, AnswerWith, OnlyTurn, queue
  <2>2. CASE turn[w].usable
    <3>1. k \in Tokens /\ link[k].at # "none" /\ <<t, k>> \in Account
      BY <1>1, <1>2, <2>2 DEF Sound, Message, Update, Account
    <3>2. ASSUME NEW plan, plan.row = <<t, k>>, plan \in Plan, Flush(w, plan, "told"),
                 plan.write \in {"burn", "refresh", "bind"}
          PROVE  TypeInv'
      <4>1. plan.row \in Account /\ link[plan.row[2]].at # "none"
        BY <3>1, <3>2
      <4> QED BY <1>1, <1>9, <3>2, <4>1, FlushedTypes DEF Redeem
    <3>3. ASSUME NEW write \in {"burn", "refresh"}, Flush(w, [binding EXCEPT !.write = write], "told")
          PROVE  TypeInv'
      <4> DEFINE plan == [binding EXCEPT !.write = write]
      <4>1. plan \in Plan /\ plan.row = <<t, k>> /\ plan.write = write
        BY <3>1 DEF Nothing, Plan
      <4> HIDE DEF plan
      <4> QED BY <3>2, <3>3, <4>1 DEF plan
    <3>4. ASSUME NEW prior \in IF AccountsFor(user) = {} THEN {None} ELSE AccountsFor(user),
                 Flush(w, [binding EXCEPT !.write = "bind", !.drops = prior], "told")
          PROVE  TypeInv'
      <4> DEFINE plan == [binding EXCEPT !.write = "bind", !.drops = prior]
      <4>1. prior \in Account \cup {None}
        BY <1>2 DEF AccountsFor
      <4>2. plan \in Plan /\ plan.row = <<t, k>> /\ plan.write = "bind"
        BY <3>1, <4>1 DEF Nothing, Plan
      <4> HIDE DEF plan
      <4> QED BY <3>2, <3>4, <4>2 DEF plan
    <3> QED BY <1>9, <2>1, <3>3, <3>4 DEF Redeem
  <2> QED BY <1>9, <2>1, <2>2 DEF Redeem
<1> QED BY <1>3, <1>4, <1>5, <1>6, <1>7, <1>8, <1>9 DEF TurnStep

\* What a transaction writes is the work of somebody.
LEMMA WrittenTypes ==
  ASSUME TypeInv, NEW w \in Workers, At(w, "flushed"), turn[w].plan.write \in {"save", "delete"}
  PROVE  Written(w) \in Write
<1>1. turn[w] \in Turn /\ turn[w].user \in Users
  BY AtWork DEF At, Sound, Turn
<1> QED BY <1>1 DEF Written, Write, Turn

\* A commit keeps the types.
LEMMA CommitTypes ==
  ASSUME TypeInv, NEW w \in Workers, Commit(w)
  PROVE  TypeInv'
<1> DEFINE plan == turn[w].plan
           bound2 == (bound \ {plan.drops}) \cup (IF plan.write = "bind" THEN {plan.row} ELSE {})
           t == [turn[w] EXCEPT !.at = IF plan.write = "save" THEN "committed" ELSE "answering",
                                !.plan = Nothing, !.offer = None, !.user = None]
<1>1. /\ turn[w] # Idle /\ turn[w] \in Turn /\ Sound(turn[w]) /\ Message(w) \in Update
      /\ turn[w].at = "flushed"
  BY AtWork DEF Commit, At
<1>2. plan \in Plan
  BY <1>1 DEF Turn
<1>3. plan.write \in {"bind", "refresh", "burn"} =>
        plan.row \in Account /\ plan.row[2] \in Tokens /\ link[plan.row[2]].at # "none"
  BY <1>1 DEF Sound, Account
<1>4. writes' \in Seq(Write)
  BY WrittenTypes DEF Commit, TypeInv, TypeOK
<1>5. bound2 \subseteq Account /\ \A a \in bound2 : a[2] \in Tokens /\ link[a[2]].at # "none"
  BY <1>3 DEF TypeInv, TypeOK, LinksKnown, Account
<1>6. /\ link' \in [Tokens -> LinkToken]
      /\ \A k \in Tokens : /\ link'[k].user = link[k].user
                           /\ link'[k].at = "none" <=> link[k].at = "none"
  <2>1. CASE plan.write \in {"bind", "refresh", "burn"}
    <3> DEFINE k == plan.row[2]
    <3>1. link' = [link EXCEPT ![k].at = "used"] /\ k \in Tokens /\ link[k].at # "none"
      BY <1>3, <2>1 DEF Commit
    <3>2. link[k] \in LinkToken /\ link \in [Tokens -> LinkToken]
      BY <3>1 DEF TypeInv, TypeOK
    <3>3. link'[k] \in LinkToken /\ link'[k].user = link[k].user /\ link'[k].at = "used"
      BY <3>1, <3>2 DEF LinkToken
    <3>4. \A j \in Tokens \ {k} : link'[j] = link[j]
      BY <3>1, <3>2
    <3>5. link' \in [Tokens -> LinkToken]
      BY <3>1, <3>2, <3>3, <3>4
    <3> QED BY <3>1, <3>3, <3>4, <3>5
  <2>2. CASE plan.write \notin {"bind", "refresh", "burn"}
    BY <2>2 DEF Commit, TypeInv, TypeOK
  <2> QED BY <2>1, <2>2
<1>7. LinksKnown'
  <2>1. web # None => web \in Request /\ web' = web
    BY DEF Commit, TypeInv, TypeOK
  <2>2. bound' = bound2 /\ web' = web
    BY DEF Commit
  <2>3. \A k \in Tokens : link[k].at # "none" => link[k].user # None
    BY DEF TypeInv, LinksKnown
  <2>4. web # None => /\ web.mints # None => link[web.mints].at = "none"
                      /\ \A k \in web.discards : link[k].at # "none"
    BY DEF TypeInv, LinksKnown
  <2> HIDE DEF bound2
  <2> QED BY <1>5, <1>6, <2>1, <2>2, <2>3, <2>4 DEF LinksKnown, Request
<1>8. spokeFor' \in [Updates -> SUBSET Users]
  <2>1. \A a \in bound2 : UserOf(a) \in Users
    BY <1>5 DEF TypeInv, TypeOK, LinksKnown, UserOf, LinkToken
  <2>2. spokeFor' = [u \in Updates |->
                      IF sent[u] = None THEN {}
                      ELSE spokeFor[u] \cup {UserOf(a) : a \in {b \in bound2 : b[1] = sent[u].from}}]
    BY DEF Commit
  <2>3. \A u \in Updates : spokeFor[u] \subseteq Users
    BY DEF TypeInv, TypeOK
  <2> HIDE DEF bound2
  <2> QED BY <2>1, <2>2, <2>3
<1>9. turn' = [turn EXCEPT ![w] = t] /\ sent' = sent
  BY DEF Commit
<1>10. t \in Turn
  BY <1>1 DEF Turn, Nothing, Plan
<1>11. /\ t.at \in {"committed", "answering"} /\ t.upd = turn[w].upd
       /\ t.usable = turn[w].usable /\ t.answer = turn[w].answer
  BY <1>1 DEF Turn
<1> HIDE DEF t
<1>12. turn' \in [Workers -> Turn \cup {Idle}]
  BY <1>9, <1>10 DEF TypeInv, TypeOK
<1>13. TurnsKnown'
  <2> SUFFICES ASSUME NEW v \in Workers PROVE Sound(turn[v])'
    BY DEF TurnsKnown
  <2>1. CASE v # w
    <3>1. Sound(turn[v]) /\ turn'[v] = turn[v]
      BY <1>9, <2>1 DEF TypeInv, TypeOK, TurnsKnown
    <3>2. turn[v] # Idle => turn[v] \in Turn /\ sent[turn[v].upd] \in Update
      BY <3>1 DEF TypeInv, TypeOK, Sound, Turn
    <3>3. turn[v] # Idle /\ turn[v].usable => sent[turn[v].upd].ref \in Tokens
      BY <3>1, <3>2 DEF TypeInv, Sound, UpdatesKnown, Turn
    <3>4. turn[v].plan.row \in Account => turn[v].plan.row[2] \in Tokens
      BY DEF Account
    <3> QED BY <1>6, <1>9, <3>1, <3>2, <3>3, <3>4 DEF Sound
  <2>2. CASE v = w
    <3>1. turn'[v] = t
      BY <1>9, <2>2 DEF TypeInv, TypeOK
    <3>2. turn[w].usable => sent[turn[w].upd].ref \in Tokens
      BY <1>1 DEF TypeInv, Sound, UpdatesKnown, Turn
    <3> QED BY <1>1, <1>6, <1>9, <1>11, <3>1, <3>2 DEF Sound
  <2> QED BY <2>1, <2>2
<1>14. UpdatesKnown'
  BY DEF Commit, queue, UpdatesKnown, TypeInv
<1>15. bound' \subseteq Account
  BY <1>5 DEF Commit
<1> QED BY <1>4, <1>6, <1>7, <1>8, <1>12, <1>13, <1>14, <1>15 DEF Commit, queue, TypeInv, TypeOK

\* What a worker does after its commit, or instead of it.
EndStep(w) == Enqueue(w) \/ Answer(w) \/ Fail(w) \/ Conflict(w) \/ Kill(w)

\* It keeps the types.
LEMMA EndTypes ==
  ASSUME TypeInv, NEW w \in Workers, EndStep(w)
  PROVE  TypeInv'
<1>1. turn[w] # Idle /\ turn[w] \in Turn /\ Sound(turn[w]) /\ turn[w].upd \in Updates
      /\ sent[turn[w].upd] # None
  <2>1. turn[w] # Idle
    BY AtWork DEF EndStep, Enqueue, Answer, Fail, Conflict, Kill, Acting, At
  <2> QED BY <2>1 DEF TypeInv, TypeOK, TurnsKnown, Sound, Turn
<1>2. UNCHANGED <<bound, link, web, offer, sent, spokeFor, claimed, writes, loose>>
  BY DEF EndStep, Enqueue, Answer, Fail, Conflict, Kill, RollBack, queue
<1>3. turn' \in [Workers -> Turn \cup {Idle}] /\ TurnsKnown'
  <2>1. CASE turn' = [turn EXCEPT ![w] = Idle]
    BY <1>2, <2>1 DEF TypeInv, TypeOK, TurnsKnown, Sound
  <2>2. CASE Enqueue(w)
    <3> DEFINE t == [turn[w] EXCEPT !.at = "answering"]
    <3>1. /\ t \in Turn /\ t.at = "answering" /\ t.upd = turn[w].upd
          /\ t.usable = turn[w].usable /\ t.answer = turn[w].answer
      BY <1>1 DEF Turn
    <3>2. turn' = [turn EXCEPT ![w] = t]
      BY <2>2 DEF Enqueue
    <3>3. turn[w].at = "committed"
      BY <2>2 DEF Enqueue, At
    <3> HIDE DEF t
    <3>4. Sound(t)
      BY <1>1, <3>1, <3>3 DEF Sound
    <3> QED BY <1>2, <3>1, <3>2, <3>4 DEF TypeInv, TypeOK, TurnsKnown, Sound
  <2> QED BY <2>1, <2>2 DEF EndStep, Answer, Fail, Conflict, Kill, RollBack
<1>4. /\ copies' \in [Updates -> 0..MaxCopies] /\ tries' \in [Updates -> 0..MaxRetries]
      /\ faults' \in 0..MaxFaults
      /\ \A u \in Updates \ {turn[w].upd} : copies'[u] = copies[u]
  <2> USE <1>1 DEF TypeInv, TypeOK
  <2>1. CASE Enqueue(w)
    BY <2>1 DEF Enqueue, Fault, queue
  <2>2. CASE Answer(w)
    BY <2>2 DEF Answer, queue
  <2>3. ASSUME RollBack(w)
        PROVE /\ copies' \in [Updates -> 0..MaxCopies] /\ tries' \in [Updates -> 0..MaxRetries]
              /\ \A u \in Updates \ {turn[w].upd} : copies'[u] = copies[u]
    <3> DEFINE u == turn[w].upd
    <3>1. CASE /\ tries[u] < MaxRetries /\ copies[u] < MaxCopies
               /\ tries' = [tries EXCEPT ![u] = @ + 1]
               /\ copies' = [copies EXCEPT ![u] = @ + 1]
      <4>1. copies[u] \in 0..MaxCopies /\ tries[u] \in 0..MaxRetries
        OBVIOUS
      <4>2. copies[u] + 1 \in 0..MaxCopies /\ tries[u] + 1 \in 0..MaxRetries
        BY <3>1, <4>1
      <4> QED BY <3>1, <4>2
    <3>2. CASE UNCHANGED <<tries, copies>>
      BY <3>2
    <3> QED BY <2>3, <3>1, <3>2 DEF RollBack
  <2>4. CASE Fail(w) \/ Conflict(w)
    BY <2>3, <2>4 DEF Fail, Conflict, Fault
  <2>5. CASE Kill(w)
    BY <2>5 DEF Kill, Fault
  <2> QED BY <2>1, <2>2, <2>4, <2>5 DEF EndStep
<1>5. jobs' \subseteq Updates /\ shown' \subseteq Chats \X Offers
      /\ told' \subseteq Updates \X {"saved", "declined", "asked", "told"}
  <2> USE <1>1 DEF TypeInv, TypeOK
  <2>1. CASE Enqueue(w)
    BY <2>1 DEF Enqueue
  <2>2. CASE Answer(w)
    <3>1. turn[w].answer \in {"saved", "declined", "asked", "told"}
      BY <2>2 DEF Answer, At, Sound, Turn
    <3>2. turn[w].answer = "asked" => turn[w].offer \in Offers
      BY <2>2 DEF Answer, At, Sound, Turn
    <3>3. Message(w).from \in Chats
      BY DEF Message, Update
    <3>4. <<turn[w].upd, turn[w].answer>> \in Updates \X {"saved", "declined", "asked", "told"}
      BY <3>1
    <3>5. turn[w].answer = "asked" => <<Message(w).from, turn[w].offer>> \in Chats \X Offers
      BY <3>2, <3>3
    <3>6. /\ told' = told \cup {<<turn[w].upd, turn[w].answer>>}
          /\ shown' = (IF turn[w].answer = "asked" THEN shown \cup {<<Message(w).from, turn[w].offer>>}
                                                   ELSE shown)
          /\ jobs' = jobs
      BY <2>2 DEF Answer
    <3> QED BY <3>4, <3>5, <3>6
  <2>3. CASE Fail(w) \/ Conflict(w) \/ Kill(w)
    BY <2>3 DEF Fail, Conflict, Kill, RollBack
  <2> QED BY <2>1, <2>2, <2>3 DEF EndStep
<1>6. LinksKnown' /\ UpdatesKnown'
  BY <1>1, <1>2, <1>4 DEF TypeInv, LinksKnown, UpdatesKnown
<1> QED BY <1>2, <1>3, <1>4, <1>5, <1>6 DEF TypeInv, TypeOK

\* The step of a worker that has taken an update up.
WorkerStep(w) == TurnStep(w) \/ Commit(w) \/ EndStep(w)

\* What nobody's turn is about.
Surroundings ==
  \/ \E u \in Users, k \in Tokens : CreateLink(u, k)
  \/ \E u \in Users : Disconnect(u)
  \/ WebCommit \/ WebRollback \/ Expire
  \/ \E u \in Updates : Receive(u) \/ ReceiveAgain(u) \/ \E w \in Workers : Duplicate(w, u)

\* Every step is one of the four.
LEMMA Steps ==
  Next => \/ Surroundings
          \/ \E w \in Workers, u \in Updates : Begin(w, u)
          \/ \E w \in Workers : WorkerStep(w)
  BY DEF Next, Surroundings, WorkerStep, TurnStep, EndStep

\* The surroundings keep the types.
LEMMA SurroundingsTypes == TypeInv /\ Surroundings => TypeInv'
  BY WebTypes, ExpireTypes, DeliveryTypes DEF Surroundings

\* Every step keeps the types.
LEMMA TypeNext == TypeInv /\ [Next]_vars => TypeInv'
<1> SUFFICES ASSUME TypeInv, [Next]_vars PROVE TypeInv'
  OBVIOUS
<1>1. CASE Surroundings
  BY <1>1, SurroundingsTypes
<1>2. ASSUME NEW w \in Workers, NEW u \in Updates, Begin(w, u) PROVE TypeInv'
  BY <1>2, BeginTypes
<1>3. ASSUME NEW w \in Workers, WorkerStep(w) PROVE TypeInv'
  BY <1>3, TurnStepTypes, CommitTypes, EndTypes DEF WorkerStep
<1>4. CASE UNCHANGED vars
  BY <1>4 DEF vars, queue, TypeInv, TypeOK, LinksKnown, UpdatesKnown, TurnsKnown, Sound
<1> QED BY <1>1, <1>2, <1>3, <1>4, Steps

\* The invariant holds in every state.
LEMMA TypeInvariance == Spec => []TypeInv
  BY TypeInit, TypeNext, PTL DEF Spec

\* Every variable keeps its type, whatever is redelivered, retried, killed or refused.
THEOREM TelegramTypeCorrect == Spec => []TypeOK
  BY TypeInvariance, PTL DEF TypeInv

-------------------------------------------------------------------------------
(* What a step may do to a turn                                            *)

\* Where a turn has written nothing yet.
Open == {"acting", "asking", "spent", "flushed"}

\* A worker moves its own turn only, stays with its update, and never comes
\* back from behind its commit.
LEMMA WorkerMoves ==
  ASSUME TypeInv, NEW w \in Workers, WorkerStep(w)
  PROVE  /\ turn[w] # Idle /\ turn[w] \in Turn
         /\ \A v \in Workers \ {w} : turn'[v] = turn[v]
         /\ turn'[w] # Idle => /\ turn'[w].upd = turn[w].upd
                               /\ turn'[w].at \in Open => turn[w].at \in Open \ {"flushed"}
         /\ UNCHANGED <<sent, claimed, loose>>
<1> USE DEF TypeInv, TypeOK
<1>1. turn[w] # Idle /\ turn[w] \in Turn
  <2>1. turn[w] # Idle
    BY AtWork DEF WorkerStep, TurnStep, EndStep, Refuse, Capture, Ask, Spend, Act, Leave, Redeem,
                  Commit, Enqueue, Answer, Fail, Conflict, Kill, Acting, At
  <2> QED BY <2>1
<1>2. CASE TurnStep(w)
  <2>1. turn[w].at \in Open \ {"flushed"}
    BY <1>2 DEF TurnStep, Refuse, Capture, Ask, Spend, Act, Leave, Redeem, Acting, At, Open
  <2>2. \E t : /\ turn' = [turn EXCEPT ![w] = t]
               /\ t.upd = turn[w].upd
    <3>1. ASSUME NEW answer, NEW o, Say(w, answer, o) PROVE \E t :
               turn' = [turn EXCEPT ![w] = t] /\ t.upd = turn[w].upd
      <4> DEFINE t == [turn[w] EXCEPT !.at = "answering", !.answer = answer, !.offer = o,
                                      !.user = None, !.usable = FALSE, !.row = None]
      <4>1. t.upd = turn[w].upd
        BY <1>1 DEF Turn
      <4>2. turn' = [turn EXCEPT ![w] = t]
        BY <3>1 DEF Say
      <4> QED BY <4>1, <4>2
    <3>2. ASSUME NEW plan, NEW answer, Flush(w, plan, answer) PROVE \E t :
               turn' = [turn EXCEPT ![w] = t] /\ t.upd = turn[w].upd
      <4> DEFINE t == [turn[w] EXCEPT !.at = "flushed", !.plan = plan, !.answer = answer,
                                      !.usable = FALSE, !.row = None]
      <4>1. t.upd = turn[w].upd
        BY <1>1 DEF Turn
      <4>2. turn' = [turn EXCEPT ![w] = t]
        BY <3>2 DEF Flush
      <4> QED BY <4>1, <4>2
    <3>3. ASSUME NEW o, turn' = [turn EXCEPT ![w].at = "spent", ![w].offer = o] PROVE \E t :
               turn' = [turn EXCEPT ![w] = t] /\ t.upd = turn[w].upd
      <4> DEFINE t == [turn[w] EXCEPT !.at = "spent", !.offer = o]
      <4>1. t.upd = turn[w].upd
        BY <1>1 DEF Turn
      <4>2. turn' = [turn EXCEPT ![w] = t]
        BY <1>1, <3>3
      <4> QED BY <4>1, <4>2
    <3>4. ASSUME NEW at, NEW answer, NEW user,
                 turn' = [turn EXCEPT ![w].at = at, ![w].answer = answer, ![w].user = user]
          PROVE  \E t : turn' = [turn EXCEPT ![w] = t] /\ t.upd = turn[w].upd
      <4> DEFINE t == [turn[w] EXCEPT !.at = at, !.answer = answer, !.user = user]
      <4>1. t.upd = turn[w].upd
        BY <1>1 DEF Turn
      <4>2. turn' = [turn EXCEPT ![w] = t]
        BY <1>1, <3>4
      <4> QED BY <4>1, <4>2
    <3>5. CASE Refuse(w)
      BY <3>1, <3>5 DEF Refuse, AnswerWith
    <3>6. CASE Capture(w)
      BY <3>2, <3>6 DEF Capture
    <3>7. CASE Ask(w)
      BY <3>1, <3>7 DEF Ask, AnswerWith
    <3>8. CASE Spend(w)
      BY <3>1, <3>3, <3>8 DEF Spend, AnswerWith
    <3>9. CASE Act(w)
      BY <3>1, <3>2, <3>4, <3>9 DEF Act, AnswerWith
    <3>10. CASE Leave(w)
      BY <3>1, <3>2, <3>10 DEF Leave, AnswerWith
    <3>11. CASE Redeem(w)
      BY <3>1, <3>2, <3>11 DEF Redeem, AnswerWith
    <3> QED BY <1>2, <3>5, <3>6, <3>7, <3>8, <3>9, <3>10, <3>11 DEF TurnStep
  <2>3. UNCHANGED <<sent, claimed, loose>>
    BY <1>2 DEF TurnStep, Refuse, Capture, Ask, Spend, Act, Leave, Redeem, OnlyTurn, queue
  <2> QED BY <1>1, <2>1, <2>2, <2>3
<1>3. CASE Commit(w)
  <2> DEFINE t == [turn[w] EXCEPT !.at = IF turn[w].plan.write = "save" THEN "committed" ELSE "answering",
                                !.plan = Nothing, !.offer = None, !.user = None]
  <2>1. turn' = [turn EXCEPT ![w] = t] /\ UNCHANGED <<sent, claimed, loose>>
    BY <1>3 DEF Commit, queue
  <2>2. t.upd = turn[w].upd /\ t.at \in {"committed", "answering"}
    BY <1>1 DEF Turn
  <2> HIDE DEF t
  <2> QED BY <1>1, <2>1, <2>2 DEF Open
<1>4. CASE EndStep(w)
  <2>1. UNCHANGED <<sent, claimed, loose>>
    BY <1>4 DEF EndStep, Enqueue, Answer, Fail, Conflict, Kill, RollBack, queue
  <2>2. CASE turn' = [turn EXCEPT ![w] = Idle]
    BY <1>1, <2>1, <2>2
  <2>3. CASE Enqueue(w)
    <3> DEFINE t == [turn[w] EXCEPT !.at = "answering"]
    <3>1. turn' = [turn EXCEPT ![w] = t]
      BY <2>3 DEF Enqueue
    <3>2. t.upd = turn[w].upd /\ t.at = "answering"
      BY <1>1 DEF Turn
    <3> HIDE DEF t
    <3> QED BY <1>1, <2>1, <3>1, <3>2 DEF Open
  <2> QED BY <1>4, <2>2, <2>3 DEF EndStep, Answer, Fail, Conflict, Kill, RollBack
<1> QED BY <1>2, <1>3, <1>4 DEF WorkerStep

\* Nothing is written but by a commit, at the end of what was written.
LEMMA WritesMove ==
  ASSUME TypeInv, [Next]_vars
  PROVE  \/ UNCHANGED writes
         \/ \E w \in Workers : /\ Commit(w) /\ turn[w].plan.write \in {"save", "delete"}
                               /\ Written(w) \in Write /\ writes' = Append(writes, Written(w))
<1>1. CASE Surroundings
  BY <1>1 DEF Surroundings, CreateLink, Disconnect, WebCommit, WebRollback, Expire, Receive,
              ReceiveAgain, Duplicate
<1>2. ASSUME NEW w \in Workers, NEW u \in Updates, Begin(w, u) PROVE UNCHANGED writes
  BY <1>2 DEF Begin
<1>3. ASSUME NEW w \in Workers, TurnStep(w) PROVE UNCHANGED writes
  BY <1>3 DEF TurnStep, Refuse, Capture, Ask, Spend, Act, Leave, Redeem, OnlyTurn
<1>4. ASSUME NEW w \in Workers, EndStep(w) PROVE UNCHANGED writes
  BY <1>4 DEF EndStep, Enqueue, Answer, Fail, Conflict, Kill, RollBack
<1>5. ASSUME NEW w \in Workers, Commit(w), turn[w].plan.write \in {"save", "delete"}
      PROVE  Written(w) \in Write /\ writes' = Append(writes, Written(w))
  BY <1>5, WrittenTypes DEF Commit
<1>6. ASSUME NEW w \in Workers, Commit(w), turn[w].plan.write \notin {"save", "delete"}
      PROVE  UNCHANGED writes
  BY <1>6 DEF Commit
<1>7. CASE UNCHANGED vars
  BY <1>7 DEF vars
<1> QED BY <1>1, <1>2, <1>3, <1>4, <1>5, <1>6, <1>7, Steps DEF WorkerStep

\* What is appended to the writes comes last, and the others stay.
LEMMA Appended ==
  ASSUME TypeInv, NEW x \in Write, writes' = Append(writes, x)
  PROVE  /\ DOMAIN writes' = DOMAIN writes \cup {Len(writes) + 1}
         /\ Len(writes) + 1 \notin DOMAIN writes
         /\ writes'[Len(writes) + 1] = x
         /\ \A i \in DOMAIN writes : writes'[i] = writes[i] /\ writes[i] \in Write
<1>1. writes \in Seq(Write)
  BY DEF TypeInv, TypeOK
<1> QED BY <1>1

\* A worker that takes an update up changes no other turn.
LEMMA BeginMoves ==
  ASSUME TypeInv, NEW w \in Workers, NEW u \in Updates, Begin(w, u)
  PROVE  /\ turn[w] = Idle /\ turn'[w].upd = u
         /\ \A v \in Workers \ {w} : turn'[v] = turn[v]
         /\ UNCHANGED <<sent, writes>>
         /\ \/ u \notin claimed /\ claimed' = claimed \cup {u} /\ UNCHANGED loose
            \/ loose' = loose \cup {u} /\ UNCHANGED claimed
  BY DEF Begin, Claim, TypeInv, TypeOK

\* The surroundings leave the turns and the claims alone, and what was sent stays.
LEMMA SurroundingsMove ==
  ASSUME TypeInv, Surroundings
  PROVE  /\ UNCHANGED <<turn, claimed, loose, writes, jobs>>
         /\ \A u \in Updates : sent[u] # None => sent'[u] = sent[u]
<1>1. UNCHANGED <<turn, claimed, loose, writes, jobs>>
  BY DEF Surroundings, CreateLink, Disconnect, WebCommit, WebRollback, Expire, Receive,
         ReceiveAgain, Duplicate, queue
<1>2. \A u \in Updates : sent[u] # None => sent'[u] = sent[u]
  BY DEF Surroundings, CreateLink, Disconnect, WebCommit, WebRollback, Expire, Receive,
         ReceiveAgain, Duplicate, TypeInv, TypeOK
<1> QED BY <1>1, <1>2

-------------------------------------------------------------------------------
(* An update is acted on once                                              *)

\* An update that Redis did not let through has been taken up once: by one
\* worker, which has either not written yet or is done with writing.
OnceInv ==
  \A u \in Updates \ loose :
    /\ \A w \in Workers : turn[w] # Idle /\ turn[w].upd = u => u \in claimed
    /\ \A i \in DOMAIN writes : writes[i].upd = u => u \in claimed
    /\ \A v, w \in Workers :
         turn[v] # Idle /\ turn[w] # Idle /\ turn[v].upd = u /\ turn[w].upd = u => v = w
    /\ \A w \in Workers, i \in DOMAIN writes :
         turn[w].at \in Open /\ turn[w].upd = u => writes[i].upd # u
    /\ \A i, j \in DOMAIN writes : writes[i].upd = u /\ writes[j].upd = u => i = j

\* Every step keeps it so.
LEMMA OnceNext == TypeInv /\ OnceInv /\ [Next]_vars => OnceInv'
<1> SUFFICES ASSUME TypeInv, OnceInv, [Next]_vars PROVE OnceInv'
  OBVIOUS
<1>0. /\ \A i \in DOMAIN writes : writes[i] \in Write
      /\ turn \in [Workers -> Turn \cup {Idle}]
  BY DEF TypeInv, TypeOK
<1>1. CASE Surroundings
  BY <1>1, SurroundingsMove DEF OnceInv
<1>2. ASSUME NEW w \in Workers, NEW u \in Updates, Begin(w, u) PROVE OnceInv'
  <2>1. \A v \in Workers \ {w} : turn'[v] = turn[v]
    BY <1>2, BeginMoves
  <2>2. CASE u \notin claimed /\ claimed' = claimed \cup {u} /\ UNCHANGED loose
    BY <1>2, <2>1, <2>2, BeginMoves DEF OnceInv
  <2>3. CASE loose' = loose \cup {u} /\ UNCHANGED claimed
    BY <1>2, <2>1, <2>3, BeginMoves DEF OnceInv
  <2> QED BY <1>2, <2>2, <2>3, BeginMoves
<1>3. ASSUME NEW w \in Workers, WorkerStep(w) PROVE OnceInv'
  <2>1. /\ turn[w] # Idle /\ turn[w] \in Turn
        /\ \A v \in Workers \ {w} : turn'[v] = turn[v]
        /\ turn'[w] # Idle => /\ turn'[w].upd = turn[w].upd
                              /\ turn'[w].at \in Open => turn[w].at \in Open \ {"flushed"}
        /\ UNCHANGED <<sent, claimed, loose>>
    BY <1>3, WorkerMoves
  <2>2. turn'[w].at \in Open => turn'[w] # Idle
    BY DEF Open, Idle
  <2>3. CASE UNCHANGED writes
    BY <2>1, <2>2, <2>3 DEF OnceInv
  <2>4. ASSUME NEW v \in Workers, Commit(v), Written(v) \in Write, writes' = Append(writes, Written(v))
        PROVE  OnceInv'
    <3>1. v = w
      <4>1. WorkerStep(v) /\ turn[v].at = "flushed"
        BY <2>4 DEF WorkerStep, Commit, At
      <4>2. turn'[v].at \in {"committed", "answering"} /\ turn[v] \in Turn
        BY <2>4, <4>1, WorkerMoves, <1>0 DEF Commit, Turn
      <4> QED BY <2>1, <4>1, <4>2
    <3>2. turn[w].at = "flushed" /\ turn'[w].at \notin Open /\ Written(w).upd = turn[w].upd
      BY <2>4, <3>1, <2>1, <1>0 DEF Commit, At, Open, Written, Turn
    <3>3. /\ DOMAIN writes' = DOMAIN writes \cup {Len(writes) + 1}
          /\ writes'[Len(writes) + 1] = Written(w)
          /\ \A i \in DOMAIN writes : writes'[i] = writes[i]
      BY <2>4, <3>1, Appended
    <3>4. \A i \in DOMAIN writes : turn[w].upd \notin loose => writes[i].upd # turn[w].upd
      BY <2>1, <3>2 DEF OnceInv, Open, Turn
    <3>5. turn[w].upd \in Updates
      BY <2>1 DEF Turn
    <3>6. ASSUME NEW u \in Updates \ loose'
          PROVE /\ \A v1 \in Workers : turn'[v1] # Idle /\ turn'[v1].upd = u => u \in claimed'
                /\ \A v1, v2 \in Workers :
                     turn'[v1] # Idle /\ turn'[v2] # Idle /\ turn'[v1].upd = u /\ turn'[v2].upd = u => v1 = v2
      BY <2>1, <3>6 DEF OnceInv
    <3>7. ASSUME NEW u \in Updates \ loose', NEW i \in DOMAIN writes'
          PROVE /\ writes'[i].upd = u => u \in claimed'
                /\ \A v1 \in Workers : turn'[v1].at \in Open /\ turn'[v1].upd = u => writes'[i].upd # u
                /\ \A j \in DOMAIN writes' : writes'[i].upd = u /\ writes'[j].upd = u => i = j
      <4>1. turn[w].upd = u => u \in claimed
        BY <2>1, <3>7 DEF OnceInv
      <4>2. \A v1 \in Workers \ {w} : turn[v1].at \in Open /\ turn[v1].upd = u => turn[w].upd # u
        BY <2>1, <3>7 DEF OnceInv, Open, Idle
      <4> QED BY <2>1, <3>2, <3>3, <3>4, <3>7, <4>1, <4>2 DEF OnceInv
    <3> QED BY <3>6, <3>7 DEF OnceInv
  <2> QED BY <2>3, <2>4, WritesMove
<1>4. CASE UNCHANGED vars
  BY <1>4 DEF vars, queue, OnceInv
<1> QED BY <1>1, <1>2, <1>3, <1>4, Steps

\* Unless Redis let it through, an update is acted on once, whatever is
\* redelivered, retried or killed (services/telegram/dedupe.py, claim).
THEOREM UpdatesActedOnOnce == Spec => []ActedOnOnce
<1>1. Init => OnceInv
  BY DEF Init, OnceInv
<1>2. ASSUME TypeInv, OnceInv PROVE ActedOnOnce
  <2>1. writes \in Seq(Write)
    BY <1>2 DEF TypeInv, TypeOK
  <2>2. \A i \in DOMAIN writes : writes[i] \in Write
    BY <2>1
  <2>3. \A i \in DOMAIN writes : writes[i].upd \in Updates
    BY <2>2 DEF Write
  <2> QED BY <1>2, <2>3 DEF OnceInv, ActedOnOnce
<1> QED BY <1>1, <1>2, OnceNext, TypeInvariance, PTL DEF Spec

-------------------------------------------------------------------------------
(* What is announced is saved                                              *)

SavedFor(u) == \E i \in DOMAIN writes : writes[i].upd = u /\ writes[i].what = "save"

\* A turn that is going to say so has the row in its transaction, and one that
\* is past its commit has it in the vault.
SavedInv ==
  /\ \A w \in Workers :
       turn[w].at = "flushed" /\ turn[w].answer = "saved" => turn[w].plan.write = "save"
  /\ \A w \in Workers :
       turn[w].at = "committed" \/ (turn[w].at = "answering" /\ turn[w].answer = "saved")
         => SavedFor(turn[w].upd)
  /\ AnnouncedIsSaved

\* What is saved stays saved.
LEMMA SavedStays ==
  ASSUME TypeInv, [Next]_vars
  PROVE  \A u : SavedFor(u) => SavedFor(u)'
<1>1. CASE UNCHANGED writes
  BY <1>1 DEF SavedFor
<1>2. ASSUME NEW w \in Workers, Written(w) \in Write, writes' = Append(writes, Written(w))
      PROVE  \A u : SavedFor(u) => SavedFor(u)'
  BY <1>2, Appended DEF SavedFor
<1> QED BY <1>1, <1>2, WritesMove

\* What a turn says before it has committed is not that something was saved,
\* and what it flushes with that answer saves.
LEMMA SavesWhatItSays ==
  ASSUME TypeInv, SavedInv, NEW w \in Workers, TurnStep(w)
  PROVE  /\ turn'[w].at = "flushed" /\ turn'[w].answer = "saved" => turn'[w].plan.write = "save"
         /\ turn'[w].at # "committed"
         /\ turn'[w].at = "answering" => turn'[w].answer # "saved"
<1> DEFINE Goal == /\ turn'[w].at = "flushed" /\ turn'[w].answer = "saved" => turn'[w].plan.write = "save"
                   /\ turn'[w].at # "committed"
                   /\ turn'[w].at = "answering" => turn'[w].answer # "saved"
<1>1. /\ turn[w].at \in {"acting", "asking", "spent"}
      /\ turn[w] # Idle /\ turn[w] \in Turn /\ turn \in [Workers -> Turn \cup {Idle}]
  BY AtWork DEF TurnStep, Refuse, Capture, Ask, Spend, Act, Leave, Redeem, Acting, At, TypeInv, TypeOK
<1>2. ASSUME NEW answer \in {"declined", "asked", "told"}, NEW o, Say(w, answer, o) PROVE Goal
  <2>1. turn'[w] = [turn[w] EXCEPT !.at = "answering", !.answer = answer, !.offer = o,
                                   !.user = None, !.usable = FALSE, !.row = None]
    BY <1>1, <1>2 DEF Say
  <2>2. turn'[w].at = "answering" /\ turn'[w].answer = answer
    BY <1>1, <2>1 DEF Turn
  <2> QED BY <2>2
<1>3. ASSUME NEW plan \in Plan, NEW answer, Flush(w, plan, answer), answer = "saved" => plan.write = "save"
      PROVE  Goal
  <2>1. turn'[w] = [turn[w] EXCEPT !.at = "flushed", !.plan = plan, !.answer = answer,
                                   !.usable = FALSE, !.row = None]
    BY <1>1, <1>3 DEF Flush
  <2>2. turn'[w].at = "flushed" /\ turn'[w].answer = answer /\ turn'[w].plan = plan
    BY <1>1, <2>1 DEF Turn
  <2> QED BY <1>3, <2>2
<1>4. ASSUME NEW plan, Flush(w, plan, "told") PROVE Goal
  <2>1. turn'[w] = [turn[w] EXCEPT !.at = "flushed", !.plan = plan, !.answer = "told",
                                   !.usable = FALSE, !.row = None]
    BY <1>1, <1>4 DEF Flush
  <2>2. turn'[w].at = "flushed" /\ turn'[w].answer = "told"
    BY <1>1, <2>1 DEF Turn
  <2> QED BY <2>2
<1>5. [Nothing EXCEPT !.write = "save"] \in Plan /\ [Nothing EXCEPT !.write = "save"].write = "save"
  BY DEF Nothing, Plan
<1>6. CASE Refuse(w)
  BY <1>2, <1>6 DEF Refuse, AnswerWith
<1>7. CASE Capture(w)
  BY <1>3, <1>5, <1>7 DEF Capture
<1>8. CASE Ask(w)
  BY <1>2, <1>8 DEF Ask, AnswerWith
<1>9. CASE Spend(w)
  <2>1. CASE turn' = [turn EXCEPT ![w].at = "spent", ![w].offer = Message(w).ref]
    <3>1. turn'[w].at = "spent"
      BY <1>1, <2>1 DEF Turn
    <3> QED BY <3>1
  <2> QED BY <1>2, <1>9, <2>1 DEF Spend, AnswerWith
<1>10. CASE Act(w)
  <2>1. ASSUME NEW users, NEW user,
               turn' = [turn EXCEPT ![w].at = IF users = {} THEN "answering" ELSE "asking",
                                    ![w].answer = IF users = {} THEN "told" ELSE "none",
                                    ![w].user = user]
        PROVE  Goal
    <3>1. turn'[w].at \in {"answering", "asking"} /\ turn'[w].answer \in {"told", "none"}
      BY <1>1, <2>1 DEF Turn
    <3> QED BY <3>1
  <2> QED BY <1>2, <1>3, <1>4, <1>5, <1>10, <2>1 DEF Act, AnswerWith
<1>11. CASE Leave(w)
  BY <1>2, <1>4, <1>11 DEF Leave, AnswerWith
<1>12. CASE Redeem(w)
  BY <1>2, <1>4, <1>12 DEF Redeem, AnswerWith
<1> QED BY <1>6, <1>7, <1>8, <1>9, <1>10, <1>11, <1>12 DEF TurnStep

\* Every step keeps it so.
LEMMA SavedNext == TypeInv /\ SavedInv /\ [Next]_vars => SavedInv'
<1> SUFFICES ASSUME TypeInv, SavedInv, [Next]_vars PROVE SavedInv'
  OBVIOUS
<1>0. turn \in [Workers -> Turn \cup {Idle}] /\ \A u : SavedFor(u) => SavedFor(u)'
  BY SavedStays DEF TypeInv, TypeOK
<1>1. \A u \in Updates : u \in jobs \/ <<u, "saved">> \in told => SavedFor(u)
  BY DEF SavedInv, AnnouncedIsSaved, SavedFor
<1>2. ASSUME \A u \in Updates : u \in jobs' \/ <<u, "saved">> \in told' => SavedFor(u)'
      PROVE  AnnouncedIsSaved'
  BY <1>2 DEF AnnouncedIsSaved, SavedFor
<1>3. CASE Surroundings
  <2>1. \A u \in Updates : <<u, "saved">> \in told' => <<u, "saved">> \in told
    <3>1. ASSUME NEW u \in Updates, Receive(u) PROVE told' = told \/ told' = told \cup {<<u, "told">>}
      BY <3>1 DEF Receive
    <3>2. CASE \A u \in Updates : ~Receive(u)
      BY <1>3, <3>2 DEF Surroundings, CreateLink, Disconnect, WebCommit, WebRollback, Expire,
                        ReceiveAgain, Duplicate
    <3> QED BY <3>1, <3>2
  <2>2. UNCHANGED <<turn, jobs>>
    BY <1>3, SurroundingsMove
  <2>3. AnnouncedIsSaved'
    BY <1>0, <1>1, <1>2, <2>1, <2>2
  <2> QED BY <1>0, <2>2, <2>3 DEF SavedInv
<1>4. ASSUME NEW w \in Workers, NEW u \in Updates, Begin(w, u) PROVE SavedInv'
  <2>1. \A v \in Workers \ {w} : turn'[v] = turn[v]
    BY <1>4, BeginMoves
  <2>2. turn'[w].at # "flushed" /\ turn'[w].at # "committed" /\ turn'[w].answer # "saved"
    BY <1>0, <1>4 DEF Begin
  <2>3. AnnouncedIsSaved'
    BY <1>0, <1>1, <1>2, <1>4 DEF Begin
  <2> QED BY <1>0, <2>1, <2>2, <2>3 DEF SavedInv
<1>5. ASSUME NEW w \in Workers, WorkerStep(w) PROVE SavedInv'
  <2>1. /\ turn[w] # Idle /\ turn[w] \in Turn
        /\ \A v \in Workers \ {w} : turn'[v] = turn[v]
        /\ turn'[w] # Idle => turn'[w].upd = turn[w].upd
    BY <1>5, WorkerMoves
  <2>2. Idle.at = "idle"
    BY DEF Idle
  <2>3. CASE TurnStep(w)
    <3>1. UNCHANGED <<jobs, told>>
      BY <2>3 DEF TurnStep, Refuse, Capture, Ask, Spend, Act, Leave, Redeem, OnlyTurn
    <3>2. AnnouncedIsSaved'
      BY <1>0, <1>1, <1>2, <3>1
    <3> QED BY <1>0, <2>1, <2>3, <3>2, SavesWhatItSays DEF SavedInv
  <2>4. CASE Commit(w)
    <3> DEFINE t == [turn[w] EXCEPT !.at = IF turn[w].plan.write = "save" THEN "committed" ELSE "answering",
                                    !.plan = Nothing, !.offer = None, !.user = None]
    <3>1. turn'[w] = t
      BY <1>0, <2>4 DEF Commit
    <3>2. /\ turn'[w].at = (IF turn[w].plan.write = "save" THEN "committed" ELSE "answering")
          /\ turn'[w].answer = turn[w].answer /\ turn'[w].upd = turn[w].upd
      BY <2>1, <3>1 DEF Turn
    <3>3. turn[w].at = "flushed"
      BY <2>4 DEF Commit, At
    <3>4. turn[w].plan.write = "save" => SavedFor(turn[w].upd)'
      <4> SUFFICES ASSUME turn[w].plan.write = "save" PROVE SavedFor(turn[w].upd)'
        OBVIOUS
      <4>1. Written(w) \in Write /\ writes' = Append(writes, Written(w))
        BY <2>4, WrittenTypes DEF Commit
      <4>2. /\ Len(writes) + 1 \in DOMAIN writes' /\ writes'[Len(writes) + 1] = Written(w)
        BY <4>1, Appended
      <4>3. Written(w).upd = turn[w].upd /\ Written(w).what = "save"
        BY DEF Written
      <4> HIDE DEF t
      <4>4. \E i \in DOMAIN writes' : writes'[i].upd = turn[w].upd /\ writes'[i].what = "save"
        BY <4>2, <4>3
      <4>5. turn'[w].upd = turn[w].upd
        BY <3>2
      <4> QED BY <4>4, <4>5 DEF SavedFor
    <3>5. AnnouncedIsSaved'
      BY <1>0, <1>1, <1>2, <2>4 DEF Commit
    <3>6. turn[w].answer = "saved" => turn[w].plan.write = "save"
      BY <3>3 DEF SavedInv
    <3> HIDE DEF t
    <3>7. ASSUME NEW v \in Workers,
                 turn'[v].at = "committed" \/ (turn'[v].at = "answering" /\ turn'[v].answer = "saved")
          PROVE  SavedFor(turn[v].upd)'
      BY <1>0, <2>1, <3>2, <3>4, <3>6, <3>7 DEF SavedInv
    <3> QED BY <2>1, <3>2, <3>5, <3>7 DEF SavedInv
  <2>5. CASE Enqueue(w)
    <3> DEFINE t == [turn[w] EXCEPT !.at = "answering"]
    <3>1. turn'[w] = t /\ turn[w].at = "committed"
      BY <1>0, <2>5 DEF Enqueue, At
    <3>2. t.at = "answering" /\ t.upd = turn[w].upd
      BY <2>1 DEF Turn
    <3>3. SavedFor(turn[w].upd)
      BY <3>1 DEF SavedInv
    <3>4. AnnouncedIsSaved'
      BY <1>0, <1>1, <1>2, <2>5, <3>3 DEF Enqueue
    <3> HIDE DEF t
    <3> QED BY <1>0, <2>1, <3>1, <3>2, <3>3, <3>4 DEF SavedInv
  <2>6. CASE Answer(w)
    <3>1. turn'[w] = Idle /\ turn[w].at = "answering"
      BY <1>0, <2>6 DEF Answer, At
    <3>2. turn[w].answer = "saved" => SavedFor(turn[w].upd)
      BY <3>1 DEF SavedInv
    <3>3. told' = told \cup {<<turn[w].upd, turn[w].answer>>} /\ jobs' = jobs
      BY <2>6 DEF Answer
    <3>4. AnnouncedIsSaved'
      BY <1>0, <1>1, <1>2, <3>2, <3>3
    <3> QED BY <1>0, <2>1, <2>2, <3>1, <3>4 DEF SavedInv
  <2>7. CASE Fail(w) \/ Conflict(w) \/ Kill(w)
    <3>1. turn'[w] = Idle /\ UNCHANGED <<jobs, told>>
      BY <1>0, <2>7 DEF Fail, Conflict, Kill, RollBack
    <3>2. AnnouncedIsSaved'
      BY <1>0, <1>1, <1>2, <3>1
    <3> QED BY <1>0, <2>1, <2>2, <3>1, <3>2 DEF SavedInv
  <2> QED BY <1>5, <2>3, <2>4, <2>5, <2>6, <2>7 DEF WorkerStep, EndStep
<1>6. CASE UNCHANGED vars
  BY <1>1, <1>2, <1>6 DEF vars, queue, SavedInv, SavedFor
<1> QED BY <1>3, <1>4, <1>5, <1>6, Steps

\* Nobody is told that something was saved, and nothing is queued, before the
\* row is committed (the commit in queue/tasks.py, _handle_telegram_update).
THEOREM AnnouncedSaved == Spec => []AnnouncedIsSaved
<1>1. Init => SavedInv
  BY DEF Init, SavedInv, AnnouncedIsSaved, Idle
<1>2. SavedInv => AnnouncedIsSaved
  BY DEF SavedInv
<1> QED BY <1>1, <1>2, SavedNext, TypeInvariance, PTL DEF Spec

-------------------------------------------------------------------------------
(* A card's token is used once, for whom it was minted                     *)

\* A turn that will write on a token's authority.
Holds(t) == t.at \in {"spent", "flushed"} /\ t.offer # None

\* What such a turn has in hand is spent, nobody else has it, and nothing has
\* been written on its authority yet; what has been written was written once.
OffersInv ==
  /\ \A w \in Workers : Holds(turn[w]) =>
       /\ offer[turn[w].offer].at = "gone"
       /\ turn[w].user = offer[turn[w].offer].user
       /\ sent[turn[w].upd].yes
       /\ \A i \in DOMAIN writes : writes[i].offer # turn[w].offer
  /\ \A v, w \in Workers :
       Holds(turn[v]) /\ Holds(turn[w]) /\ turn[v].offer = turn[w].offer => v = w
  /\ \A i \in DOMAIN writes : writes[i].offer # None =>
       /\ offer[writes[i].offer].at = "gone"
       /\ writes[i].owner = offer[writes[i].offer].user
       /\ sent[writes[i].upd] # None /\ sent[writes[i].upd].yes
  /\ \A i, j \in DOMAIN writes :
       writes[i].offer # None /\ writes[i].offer = writes[j].offer => i = j

\* A step moves one token, one place further, and writes nothing as it does.
LEMMA OfferMoves ==
  ASSUME TypeInv, [Next]_vars
  PROVE  \/ UNCHANGED offer
         \/ \E o \in Offers :
              /\ \/ offer[o].at = "none" /\ offer'[o].at = "live"
                 \/ offer[o].at = "live" /\ offer'[o].at = "gone"
              /\ \A p \in Offers \ {o} : offer'[p] = offer[p]
              /\ UNCHANGED writes
<1> DEFINE Goal == \E o \in Offers :
              /\ \/ offer[o].at = "none" /\ offer'[o].at = "live"
                 \/ offer[o].at = "live" /\ offer'[o].at = "gone"
              /\ \A p \in Offers \ {o} : offer'[p] = offer[p]
              /\ UNCHANGED writes
<1>0. offer \in [Offers -> Offer]
  BY DEF TypeInv, TypeOK
<1>1. ASSUME NEW o \in Offers, offer[o].at = "live", offer' = [offer EXCEPT ![o].at = "gone"],
             UNCHANGED writes
      PROVE  Goal
  <2>1. offer[o] \in Offer /\ offer'[o] = [offer[o] EXCEPT !.at = "gone"]
    BY <1>0, <1>1
  <2>2. offer'[o].at = "gone" /\ \A p \in Offers \ {o} : offer'[p] = offer[p]
    BY <1>0, <1>1, <2>1 DEF Offer
  <2> QED BY <1>1, <2>2
<1>2. CASE Expire
  BY <1>1, <1>2 DEF Expire
<1>3. ASSUME NEW w \in Workers, Ask(w) PROVE UNCHANGED offer \/ Goal
  <2>1. ASSUME NEW o \in Offers, NEW act \in Acts, offer[o].at = "none",
               offer' = [offer EXCEPT ![o] = [user |-> turn[w].user, act |-> act, at |-> "live"]]
        PROVE  Goal
    <3>1. offer'[o] = [user |-> turn[w].user, act |-> act, at |-> "live"]
          /\ \A p \in Offers \ {o} : offer'[p] = offer[p]
      BY <1>0, <2>1
    <3>2. offer'[o].at = "live"
      BY <3>1
    <3> QED BY <1>3, <2>1, <3>1, <3>2 DEF Ask
  <2> HIDE DEF Goal
  <2> QED BY <1>3, <2>1 DEF Ask
<1>4. ASSUME NEW w \in Workers, Spend(w) PROVE UNCHANGED offer \/ Goal
  <2>1. Message(w).ref \in Offers
    BY <1>4, AtWork DEF Spend, Acting, At, TypeInv, UpdatesKnown, Message, Turn
  <2> HIDE DEF Goal
  <2> QED BY <1>1, <1>4, <2>1 DEF Spend, Take
<1>5. CASE Surroundings /\ ~Expire
  BY <1>5 DEF Surroundings, CreateLink, Disconnect, WebCommit, WebRollback, Receive,
              ReceiveAgain, Duplicate
<1>6. ASSUME NEW w \in Workers, TurnStep(w), ~Ask(w), ~Spend(w) PROVE UNCHANGED offer
  BY <1>6 DEF TurnStep, Refuse, Capture, Act, Leave, Redeem, OnlyTurn
<1>7. ASSUME NEW w \in Workers, Commit(w) \/ EndStep(w) PROVE UNCHANGED offer
  BY <1>7 DEF Commit, EndStep, Enqueue, Answer, Fail, Conflict, Kill, RollBack
<1>8. ASSUME NEW w \in Workers, NEW u \in Updates, Begin(w, u) PROVE UNCHANGED offer
  BY <1>8 DEF Begin
<1>9. CASE UNCHANGED vars
  BY <1>9 DEF vars
<1>10. ASSUME NEW w \in Workers, WorkerStep(w) PROVE UNCHANGED offer \/ Goal
  <2> HIDE DEF Goal
  <2> QED BY <1>3, <1>4, <1>6, <1>7, <1>10 DEF WorkerStep
<1>11. CASE Surroundings
  BY <1>2, <1>5, <1>11
<1> QED BY <1>8, <1>9, <1>10, <1>11, Steps

\* A turn that has a token in hand took it just now, or had it already and
\* acts for the same person.
LEMMA HoldsMove ==
  ASSUME TypeInv, NEW w \in Workers, WorkerStep(w), Holds(turn'[w])
  PROVE  LET o == turn'[w].offer IN
         /\ o \in Offers /\ turn'[w].upd = turn[w].upd /\ turn'[w].user = turn[w].user
         /\ UNCHANGED writes
         /\ \/ Holds(turn[w]) /\ turn[w].offer = o /\ UNCHANGED offer
            \/ /\ offer[o].at = "live" /\ offer'[o].at = "gone"
               /\ turn[w].user = offer'[o].user /\ sent[turn[w].upd].yes
<1> DEFINE o == turn'[w].offer
           Goal == /\ o \in Offers /\ turn'[w].upd = turn[w].upd /\ turn'[w].user = turn[w].user
                   /\ UNCHANGED writes
                   /\ \/ Holds(turn[w]) /\ turn[w].offer = o /\ UNCHANGED offer
                      \/ /\ offer[o].at = "live" /\ offer'[o].at = "gone"
                         /\ turn[w].user = offer'[o].user /\ sent[turn[w].upd].yes
<1>1. /\ turn[w] # Idle /\ turn[w] \in Turn /\ turn \in [Workers -> Turn \cup {Idle}]
      /\ Sound(turn[w]) /\ turn'[w].at \in {"spent", "flushed"} /\ turn'[w].offer # None
  BY WorkerMoves DEF TypeInv, TypeOK, TurnsKnown, Holds
<1>2. ASSUME NEW answer, NEW p, Say(w, answer, p) PROVE FALSE
  <2>1. turn'[w] = [turn[w] EXCEPT !.at = "answering", !.answer = answer, !.offer = p,
                                   !.user = None, !.usable = FALSE, !.row = None]
    BY <1>1, <1>2 DEF Say
  <2>2. turn'[w].at = "answering"
    BY <1>1, <2>1 DEF Turn
  <2> QED BY <1>1, <2>2
<1>3. ASSUME NEW plan, NEW answer, Flush(w, plan, answer),
             turn[w].at = "acting" \/ turn[w].at = "spent", UNCHANGED <<offer, writes>>
      PROVE  Goal
  <2>1. turn'[w] = [turn[w] EXCEPT !.at = "flushed", !.plan = plan, !.answer = answer,
                                   !.usable = FALSE, !.row = None]
    BY <1>1, <1>3 DEF Flush
  <2>2. /\ turn'[w].offer = turn[w].offer /\ turn'[w].upd = turn[w].upd
        /\ turn'[w].user = turn[w].user
    BY <1>1, <2>1 DEF Turn
  <2>3. turn[w].at = "spent" /\ turn[w].offer \in Offers
    BY <1>1, <1>3, <2>2 DEF Sound, Turn
  <2> QED BY <1>1, <1>3, <2>2, <2>3 DEF Holds
<1>4. CASE Spend(w)
  <2> DEFINE p == Message(w).ref
  <2>1. p \in Offers
    BY <1>4, AtWork DEF Spend, Acting, At, TypeInv, UpdatesKnown, Message, Turn
  <2>2. /\ offer[p].at = "live" /\ Take(p) /\ MayUse(w, p) /\ Accepts(w) /\ UNCHANGED writes
        /\ turn' = [turn EXCEPT ![w].at = "spent", ![w].offer = p]
    BY <1>2, <1>4 DEF Spend, AnswerWith
  <2>3. turn'[w] = [turn[w] EXCEPT !.at = "spent", !.offer = p]
    BY <1>1, <2>2
  <2>4. turn'[w].offer = p /\ turn'[w].upd = turn[w].upd /\ turn'[w].user = turn[w].user
    BY <1>1, <2>3 DEF Turn
  <2>5. offer'[p].at = "gone" /\ offer'[p].user = offer[p].user
    BY <2>1, <2>2 DEF Take, TypeInv, TypeOK, Offer
  <2> QED BY <2>1, <2>2, <2>4, <2>5 DEF MayUse, Accepts, Message
<1>5. CASE Act(w)
  <2>1. ~\E users, user :
              turn' = [turn EXCEPT ![w].at = IF users = {} THEN "answering" ELSE "asking",
                                   ![w].answer = IF users = {} THEN "told" ELSE "none",
                                   ![w].user = user]
    <3> SUFFICES ASSUME NEW users, NEW user,
              turn' = [turn EXCEPT ![w].at = IF users = {} THEN "answering" ELSE "asking",
                                   ![w].answer = IF users = {} THEN "told" ELSE "none",
                                   ![w].user = user]
                 PROVE  FALSE
      OBVIOUS
    <3>1. turn'[w].at \in {"answering", "asking"}
      BY <1>1 DEF Turn
    <3> QED BY <1>1, <3>1
  <2>2. turn[w].at = "spent" /\ UNCHANGED <<offer, writes>>
    BY <1>5 DEF Act, At, OnlyTurn
  <2>3. \E plan, answer : Flush(w, plan, answer)
    BY <1>2, <1>5, <2>1 DEF Act, AnswerWith
  <2> QED BY <1>3, <2>2, <2>3
<1>6. CASE Refuse(w) \/ Ask(w)
  BY <1>2, <1>6 DEF Refuse, Ask, AnswerWith
<1>7. CASE Capture(w) \/ Leave(w) \/ Redeem(w)
  <2>1. turn[w].at = "acting" /\ UNCHANGED <<offer, writes>>
    BY <1>7 DEF Capture, Leave, Redeem, Acting, At, OnlyTurn
  <2>2. \E plan, answer : Flush(w, plan, answer)
    BY <1>2, <1>7 DEF Capture, Leave, Redeem, AnswerWith
  <2> QED BY <1>3, <2>1, <2>2
<1>8. CASE Commit(w)
  <2> DEFINE t == [turn[w] EXCEPT !.at = IF turn[w].plan.write = "save" THEN "committed" ELSE "answering",
                                  !.plan = Nothing, !.offer = None, !.user = None]
  <2>1. turn'[w] = t
    BY <1>1, <1>8 DEF Commit
  <2>2. t.offer = None
    BY <1>1 DEF Turn
  <2> QED BY <1>1, <2>1, <2>2
<1>9. CASE EndStep(w)
  <2>1. CASE turn' = [turn EXCEPT ![w] = Idle]
    BY <1>1, <2>1 DEF Idle
  <2>2. CASE turn' = [turn EXCEPT ![w].at = "answering"]
    <3>1. turn'[w].at = "answering"
      BY <1>1, <2>2 DEF Turn
    <3> QED BY <1>1, <3>1
  <2> QED BY <1>9, <2>1, <2>2 DEF EndStep, Enqueue, Answer, Fail, Conflict, Kill, RollBack
<1> HIDE DEF Goal
<1> QED BY <1>4, <1>5, <1>6, <1>7, <1>8, <1>9 DEF WorkerStep, TurnStep

\* A token that is gone stays as it is, and so does a message that was sent.
LEMMA SpentStays ==
  ASSUME TypeInv, [Next]_vars
  PROVE  /\ \A o \in Offers : offer[o].at = "gone" => offer'[o] = offer[o]
         /\ \A u \in Updates : sent[u] # None => sent'[u] = sent[u]
<1>1. \A o \in Offers : offer[o].at = "gone" => offer'[o] = offer[o]
  BY OfferMoves
<1>2. CASE Surroundings
  BY <1>1, <1>2, SurroundingsMove
<1>3. ASSUME NEW w \in Workers, NEW u \in Updates, Begin(w, u) PROVE UNCHANGED sent
  BY <1>3, BeginMoves
<1>4. ASSUME NEW w \in Workers, WorkerStep(w) PROVE UNCHANGED sent
  BY <1>4, WorkerMoves
<1>5. CASE UNCHANGED vars
  BY <1>5 DEF vars
<1> QED BY <1>1, <1>2, <1>3, <1>4, <1>5, Steps

\* Nothing in the invariant depends on what a step leaves alone.
LEMMA OffersStay ==
  ASSUME TypeInv, OffersInv, [Next]_vars, UNCHANGED writes,
         \A w \in Workers : Holds(turn'[w]) => turn'[w] = turn[w]
  PROVE  OffersInv'
<1>1. /\ \A i \in DOMAIN writes : writes[i] \in Write
      /\ turn \in [Workers -> Turn \cup {Idle}] /\ TurnsKnown
  BY DEF TypeInv, TypeOK
<1>2. \A i \in DOMAIN writes : writes[i].upd \in Updates /\ writes[i].offer \in Offers \cup {None}
  BY <1>1 DEF Write
<1>3. \A w \in Workers : Holds(turn[w]) =>
        turn[w].offer \in Offers /\ turn[w].upd \in Updates /\ sent[turn[w].upd] # None
  <2> SUFFICES ASSUME NEW w \in Workers, Holds(turn[w])
               PROVE  turn[w].offer \in Offers /\ turn[w].upd \in Updates /\ sent[turn[w].upd] # None
    OBVIOUS
  <2>1. turn[w] # Idle
    BY DEF Holds, Idle
  <2> QED BY <1>1, <2>1 DEF Holds, TurnsKnown, Sound, Turn
<1>4. ASSUME NEW w \in Workers, Holds(turn'[w])
      PROVE  /\ Holds(turn[w]) /\ turn'[w] = turn[w]
             /\ offer'[turn[w].offer] = offer[turn[w].offer]
             /\ sent'[turn[w].upd] = sent[turn[w].upd]
  BY <1>3, <1>4, SpentStays DEF OffersInv
<1>5. ASSUME NEW i \in DOMAIN writes, writes[i].offer # None
      PROVE  /\ offer'[writes[i].offer] = offer[writes[i].offer]
             /\ sent'[writes[i].upd] = sent[writes[i].upd]
  BY <1>2, <1>5, SpentStays DEF OffersInv
<1>6. \A w \in Workers : Holds(turn'[w]) =>
       /\ offer'[turn'[w].offer].at = "gone"
       /\ turn'[w].user = offer'[turn'[w].offer].user
       /\ sent'[turn'[w].upd].yes
       /\ \A i \in DOMAIN writes' : writes'[i].offer # turn'[w].offer
  BY <1>4 DEF OffersInv
<1>7. \A v, w \in Workers :
       Holds(turn'[v]) /\ Holds(turn'[w]) /\ turn'[v].offer = turn'[w].offer => v = w
  BY <1>4 DEF OffersInv
<1>8. \A i \in DOMAIN writes' : writes'[i].offer # None =>
       /\ offer'[writes'[i].offer].at = "gone"
       /\ writes'[i].owner = offer'[writes'[i].offer].user
       /\ sent'[writes'[i].upd] # None /\ sent'[writes'[i].upd].yes
  BY <1>5 DEF OffersInv
<1>9. \A i, j \in DOMAIN writes' :
       writes'[i].offer # None /\ writes'[i].offer = writes'[j].offer => i = j
  BY DEF OffersInv
<1>10. \A w \in Workers : Holds(turn[w])' <=> Holds(turn'[w])
  BY DEF Holds
<1> QED BY <1>6, <1>7, <1>8, <1>9, <1>10 DEF OffersInv

\* A worker that moves, writing nothing, keeps it.
LEMMA OffersMove ==
  ASSUME TypeInv, OffersInv, [Next]_vars, UNCHANGED writes,
         NEW w \in Workers, WorkerStep(w), Holds(turn'[w])
  PROVE  OffersInv'
<1> DEFINE o == turn'[w].offer
<1>0. /\ \A i \in DOMAIN writes : writes[i] \in Write
      /\ turn \in [Workers -> Turn \cup {Idle}] /\ TurnsKnown
  BY DEF TypeInv, TypeOK
<1>1. /\ o \in Offers /\ turn'[w].upd = turn[w].upd /\ turn'[w].user = turn[w].user
      /\ \/ Holds(turn[w]) /\ turn[w].offer = o /\ UNCHANGED offer
         \/ /\ offer[o].at = "live" /\ offer'[o].at = "gone"
            /\ turn[w].user = offer'[o].user /\ sent[turn[w].upd].yes
  BY HoldsMove
<1>2. /\ \A v \in Workers \ {w} : turn'[v] = turn[v]
      /\ UNCHANGED sent
  BY WorkerMoves
<1>3. \A i \in DOMAIN writes : writes[i].upd \in Updates /\ writes[i].offer \in Offers \cup {None}
  BY <1>0 DEF Write
<1>4. \A v \in Workers : Holds(turn[v]) => turn[v].offer \in Offers
  <2> SUFFICES ASSUME NEW v \in Workers, Holds(turn[v]) PROVE turn[v].offer \in Offers
    OBVIOUS
  <2>1. turn[v] # Idle
    BY DEF Holds, Idle
  <2> QED BY <1>0, <2>1 DEF Holds, Turn
<1>5. /\ offer'[o].at = "gone" /\ turn'[w].user = offer'[o].user /\ sent'[turn'[w].upd].yes
      /\ \A i \in DOMAIN writes : writes[i].offer # o
      /\ \A v \in Workers \ {w} : Holds(turn[v]) => turn[v].offer # o
  <2>1. CASE Holds(turn[w]) /\ turn[w].offer = o /\ UNCHANGED offer
    BY <1>1, <1>2, <2>1 DEF OffersInv
  <2>2. CASE /\ offer[o].at = "live" /\ offer'[o].at = "gone"
             /\ turn[w].user = offer'[o].user /\ sent[turn[w].upd].yes
    <3>1. \A i \in DOMAIN writes : writes[i].offer # o
      BY <1>1, <2>2 DEF OffersInv
    <3>2. \A v \in Workers : Holds(turn[v]) => turn[v].offer # o
      BY <2>2 DEF OffersInv
    <3> QED BY <1>1, <1>2, <2>2, <3>1, <3>2
  <2> QED BY <1>1, <2>1, <2>2
<1>6. \A p \in Offers : offer[p].at = "gone" => offer'[p] = offer[p]
  BY SpentStays
<1>7. \A v \in Workers : Holds(turn'[v]) =>
       /\ offer'[turn'[v].offer].at = "gone"
       /\ turn'[v].user = offer'[turn'[v].offer].user
       /\ sent'[turn'[v].upd].yes
       /\ \A i \in DOMAIN writes' : writes'[i].offer # turn'[v].offer
  <2> SUFFICES ASSUME NEW v \in Workers, Holds(turn'[v])
        PROVE /\ offer'[turn'[v].offer].at = "gone"
              /\ turn'[v].user = offer'[turn'[v].offer].user
              /\ sent'[turn'[v].upd].yes
              /\ \A i \in DOMAIN writes' : writes'[i].offer # turn'[v].offer
    OBVIOUS
  <2>1. CASE v = w
    BY <1>5, <2>1
  <2>2. CASE v # w
    BY <1>2, <1>4, <1>6, <2>2 DEF OffersInv
  <2> QED BY <2>1, <2>2
<1>8. \A v1, v2 \in Workers :
       Holds(turn'[v1]) /\ Holds(turn'[v2]) /\ turn'[v1].offer = turn'[v2].offer => v1 = v2
  BY <1>2, <1>5 DEF OffersInv
<1>9. \A i \in DOMAIN writes' : writes'[i].offer # None =>
       /\ offer'[writes'[i].offer].at = "gone"
       /\ writes'[i].owner = offer'[writes'[i].offer].user
       /\ sent'[writes'[i].upd] # None /\ sent'[writes'[i].upd].yes
  BY <1>2, <1>3, <1>6 DEF OffersInv
<1>10. \A i, j \in DOMAIN writes' :
       writes'[i].offer # None /\ writes'[i].offer = writes'[j].offer => i = j
  BY DEF OffersInv
<1>11. \A v \in Workers : Holds(turn[v])' <=> Holds(turn'[v])
  BY DEF Holds
<1> HIDE DEF o
<1> QED BY <1>7, <1>8, <1>9, <1>10, <1>11 DEF OffersInv

\* A commit lets go of the token it wrote on the authority of.
LEMMA OffersWrite ==
  ASSUME TypeInv, OffersInv, [Next]_vars, NEW w \in Workers, Commit(w),
         Written(w) \in Write, writes' = Append(writes, Written(w))
  PROVE  /\ OffersInv'
         /\ UNCHANGED offer
         /\ \A i \in DOMAIN writes : Written(w).offer # None => writes[i].offer # Written(w).offer
         /\ Written(w).offer # None => offer[Written(w).offer].at = "gone"
<1> DEFINE n == Len(writes) + 1
           x == Written(w)
<1>1. /\ DOMAIN writes' = DOMAIN writes \cup {n} /\ n \notin DOMAIN writes
      /\ writes'[n] = x /\ \A i \in DOMAIN writes : writes'[i] = writes[i]
  BY Appended
<1>2. /\ turn[w] # Idle /\ \A v \in Workers \ {w} : turn'[v] = turn[v]
      /\ UNCHANGED <<sent, offer>>
  BY WorkerMoves DEF WorkerStep, Commit
<1>3. ~Holds(turn'[w])
  <2>1. writes' # writes
    BY <1>1
  <2> QED BY <2>1, HoldsMove DEF WorkerStep
<1>4. /\ x.offer = turn[w].offer /\ x.owner = turn[w].user /\ x.upd = turn[w].upd
      /\ turn[w].at = "flushed" /\ sent[turn[w].upd] # None
  BY <1>2 DEF Written, Commit, At, TypeInv, TurnsKnown, Sound
<1>5. x.offer # None =>
        /\ Holds(turn[w])
        /\ offer[x.offer].at = "gone" /\ x.owner = offer[x.offer].user
        /\ sent[x.upd] # None /\ sent[x.upd].yes
        /\ \A i \in DOMAIN writes : writes[i].offer # x.offer
        /\ \A v \in Workers \ {w} : Holds(turn[v]) => turn[v].offer # x.offer
  <2> SUFFICES ASSUME x.offer # None
        PROVE /\ Holds(turn[w])
              /\ offer[x.offer].at = "gone" /\ x.owner = offer[x.offer].user
              /\ sent[x.upd] # None /\ sent[x.upd].yes
              /\ \A i \in DOMAIN writes : writes[i].offer # x.offer
              /\ \A v \in Workers \ {w} : Holds(turn[v]) => turn[v].offer # x.offer
    OBVIOUS
  <2>1. Holds(turn[w])
    BY <1>4 DEF Holds
  <2> HIDE DEF x
  <2> QED BY <1>4, <2>1 DEF OffersInv
<1> HIDE DEF x, n
<1>6. \A v \in Workers : Holds(turn'[v]) =>
       /\ offer'[turn'[v].offer].at = "gone"
       /\ turn'[v].user = offer'[turn'[v].offer].user
       /\ sent'[turn'[v].upd].yes
       /\ \A i \in DOMAIN writes' : writes'[i].offer # turn'[v].offer
  <2> SUFFICES ASSUME NEW v \in Workers, Holds(turn'[v])
        PROVE /\ offer'[turn'[v].offer].at = "gone"
              /\ turn'[v].user = offer'[turn'[v].offer].user
              /\ sent'[turn'[v].upd].yes
              /\ \A i \in DOMAIN writes' : writes'[i].offer # turn'[v].offer
    OBVIOUS
  <2>1. v # w /\ turn'[v] = turn[v] /\ turn[v].offer # None
    BY <1>2, <1>3 DEF Holds
  <2>2. x.offer # turn[v].offer
    BY <1>5, <2>1
  <2> QED BY <1>1, <1>2, <2>1, <2>2 DEF OffersInv
<1>7. \A v1, v2 \in Workers :
       Holds(turn'[v1]) /\ Holds(turn'[v2]) /\ turn'[v1].offer = turn'[v2].offer => v1 = v2
  BY <1>2, <1>3 DEF OffersInv
<1>8. \A i \in DOMAIN writes' : writes'[i].offer # None =>
       /\ offer'[writes'[i].offer].at = "gone"
       /\ writes'[i].owner = offer'[writes'[i].offer].user
       /\ sent'[writes'[i].upd] # None /\ sent'[writes'[i].upd].yes
  BY <1>1, <1>2, <1>5 DEF OffersInv
<1>9. \A i, j \in DOMAIN writes' :
       writes'[i].offer # None /\ writes'[i].offer = writes'[j].offer => i = j
  BY <1>1, <1>5 DEF OffersInv
<1>10. \A v \in Workers : Holds(turn[v])' <=> Holds(turn'[v])
  BY DEF Holds
<1>11. OffersInv'
  BY <1>6, <1>7, <1>8, <1>9, <1>10 DEF OffersInv
<1> QED BY <1>2, <1>5, <1>11 DEF x

\* Every step keeps it so.
LEMMA OffersNext == TypeInv /\ OffersInv /\ [Next]_vars => OffersInv'
<1> SUFFICES ASSUME TypeInv, OffersInv, [Next]_vars PROVE OffersInv'
  OBVIOUS
<1>1. CASE Surroundings
  BY <1>1, SurroundingsMove, OffersStay
<1>2. ASSUME NEW w \in Workers, NEW u \in Updates, Begin(w, u) PROVE OffersInv'
  <2>1. turn'[w].offer = None
    BY <1>2 DEF Begin, TypeInv, TypeOK
  <2>2. UNCHANGED writes /\ \A v \in Workers : Holds(turn'[v]) => turn'[v] = turn[v]
    BY <1>2, <2>1, BeginMoves DEF Holds
  <2> QED BY <2>2, OffersStay
<1>3. ASSUME NEW w \in Workers, WorkerStep(w), UNCHANGED writes PROVE OffersInv'
  <2>1. CASE Holds(turn'[w])
    BY <1>3, <2>1, OffersMove
  <2>2. CASE ~Holds(turn'[w])
    <3>1. \A v \in Workers : Holds(turn'[v]) => turn'[v] = turn[v]
      BY <1>3, <2>2, WorkerMoves
    <3> QED BY <1>3, <3>1, OffersStay
  <2> QED BY <2>1, <2>2
<1>4. ASSUME NEW w \in Workers, Commit(w), Written(w) \in Write, writes' = Append(writes, Written(w))
      PROVE  OffersInv'
  BY <1>4, OffersWrite
<1>5. CASE UNCHANGED vars
  BY <1>5, OffersStay DEF vars
<1> QED BY <1>1, <1>2, <1>3, <1>4, <1>5, Steps, WritesMove

\* The first state has nothing in hand.
LEMMA OffersInit == Init => OffersInv
  BY DEF Init, OffersInv, Holds, Idle

\* A write made on a token's authority is the vault's of the person it was
\* minted for, and follows a Yes (services/chat_engine/proposals.py, spend;
\* services/telegram/confirm.py, execute).
THEOREM OfferOwners == Spec => []OfferActsForItsOwner
<1>1. OffersInv => OfferActsForItsOwner
  BY DEF OffersInv, OfferActsForItsOwner
<1> QED BY <1>1, OffersInit, OffersNext, TypeInvariance, PTL DEF Spec

-------------------------------------------------------------------------------
(* The tokens are single use                                               *)

\* What has been written on each token's authority, after a write and without.
LEMMA Deeds ==
  ASSUME TypeInv, NEW x \in Write, writes' = Append(writes, x)
  PROVE  \A o : Of(o)' = IF x.offer = o THEN Of(o) \cup {Len(writes) + 1} ELSE Of(o)
  BY Appended DEF Of

\* The first state is one of SingleUse.
LEMMA SingleInit == Init => Single!Init
<1> SUFFICES ASSUME Init PROVE Single!Init
  OBVIOUS
<1>1. \A o \in Offers : offer[o].at \in {"none", "live"}
  BY DEF Init, Offer
<1>2. \A o \in Offers : Of(o) = {}
  BY DEF Init, Of
<1>3. \A o \in Offers : Cardinality(Of(o)) = 0
  BY <1>2, FS_EmptySet
<1> QED BY <1>1, <1>3 DEF Single!Init

\* A step is a token's issue, its end or the one write it authorises, or nothing
\* that SingleUse knows of.
LEMMA SingleNext == TypeInv /\ OffersInv /\ [Next]_vars => [Single!Next]_(Single!vars)
<1> SUFFICES ASSUME TypeInv, OffersInv, [Next]_vars PROVE [Single!Next]_(Single!vars)
  OBVIOUS
<1> DEFINE at == [o \in Offers |-> offer[o].at]
           deeds == [o \in Offers |-> Cardinality(Of(o))]
<1>1. CASE UNCHANGED <<offer, writes>>
  BY <1>1 DEF Single!vars, Of
<1>2. ASSUME NEW o \in Offers, \A p \in Offers \ {o} : offer'[p] = offer[p], UNCHANGED writes,
             \/ offer[o].at = "none" /\ offer'[o].at = "live"
             \/ offer[o].at = "live" /\ offer'[o].at = "gone"
      PROVE  Single!Next
  <2>1. deeds' = deeds
    BY <1>2 DEF Of
  <2>2. at' = [at EXCEPT ![o] = offer'[o].at]
    BY <1>2
  <2>3. Single!Issue(o) \/ Single!Spend(o)
    BY <1>2, <2>1, <2>2 DEF Single!Issue, Single!Spend
  <2> QED BY <2>3 DEF Single!Next
<1>3. ASSUME NEW w \in Workers, Commit(w), Written(w) \in Write, writes' = Append(writes, Written(w))
      PROVE  [Single!Next]_(Single!vars)
  <2> DEFINE o == Written(w).offer
             n == Len(writes) + 1
  <2>1. UNCHANGED offer
    BY <1>3, OffersWrite
  <2>2. \A p : Of(p)' = IF o = p THEN Of(p) \cup {n} ELSE Of(p)
    BY <1>3, Deeds
  <2>3. o \in Offers \cup {None}
    BY <1>3 DEF Write
  <2>4. CASE o = None
    <3>1. \A p \in Offers : Of(p)' = Of(p)
      BY <2>2, <2>4
    <3>2. deeds' = deeds
      BY <3>1
    <3> QED BY <2>1, <3>2 DEF Single!vars
  <2>5. ASSUME NEW CONSTANT c \in Offers, o = c PROVE Single!Next
    <3>1. Of(c) = {} /\ offer[c].at = "gone"
      BY <1>3, <2>5, OffersWrite DEF Of
    <3>2. ASSUME NEW CONSTANT m, m = n PROVE Cardinality(Of(c)') = 1
      <4>1. Of(c)' = {m}
        BY <2>2, <2>5, <3>1, <3>2
      <4>2. Cardinality({m}) = 1
        BY FS_Singleton
      <4> QED BY <4>1, <4>2
    <3>3. Cardinality(Of(c)) = 0 /\ Cardinality(Of(c)') = 1
      BY <3>1, <3>2, FS_EmptySet
    <3>4. \A p \in Offers \ {c} : Of(p)' = Of(p)
      BY <2>2, <2>5
    <3>5. deeds' = [deeds EXCEPT ![c] = 1]
      BY <3>3, <3>4
    <3>6. at' = at
      BY <2>1
    <3>7. Single!Act(c)
      BY <3>1, <3>3, <3>5, <3>6 DEF Single!Act
    <3> QED BY <3>7 DEF Single!Next
  <2> QED BY <2>3, <2>4, <2>5
<1>4. CASE UNCHANGED offer
  BY <1>1, <1>3, <1>4, WritesMove
<1> QED BY <1>2, <1>4, OfferMoves

\* The cards' tokens implement SingleUse: spent before anything is written on
\* their authority, and good for one write, whatever is tapped twice,
\* redelivered, retried or killed (services/chat_engine/proposals.py, spend).
THEOREM OffersUsedOnce == Spec => OffersAreSingleUse
<1>1. Spec => []TypeInv /\ []OffersInv
  BY OffersInit, OffersNext, TypeInvariance, PTL DEF Spec
<1> QED BY <1>1, SingleInit, SingleNext, PTL DEF Spec, OffersAreSingleUse, Single!Spec

-------------------------------------------------------------------------------
(* What is written is written for somebody the sender was linked to        *)

\* Whom the sender of an update is linked to has been recorded; a turn acts
\* for one of them, and so did a write.
SpeakersInv ==
  /\ \A u \in Updates : sent[u] # None => SpeaksFor(sent[u].from) \subseteq spokeFor[u]
  /\ \A w \in Workers : turn[w] # Idle /\ turn[w].user # None => turn[w].user \in spokeFor[turn[w].upd]
  /\ \A i \in DOMAIN writes : /\ sent[writes[i].upd] # None
                              /\ writes[i].owner \in spokeFor[writes[i].upd]

\* A linked chat's token stays its holder's.
LEMMA HoldersStay ==
  ASSUME TypeInv, [Next]_vars
  PROVE  \A k \in Tokens : link[k].at # "none" => link'[k].user = link[k].user
<1>0. link \in [Tokens -> LinkToken]
  BY DEF TypeInv, TypeOK
<1>1. CASE WebCommit
  <2>1. \A k \in Tokens : link[k].at # "none" => k # web.mints
    BY <1>1 DEF WebCommit, TypeInv, LinksKnown, TypeOK, Request
  <2>2. \A k \in Tokens : link'[k] = IF k = web.mints THEN [user |-> web.user, at |-> "live"]
                  ELSE IF k \in web.discards THEN [link[k] EXCEPT !.at = "expired"] ELSE link[k]
    BY <1>1 DEF WebCommit
  <2>3. \A k \in Tokens : link[k] \in LinkToken
    BY <1>0
  <2> QED BY <2>1, <2>2, <2>3 DEF LinkToken
<1>2. ASSUME NEW k \in Tokens, NEW at, link' = [link EXCEPT ![k].at = at]
      PROVE  \A j \in Tokens : link'[j].user = link[j].user
  <2>1. link[k] \in LinkToken /\ link'[k] = [link[k] EXCEPT !.at = at]
    BY <1>0, <1>2
  <2>2. link'[k].user = link[k].user
    BY <2>1 DEF LinkToken
  <2> QED BY <1>0, <1>2, <2>2
<1>3. CASE Expire
  BY <1>2, <1>3 DEF Expire
<1>4. ASSUME NEW w \in Workers, Commit(w) PROVE \A j \in Tokens : link'[j].user = link[j].user
  <2>1. turn[w].plan.write \in {"bind", "refresh", "burn"} => turn[w].plan.row[2] \in Tokens
    BY <1>4, AtWork DEF Commit, At, Sound, Account
  <2> QED BY <1>2, <1>4, <2>1 DEF Commit
<1>5. CASE Surroundings /\ ~WebCommit /\ ~Expire
  BY <1>5 DEF Surroundings, CreateLink, Disconnect, WebRollback, Receive, ReceiveAgain, Duplicate
<1>6. ASSUME NEW w \in Workers, TurnStep(w) PROVE UNCHANGED link
  BY <1>6 DEF TurnStep, Refuse, Capture, Ask, Spend, Act, Leave, Redeem, OnlyTurn
<1>7. ASSUME NEW w \in Workers, EndStep(w) PROVE UNCHANGED link
  BY <1>7 DEF EndStep, Enqueue, Answer, Fail, Conflict, Kill, RollBack
<1>8. ASSUME NEW w \in Workers, NEW u \in Updates, Begin(w, u) PROVE UNCHANGED link
  BY <1>8 DEF Begin
<1>9. CASE UNCHANGED vars
  BY <1>9 DEF vars
<1> QED BY <1>1, <1>3, <1>4, <1>5, <1>6, <1>7, <1>8, <1>9, Steps DEF WorkerStep

\* Nothing but a commit links a chat.
LEMMA SpeakersShrink ==
  ASSUME TypeInv, [Next]_vars, \A w \in Workers : ~Commit(w)
  PROVE  \A t : SpeaksFor(t)' \subseteq SpeaksFor(t)
<1>1. bound' \subseteq bound
  <2>1. CASE Surroundings
    BY <2>1 DEF Surroundings, CreateLink, Disconnect, WebCommit, WebRollback, Expire, Receive,
                ReceiveAgain, Duplicate
  <2>2. ASSUME NEW w \in Workers, TurnStep(w) PROVE UNCHANGED bound
    BY <2>2 DEF TurnStep, Refuse, Capture, Ask, Spend, Act, Leave, Redeem, OnlyTurn
  <2>3. ASSUME NEW w \in Workers, EndStep(w) PROVE UNCHANGED bound
    BY <2>3 DEF EndStep, Enqueue, Answer, Fail, Conflict, Kill, RollBack
  <2>4. ASSUME NEW w \in Workers, NEW u \in Updates, Begin(w, u) PROVE UNCHANGED bound
    BY <2>4 DEF Begin
  <2>5. CASE UNCHANGED vars
    BY <2>5 DEF vars
  <2> QED BY <2>1, <2>2, <2>3, <2>4, <2>5, Steps DEF WorkerStep
<1>2. \A a \in bound : UserOf(a)' = UserOf(a)
  BY HoldersStay DEF UserOf, TypeInv, TypeOK, LinksKnown, Account
<1> QED BY <1>1, <1>2 DEF SpeaksFor, AccountOf

\* A turn goes on acting for the same person, or takes its sender's word again.
LEMMA UserMoves ==
  ASSUME TypeInv, NEW w \in Workers, WorkerStep(w), turn'[w] # Idle, turn'[w].user # None
  PROVE  turn'[w].user = turn[w].user \/ turn'[w].user \in SpeaksFor(Message(w).from)
<1>1. turn[w] # Idle /\ turn[w] \in Turn /\ turn \in [Workers -> Turn \cup {Idle}]
  BY WorkerMoves DEF TypeInv, TypeOK
<1>2. ASSUME NEW answer, NEW o, Say(w, answer, o) PROVE FALSE
  <2>1. turn'[w] = [turn[w] EXCEPT !.at = "answering", !.answer = answer, !.offer = o,
                                   !.user = None, !.usable = FALSE, !.row = None]
    BY <1>1, <1>2 DEF Say
  <2>2. turn'[w].user = None
    BY <1>1, <2>1 DEF Turn
  <2> QED BY <2>2
<1>3. ASSUME NEW plan, NEW answer, Flush(w, plan, answer) PROVE turn'[w].user = turn[w].user
  <2>1. turn'[w] = [turn[w] EXCEPT !.at = "flushed", !.plan = plan, !.answer = answer,
                                   !.usable = FALSE, !.row = None]
    BY <1>1, <1>3 DEF Flush
  <2> QED BY <1>1, <2>1 DEF Turn
<1>4. CASE Spend(w)
  <2>1. turn' = [turn EXCEPT ![w].at = "spent", ![w].offer = Message(w).ref]
    BY <1>2, <1>4 DEF Spend, AnswerWith
  <2>2. turn'[w].user = turn[w].user
    BY <1>1, <2>1 DEF Turn
  <2> QED BY <2>2
<1>5. CASE Act(w)
  <2> DEFINE users == SpeaksFor(Message(w).from)
             user == IF users = {} THEN None ELSE CHOOSE v \in users : TRUE
  <2>1. CASE turn' = [turn EXCEPT
               ![w].at = IF users = {} THEN "answering" ELSE "asking",
               ![w].answer = IF users = {} THEN "told" ELSE "none",
               ![w].user = IF users = {} THEN None ELSE CHOOSE v \in users : TRUE]
    <3>1. turn' = [turn EXCEPT
               ![w].at = IF users = {} THEN "answering" ELSE "asking",
               ![w].answer = IF users = {} THEN "told" ELSE "none",
               ![w].user = user]
      BY <2>1
    <3>2. user \in users \/ user = None
      OBVIOUS
    <3> HIDE DEF user, users
    <3>3. turn'[w].user = user
      BY <1>1, <3>1 DEF Turn
    <3> QED BY <3>2, <3>3 DEF users
  <2> QED BY <1>2, <1>3, <1>5, <2>1 DEF Act, AnswerWith
<1>6. CASE Refuse(w) \/ Ask(w)
  BY <1>2, <1>6 DEF Refuse, Ask, AnswerWith
<1>7. CASE Capture(w) \/ Leave(w) \/ Redeem(w)
  <2>1. \E plan, answer : Flush(w, plan, answer)
    BY <1>2, <1>7 DEF Capture, Leave, Redeem, AnswerWith
  <2> QED BY <1>3, <2>1
<1>8. CASE Commit(w)
  <2> DEFINE t == [turn[w] EXCEPT !.at = IF turn[w].plan.write = "save" THEN "committed" ELSE "answering",
                                  !.plan = Nothing, !.offer = None, !.user = None]
  <2>1. turn'[w] = t
    BY <1>1, <1>8 DEF Commit
  <2>2. t.user = None
    BY <1>1 DEF Turn
  <2> QED BY <2>1, <2>2
<1>9. CASE EndStep(w)
  <2>1. CASE turn' = [turn EXCEPT ![w] = Idle]
    BY <1>1, <2>1
  <2>2. CASE turn' = [turn EXCEPT ![w].at = "answering"]
    <3>1. turn'[w].user = turn[w].user
      BY <1>1, <2>2 DEF Turn
    <3> QED BY <3>1
  <2> QED BY <1>9, <2>1, <2>2 DEF EndStep, Enqueue, Answer, Fail, Conflict, Kill, RollBack
<1> QED BY <1>4, <1>5, <1>6, <1>7, <1>8, <1>9 DEF WorkerStep, TurnStep

\* What has been recorded stays, and is added to when a chat is linked.
LEMMA SpokeForKept ==
  ASSUME TypeInv, SpeakersInv, [Next]_vars
  PROVE  /\ \A u \in Updates : sent[u] # None => spokeFor[u] \subseteq spokeFor'[u] /\ sent'[u] = sent[u]
         /\ \A u \in Updates : sent'[u] # None => (SpeaksFor(sent[u].from) \subseteq spokeFor[u])'
<1>0. \A u \in Updates : sent[u] # None => sent'[u] = sent[u]
  BY SpentStays
<1>1. ASSUME NEW u \in Updates, Receive(u)
      PROVE  /\ \A v \in Updates \ {u} : sent'[v] = sent[v] /\ spokeFor'[v] = spokeFor[v]
             /\ \A v \in Updates : sent[v] # None => v # u
             /\ SpeaksFor(sent'[u].from) \subseteq spokeFor'[u]
             /\ UNCHANGED <<bound, link>>
  <2>1. PICK t \in Chats : \E m \in Messages(t) :
          /\ sent' = [sent EXCEPT ![u] = m]
          /\ spokeFor' = [spokeFor EXCEPT ![u] = SpeaksFor(t)]
    BY <1>1 DEF Receive
  <2>2. PICK m \in Messages(t) : /\ sent' = [sent EXCEPT ![u] = m]
                                 /\ spokeFor' = [spokeFor EXCEPT ![u] = SpeaksFor(t)]
    BY <2>1
  <2>3. m.from = t
    BY <2>2 DEF Messages
  <2>4. sent'[u] = m /\ spokeFor'[u] = SpeaksFor(t)
    BY <2>2 DEF TypeInv, TypeOK
  <2> QED BY <1>1, <2>2, <2>3, <2>4 DEF Receive, TypeInv, TypeOK
<1>2. ASSUME NEW w \in Workers, Commit(w)
      PROVE  \A u \in Updates : sent[u] # None =>
               spokeFor[u] \subseteq spokeFor'[u] /\ (SpeaksFor(sent[u].from) \subseteq spokeFor[u])'
  <2> SUFFICES ASSUME NEW u \in Updates, sent[u] # None
               PROVE  spokeFor[u] \subseteq spokeFor'[u] /\ (SpeaksFor(sent[u].from) \subseteq spokeFor[u])'
    OBVIOUS
  <2> DEFINE plan == turn[w].plan
             bound2 == (bound \ {plan.drops}) \cup (IF plan.write = "bind" THEN {plan.row} ELSE {})
  <2>1. /\ spokeFor'[u] = spokeFor[u] \cup {UserOf(a) : a \in {b \in bound2 : b[1] = sent[u].from}}
        /\ bound' = bound2 /\ sent' = sent
    BY <1>2 DEF Commit
  <2>2. \A a \in bound2 : a[2] \in Tokens /\ link[a[2]].at # "none"
    BY <1>2, AtWork DEF Commit, At, Sound, TypeInv, TypeOK, LinksKnown, Account
  <2>3. \A a \in bound2 : UserOf(a)' = UserOf(a)
    BY <2>2, HoldersStay DEF UserOf
  <2> HIDE DEF bound2
  <2>4. SpeaksFor(sent[u].from)' = {UserOf(a)' : a \in {b \in bound2 : b[1] = sent[u].from}}
    BY <2>1 DEF SpeaksFor, AccountOf
  <2> QED BY <2>1, <2>3, <2>4
<1>3. CASE (\A w \in Workers : ~Commit(w)) /\ (\A u \in Updates : ~Receive(u))
  <2>1. UNCHANGED <<spokeFor, sent>>
    <3>1. CASE Surroundings
      BY <1>3, <3>1 DEF Surroundings, CreateLink, Disconnect, WebCommit, WebRollback, Expire,
                        ReceiveAgain, Duplicate
    <3>2. ASSUME NEW w \in Workers, TurnStep(w) PROVE UNCHANGED <<spokeFor, sent>>
      BY <3>2 DEF TurnStep, Refuse, Capture, Ask, Spend, Act, Leave, Redeem, OnlyTurn
    <3>3. ASSUME NEW w \in Workers, EndStep(w) PROVE UNCHANGED <<spokeFor, sent>>
      BY <3>3 DEF EndStep, Enqueue, Answer, Fail, Conflict, Kill, RollBack
    <3>4. ASSUME NEW w \in Workers, NEW u \in Updates, Begin(w, u) PROVE UNCHANGED <<spokeFor, sent>>
      BY <3>4 DEF Begin
    <3>5. CASE UNCHANGED vars
      BY <3>5 DEF vars
    <3> QED BY <1>3, <3>1, <3>2, <3>3, <3>4, <3>5, Steps DEF WorkerStep
  <2>2. \A t : SpeaksFor(t)' \subseteq SpeaksFor(t)
    BY <1>3, SpeakersShrink
  <2>3. \A u \in Updates : SpeaksFor(sent[u].from)' \subseteq SpeaksFor(sent[u].from)
    <3> SUFFICES ASSUME NEW u \in Updates PROVE SpeaksFor(sent[u].from)' \subseteq SpeaksFor(sent[u].from)
      OBVIOUS
    <3>1. ASSUME NEW CONSTANT t, t = sent[u].from
          PROVE  SpeaksFor(sent[u].from)' \subseteq SpeaksFor(sent[u].from)
      <4>1. SpeaksFor(t)' \subseteq SpeaksFor(t) /\ t = sent'[u].from
        BY <2>1, <2>2, <3>1
      <4> QED BY <3>1, <4>1 DEF SpeaksFor, AccountOf
    <3> QED BY <3>1
  <2> QED BY <2>1, <2>3 DEF SpeakersInv
<1>4. CASE \E u \in Updates : Receive(u)
  <2>1. PICK u \in Updates : Receive(u)
    BY <1>4
  <2>2. \A v \in Updates \ {u} : SpeaksFor(sent[v].from)' = SpeaksFor(sent[v].from)
    BY <1>1, <2>1 DEF SpeaksFor, AccountOf, UserOf
  <2>3. SpeaksFor(sent[u].from)' = SpeaksFor(sent'[u].from)
    BY <1>1, <2>1 DEF SpeaksFor, AccountOf, UserOf
  <2>4. \A v \in Updates : sent'[v] # None => (SpeaksFor(sent[v].from) \subseteq spokeFor[v])'
    BY <1>1, <2>1, <2>2, <2>3 DEF SpeakersInv
  <2>5. \A v \in Updates : sent[v] # None => spokeFor[v] \subseteq spokeFor'[v]
    BY <1>1, <2>1
  <2> QED BY <1>0, <2>4, <2>5
<1>5. CASE \E w \in Workers : Commit(w)
  <2>1. UNCHANGED sent
    BY <1>5 DEF Commit
  <2> QED BY <1>2, <1>5, <2>1
<1> QED BY <1>3, <1>4, <1>5

\* Every step keeps it so.
LEMMA SpeakersNext == TypeInv /\ SpeakersInv /\ [Next]_vars => SpeakersInv'
<1> SUFFICES ASSUME TypeInv, SpeakersInv, [Next]_vars PROVE SpeakersInv'
  OBVIOUS
<1>0. /\ \A i \in DOMAIN writes : writes[i] \in Write
      /\ turn \in [Workers -> Turn \cup {Idle}]
      /\ \A w \in Workers : turn[w] # Idle => turn[w].upd \in Updates /\ sent[turn[w].upd] # None
  BY DEF TypeInv, TypeOK, TurnsKnown, Sound, Turn
<1>1. \A u \in Updates : sent[u] # None => spokeFor[u] \subseteq spokeFor'[u] /\ sent'[u] = sent[u]
  BY SpokeForKept
<1>2. ASSUME \A w \in Workers : turn'[w] # Idle /\ turn'[w].user # None =>
               turn'[w].user \in spokeFor'[turn'[w].upd],
             \A i \in DOMAIN writes' : /\ sent'[writes'[i].upd] # None
                                       /\ writes'[i].owner \in spokeFor'[writes'[i].upd]
      PROVE  SpeakersInv'
  BY <1>2, SpokeForKept DEF SpeakersInv, Idle
<1>3. ASSUME NEW w \in Workers, turn[w] # Idle, turn[w].user # None
      PROVE  turn[w].user \in spokeFor'[turn[w].upd]
  BY <1>0, <1>1, <1>3 DEF SpeakersInv
<1>4. \A i \in DOMAIN writes : /\ sent'[writes[i].upd] # None
                               /\ writes[i].owner \in spokeFor'[writes[i].upd]
  <2>1. \A i \in DOMAIN writes : writes[i].upd \in Updates
    BY <1>0 DEF Write
  <2> QED BY <1>1, <2>1 DEF SpeakersInv
<1>5. CASE Surroundings
  BY <1>2, <1>3, <1>4, <1>5, SurroundingsMove
<1>6. ASSUME NEW w \in Workers, NEW u \in Updates, Begin(w, u) PROVE SpeakersInv'
  <2>1. sent[u] # None /\ UNCHANGED <<writes, spokeFor>>
    BY <1>6 DEF Begin, TypeInv, TypeOK, UpdatesKnown
  <2> DEFINE users == Sender(sent[u])
             user == IF users = {} THEN None ELSE CHOOSE v \in users : TRUE
  <2>2. turn'[w].user = user /\ turn'[w].upd = u
    BY <1>0, <1>6 DEF Begin
  <2>3. user # None => user \in SpeaksFor(sent[u].from)
    BY DEF Sender
  <2> HIDE DEF user
  <2>4. turn'[w].user # None => turn'[w].user \in spokeFor'[turn'[w].upd]
    BY <2>1, <2>2, <2>3 DEF SpeakersInv
  <2> QED BY <1>2, <1>3, <1>4, <1>6, <2>1, <2>4, BeginMoves
<1>7. ASSUME NEW w \in Workers, WorkerStep(w)
      PROVE  \A v \in Workers : turn'[v] # Idle /\ turn'[v].user # None =>
               turn'[v].user \in spokeFor'[turn'[v].upd]
  <2>1. /\ turn[w] # Idle
        /\ \A v \in Workers \ {w} : turn'[v] = turn[v]
        /\ turn'[w] # Idle => turn'[w].upd = turn[w].upd
    BY <1>7, WorkerMoves
  <2>2. SpeaksFor(Message(w).from) \subseteq spokeFor'[turn[w].upd]
    BY <1>0, <1>1, <2>1 DEF SpeakersInv, Message
  <2> QED BY <1>3, <1>7, <2>1, <2>2, UserMoves
<1>8. ASSUME NEW w \in Workers, WorkerStep(w), UNCHANGED writes PROVE SpeakersInv'
  BY <1>2, <1>4, <1>7, <1>8
<1>9. ASSUME NEW w \in Workers, Commit(w), Written(w) \in Write, writes' = Append(writes, Written(w))
      PROVE  SpeakersInv'
  <2>1. turn[w] # Idle /\ sent' = sent
    BY <1>9, WorkerMoves DEF WorkerStep
  <2>2. /\ Written(w).upd = turn[w].upd /\ Written(w).owner = turn[w].user
        /\ turn[w].user # None
    BY <1>9 DEF Written, Write
  <2>3. \A i \in DOMAIN writes' : \/ writes'[i] = Written(w)
                                  \/ i \in DOMAIN writes /\ writes'[i] = writes[i]
    BY <1>9, Appended
  <2>4. \A i \in DOMAIN writes' : /\ sent'[writes'[i].upd] # None
                                  /\ writes'[i].owner \in spokeFor'[writes'[i].upd]
    BY <1>0, <1>3, <1>4, <2>1, <2>2, <2>3
  <2> QED BY <1>2, <1>7, <1>9, <2>4 DEF WorkerStep
<1>10. CASE UNCHANGED vars
  BY <1>2, <1>3, <1>4, <1>10 DEF vars
<1> QED BY <1>5, <1>6, <1>8, <1>9, <1>10, Steps, WritesMove

\* What the bot writes goes to a vault its sender was linked to at some time
\* since the message was sent (services/telegram/linking.py, resolve).
THEOREM WritesAreSpokenFor == Spec => []WritesForASpeaker
<1>1. Init => SpeakersInv
  BY DEF Init, SpeakersInv
<1>2. SpeakersInv => WritesForASpeaker
  BY DEF SpeakersInv, WritesForASpeaker
<1> QED BY <1>1, <1>2, SpeakersNext, TypeInvariance, PTL DEF Spec

=============================================================================
