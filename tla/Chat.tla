------------------------------- MODULE Chat -------------------------------
(***************************************************************************)
(* One answer of the assistant: services/recall_agent.py and               *)
(* services/recall_chat.py (the drivers), ai/chat/harness/graph.py and     *)
(* ai/chat/agent.py (the model's loop), services/chat_engine/toolbox.py    *)
(* (its tools), services/chat_engine/validation.py (what reaches the       *)
(* reader) and ai/chat/history.py (what the next prompt replays).          *)
(*                                                                         *)
(* The model writes whatever it likes, a fragment at a time, and looks     *)
(* things up in between.  Every link it writes must be one of a memory it  *)
(* has been shown; the validator holds back what it has not seen whole.    *)
(* A driver that has shown nothing hands the question to the next one:     *)
(* the agent, then the older tool lane, then one planned search.           *)
(*                                                                         *)
(* The calls of one batch of tools are taken one at a time.  Status lines  *)
(* and connection suggestions touch nothing below, and the trim of the     *)
(* stored conversation is left out: one turn is followed.                  *)
(***************************************************************************)
EXTENDS Naturals, Sequences, FiniteSets, SequencesExt

CONSTANTS
    Turns,        \* questions of one conversation
    Memories,
    Stranger,     \* what a link that was made up, or broken off, leads to
    Shadow,       \* the turns run with store=False, whose answer is thrown away
    Vocabulary,   \* the words the model may write
    MaxWords,     \* bound: words one driver's model writes in a turn
    MaxCalls,     \* AGENT_MAX_TOOL_CALLS
    Room          \* RECALL_ANSWER_MAX_CHARS, in words

Word == [as : {"plain", "id", "link", "page"}, of : Memories \cup {Stranger}]
Plain == [as |-> "plain", of |-> Stranger]
Omitted == [as |-> "omitted", of |-> Stranger]
IsLink(w) == w.as \in {"link", "page"}

ASSUME ConstantsAssumption ==
    /\ Stranger \notin Memories /\ Shadow \subseteq Turns /\ Vocabulary \subseteq Word
    /\ MaxWords \in Nat /\ MaxCalls \in Nat /\ Room \in Nat \ {0}

VARIABLES
    turn,      \* what each turn is doing
    history    \* the stored conversation, oldest first

vars == <<turn, history>>

Lanes == {"agent", "tools", "single"}

\* A word as it was written: `read` when the model had that memory in front of it.
Piece == [word : Word, read : BOOLEAN]
\* A word as the reader got it; `read` as of the one link that it stands for.
Text == Word \cup [as : {"omitted", "cut"}, of : Memories \cup {Stranger}]
Shown == [by : Lanes, word : Text, read : BOOLEAN]

Turn == [at : {"idle", "talking", "planning", "remembering", "closing",
               "over", "gone", "raised"},
         lane : Lanes,
         read : SUBSET Memories,       \* whose links this driver's model has in front of it
         known : SUBSET Memories,      \* toolbox.surfaced, or the evidence of the one search
         list : SUBSET Memories,       \* checker.allowed_urls, by memory
         written : 0..MaxWords,        \* words written for this driver
         calls : 0..(MaxCalls + 1),    \* budget.calls_used, up to the first refusal
         held : Seq(Piece),            \* StreamValidator._held
         stopped : BOOLEAN,            \* StreamValidator._stopped
         spoken : Seq(Shown),          \* `spoken`, of this driver
         shown : Seq(Shown),           \* the Delta events, of every driver
         asked : {<<>>} \cup {<<p>> : p \in Piece},   \* toolbox.question
         offered : BOOLEAN,            \* toolbox.proposal is set
         ends : Nat]                   \* the StreamEnd events

TypeOK == /\ turn \in [Turns -> Turn]
          /\ history \in Seq([turn : Turns, text : Seq(Text)])

Fresh == [at |-> "idle", lane |-> "agent", read |-> {}, known |-> {}, list |-> {},
          written |-> 0, calls |-> 0, held |-> <<>>, stopped |-> FALSE, spoken |-> <<>>,
          shown |-> <<>>, asked |-> <<>>, offered |-> FALSE, ends |-> 0]

Init == turn = [t \in Turns |-> Fresh] /\ history = <<>>

-----------------------------------------------------------------------------
(* The validator *)

\* The links a run may carry; the one search allows the saved links only.
Allowed(s, memories) == [as : IF s.lane = "single" THEN {"link"} ELSE {"link", "page"}, of : memories]

\* A run without whitespace grows by a word. A citation in it will go, whichever it is.
Join(run, piece) == IF piece.word.as = "id" THEN run ELSE Append(run, piece)

\* scrub, of one run: what begins with a link is a link to the end of the run.
Scrub(run, urls) ==
    LET first == SelectInSeq(run, LAMBDA p : IsLink(p.word))
    IN IF first = 0 THEN [i \in DOMAIN run |-> run[i].word]
       ELSE [i \in 1..first |->
               IF i < first THEN run[i].word
               ELSE IF Len(run) = first /\ run[first].word \in urls
                 THEN run[first].word ELSE Omitted]

\* A run that is one link, which the model had been shown.
StandsAlone(run) == Len(run) = 1 /\ IsLink(run[1].word) /\ run[1].read

\* What the reader would get of a run, under the allowlist the validator holds.
Entries(s, run) ==
    LET words == Scrub(run, Allowed(s, s.list))
    IN [i \in DOMAIN words |-> [by |-> s.lane, word |-> words[i], read |-> StandsAlone(run)]]

\* The Delta events of a release.
Deliver(s, out) == [s EXCEPT !.spoken = @ \o out, !.shown = @ \o out]

\* _clip: at a boundary in the second half of the room, else anywhere.
Cut(e) == IF IsLink(e.word) THEN [e EXCEPT !.word.as = "cut"] ELSE e
Clips(out, room) == {SubSeq(out, 1, room), Append(SubSeq(out, 1, room), Cut(out[room + 1]))}

\* _release of two runs that were seen whole, either of them perhaps empty.
Release(s, run, next) ==
    LET out == Entries(s, run) \o Entries(s, next)
        room == IF Room > Len(s.spoken) THEN Room - Len(s.spoken) ELSE 0
    IN IF s.stopped \/ out = <<>> THEN {s}
       ELSE IF Len(out) <= room THEN {Deliver(s, out)}
       ELSE IF room = 0 THEN {[s EXCEPT !.stopped = TRUE]}
       ELSE {[Deliver(s, clip) EXCEPT !.stopped = TRUE] : clip \in Clips(out, room)}

\* feed: a fragment that is one word, with whitespace before it, after it, or neither.
Feed(s, piece, before, after) ==
    LET whole == IF before THEN s.held ELSE <<>>
        run == Join(IF before THEN <<>> ELSE s.held, piece)
    IN IF s.stopped THEN {s}
       ELSE {[r EXCEPT !.held = IF after THEN <<>> ELSE run] :
               r \in Release(s, whole, IF after THEN run ELSE <<>>)}

\* A tail released as it was held.
FinishUnscrubbed(s) ==
    LET tail == [i \in DOMAIN s.held |-> [by |-> s.lane, word |-> s.held[i].word, read |-> FALSE]]
    IN {[Deliver(s, tail) EXCEPT !.held = <<>>, !.stopped = TRUE]}

\* finish
Finish(s) == {[r EXCEPT !.held = <<>>, !.stopped = TRUE] : r \in Release(s, s.held, <<>>)}

\* validate_answer: the same rules, of a finished text, here a word.
Checked(s, text) ==
    LET said == [s EXCEPT !.list = s.known, !.stopped = FALSE]
    IN {[r EXCEPT !.stopped = TRUE, !.list = s.list] : r \in Release(said, Join(<<>>, text[1]), <<>>)}

-----------------------------------------------------------------------------
(* Opening a driver *)

\* Without register_snapshot.
OpenUnregistered(t) ==
    /\ turn[t].at = "idle"
    /\ \E snapshot \in SUBSET Memories :
         turn' = [turn EXCEPT ![t] = [Fresh EXCEPT !.at = "talking", !.read = snapshot]]
    /\ UNCHANGED history

\* stream_agent: the newest rows go into the prompt and into the toolbox.
Open(t) ==
    /\ turn[t].at = "idle"
    /\ \E snapshot \in SUBSET Memories :
         turn' = [turn EXCEPT ![t] = [Fresh EXCEPT !.at = "talking", !.read = snapshot,
                                        !.known = snapshot, !.list = snapshot]]
    /\ UNCHANGED history

\* A fallback that comes back to the agent.
HandBack(s, snapshot) ==
    [Fresh EXCEPT !.at = "talking", !.read = snapshot, !.known = snapshot, !.list = snapshot,
       !.shown = s.shown, !.ends = s.ends]

\* _stream_with_tools, reached from the agent: the rows go into the prompt only.
Hand(s, snapshot) ==
    [Fresh EXCEPT !.at = "talking", !.lane = "tools", !.read = snapshot,
       !.shown = s.shown, !.ends = s.ends]

\* The words a driver's model has in front of it.
Had(s, w) == w.of \in s.read

\* A fragment: the allowlist is read again before it is fed.
Speak(t, w, before, after) ==
    LET s == turn[t]
        fresh == IF s.lane = "single" THEN s ELSE [s EXCEPT !.list = s.known]
    IN /\ s.at = "talking" /\ s.written < MaxWords
       /\ \E r \in Feed(fresh, [word |-> w, read |-> Had(s, w)], before, after) :
            turn' = [turn EXCEPT ![t] = [r EXCEPT !.written = @ + 1]]
       /\ UNCHANGED history

-----------------------------------------------------------------------------
(* The tools *)

\* _spend: the agent's allowance; the older lane has none.
Spend(s) == IF s.lane = "agent" /\ s.calls <= MaxCalls THEN [s EXCEPT !.calls = @ + 1] ELSE s
Refused(s) == s.lane = "agent" /\ s.calls >= MaxCalls

\* A call that puts some memories before the model: _render registers them all.
Render(s, found) == IF Refused(s) THEN Spend(s)
                    ELSE [Spend(s) EXCEPT !.known = @ \cup found, !.read = @ \cup found]
Calls(t, lane) == turn[t].at = "talking" /\ turn[t].lane = lane
Becomes(t, s) == turn' = [turn EXCEPT ![t] = s] /\ UNCHANGED history

\* query_memories: a search or a listing, cut to what the window has room for.
Query(t) == Calls(t, "agent") /\ \E found \in SUBSET Memories : Becomes(t, Render(turn[t], found))

\* search_memories, list_memories
Search(t) == Calls(t, "tools") /\ \E found \in SUBSET Memories : Becomes(t, Render(turn[t], found))

\* get_memory: the body of one it was shown, and nothing new.
Get(t) == (Calls(t, "agent") \/ Calls(t, "tools")) /\ Becomes(t, Spend(turn[t]))

\* get_connections: the neighbours of one it was shown.
Follow(t, m) ==
    /\ Calls(t, "agent")
    /\ \E found \in SUBSET (Memories \ {m}) :
         Becomes(t, IF m \in turn[t].known THEN Render(turn[t], found) ELSE Spend(turn[t]))

\* get_capture_status: the newest rows are registered, and one is told of.
AskStatus(t) ==
    /\ Calls(t, "agent")
    /\ \E newest \in SUBSET Memories :
         Becomes(t, IF Refused(turn[t]) THEN Spend(turn[t])
                    ELSE [Spend(turn[t]) EXCEPT !.known = @ \cup newest])

\* ask_user: free of charge, and the model may go on after it.
AskUser(t, w) ==
    /\ Calls(t, "agent") /\ turn[t].asked = <<>>
    /\ Becomes(t, [turn[t] EXCEPT !.asked = <<[word |-> w, read |-> Had(turn[t], w)]>>])

\* propose_note, propose_delete, propose_retry and propose_connect: bound when
\* there is a store.  Nothing is written: a card waits for the person's tap
\* (Telegram), and a later one replaces it.
Propose(t) == Calls(t, "agent") /\ t \notin Shadow /\ Becomes(t, [turn[t] EXCEPT !.offered = TRUE])

-----------------------------------------------------------------------------
(* Ending a driver *)

\* The answer of a turn that streamed nothing: the question, or FinalAnswer.
Unspoken(s, final) == IF s.asked # <<>> THEN s.asked ELSE final
Finals(s) == {<<>>} \cup {<<[word |-> w, read |-> Had(s, w)]>> : w \in Vocabulary}

\* A driver that is done keeps what it has shown, and what that was checked against.
Done(s, at) == [Fresh EXCEPT !.at = at, !.lane = s.lane, !.known = s.known,
                  !.spoken = s.spoken, !.shown = s.shown, !.ends = s.ends]
Failing(s) == [Done(s, "over") EXCEPT !.ends = @ + 1]

\* The model ends, its provider dies or a ceiling is met; then the tail, the
\* answer that was not streamed, or the next driver.
SettleAgent(t) ==
    /\ Calls(t, "agent")
    /\ \E s \in Finish(turn[t]), final \in Finals(turn[t]) :
         IF s.spoken # <<>> THEN Becomes(t, Done(s, "remembering"))
         ELSE IF Unspoken(s, final) = <<>>
           THEN \E snapshot \in SUBSET Memories : Becomes(t, Hand(s, snapshot))
         ELSE \E r \in Checked(s, Unspoken(s, final)) :
                Becomes(t, IF r.spoken = <<>> THEN Failing(r) ELSE Done(r, "remembering"))

\* A failure that is answered again whatever was shown.
SettleToolsFailed(t) ==
    Calls(t, "tools") /\ \E s \in Finish(turn[t]) : Becomes(t, [s EXCEPT !.at = "planning"])

\* A driver that wrote nothing is silent; one whose words were all taken out
\* ends with an error, and the next answers all the same.
SettleTools(t) ==
    /\ Calls(t, "tools")
    /\ \E s \in Finish(turn[t]) :
         Becomes(t, IF s.spoken # <<>> THEN Done(s, "remembering")
                    ELSE [s EXCEPT !.at = "planning",
                            !.ends = IF s.written = 0 THEN @ ELSE @ + 1])

\* stream, past the tools: a listing, a search, or an error that nobody catches.
PlannedSearch(t) ==
    LET s == [turn[t] EXCEPT !.lane = "single"]
        fixed == [s EXCEPT !.shown = Append(@, [by |-> "single", word |-> Plain, read |-> FALSE])]
    IN /\ turn[t].at = "planning"
       /\ \/ Becomes(t, [s EXCEPT !.at = "raised"])
          \/ Becomes(t, Done(s, "closing"))       \* the items of a listing
          \/ Becomes(t, Done(fixed, "closing"))   \* nothing found
          \/ \E kept \in SUBSET Memories \ {{}} :
               Becomes(t, [s EXCEPT !.at = "talking", !.read = @ \cup kept, !.known = kept,
                             !.list = kept, !.written = 0, !.held = <<>>, !.stopped = FALSE,
                             !.spoken = <<>>])

\* _pump: the provider finishes, or dies.
SettleSingle(t) ==
    /\ Calls(t, "single")
    /\ \/ \E s \in Finish(turn[t]) :
            Becomes(t, IF s.spoken = <<>> THEN Failing(s) ELSE Done(s, "remembering"))
       \/ Becomes(t, Failing(turn[t]))

\* Without the words that were held to the end.
RememberedTailless(t) ==
    [turn |-> t, text |-> [i \in DOMAIN Front(turn[t].spoken) |-> turn[t].spoken[i].word]]

\* history.append, in one transaction of Redis, which may be lost; a shadow's agent writes nothing back.
Remembered(t) == [turn |-> t, text |-> [i \in DOMAIN turn[t].spoken |-> turn[t].spoken[i].word]]
Stores(t) == t \notin Shadow \/ turn[t].lane # "agent"
Remember(t) ==
    /\ turn[t].at = "remembering"
    /\ turn' = [turn EXCEPT ![t] = Done(@, "closing")]
    /\ history' \in {history} \cup (IF Stores(t) THEN {Append(history, Remembered(t))} ELSE {})

End(t) == turn[t].at = "closing" /\ Becomes(t, [turn[t] EXCEPT !.at = "over", !.ends = @ + 1])

\* The reader leaves, and the stream is cancelled where it stands.
Leave(t) ==
    /\ turn[t].at \notin {"idle", "over", "gone", "raised"}
    /\ Becomes(t, Done(turn[t], "gone"))

Tool(t) ==
    \/ Query(t) \/ Search(t) \/ Get(t) \/ AskStatus(t) \/ Propose(t)
    \/ \E m \in Memories : Follow(t, m)
    \/ \E w \in Vocabulary : AskUser(t, w)
Settle(t) == SettleAgent(t) \/ SettleTools(t) \/ PlannedSearch(t) \/ SettleSingle(t)
Next == \E t \in Turns :
    \/ Open(t) \/ Tool(t) \/ Settle(t) \/ Remember(t) \/ End(t) \/ Leave(t)
    \/ \E w \in Vocabulary, before, after \in BOOLEAN : Speak(t, w, before, after)

Spec == Init /\ [][Next]_vars

\* Every await of a driver returns: the agent has a wall clock, the provider's
\* client a timeout, and a failure is an ending.
Fairness == \A t \in Turns : WF_vars(Open(t)) /\ WF_vars(Settle(t))
                             /\ WF_vars(Remember(t)) /\ WF_vars(End(t))
FairSpec == Spec /\ Fairness

-----------------------------------------------------------------------------
(* Properties *)

\* OnlyTheRead: a link that reaches a reader, whole or cut short, is one of a
\* memory that this turn's toolbox or search produced, whatever the model wrote
\* (validation.py, toolbox.py SurfacedSet).
OnlyTheRead ==
    \A t \in Turns : \A i \in DOMAIN turn[t].shown :
        LET e == turn[t].shown[i] IN IsLink(e.word) \/ e.word.as = "cut" => e.word.of \in turn[t].known

\* NothingReadIsOmitted: a link that the agent wrote whole, on its own, with
\* that memory in front of it is never taken for a fabrication
\* (recall_agent.py: "those rows have been surfaced").
NothingReadIsOmitted ==
    \A t \in Turns : \A i \in DOMAIN turn[t].shown :
        LET e == turn[t].shown[i] IN e.word = Omitted /\ e.by = "agent" => ~e.read

\* OneVoice: the words a reader is shown in a turn are all one driver's, so an
\* answer is never repeated by the driver that was to replace it
\* (recall_chat.py: "repeating them is worse than the shorter answer").
OneVoice ==
    \A t \in Turns : \A i, j \in DOMAIN turn[t].shown : turn[t].shown[i].by = turn[t].shown[j].by

\* RememberedAsSaid: what the next prompt replays of a turn is exactly what its
\* reader was shown, once.
RememberedAsSaid ==
    \A i \in DOMAIN history :
        LET e == history[i] shown == turn[e.turn].shown
        IN /\ e.text = [k \in DOMAIN shown |-> shown[k].word]
           /\ \A j \in DOMAIN history : history[j].turn = e.turn => i = j

\* TurnsSettle: a turn that was opened ends, is abandoned, or raises.
TurnsSettle == \A t \in Turns : <>(turn[t].at \in {"over", "gone", "raised"})

\* EndIsSent: a stream that was not abandoned closes with an end
\* (api/v1/chat.py: "`end` is always sent, including after a provider failure").
EndIsSent == \A t \in Turns : turn[t].at \in {"over", "raised"} => turn[t].ends > 0

\* ShadowLeavesNoTrace: a shadow turn writes nothing to the conversation
\* (queue/tasks.py: "It writes nothing to the conversation history either").
ShadowLeavesNoTrace == \A i \in DOMAIN history : history[i].turn \notin Shadow
=============================================================================
