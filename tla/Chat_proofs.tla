----------------------------- MODULE Chat_proofs -----------------------------
(***************************************************************************)
(* Proofs about Chat, for every set of turns and memories, every           *)
(* vocabulary and every bound: the type invariant, that a reader sees only *)
(* links of memories that were looked up, that none of those the agent had *)
(* in front of it is taken out, that one driver speaks, and that just what *)
(* it said is remembered.                                                  *)
(***************************************************************************)
EXTENDS Chat, WellFoundedInduction, SequenceTheorems, TLAPS
-------------------------------------------------------------------------------
(* The first link of a run.                                                *)

\* A set of numbers has a least one.
LEMMA LeastNumber ==
  ASSUME NEW S, S \subseteq Nat, S # {}
  PROVE  Min(S) \in S /\ \A y \in S : Min(S) <= y
<1>1. PICK x \in S : \A y \in S : ~(<<y, x>> \in OpToRel(<, Nat))
  BY NatLessThanWellFounded, WFMin
<1>2. ASSUME NEW y \in S PROVE x <= y
  <2>1. x \in Nat /\ y \in Nat
    OBVIOUS
  <2>2. ASSUME y < x PROVE FALSE
    <3>1. <<y, x>> \in Nat \X Nat /\ <<y, x>>[1] < <<y, x>>[2]
      BY <2>1, <2>2
    <3> QED BY <1>1, <3>1 DEF OpToRel
  <2> QED BY <2>1, <2>2
<1> QED BY <1>1, <1>2 DEF Min

\* Where the first link of a run is, or 0.
FirstLink(run) == SelectInSeq(run, LAMBDA p : IsLink(p.word))

\* It is a link, and nothing before it is.
LEMMA FirstLinkIs ==
  ASSUME NEW run \in Seq(Piece)
  PROVE  /\ FirstLink(run) \in 0..Len(run)
         /\ FirstLink(run) # 0 => IsLink(run[FirstLink(run)].word)
         /\ \A i \in 1..Len(run) :
              FirstLink(run) = 0 \/ i < FirstLink(run) => ~IsLink(run[i].word)
<1> DEFINE I == {i \in 1..Len(run) : IsLink(run[i].word)}
<1>1. FirstLink(run) = IF I # {} THEN Min(I) ELSE 0
  BY DEF FirstLink, SelectInSeq
<1>2. CASE I = {}
  BY <1>1, <1>2
<1>3. CASE I # {}
  <2>1. Len(run) \in Nat /\ I \subseteq Nat
    OBVIOUS
  <2>2. Min(I) \in I /\ \A y \in I : Min(I) <= y
    BY <1>3, <2>1, LeastNumber
  <2> HIDE DEF I
  <2>3. FirstLink(run) \in I /\ \A y \in I : FirstLink(run) <= y
    BY <1>1, <1>3, <2>2
  <2>4. FirstLink(run) \in 1..Len(run) /\ IsLink(run[FirstLink(run)].word)
    BY <2>3 DEF I
  <2>5. ASSUME NEW i \in 1..Len(run), i < FirstLink(run) PROVE ~IsLink(run[i].word)
    BY <2>3, <2>4, <2>5 DEF I
  <2> QED BY <2>1, <2>4, <2>5
<1> QED BY <1>2, <1>3
-------------------------------------------------------------------------------
(* What the validator lets out.                                            *)

\* An entry of a driver, of one of these memories if it leads anywhere; a link the
\* agent had read is not taken out.
CleanEntry(e, lane, memories) ==
  /\ e \in Shown /\ e.by = lane
  /\ IsLink(e.word) \/ e.word.as = "cut" => e.word.of \in memories
  /\ e.word = Omitted /\ e.by = "agent" => ~e.read

Clean(out, lane, memories) ==
  out \in Seq(Shown) /\ \A i \in 1..Len(out) : CleanEntry(out[i], lane, memories)

\* What the agent had in front of it when it wrote the run is on the list.
RunListed(run, list) ==
  run \in Seq(Piece) /\ \A i \in 1..Len(run) : run[i].read => run[i].word.of \in list

\* A run is scrubbed of every link that is not allowed; a link that stands alone is
\* left if it is.
LEMMA ScrubIs ==
  ASSUME NEW s \in Turn, NEW run \in Seq(Piece)
  PROVE  LET words == Scrub(run, Allowed(s, s.list)) IN
         \E n \in 0..Len(run) :
           /\ words = [i \in 1..n |-> words[i]]
           /\ \A i \in 1..n : \/ words[i] = Omitted /\ ~(n = 1 /\ Len(run) = 1
                                    /\ run[1].word \in Allowed(s, s.list))
                              \/ words[i] = run[i].word /\ ~IsLink(run[i].word)
                              \/ words[i] = run[i].word /\ run[i].word \in Allowed(s, s.list)
<1> DEFINE urls == Allowed(s, s.list)
           first == FirstLink(run)
           words == Scrub(run, urls)
<1>1. /\ first \in 0..Len(run) /\ Len(run) \in Nat /\ DOMAIN run = 1..Len(run)
      /\ \A i \in 1..Len(run) : first = 0 \/ i < first => ~IsLink(run[i].word)
  BY FirstLinkIs
<1>2. words = IF first = 0 THEN [i \in DOMAIN run |-> run[i].word]
              ELSE [i \in 1..first |->
                      IF i < first THEN run[i].word
                      ELSE IF Len(run) = first /\ run[first].word \in urls
                           THEN run[first].word ELSE Omitted]
  BY DEF Scrub, FirstLink
<1> HIDE DEF urls, first, words
<1>3. CASE first = 0
  <2>1. words = [i \in 1..Len(run) |-> run[i].word]
    BY <1>1, <1>2, <1>3
  <2>2. /\ words = [i \in 1..Len(run) |-> words[i]]
        /\ \A i \in 1..Len(run) : words[i] = run[i].word /\ ~IsLink(run[i].word)
    BY <1>1, <1>3, <2>1
  <2> QED BY <1>1, <2>2 DEF words, urls
<1>4. CASE first # 0
  <2>1. words = [i \in 1..first |->
                   IF i < first THEN run[i].word
                   ELSE IF Len(run) = first /\ run[first].word \in urls
                        THEN run[first].word ELSE Omitted]
    BY <1>2, <1>4
  <2>2. words = [i \in 1..first |-> words[i]]
    BY <2>1
  <2>3. ASSUME NEW i \in 1..first
        PROVE  \/ words[i] = Omitted /\ ~(first = 1 /\ Len(run) = 1 /\ run[1].word \in urls)
               \/ words[i] = run[i].word /\ ~IsLink(run[i].word)
               \/ words[i] = run[i].word /\ run[i].word \in urls
    <3>1. i \in 1..Len(run) /\ (i < first \/ i = first)
      BY <1>1
    <3> QED BY <1>1, <2>1, <3>1
  <2> QED BY <1>1, <2>2, <2>3 DEF words, urls
<1> QED BY <1>3, <1>4

\* So the entries of a run are clean of everything that is not listed.
LEMMA EntriesClean ==
  ASSUME NEW s \in Turn, NEW run \in Seq(Piece),
         s.lane = "agent" => RunListed(run, s.list)
  PROVE  Clean(Entries(s, run), s.lane, s.list)
<1> DEFINE words == Scrub(run, Allowed(s, s.list))
           out == Entries(s, run)
<1>1. PICK n \in 0..Len(run) :
        /\ words = [i \in 1..n |-> words[i]]
        /\ \A i \in 1..n : \/ words[i] = Omitted /\ ~(n = 1 /\ Len(run) = 1
                                 /\ run[1].word \in Allowed(s, s.list))
                           \/ words[i] = run[i].word /\ ~IsLink(run[i].word)
                           \/ words[i] = run[i].word /\ run[i].word \in Allowed(s, s.list)
  BY ScrubIs
<1>2. out = [i \in DOMAIN words |->
               [by |-> s.lane, word |-> words[i], read |-> StandsAlone(run)]]
  BY DEF Entries
<1>3. DOMAIN words = 1..n /\ n \in Nat
  BY <1>1
<1> HIDE DEF words, out
<1>4. ASSUME NEW i \in 1..n
      PROVE  CleanEntry([by |-> s.lane, word |-> words[i], read |-> StandsAlone(run)],
                        s.lane, s.list)
  <2>1. i \in 1..Len(run) /\ run[i] \in Piece
    BY <1>3
  <2>2. run[i].word \in Word /\ s.lane \in Lanes /\ StandsAlone(run) \in BOOLEAN
    BY <2>1 DEF Piece, Turn, StandsAlone
  <2>3. words[i] = run[i].word /\ run[i].word \in Allowed(s, s.list)
          => run[i].word.of \in s.list
    BY DEF Allowed
  <2>4. Omitted \in [as : {"omitted", "cut"}, of : Memories \cup {Stranger}]
        /\ ~IsLink(Omitted) /\ Omitted.as # "cut"
    BY DEF Omitted, IsLink
  <2>5. run[i].word.as # "cut" /\ run[i].word.as # "omitted" /\ run[i].word # Omitted
    BY <2>2 DEF Word, Omitted
  <2>6. CASE words[i] = Omitted
    <3>1. ASSUME s.lane = "agent", StandsAlone(run) PROVE FALSE
      <4>1. Len(run) = 1 /\ IsLink(run[1].word) /\ run[1].read
        BY <3>1 DEF StandsAlone
      <4>2. i = 1 /\ run[1].word \in Word
        BY <2>1, <2>2, <4>1
      <4>3. run[1].word.of \in s.list
        BY <3>1, <4>1 DEF RunListed
      <4>4. run[1].word \in Allowed(s, s.list)
        <5>1. run[1].word = [as |-> run[1].word.as, of |-> run[1].word.of]
          BY <4>2 DEF Word
        <5> QED BY <3>1, <4>1, <4>3, <5>1 DEF Allowed, IsLink
      <4>5. n = 1
        BY <1>3, <4>1, <4>2
      <4> QED BY <1>1, <2>5, <2>6, <4>1, <4>2, <4>4, <4>5
    <3> QED BY <2>2, <2>4, <2>6, <3>1 DEF CleanEntry, Shown, Text
  <2>7. CASE words[i] = run[i].word /\ ~IsLink(run[i].word)
    BY <2>2, <2>5, <2>7 DEF CleanEntry, Shown, Text
  <2>8. CASE words[i] = run[i].word /\ run[i].word \in Allowed(s, s.list)
    BY <2>2, <2>3, <2>5, <2>8 DEF CleanEntry, Shown, Text
  <2> QED BY <1>1, <2>6, <2>7, <2>8
<1>5. \A i \in 1..n : CleanEntry(out[i], s.lane, s.list)
  BY <1>2, <1>3, <1>4
<1>6. \A i \in 1..n : out[i] \in Shown
  BY <1>5 DEF CleanEntry
<1>7. out \in Seq(Shown) /\ Len(out) = n
  BY <1>2, <1>3, <1>6, IsASeq
<1> QED BY <1>5, <1>7 DEF Clean, out

\* Two clean releases are one.
LEMMA CleanConcat ==
  ASSUME NEW a, NEW b, NEW lane, NEW memories,
         Clean(a, lane, memories), Clean(b, lane, memories)
  PROVE  Clean(a \o b, lane, memories)
<1>1. a \in Seq(Shown) /\ b \in Seq(Shown)
  BY DEF Clean
<1>2. /\ a \o b \in Seq(Shown) /\ Len(a \o b) = Len(a) + Len(b)
      /\ \A i \in 1..(Len(a) + Len(b)) :
           (a \o b)[i] = IF i <= Len(a) THEN a[i] ELSE b[i - Len(a)]
  BY <1>1, ConcatProperties
<1>3. Len(a) \in Nat /\ Len(b) \in Nat
  BY <1>1
<1>4. ASSUME NEW i \in 1..(Len(a) + Len(b)) PROVE CleanEntry((a \o b)[i], lane, memories)
  <2>1. CASE i <= Len(a)
    BY <1>2, <1>3, <2>1 DEF Clean
  <2>2. CASE i > Len(a)
    <3>1. i - Len(a) \in 1..Len(b) /\ (a \o b)[i] = b[i - Len(a)]
      BY <1>2, <1>3, <2>2
    <3> QED BY <3>1 DEF Clean
  <2> QED BY <1>3, <2>1, <2>2
<1> QED BY <1>2, <1>4 DEF Clean

\* So is the beginning of one, and what it is cut to.
LEMMA CleanClip ==
  ASSUME NEW out, NEW lane, NEW memories, Clean(out, lane, memories),
         NEW room \in Nat, room < Len(out), NEW clip \in Clips(out, room)
  PROVE  Clean(clip, lane, memories)
<1>1. out \in Seq(Shown) /\ Len(out) \in Nat
  BY DEF Clean
<1> DEFINE sub == SubSeq(out, 1, room)
<1>2. /\ sub \in Seq(Shown) /\ Len(sub) = room /\ \A i \in 1..room : sub[i] = out[i]
  BY <1>1, SubSeqProperties
<1> HIDE DEF sub
<1>3. Clean(sub, lane, memories)
  BY <1>1, <1>2 DEF Clean
<1>4. CleanEntry(out[room + 1], lane, memories)
  <2>1. room + 1 \in 1..Len(out)
    BY <1>1
  <2> QED BY <2>1 DEF Clean
<1>5. CleanEntry(Cut(out[room + 1]), lane, memories)
  <2> DEFINE e == out[room + 1]
  <2>1. CASE ~IsLink(e.word)
    BY <1>4, <2>1 DEF Cut
  <2>2. CASE IsLink(e.word)
    <3>1. e \in Shown /\ e.by = lane /\ e.word.of \in memories
      BY <1>4, <2>2 DEF CleanEntry
    <3>2. e.word \in Word \cup [as : {"omitted", "cut"}, of : Memories \cup {Stranger}]
      BY <3>1 DEF Shown, Text
    <3>3. e.word = [as |-> e.word.as, of |-> e.word.of] /\ e.word.of \in Memories \cup {Stranger}
      BY <3>2 DEF Word
    <3>4. /\ [e EXCEPT !.word.as = "cut"].word = [as |-> "cut", of |-> e.word.of]
          /\ [e EXCEPT !.word.as = "cut"].by = e.by
          /\ [e EXCEPT !.word.as = "cut"] \in Shown
      BY <3>1, <3>3 DEF Shown, Text
    <3>5. [as |-> "cut", of |-> e.word.of] # Omitted /\ ~IsLink([as |-> "cut", of |-> e.word.of])
      BY DEF Omitted, IsLink
    <3> HIDE DEF e
    <3> QED BY <2>2, <3>1, <3>4, <3>5 DEF CleanEntry, Cut, e
  <2> QED BY <2>1, <2>2
<1>6. Clean(Append(sub, Cut(out[room + 1])), lane, memories)
  <2>1. Cut(out[room + 1]) \in Shown
    BY <1>5 DEF CleanEntry
  <2>2. /\ Append(sub, Cut(out[room + 1])) \in Seq(Shown)
        /\ Len(Append(sub, Cut(out[room + 1]))) = room + 1
        /\ \A i \in 1..room : Append(sub, Cut(out[room + 1]))[i] = sub[i]
        /\ Append(sub, Cut(out[room + 1]))[room + 1] = Cut(out[room + 1])
    BY <1>2, <2>1, AppendProperties
  <2> QED BY <1>2, <1>3, <1>5, <2>2 DEF Clean
<1> QED BY <1>3, <1>6 DEF Clips, sub

\* What is clean of some memories is clean of more.
LEMMA CleanMore ==
  ASSUME NEW out, NEW lane, NEW memories, NEW more, memories \subseteq more,
         Clean(out, lane, memories)
  PROVE  Clean(out, lane, more)
  BY DEF Clean, CleanEntry

\* A driver has shown the reader just what it remembers, and that is clean.
Tidied(s) ==
  /\ s.spoken = s.shown /\ Clean(s.shown, s.lane, s.known) /\ s.list \subseteq s.known

\* A release adds to both what is clean, and may be the last.
Released(s, r) ==
  \E out \in Seq(Shown), stopped \in BOOLEAN :
    /\ r = [s EXCEPT !.spoken = out, !.shown = out, !.stopped = stopped]
    /\ Clean(out, s.lane, s.known)

\* That is what _release does.
LEMMA ReleaseIs ==
  ASSUME NEW s \in Turn, Tidied(s), NEW run \in Seq(Piece), NEW next \in Seq(Piece),
         s.lane = "agent" => RunListed(run, s.list) /\ RunListed(next, s.list),
         NEW r \in Release(s, run, next)
  PROVE  Released(s, r)
<1> DEFINE out == Entries(s, run) \o Entries(s, next)
           room == IF Room > Len(s.spoken) THEN Room - Len(s.spoken) ELSE 0
<1>1. Clean(out, s.lane, s.known)
  BY EntriesClean, CleanConcat, CleanMore DEF Tidied
<1>2. room \in Nat /\ Len(out) \in Nat
  <2>1. Len(s.spoken) \in Nat /\ Len(out) \in Nat
    BY <1>1 DEF Turn, Clean
  <2>2. Room \in Nat
    BY ConstantsAssumption
  <2> QED BY <2>1, <2>2
<1>3. \/ r = s
      \/ r = Deliver(s, out)
      \/ r = [s EXCEPT !.stopped = TRUE]
      \/ \E clip \in Clips(out, room) :
           room < Len(out) /\ r = [Deliver(s, clip) EXCEPT !.stopped = TRUE]
  BY <1>2 DEF Release
<1> HIDE DEF out, room
<1>4. s.shown \in Seq(Shown) /\ s.spoken = s.shown /\ s.stopped \in BOOLEAN
      /\ Clean(s.shown, s.lane, s.known)
  BY DEF Turn, Tidied
<1>5. ASSUME NEW more, Clean(more, s.lane, s.known)
      PROVE  /\ Clean(s.shown \o more, s.lane, s.known) /\ s.shown \o more \in Seq(Shown)
             /\ Deliver(s, more) = [s EXCEPT !.spoken = s.shown \o more,
                                             !.shown = s.shown \o more, !.stopped = s.stopped]
             /\ [Deliver(s, more) EXCEPT !.stopped = TRUE]
                   = [s EXCEPT !.spoken = s.shown \o more, !.shown = s.shown \o more,
                               !.stopped = TRUE]
  <2>1. Clean(s.shown \o more, s.lane, s.known)
    BY <1>4, <1>5, CleanConcat
  <2> QED BY <1>4, <2>1 DEF Clean, Deliver, Turn
<1>6. CASE r = s
  <2>1. r = [s EXCEPT !.spoken = s.shown, !.shown = s.shown, !.stopped = s.stopped]
    BY <1>4, <1>6 DEF Turn
  <2> QED BY <1>4, <2>1 DEF Released
<1>7. CASE r = Deliver(s, out)
  BY <1>1, <1>4, <1>5, <1>7 DEF Released
<1>8. CASE r = [s EXCEPT !.stopped = TRUE]
  <2>1. r = [s EXCEPT !.spoken = s.shown, !.shown = s.shown, !.stopped = TRUE]
    BY <1>4, <1>8 DEF Turn
  <2> QED BY <1>4, <2>1 DEF Released
<1>9. ASSUME NEW clip \in Clips(out, room), room < Len(out),
             r = [Deliver(s, clip) EXCEPT !.stopped = TRUE]
      PROVE  Released(s, r)
  <2>1. Clean(clip, s.lane, s.known)
    BY <1>1, <1>2, <1>9, CleanClip
  <2> QED BY <1>5, <1>9, <2>1 DEF Released
<1> QED BY <1>3, <1>6, <1>7, <1>8, <1>9

\* A run stays listed when a listed word joins it.
LEMMA JoinListed ==
  ASSUME NEW run, NEW list, RunListed(run, list), NEW piece \in Piece,
         piece.read => piece.word.of \in list
  PROVE  RunListed(Join(run, piece), list)
<1>1. run \in Seq(Piece) /\ Len(run) \in Nat
  BY DEF RunListed
<1>2. /\ Append(run, piece) \in Seq(Piece) /\ Len(Append(run, piece)) = Len(run) + 1
      /\ \A i \in 1..Len(run) : Append(run, piece)[i] = run[i]
      /\ Append(run, piece)[Len(run) + 1] = piece
  BY <1>1, AppendProperties
<1>3. RunListed(Append(run, piece), list)
  BY <1>1, <1>2 DEF RunListed
<1> QED BY <1>3 DEF Join

\* No run is listed, and none is no run to anybody.
LEMMA NoRun ==
  /\ <<>> \in Seq(Piece) /\ \A list : RunListed(<<>>, list)
  /\ \A run \in Seq(Piece), piece \in Piece : Join(run, piece) \in Seq(Piece)
<1>1. <<>> \in Seq(Piece) /\ Len(<<>>) = 0
  OBVIOUS
<1> QED BY <1>1 DEF RunListed, Join

\* A fragment may release as much, and leaves a run that is listed.
Fed(s, r) ==
  \E out \in Seq(Shown), stopped \in BOOLEAN, held \in Seq(Piece) :
    /\ r = [s EXCEPT !.spoken = out, !.shown = out, !.stopped = stopped, !.held = held]
    /\ Clean(out, s.lane, s.known)
    /\ s.lane = "agent" => RunListed(held, s.list)

\* That is what feed does.
LEMMA FeedIs ==
  ASSUME NEW s \in Turn, Tidied(s), NEW piece \in Piece,
         NEW before \in BOOLEAN, NEW after \in BOOLEAN,
         s.lane = "agent" => /\ RunListed(s.held, s.list)
                             /\ piece.read => piece.word.of \in s.list,
         NEW r \in Feed(s, piece, before, after)
  PROVE  Fed(s, r)
<1> DEFINE whole == IF before THEN s.held ELSE <<>>
           begun == IF before THEN <<>> ELSE s.held
           run == Join(begun, piece)
           next == IF after THEN run ELSE <<>>
           held == IF after THEN <<>> ELSE run
<1>1. s.held \in Seq(Piece) /\ s.shown \in Seq(Shown) /\ s.spoken = s.shown /\ s.stopped \in BOOLEAN
  BY DEF Turn, Tidied
<1>2. /\ whole \in Seq(Piece) /\ begun \in Seq(Piece)
      /\ s.lane = "agent" => RunListed(whole, s.list) /\ RunListed(begun, s.list)
  BY <1>1, NoRun
<1> HIDE DEF begun
<1>3. /\ run \in Seq(Piece)
      /\ s.lane = "agent" => RunListed(run, s.list)
  BY <1>2, NoRun, JoinListed
<1> HIDE DEF run
<1>4. /\ next \in Seq(Piece) /\ held \in Seq(Piece)
      /\ s.lane = "agent" => RunListed(next, s.list) /\ RunListed(held, s.list)
  BY <1>3, NoRun
<1>5. CASE s.stopped
  <2>1. r = s
    BY <1>5 DEF Feed
  <2>2. r = [s EXCEPT !.spoken = s.shown, !.shown = s.shown, !.stopped = s.stopped, !.held = s.held]
    BY <1>1, <2>1 DEF Turn
  <2> QED BY <1>1, <2>2 DEF Tidied, Fed
<1>6. CASE ~s.stopped
  <2>1. PICK q \in Release(s, whole, next) : r = [q EXCEPT !.held = held]
    BY <1>6 DEF Feed, run, begun
  <2> HIDE DEF whole, next, held
  <2>2. PICK out \in Seq(Shown), stopped \in BOOLEAN :
          /\ q = [s EXCEPT !.spoken = out, !.shown = out, !.stopped = stopped]
          /\ Clean(out, s.lane, s.known)
    <3>1. Released(s, q)
      BY <1>2, <1>4, <2>1, ReleaseIs
    <3> QED BY <3>1 DEF Released
  <2>3. r = [s EXCEPT !.spoken = out, !.shown = out, !.stopped = stopped, !.held = held]
    BY <2>1, <2>2 DEF Turn
  <2> QED BY <1>4, <2>2, <2>3 DEF Fed
<1> QED BY <1>5, <1>6

\* The tail.
LEMMA FinishIs ==
  ASSUME NEW s \in Turn, Tidied(s), s.lane = "agent" => RunListed(s.held, s.list),
         NEW r \in Finish(s)
  PROVE  \E out \in Seq(Shown) :
           /\ r = [s EXCEPT !.spoken = out, !.shown = out, !.stopped = TRUE, !.held = <<>>]
           /\ Clean(out, s.lane, s.known)
<1>1. s.held \in Seq(Piece)
  BY DEF Turn
<1>2. PICK q \in Release(s, s.held, <<>>) : r = [q EXCEPT !.held = <<>>, !.stopped = TRUE]
  BY DEF Finish
<1>3. PICK out \in Seq(Shown), stopped \in BOOLEAN :
        /\ q = [s EXCEPT !.spoken = out, !.shown = out, !.stopped = stopped]
        /\ Clean(out, s.lane, s.known)
  <2>1. Released(s, q)
    BY <1>1, <1>2, NoRun, ReleaseIs
  <2> QED BY <2>1 DEF Released
<1>4. r = [s EXCEPT !.spoken = out, !.shown = out, !.stopped = TRUE, !.held = <<>>]
  BY <1>2, <1>3 DEF Turn
<1> QED BY <1>3, <1>4

\* An answer that was not streamed.
LEMMA CheckedIs ==
  ASSUME NEW s \in Turn, Tidied(s), NEW piece \in Piece,
         s.lane = "agent" => (piece.read => piece.word.of \in s.known),
         NEW r \in Checked(s, <<piece>>)
  PROVE  \E out \in Seq(Shown) :
           /\ r = [s EXCEPT !.spoken = out, !.shown = out, !.stopped = TRUE]
           /\ Clean(out, s.lane, s.known)
<1> DEFINE said == [s EXCEPT !.list = s.known, !.stopped = FALSE]
           run == Join(<<>>, piece)
<1>1. /\ said \in Turn /\ said.lane = s.lane /\ said.list = s.known /\ said.known = s.known
      /\ said.spoken = s.spoken /\ said.shown = s.shown
  BY DEF Turn
<1>2. Tidied(said)
  BY <1>1 DEF Tidied
<1>3. run \in Seq(Piece) /\ (s.lane = "agent" => RunListed(run, s.known))
  BY NoRun, JoinListed
<1>4. PICK q \in Release(said, run, <<>>) : r = [q EXCEPT !.stopped = TRUE, !.list = s.list]
  BY DEF Checked
<1> HIDE DEF run
<1>5. PICK out \in Seq(Shown), stopped \in BOOLEAN :
        /\ q = [said EXCEPT !.spoken = out, !.shown = out, !.stopped = stopped]
        /\ Clean(out, s.lane, s.known)
  <2> HIDE DEF said
  <2>1. Released(said, q)
    BY <1>1, <1>2, <1>3, <1>4, NoRun, ReleaseIs
  <2> QED BY <1>1, <2>1 DEF Released
<1>6. r = [s EXCEPT !.spoken = out, !.shown = out, !.stopped = TRUE]
  BY <1>4, <1>5 DEF Turn
<1> QED BY <1>5, <1>6
-------------------------------------------------------------------------------
(* What is true of a turn, and how it goes on.                             *)

\* A turn that is over for the conversation: nothing more is shown or stored.
Closed == {"closing", "over", "gone"}

\* What was shown is clean, and is what the driver will have remembered; the agent
\* has looked up what it has in front of it, and wrote its question from that.
Tidy(s) ==
  /\ Clean(s.shown, s.lane, s.known)
  /\ s.at \in {"idle", "talking", "planning", "remembering"} => s.spoken = s.shown
  /\ s.at = "planning" => s.lane = "tools" /\ s.shown = <<>>
  /\ s.list \subseteq s.known
  /\ s.lane = "agent" => s.read \subseteq s.known /\ RunListed(s.held, s.list)
  /\ s.asked # <<>> => s.lane = "agent" /\ RunListed(s.asked, s.known)

\* A turn becomes another tidy one; if it was closed, nothing is shown any more.
Good(s, r) ==
  /\ r \in Turn /\ Tidy(r)
  /\ s.at \in Closed => r.at \in Closed /\ r.shown = s.shown

\* A step that takes one turn on.
TidyStep(t) == \E r \in Turn : Becomes(t, r) /\ Good(turn[t], r)

\* All turns are typed and tidy.
TurnsInv == turn \in [Turns -> Turn] /\ \A t \in Turns : Tidy(turn[t])

\* Nothing shown is clean.
LEMMA CleanNone ==
  ASSUME NEW lane, NEW memories PROVE Clean(<<>>, lane, memories) /\ <<>> \in Seq(Shown)
  BY DEF Clean

\* A driver that is done leaves a tidy turn.
LEMMA DoneIsTidy ==
  ASSUME NEW s \in Turn, NEW at \in {"remembering", "closing", "over", "gone"},
         Clean(s.shown, s.lane, s.known), at = "remembering" => s.spoken = s.shown
  PROVE  /\ Done(s, at) \in Turn /\ Tidy(Done(s, at)) /\ Done(s, at).at = at
         /\ Done(s, at).shown = s.shown
<1>1. Fresh \in Turn
  <2>1. 0 \in 0..MaxWords /\ 0 \in 0..(MaxCalls + 1)
    BY ConstantsAssumption
  <2> QED BY <2>1, CleanNone, NoRun DEF Fresh, Turn, Lanes
<1>2. s.known \subseteq Memories /\ s.lane \in Lanes /\ s.spoken \in Seq(Shown)
      /\ s.shown \in Seq(Shown) /\ s.ends \in Nat
  BY DEF Turn
<1>3. /\ Done(s, at).at = at /\ Done(s, at).lane = s.lane /\ Done(s, at).known = s.known
      /\ Done(s, at).spoken = s.spoken /\ Done(s, at).shown = s.shown
      /\ Done(s, at).list = {} /\ Done(s, at).read = {} /\ Done(s, at).held = <<>>
      /\ Done(s, at).asked = <<>>
  BY DEF Done, Fresh
<1>4. Done(s, at) \in Turn
  BY <1>1, <1>2 DEF Done, Turn
<1> QED BY <1>3, <1>4, NoRun DEF Tidy

\* One that ends with an error does, too.
LEMMA FailingIsTidy ==
  ASSUME NEW s \in Turn, Clean(s.shown, s.lane, s.known)
  PROVE  Failing(s) \in Turn /\ Tidy(Failing(s))
<1> DEFINE d == Done(s, "over")
<1>1. d \in Turn /\ Tidy(d) /\ d.at = "over"
  BY DoneIsTidy
<1>2. Failing(s) = [d EXCEPT !.ends = d.ends + 1]
  BY DEF Failing, Done, Fresh
<1> HIDE DEF d
<1>3. d.ends + 1 \in Nat
  BY <1>1 DEF Turn
<1>4. Failing(s) \in Turn
  BY <1>1, <1>2, <1>3 DEF Turn
<1>5. /\ Failing(s).at = d.at /\ Failing(s).lane = d.lane /\ Failing(s).known = d.known
      /\ Failing(s).spoken = d.spoken /\ Failing(s).shown = d.shown
      /\ Failing(s).list = d.list /\ Failing(s).read = d.read /\ Failing(s).held = d.held
      /\ Failing(s).asked = d.asked
  BY <1>1, <1>2 DEF Turn
<1> QED BY <1>1, <1>4, <1>5 DEF Tidy
-------------------------------------------------------------------------------
(* The steps of a turn.                                                    *)

\* The question.
LEMMA OpenTidy ==
  ASSUME TurnsInv, NEW t \in Turns, Open(t) PROVE TidyStep(t)
<1>1. PICK snapshot \in SUBSET Memories :
        Becomes(t, [Fresh EXCEPT !.at = "talking", !.read = snapshot,
                                  !.known = snapshot, !.list = snapshot])
  BY DEF Open, Becomes
<1> DEFINE r == [Fresh EXCEPT !.at = "talking", !.read = snapshot,
                              !.known = snapshot, !.list = snapshot]
<1>2. turn[t].at = "idle"
  BY DEF Open
<1>3. 0 \in 0..MaxWords /\ 0 \in 0..(MaxCalls + 1)
  BY ConstantsAssumption
<1>4. r \in Turn
  BY <1>3, CleanNone, NoRun DEF Fresh, Turn, Lanes
<1>5. Tidy(r)
  BY CleanNone, NoRun DEF Fresh, Tidy
<1> QED BY <1>1, <1>2, <1>4, <1>5 DEF TidyStep, Good, Closed

\* A word.
LEMMA SpeakTidy ==
  ASSUME TurnsInv, NEW t \in Turns, NEW w \in Vocabulary,
         NEW before \in BOOLEAN, NEW after \in BOOLEAN, Speak(t, w, before, after)
  PROVE  TidyStep(t)
<1> DEFINE s == turn[t]
           fresh == IF s.lane = "single" THEN s ELSE [s EXCEPT !.list = s.known]
           piece == [word |-> w, read |-> Had(s, w)]
<1>1. s \in Turn /\ Tidy(s) /\ s.at = "talking" /\ s.written < MaxWords
  BY DEF TurnsInv, Speak
<1>2. PICK q \in Feed(fresh, piece, before, after) : Becomes(t, [q EXCEPT !.written = @ + 1])
  BY DEF Speak, Becomes
<1> HIDE DEF s
<1>3. /\ fresh \in Turn /\ fresh.at = s.at /\ fresh.lane = s.lane /\ fresh.known = s.known
      /\ fresh.spoken = s.spoken /\ fresh.shown = s.shown /\ fresh.held = s.held
      /\ fresh.written = s.written /\ fresh.read = s.read /\ fresh.asked = s.asked
      /\ fresh.list = IF s.lane = "single" THEN s.list ELSE s.known
  BY <1>1 DEF Turn
<1> HIDE DEF fresh
<1>4. Tidied(fresh)
  BY <1>1, <1>3 DEF Tidied, Tidy
<1>5. /\ piece \in Piece
      /\ s.lane = "agent" => (piece.read => piece.word.of \in s.known)
  <2>1. w \in Word /\ Had(s, w) \in BOOLEAN
    BY ConstantsAssumption DEF Had
  <2>2. s.lane = "agent" => (Had(s, w) => w.of \in s.known)
    BY <1>1 DEF Had, Tidy
  <2> QED BY <2>1, <2>2 DEF Piece
<1>6. s.lane = "agent" => RunListed(s.held, fresh.list)
  BY <1>1, <1>3 DEF Tidy, RunListed
<1> HIDE DEF piece
<1>7. PICK out \in Seq(Shown), stopped \in BOOLEAN, held \in Seq(Piece) :
        /\ q = [fresh EXCEPT !.spoken = out, !.shown = out, !.stopped = stopped, !.held = held]
        /\ Clean(out, s.lane, s.known)
        /\ s.lane = "agent" => RunListed(held, fresh.list)
  <2>1. s.lane = "agent" => (piece.read => piece.word.of \in fresh.list)
    BY <1>3, <1>5
  <2>2. Fed(fresh, q)
    BY <1>2, <1>3, <1>4, <1>5, <1>6, <2>1, FeedIs
  <2> QED BY <1>3, <2>2 DEF Fed
<1> DEFINE r == [q EXCEPT !.written = @ + 1]
<1>8. /\ r = [fresh EXCEPT !.spoken = out, !.shown = out, !.stopped = stopped,
                           !.held = held, !.written = s.written + 1]
      /\ s.written + 1 \in 0..MaxWords
  <2>1. q.written = s.written
    BY <1>3, <1>7 DEF Turn
  <2>2. s.written + 1 \in 0..MaxWords
    BY <1>1, ConstantsAssumption DEF Turn
  <2> QED BY <1>3, <1>7, <2>1, <2>2 DEF Turn
<1>9. /\ r \in Turn /\ r.at = s.at /\ r.lane = s.lane /\ r.known = s.known /\ r.spoken = out
      /\ r.shown = out /\ r.held = held /\ r.read = s.read /\ r.asked = s.asked
      /\ r.list = fresh.list
  BY <1>3, <1>8 DEF Turn
<1>10. Becomes(t, r)
  BY <1>2
<1> HIDE DEF r
<1>11. Tidy(r)
  BY <1>1, <1>3, <1>7, <1>9 DEF Tidy
<1> QED BY <1>1, <1>9, <1>10, <1>11 DEF TidyStep, Good, Closed, s

\* What a tool makes of a turn: it has looked up more, and the agent has read no more
\* than it looked up.
LEMMA ToolIs ==
  ASSUME TurnsInv, NEW t \in Turns, turn[t].at = "talking", NEW r,
         Becomes(t, r), r \in Turn, r.at = "talking", r.lane = turn[t].lane,
         turn[t].known \subseteq r.known,
         r.lane = "agent" => r.read \subseteq r.known,
         r.spoken = turn[t].spoken, r.shown = turn[t].shown,
         r.list = turn[t].list, r.held = turn[t].held, r.asked = turn[t].asked
  PROVE  TidyStep(t)
<1>1. Tidy(turn[t])
  BY DEF TurnsInv
<1>2. Clean(r.shown, r.lane, r.known)
  BY <1>1, CleanMore DEF Tidy
<1>3. r.asked # <<>> => RunListed(r.asked, r.known)
  BY <1>1 DEF Tidy, RunListed
<1>4. Tidy(r)
  BY <1>1, <1>2, <1>3 DEF Tidy
<1> QED BY <1>4 DEF TidyStep, Good, Closed

\* Paying for a call changes nothing else.
LEMMA SpendIs ==
  ASSUME NEW s \in Turn
  PROVE  \E n \in 0..(MaxCalls + 1) : Spend(s) = [s EXCEPT !.calls = n]
<1>1. s.calls \in 0..(MaxCalls + 1) /\ MaxCalls \in Nat
  BY ConstantsAssumption DEF Turn
<1>2. CASE s.lane = "agent" /\ s.calls <= MaxCalls
  <2>1. s.calls + 1 \in 0..(MaxCalls + 1)
    BY <1>1, <1>2
  <2> QED BY <1>2, <2>1 DEF Spend
<1>3. CASE ~(s.lane = "agent" /\ s.calls <= MaxCalls)
  <2>1. Spend(s) = [s EXCEPT !.calls = s.calls]
    BY <1>3 DEF Spend, Turn
  <2> QED BY <1>1, <2>1
<1> QED BY <1>2, <1>3

\* A call that found something, was refused, or found nothing.
LEMMA CallTidy ==
  ASSUME TurnsInv, NEW t \in Turns, turn[t].at = "talking",
         NEW found \in SUBSET Memories, NEW r, Becomes(t, r),
         \/ r = Render(turn[t], found)
         \/ r = Spend(turn[t])
         \/ r = [Spend(turn[t]) EXCEPT !.known = @ \cup found]
  PROVE  TidyStep(t)
<1> DEFINE s == turn[t]
<1>1. s \in Turn /\ Tidy(s)
  BY DEF TurnsInv
<1>2. PICK n \in 0..(MaxCalls + 1) : Spend(s) = [s EXCEPT !.calls = n]
  BY <1>1, SpendIs
<1>3. \/ r = Spend(s)
      \/ r = [Spend(s) EXCEPT !.known = @ \cup found, !.read = @ \cup found]
      \/ r = [Spend(s) EXCEPT !.known = @ \cup found]
  BY DEF Render
<1>4. s.lane = "agent" => s.read \subseteq s.known
  BY <1>1 DEF Tidy
<1> HIDE DEF s
<1>5. /\ r \in Turn /\ r.at = s.at /\ r.lane = s.lane /\ s.known \subseteq r.known
      /\ r.lane = "agent" => r.read \subseteq r.known
      /\ r.spoken = s.spoken /\ r.shown = s.shown /\ r.list = s.list
      /\ r.held = s.held /\ r.asked = s.asked
  <2>1. CASE r = Spend(s)
    BY <1>1, <1>2, <1>4, <2>1 DEF Turn
  <2>2. CASE r = [Spend(s) EXCEPT !.known = @ \cup found, !.read = @ \cup found]
    <3>1. r = [s EXCEPT !.calls = n, !.known = s.known \cup found, !.read = s.read \cup found]
      BY <1>1, <1>2, <2>2 DEF Turn
    <3>2. s.known \cup found \in SUBSET Memories /\ s.read \cup found \in SUBSET Memories
      BY <1>1 DEF Turn
    <3> QED BY <1>1, <1>4, <3>1, <3>2 DEF Turn
  <2>3. CASE r = [Spend(s) EXCEPT !.known = @ \cup found]
    <3>1. r = [s EXCEPT !.calls = n, !.known = s.known \cup found]
      BY <1>1, <1>2, <2>3 DEF Turn
    <3>2. s.known \cup found \in SUBSET Memories
      BY <1>1 DEF Turn
    <3> QED BY <1>1, <1>4, <3>1, <3>2 DEF Turn
  <2> QED BY <1>3, <2>1, <2>2, <2>3
<1> QED BY <1>5, ToolIs DEF s

\* The tools.
LEMMA ToolTidy ==
  ASSUME TurnsInv, NEW t \in Turns, Tool(t) PROVE TidyStep(t)
<1>1. turn[t] \in Turn /\ Tidy(turn[t])
  BY DEF TurnsInv
<1>2. CASE Query(t) \/ Search(t)
  <2>1. PICK found \in SUBSET Memories : Becomes(t, Render(turn[t], found))
    BY <1>2 DEF Query, Search
  <2> QED BY <1>2, <2>1, CallTidy DEF Query, Search, Calls
<1>3. CASE Get(t)
  <2>1. Becomes(t, Spend(turn[t])) /\ turn[t].at = "talking" /\ {} \in SUBSET Memories
    BY <1>3 DEF Get, Calls
  <2> QED BY <2>1, CallTidy
<1>4. CASE AskStatus(t)
  <2>1. PICK newest \in SUBSET Memories :
          Becomes(t, IF Refused(turn[t]) THEN Spend(turn[t])
                     ELSE [Spend(turn[t]) EXCEPT !.known = @ \cup newest])
    BY <1>4 DEF AskStatus
  <2> QED BY <1>4, <2>1, CallTidy DEF AskStatus, Calls
<1>5. CASE Propose(t)
  <2> DEFINE r == [turn[t] EXCEPT !.offered = TRUE]
  <2>1. turn[t].at = "talking" /\ Becomes(t, r)
    BY <1>5 DEF Propose, Calls
  <2>2. r \in Turn
    BY <1>1 DEF Turn
  <2>3. /\ r.at = turn[t].at /\ r.lane = turn[t].lane /\ r.known = turn[t].known
        /\ r.read = turn[t].read /\ r.spoken = turn[t].spoken /\ r.shown = turn[t].shown
        /\ r.list = turn[t].list /\ r.held = turn[t].held /\ r.asked = turn[t].asked
    BY <1>1 DEF Turn
  <2>4. r.lane = "agent" => r.read \subseteq r.known
    BY <1>1, <2>3 DEF Tidy
  <2> HIDE DEF r
  <2> QED BY <2>1, <2>2, <2>3, <2>4, ToolIs
<1>6. ASSUME NEW m \in Memories, Follow(t, m) PROVE TidyStep(t)
  <2>1. PICK found \in SUBSET (Memories \ {m}) :
          Becomes(t, IF m \in turn[t].known THEN Render(turn[t], found) ELSE Spend(turn[t]))
    BY <1>6 DEF Follow
  <2>2. found \in SUBSET Memories /\ turn[t].at = "talking"
    BY <1>6 DEF Follow, Calls
  <2> QED BY <2>1, <2>2, CallTidy
<1>7. ASSUME NEW w \in Vocabulary, AskUser(t, w) PROVE TidyStep(t)
  <2> DEFINE s == turn[t]
             piece == [word |-> w, read |-> Had(s, w)]
             r == [s EXCEPT !.asked = <<piece>>]
  <2>1. s.at = "talking" /\ s.lane = "agent" /\ Becomes(t, r)
    BY <1>7 DEF AskUser, Calls
  <2>2. w \in Word /\ Had(s, w) \in BOOLEAN /\ (Had(s, w) => w.of \in s.known)
    BY <1>1, <2>1, ConstantsAssumption DEF Had, Tidy
  <2>3. piece \in Piece /\ (piece.read => piece.word.of \in s.known)
    BY <2>2 DEF Piece
  <2> HIDE DEF s, piece
  <2>4. r \in Turn
    BY <1>1, <2>3 DEF Turn, s
  <2>5. /\ r.at = s.at /\ r.lane = s.lane /\ r.known = s.known /\ r.read = s.read
        /\ r.spoken = s.spoken /\ r.shown = s.shown /\ r.list = s.list /\ r.held = s.held
        /\ r.asked = <<piece>>
    BY <1>1 DEF Turn, s
  <2>6. RunListed(<<piece>>, s.known)
    BY <2>3 DEF RunListed
  <2> HIDE DEF r
  <2>7. Tidy(r)
    BY <1>1, <2>1, <2>5, <2>6 DEF Tidy, s
  <2> QED BY <2>1, <2>4, <2>7 DEF TidyStep, Good, Closed, s
<1> QED BY <1>2, <1>3, <1>4, <1>5, <1>6, <1>7 DEF Tool

\* What a driver's end starts from: its tail is out.
LEMMA TailIs ==
  ASSUME NEW s \in Turn, Tidy(s), s.at = "talking", NEW f \in Finish(s)
  PROVE  /\ f \in Turn /\ Tidied(f) /\ f.at = s.at /\ f.lane = s.lane /\ f.known = s.known
         /\ f.asked = s.asked /\ f.written = s.written /\ f.ends = s.ends
         /\ f.held = <<>> /\ f.read = s.read /\ f.list = s.list
<1>1. Tidied(s)
  BY DEF Tidy, Tidied
<1>2. s.lane = "agent" => RunListed(s.held, s.list)
  BY DEF Tidy
<1>3. PICK out \in Seq(Shown) :
        /\ f = [s EXCEPT !.spoken = out, !.shown = out, !.stopped = TRUE, !.held = <<>>]
        /\ Clean(out, s.lane, s.known)
  BY <1>1, <1>2, FinishIs
<1>4. /\ f \in Turn /\ f.at = s.at /\ f.lane = s.lane /\ f.known = s.known
      /\ f.asked = s.asked /\ f.written = s.written /\ f.ends = s.ends
      /\ f.held = <<>> /\ f.read = s.read /\ f.list = s.list
      /\ f.spoken = out /\ f.shown = out
  BY <1>3, NoRun DEF Turn
<1> QED BY <1>1, <1>3, <1>4 DEF Tidied

\* The agent ends: with what it streamed, with an answer it did not stream, or by
\* handing the question to the older lane.
LEMMA SettleAgentTidy ==
  ASSUME TurnsInv, NEW t \in Turns, SettleAgent(t) PROVE TidyStep(t)
<1> DEFINE s == turn[t]
<1>1. s \in Turn /\ Tidy(s) /\ s.at = "talking" /\ s.lane = "agent"
  BY DEF TurnsInv, SettleAgent, Calls
<1>2. PICK f \in Finish(s), final \in Finals(s) :
        IF f.spoken # <<>> THEN Becomes(t, Done(f, "remembering"))
        ELSE IF Unspoken(f, final) = <<>>
          THEN \E snapshot \in SUBSET Memories : Becomes(t, Hand(f, snapshot))
        ELSE \E r \in Checked(f, Unspoken(f, final)) :
               Becomes(t, IF r.spoken = <<>> THEN Failing(r) ELSE Done(r, "remembering"))
  BY DEF SettleAgent
<1>3. /\ f \in Turn /\ Tidied(f) /\ f.lane = "agent" /\ f.known = s.known
      /\ f.asked = s.asked
  BY <1>1, TailIs
<1>4. ASSUME NEW r \in Turn, Becomes(t, r), Tidy(r) PROVE TidyStep(t)
  BY <1>1, <1>4 DEF TidyStep, Good, Closed
<1>5. CASE f.spoken # <<>>
  BY <1>2, <1>3, <1>4, <1>5, DoneIsTidy DEF Tidied
<1>6. CASE f.spoken = <<>> /\ Unspoken(f, final) = <<>>
  <2>1. PICK snapshot \in SUBSET Memories : Becomes(t, Hand(f, snapshot))
    BY <1>2, <1>6
  <2>2. f.shown = <<>> /\ f.ends \in Nat
    BY <1>3, <1>6 DEF Tidied, Turn
  <2>3. 0 \in 0..MaxWords /\ 0 \in 0..(MaxCalls + 1)
    BY ConstantsAssumption
  <2>4. /\ Hand(f, snapshot).at = "talking" /\ Hand(f, snapshot).lane = "tools"
        /\ Hand(f, snapshot).shown = <<>> /\ Hand(f, snapshot).spoken = <<>>
        /\ Hand(f, snapshot).list = {} /\ Hand(f, snapshot).asked = <<>>
    BY <2>2 DEF Hand, Fresh
  <2>5. Hand(f, snapshot) \in Turn
    BY <2>2, <2>3, CleanNone, NoRun DEF Hand, Fresh, Turn, Lanes
  <2>6. Tidy(Hand(f, snapshot))
    BY <2>4, CleanNone DEF Tidy
  <2> QED BY <1>4, <2>1, <2>5, <2>6
<1>7. CASE f.spoken = <<>> /\ Unspoken(f, final) # <<>>
  <2>1. PICK r \in Checked(f, Unspoken(f, final)) :
          Becomes(t, IF r.spoken = <<>> THEN Failing(r) ELSE Done(r, "remembering"))
    BY <1>2, <1>7
  <2>2. PICK piece \in Piece : /\ Unspoken(f, final) = <<piece>>
                               /\ piece.read => piece.word.of \in s.known
    <3>1. CASE f.asked # <<>>
      <4>1. f.asked \in {<<>>} \cup {<<p>> : p \in Piece}
        BY <1>3 DEF Turn
      <4>2. PICK p \in Piece : f.asked = <<p>>
        BY <3>1, <4>1
      <4>3. RunListed(<<p>>, s.known)
        BY <1>1, <1>3, <3>1, <4>2 DEF Tidy
      <4>4. p.read => p.word.of \in s.known
        BY <4>3 DEF RunListed
      <4> QED BY <3>1, <4>2, <4>4 DEF Unspoken
    <3>2. CASE f.asked = <<>>
      <4>1. final # <<>> /\ Unspoken(f, final) = final
        BY <1>7, <3>2 DEF Unspoken
      <4>2. PICK w \in Vocabulary : final = <<[word |-> w, read |-> Had(s, w)]>>
        BY <1>2, <4>1 DEF Finals
      <4>3. w \in Word /\ Had(s, w) \in BOOLEAN /\ (Had(s, w) => w.of \in s.known)
        BY <1>1, ConstantsAssumption DEF Had, Tidy
      <4>4. [word |-> w, read |-> Had(s, w)] \in Piece
        BY <4>3 DEF Piece
      <4> QED BY <4>1, <4>2, <4>3, <4>4
    <3> QED BY <3>1, <3>2
  <2>3. PICK out \in Seq(Shown) :
          /\ r = [f EXCEPT !.spoken = out, !.shown = out, !.stopped = TRUE]
          /\ Clean(out, f.lane, f.known)
    BY <1>3, <2>1, <2>2, CheckedIs
  <2>4. /\ r \in Turn /\ r.spoken = r.shown /\ Clean(r.shown, r.lane, r.known)
    BY <1>3, <2>3 DEF Turn
  <2> QED BY <1>4, <2>1, <2>4, DoneIsTidy, FailingIsTidy
<1> QED BY <1>5, <1>6, <1>7

\* The older lane ends.
LEMMA SettleToolsTidy ==
  ASSUME TurnsInv, NEW t \in Turns, SettleTools(t) PROVE TidyStep(t)
<1> DEFINE s == turn[t]
<1>1. s \in Turn /\ Tidy(s) /\ s.at = "talking" /\ s.lane = "tools"
  BY DEF TurnsInv, SettleTools, Calls
<1>2. PICK f \in Finish(s) :
        Becomes(t, IF f.spoken # <<>> THEN Done(f, "remembering")
                   ELSE [f EXCEPT !.at = "planning",
                           !.ends = IF f.written = 0 THEN @ ELSE @ + 1])
  BY DEF SettleTools
<1>3. /\ f \in Turn /\ Tidied(f) /\ f.lane = "tools" /\ f.asked = s.asked
      /\ f.list = s.list /\ f.known = s.known
  BY <1>1, TailIs
<1>4. ASSUME NEW r \in Turn, Becomes(t, r), Tidy(r) PROVE TidyStep(t)
  BY <1>1, <1>4 DEF TidyStep, Good, Closed
<1>5. CASE f.spoken # <<>>
  BY <1>2, <1>3, <1>4, <1>5, DoneIsTidy DEF Tidied
<1>6. CASE f.spoken = <<>>
  <2> DEFINE ends == IF f.written = 0 THEN f.ends ELSE f.ends + 1
             r == [f EXCEPT !.at = "planning", !.ends = ends]
  <2>1. Becomes(t, r)
    BY <1>2, <1>3, <1>6 DEF Turn
  <2>2. ends \in Nat
    BY <1>3 DEF Turn
  <2> HIDE DEF ends
  <2>3. /\ r \in Turn /\ r.lane = "tools" /\ r.spoken = <<>> /\ r.shown = <<>>
        /\ r.list = s.list /\ r.known = s.known /\ r.asked = s.asked
    BY <1>3, <1>6, <2>2 DEF Turn, Tidied
  <2> HIDE DEF r
  <2>4. Tidy(r)
    BY <1>1, <2>3, CleanNone DEF Tidy
  <2> QED BY <1>4, <2>1, <2>3, <2>4
<1> QED BY <1>5, <1>6

\* The planned search begins, or answers by itself.
LEMMA PlannedTidy ==
  ASSUME TurnsInv, NEW t \in Turns, PlannedSearch(t) PROVE TidyStep(t)
<1> DEFINE s == [turn[t] EXCEPT !.lane = "single"]
           none == [by |-> "single", word |-> Plain, read |-> FALSE]
           fixed == [s EXCEPT !.shown = Append(@, none)]
<1>1. turn[t] \in Turn /\ Tidy(turn[t]) /\ turn[t].at = "planning"
  BY DEF TurnsInv, PlannedSearch
<1>2. \/ Becomes(t, [s EXCEPT !.at = "raised"])
      \/ Becomes(t, Done(s, "closing"))
      \/ Becomes(t, Done(fixed, "closing"))
      \/ \E kept \in SUBSET Memories \ {{}} :
           Becomes(t, [s EXCEPT !.at = "talking", !.read = @ \cup kept, !.known = kept,
                         !.list = kept, !.written = 0, !.held = <<>>, !.stopped = FALSE,
                         !.spoken = <<>>])
  BY DEF PlannedSearch
<1>3. /\ turn[t].shown = <<>> /\ turn[t].asked = <<>> /\ turn[t].list \subseteq turn[t].known
      /\ turn[t].spoken = <<>>
  BY <1>1 DEF Tidy
<1>4. /\ s \in Turn /\ s.lane = "single" /\ s.shown = <<>> /\ s.spoken = <<>>
      /\ s.asked = <<>> /\ s.list \subseteq s.known /\ s.read \in SUBSET Memories
  BY <1>1, <1>3 DEF Turn, Lanes
<1>5. ASSUME NEW r \in Turn, Becomes(t, r), Tidy(r) PROVE TidyStep(t)
  BY <1>1, <1>5 DEF TidyStep, Good, Closed
<1> HIDE DEF s
<1>6. CASE Becomes(t, [s EXCEPT !.at = "raised"])
  <2> DEFINE r == [s EXCEPT !.at = "raised"]
  <2>1. /\ r \in Turn /\ r.at = "raised" /\ r.lane = "single" /\ r.shown = <<>>
        /\ r.asked = <<>> /\ r.list = s.list /\ r.known = s.known
    BY <1>4 DEF Turn
  <2> HIDE DEF r
  <2>2. Tidy(r)
    BY <1>4, <2>1, CleanNone DEF Tidy
  <2> QED BY <1>5, <1>6, <2>1, <2>2 DEF r
<1>7. CASE Becomes(t, Done(s, "closing"))
  BY <1>4, <1>5, <1>7, CleanNone, DoneIsTidy
<1>8. CASE Becomes(t, Done(fixed, "closing"))
  <2>1. /\ none \in Shown /\ CleanEntry(none, "single", s.known)
    <3>1. /\ Plain \in Word /\ ~IsLink(Plain) /\ Plain.as # "cut"
      BY DEF Plain, Word, IsLink
    <3> QED BY <3>1 DEF CleanEntry, Shown, Lanes, Text
  <2> HIDE DEF none
  <2>2. /\ fixed = [s EXCEPT !.shown = <<none>>]
        /\ <<none>> \in Seq(Shown) /\ Len(<<none>>) = 1 /\ <<none>>[1] = none
    BY <1>4, <2>1 DEF Turn
  <2>3. fixed \in Turn /\ fixed.lane = "single" /\ fixed.known = s.known
        /\ fixed.shown = <<none>>
    BY <1>4, <2>2 DEF Turn
  <2>4. Clean(<<none>>, "single", s.known)
    BY <2>1, <2>2 DEF Clean
  <2> HIDE DEF fixed
  <2> QED BY <1>5, <1>8, <2>3, <2>4, DoneIsTidy
<1>9. ASSUME NEW kept \in SUBSET Memories,
             Becomes(t, [s EXCEPT !.at = "talking", !.read = @ \cup kept, !.known = kept,
                           !.list = kept, !.written = 0, !.held = <<>>, !.stopped = FALSE,
                           !.spoken = <<>>])
      PROVE  TidyStep(t)
  <2> DEFINE r == [s EXCEPT !.at = "talking", !.read = s.read \cup kept, !.known = kept,
                     !.list = kept, !.written = 0, !.held = <<>>, !.stopped = FALSE,
                     !.spoken = <<>>]
  <2>1. Becomes(t, r)
    BY <1>4, <1>9 DEF Turn
  <2>2. s.read \cup kept \in SUBSET Memories /\ 0 \in 0..MaxWords
    BY <1>4, ConstantsAssumption
  <2>3. /\ r \in Turn /\ r.at = "talking" /\ r.lane = "single" /\ r.shown = <<>>
        /\ r.spoken = <<>> /\ r.asked = <<>> /\ r.list = kept /\ r.known = kept
    BY <1>4, <2>2, CleanNone, NoRun DEF Turn
  <2> HIDE DEF r
  <2>4. Tidy(r)
    BY <2>3, CleanNone DEF Tidy
  <2> QED BY <1>5, <2>1, <2>3, <2>4
<1> QED BY <1>2, <1>6, <1>7, <1>8, <1>9

\* The planned search's answer ends.
LEMMA SettleSingleTidy ==
  ASSUME TurnsInv, NEW t \in Turns, SettleSingle(t) PROVE TidyStep(t)
<1> DEFINE s == turn[t]
<1>1. s \in Turn /\ Tidy(s) /\ s.at = "talking"
  BY DEF TurnsInv, SettleSingle, Calls
<1>2. ASSUME NEW r \in Turn, Becomes(t, r), Tidy(r) PROVE TidyStep(t)
  BY <1>1, <1>2 DEF TidyStep, Good, Closed
<1>3. CASE Becomes(t, Failing(s))
  <2>1. Clean(s.shown, s.lane, s.known)
    BY <1>1 DEF Tidy
  <2> QED BY <1>1, <1>2, <1>3, <2>1, FailingIsTidy
<1>4. ASSUME NEW f \in Finish(s),
             Becomes(t, IF f.spoken = <<>> THEN Failing(f) ELSE Done(f, "remembering"))
      PROVE  TidyStep(t)
  <2>1. f \in Turn /\ Tidied(f)
    BY <1>1, TailIs
  <2> QED BY <1>2, <1>4, <2>1, DoneIsTidy, FailingIsTidy DEF Tidied
<1> QED BY <1>3, <1>4 DEF SettleSingle

\* The end is sent; or the reader leaves.
LEMMA EndTidy ==
  ASSUME TurnsInv, NEW t \in Turns, End(t) \/ Leave(t) PROVE TidyStep(t)
<1> DEFINE s == turn[t]
<1>1. s \in Turn /\ Tidy(s)
  BY DEF TurnsInv
<1>2. CASE End(t)
  <2> DEFINE r == [s EXCEPT !.at = "over", !.ends = @ + 1]
  <2>1. s.at = "closing" /\ Becomes(t, r)
    BY <1>2 DEF End
  <2>2. s.ends + 1 \in Nat
    BY <1>1 DEF Turn
  <2> HIDE DEF s
  <2>3. /\ r \in Turn /\ r.at = "over" /\ r.lane = s.lane /\ r.shown = s.shown
        /\ r.known = s.known /\ r.asked = s.asked /\ r.list = s.list /\ r.held = s.held
        /\ r.read = s.read
    BY <1>1, <2>2 DEF Turn
  <2> HIDE DEF r
  <2>4. Tidy(r)
    BY <1>1, <2>3 DEF Tidy
  <2> QED BY <2>1, <2>3, <2>4 DEF TidyStep, Good, Closed, s
<1>3. CASE Leave(t)
  <2>1. Becomes(t, Done(s, "gone")) /\ Clean(s.shown, s.lane, s.known)
    BY <1>1, <1>3 DEF Leave, Tidy
  <2>2. /\ Done(s, "gone") \in Turn /\ Tidy(Done(s, "gone"))
        /\ Done(s, "gone").at = "gone" /\ Done(s, "gone").shown = s.shown
    BY <1>1, <2>1, DoneIsTidy
  <2> QED BY <2>1, <2>2 DEF TidyStep, Good, Closed
<1> QED BY <1>2, <1>3

\* What is remembered, and that the reader was shown.
LEMMA RememberTidy ==
  ASSUME TurnsInv, NEW t \in Turns, Remember(t)
  PROVE  /\ turn' = [turn EXCEPT ![t] = Done(turn[t], "closing")]
         /\ Good(turn[t], Done(turn[t], "closing"))
         /\ Done(turn[t], "closing").shown = turn[t].shown
         /\ Remembered(t) = [turn |-> t,
                text |-> [i \in DOMAIN turn[t].shown |-> turn[t].shown[i].word]]
<1>1. turn[t] \in Turn /\ Tidy(turn[t]) /\ turn[t].at = "remembering"
  BY DEF TurnsInv, Remember
<1>2. turn[t].spoken = turn[t].shown /\ Clean(turn[t].shown, turn[t].lane, turn[t].known)
  BY <1>1 DEF Tidy
<1>3. /\ Done(turn[t], "closing") \in Turn /\ Tidy(Done(turn[t], "closing"))
      /\ Done(turn[t], "closing").at = "closing"
      /\ Done(turn[t], "closing").shown = turn[t].shown
  BY <1>1, <1>2, DoneIsTidy
<1>4. turn' = [turn EXCEPT ![t] = Done(turn[t], "closing")]
  BY DEF Remember, TurnsInv
<1>5. Remembered(t) = [turn |-> t,
                text |-> [i \in DOMAIN turn[t].shown |-> turn[t].shown[i].word]]
  BY <1>2 DEF Remembered
<1> QED BY <1>1, <1>3, <1>4, <1>5 DEF Good, Closed

\* Every step of a turn is one of these.
LEMMA TurnSteps ==
  ASSUME TurnsInv, Next
  PROVE  \E t \in Turns : TidyStep(t) \/ Remember(t)
<1>1. PICK t \in Turns :
        \/ Open(t) \/ Tool(t) \/ Settle(t) \/ Remember(t) \/ End(t) \/ Leave(t)
        \/ \E w \in Vocabulary, before, after \in BOOLEAN : Speak(t, w, before, after)
  BY DEF Next
<1>2. Settle(t) => TidyStep(t)
  BY SettleAgentTidy, SettleToolsTidy, PlannedTidy, SettleSingleTidy DEF Settle
<1>3. (\E w \in Vocabulary, before, after \in BOOLEAN : Speak(t, w, before, after))
        => TidyStep(t)
  BY SpeakTidy
<1> QED BY <1>1, <1>2, <1>3, OpenTidy, ToolTidy, EndTidy
-------------------------------------------------------------------------------
(* The conversation.                                                       *)

\* A turn of it.
Told == [turn : Turns, text : Seq(Text)]

\* The words of it.
Words(shown) == [k \in DOMAIN shown |-> shown[k].word]

\* It is of a closed turn, and says what that has shown.
TellsOf(e) == turn[e.turn].at \in Closed /\ e.text = Words(turn[e.turn].shown)

\* There is at most one of each turn.
HistoryInv ==
  /\ history \in Seq(Told)
  /\ \A i \in 1..Len(history) : TellsOf(history[i])
  /\ \A i, j \in 1..Len(history) : history[i].turn = history[j].turn => i = j

\* The inductive invariant.
ChatInv == TurnsInv /\ HistoryInv

\* It holds of no turn.
LEMMA ChatInit == Init => ChatInv
<1> SUFFICES ASSUME Init PROVE ChatInv
  OBVIOUS
<1>1. 0 \in 0..MaxWords /\ 0 \in 0..(MaxCalls + 1)
  BY ConstantsAssumption
<1>2. Fresh \in Turn
  BY <1>1, CleanNone, NoRun DEF Fresh, Turn, Lanes
<1>3. Tidy(Fresh)
  BY CleanNone, NoRun DEF Fresh, Tidy
<1>4. \A t \in Turns : turn[t] = Fresh
  BY DEF Init
<1>5. TurnsInv
  BY <1>2, <1>3, <1>4 DEF TurnsInv, Init
<1>6. history \in Seq(Told) /\ Len(history) = 0
  BY DEF Init
<1> QED BY <1>5, <1>6 DEF ChatInv, HistoryInv

\* One turn goes on.
LEMMA TurnsGoOn ==
  ASSUME TurnsInv, NEW t \in Turns, NEW r, turn' = [turn EXCEPT ![t] = r], Good(turn[t], r)
  PROVE  /\ TurnsInv'
         /\ \A u \in Turns : turn[u].at \in Closed =>
              turn'[u].at \in Closed /\ turn'[u].shown = turn[u].shown
<1>1. turn \in [Turns -> Turn] /\ \A u \in Turns : Tidy(turn[u])
  BY DEF TurnsInv
<1>2. turn' \in [Turns -> Turn] /\ turn'[t] = r /\ \A u \in Turns : u # t => turn'[u] = turn[u]
  BY <1>1 DEF Good
<1>3. ASSUME NEW u \in Turns PROVE Tidy(turn'[u])
  BY <1>1, <1>2 DEF Good
<1>4. ASSUME NEW u \in Turns, turn[u].at \in Closed
      PROVE  turn'[u].at \in Closed /\ turn'[u].shown = turn[u].shown
  BY <1>2, <1>4 DEF Good
<1>5. \A u \in Turns : Tidy(turn[u])'
  BY <1>3 DEF Tidy
<1> QED BY <1>2, <1>4, <1>5 DEF TurnsInv

\* What a turn has shown is text.
LEMMA ShownIsText ==
  ASSUME NEW s \in Turn
  PROVE  Words(s.shown) \in Seq(Text)
<1>1. s.shown \in Seq(Shown)
  BY DEF Turn
<1>2. Len(s.shown) \in Nat /\ DOMAIN s.shown = 1..Len(s.shown)
  BY <1>1
<1>3. ASSUME NEW i \in 1..Len(s.shown) PROVE s.shown[i].word \in Text
  <2>1. s.shown[i] \in Shown
    BY <1>1, <1>3
  <2> QED BY <2>1 DEF Shown
<1> QED BY <1>2, <1>3, IsASeq DEF Words

\* What tells of a turn goes on doing so.
LEMMA StillTells ==
  ASSUME NEW e, e.turn \in Turns, TellsOf(e),
         \A u \in Turns : turn[u].at \in Closed =>
           turn'[u].at \in Closed /\ turn'[u].shown = turn[u].shown
  PROVE  turn'[e.turn].at \in Closed /\ e.text = Words(turn'[e.turn].shown)
  BY DEF TellsOf

\* Every step keeps the invariant.
LEMMA ChatStep == ChatInv /\ [Next]_vars => ChatInv'
<1> SUFFICES ASSUME ChatInv, [Next]_vars PROVE ChatInv'
  OBVIOUS
<1> USE DEF ChatInv
<1>1. history \in Seq(Told) /\ Len(history) \in Nat
  BY DEF HistoryInv
<1>2. ASSUME NEW i \in 1..Len(history)
      PROVE  history[i] \in Told /\ history[i].turn \in Turns /\ TellsOf(history[i])
  <2>1. history[i] \in Told
    BY <1>1
  <2> QED BY <2>1 DEF HistoryInv, Told
<1>3. \A i, j \in 1..Len(history) : history[i].turn = history[j].turn => i = j
  BY DEF HistoryInv
<1>4. ASSUME history' = history, TurnsInv',
             \A u \in Turns : turn[u].at \in Closed =>
               turn'[u].at \in Closed /\ turn'[u].shown = turn[u].shown
      PROVE  ChatInv'
  <2>1. ASSUME NEW i \in 1..Len(history) PROVE TellsOf(history[i])'
    <3>1. /\ turn'[history[i].turn].at \in Closed
          /\ history[i].text = Words(turn'[history[i].turn].shown)
      BY <1>2, <1>4, StillTells
    <3> QED BY <1>4, <3>1 DEF TellsOf
  <2> QED BY <1>1, <1>3, <1>4, <2>1 DEF HistoryInv
<1>5. ASSUME NEW t \in Turns, TidyStep(t) PROVE ChatInv'
  <2>1. PICK r \in Turn : turn' = [turn EXCEPT ![t] = r] /\ history' = history /\ Good(turn[t], r)
    BY <1>5 DEF TidyStep, Becomes
  <2> QED BY <1>4, <2>1, TurnsGoOn
<1>6. ASSUME NEW t \in Turns, Remember(t) PROVE ChatInv'
  <2> DEFINE e == Remembered(t)
  <2>1. /\ turn' = [turn EXCEPT ![t] = Done(turn[t], "closing")]
        /\ Good(turn[t], Done(turn[t], "closing"))
        /\ Done(turn[t], "closing").shown = turn[t].shown
        /\ e = [turn |-> t, text |-> Words(turn[t].shown)]
    BY <1>6, RememberTidy DEF Words
  <2>2. /\ TurnsInv'
        /\ \A u \in Turns : turn[u].at \in Closed =>
             turn'[u].at \in Closed /\ turn'[u].shown = turn[u].shown
    BY <2>1, TurnsGoOn
  <2>3. /\ turn[t] \in Turn /\ turn[t].at \notin Closed
        /\ turn'[t].at \in Closed /\ turn'[t].shown = turn[t].shown
    <3>1. turn'[t] = Done(turn[t], "closing")
      BY <2>1 DEF TurnsInv
    <3>2. Done(turn[t], "closing").at = "closing"
      BY DEF Done, Fresh
    <3> QED BY <1>6, <2>1, <3>1, <3>2 DEF Remember, Closed, TurnsInv
  <2>4. e.turn = t /\ e.text = Words(turn'[t].shown)
    BY <2>1, <2>3
  <2>5. e \in Told
    <3>1. Words(turn[t].shown) \in Seq(Text)
      BY <2>3, ShownIsText
    <3> HIDE DEF e
    <3> QED BY <2>1, <3>1 DEF Told
  <2>6. history' = history \/ history' = Append(history, e)
    BY <1>6 DEF Remember
  <2> HIDE DEF e
  <2>7. CASE history' = Append(history, e)
    <3>1. /\ history' \in Seq(Told) /\ Len(history') = Len(history) + 1
          /\ \A i \in 1..Len(history) : history'[i] = history[i]
          /\ history'[Len(history) + 1] = e
      BY <1>1, <2>5, <2>7, AppendProperties
    <3>2. \A i \in 1..Len(history') : i \in 1..Len(history) \/ i = Len(history) + 1
      BY <1>1, <3>1
    <3>3. \A i \in 1..Len(history) : history[i].turn # t
      BY <1>2, <2>3 DEF TellsOf
    <3>4. ASSUME NEW i \in 1..Len(history') PROVE TellsOf(history[i])'
      <4>1. CASE i = Len(history) + 1
        BY <2>3, <2>4, <3>1, <4>1 DEF TellsOf
      <4>2. CASE i \in 1..Len(history)
        <5>1. /\ turn'[history[i].turn].at \in Closed
              /\ history[i].text = Words(turn'[history[i].turn].shown)
          BY <1>2, <2>2, <4>2, StillTells
        <5> QED BY <3>1, <4>2, <5>1 DEF TellsOf
      <4> QED BY <3>2, <4>1, <4>2
    <3>5. \A i, j \in 1..Len(history') : history'[i].turn = history'[j].turn => i = j
      BY <1>3, <2>4, <3>1, <3>2, <3>3
    <3> QED BY <2>2, <3>1, <3>4, <3>5 DEF HistoryInv
  <2> QED BY <1>4, <2>2, <2>6, <2>7
<1>7. CASE UNCHANGED vars
  <2>1. turn' = turn /\ history' = history
    BY <1>7 DEF vars
  <2> QED BY <2>1 DEF TurnsInv, HistoryInv, TellsOf
<1>8. CASE Next
  BY <1>5, <1>6, <1>8, TurnSteps
<1> QED BY <1>7, <1>8

\* So it always holds.
LEMMA ChatAlways == Spec => []ChatInv
  BY ChatInit, ChatStep, PTL DEF Spec
-------------------------------------------------------------------------------
(* The theorems.                                                           *)

\* Every variable keeps its type.
THEOREM ChatTypeCorrect == Spec => []TypeOK
<1>1. ChatInv => TypeOK
  BY DEF ChatInv, TurnsInv, HistoryInv, Told, TypeOK
<1> QED BY <1>1, ChatAlways, PTL

\* A reader is led to no memory that was not looked up, whatever the model writes,
\* in however many fragments and between whichever calls (validation.py).
THEOREM ChatOnlyTheRead == Spec => []OnlyTheRead
<1>1. ChatInv => OnlyTheRead
  <2> SUFFICES ASSUME ChatInv, NEW t \in Turns, NEW i \in DOMAIN turn[t].shown
               PROVE  LET e == turn[t].shown[i]
                      IN IsLink(e.word) \/ e.word.as = "cut" => e.word.of \in turn[t].known
    BY DEF OnlyTheRead
  <2>1. Clean(turn[t].shown, turn[t].lane, turn[t].known) /\ turn[t].shown \in Seq(Shown)
    BY DEF ChatInv, TurnsInv, Tidy, Clean
  <2>2. CleanEntry(turn[t].shown[i], turn[t].lane, turn[t].known)
    BY <2>1 DEF Clean
  <2> QED BY <2>2 DEF CleanEntry
<1> QED BY <1>1, ChatAlways, PTL

\* A link that the agent had in front of it is not taken for a fabrication
\* (recall_agent.py).
THEOREM ChatNothingReadIsOmitted == Spec => []NothingReadIsOmitted
<1>1. ChatInv => NothingReadIsOmitted
  <2> SUFFICES ASSUME ChatInv, NEW t \in Turns, NEW i \in DOMAIN turn[t].shown
               PROVE  LET e == turn[t].shown[i]
                      IN e.word = Omitted /\ e.by = "agent" => ~e.read
    BY DEF NothingReadIsOmitted
  <2>1. Clean(turn[t].shown, turn[t].lane, turn[t].known) /\ turn[t].shown \in Seq(Shown)
    BY DEF ChatInv, TurnsInv, Tidy, Clean
  <2>2. CleanEntry(turn[t].shown[i], turn[t].lane, turn[t].known)
    BY <2>1 DEF Clean
  <2> QED BY <2>2 DEF CleanEntry
<1> QED BY <1>1, ChatAlways, PTL

\* A reader hears one driver (recall_chat.py).
THEOREM ChatOneVoice == Spec => []OneVoice
<1>1. ChatInv => OneVoice
  <2> SUFFICES ASSUME ChatInv, NEW t \in Turns, NEW i \in DOMAIN turn[t].shown,
                      NEW j \in DOMAIN turn[t].shown
               PROVE  turn[t].shown[i].by = turn[t].shown[j].by
    BY DEF OneVoice
  <2>1. Clean(turn[t].shown, turn[t].lane, turn[t].known) /\ turn[t].shown \in Seq(Shown)
    BY DEF ChatInv, TurnsInv, Tidy, Clean
  <2>2. /\ CleanEntry(turn[t].shown[i], turn[t].lane, turn[t].known)
        /\ CleanEntry(turn[t].shown[j], turn[t].lane, turn[t].known)
    BY <2>1 DEF Clean
  <2> QED BY <2>2 DEF CleanEntry
<1> QED BY <1>1, ChatAlways, PTL

\* The next prompt replays what the reader was shown, once (history.py).
THEOREM ChatRememberedAsSaid == Spec => []RememberedAsSaid
<1>1. ChatInv => RememberedAsSaid
  <2>1. ChatInv => DOMAIN history = 1..Len(history)
    BY DEF ChatInv, HistoryInv
  <2> QED BY <2>1 DEF ChatInv, HistoryInv, TellsOf, Words, RememberedAsSaid
<1> QED BY <1>1, ChatAlways, PTL
===============================================================================
