---------------------------- MODULE Readers_proofs ----------------------------
(***************************************************************************)
(* Proofs about Readers, for any number of slides, of them within the      *)
(* budget and of them read at once, and any number of retries, edits and   *)
(* deaths: a finished memory opens with its author's words, was drawn from *)
(* the text it holds, and says truly what of it was read.                  *)
(***************************************************************************)
EXTENDS Readers, FiniteSetTheorems, SequenceTheorems, WellFoundedInduction, TLAPS

-------------------------------------------------------------------------------
(* Picking from a sequence                                                 *)

\* A set of numbers has a least one.
LEMMA LeastNumber ==
  ASSUME NEW S, S \subseteq Nat, S # {}
  PROVE  \E x \in S : \A y \in S : x <= y
<1>1. PICK x \in S : \A y \in S : ~(<<y, x>> \in OpToRel(<, Nat))
  BY NatLessThanWellFounded, WFMin
<1>2. ASSUME NEW y \in S PROVE x <= y
  <2>1. x \in Nat /\ y \in Nat
    OBVIOUS
  <2>2. ASSUME y < x PROVE FALSE
    <3>1. <<y, x>> \in Nat \X Nat /\ <<y, x>>[1] < <<y, x>>[2]
      BY <2>1, <2>2
    <3> QED BY <1>1, <3>1 DEF OpToRel
  <2> QED BY <2>1, <2>2
<1> QED BY <1>1, <1>2

\* Some of the numbers up to one are finitely many.
LEMMA FewNumbers ==
  ASSUME NEW N \in Nat, NEW S \in SUBSET (1..N)
  PROVE  IsFiniteSet(S) /\ Cardinality(S) \in Nat /\ Cardinality(S) <= N
<1>1. IsFiniteSet(1..N) /\ Cardinality(1..N) = N
  <2>1. /\ IsFiniteSet(1..N)
        /\ Cardinality(1..N) = IF 1 > N THEN 0 ELSE N - 1 + 1
    BY FS_Interval
  <2> QED BY <2>1
<1> QED BY <1>1, FS_Subset, FS_CardinalityType

\* A sequence is of what its elements are of.
LEMMA SeqByElements ==
  ASSUME NEW S, NEW T, NEW s \in Seq(S), \A n \in 1..Len(s) : s[n] \in T
  PROVE  s \in Seq(T)
OBVIOUS

Rises(s) == \A m, n \in DOMAIN s : m < n => s[m] < s[n]

\* They can be put in order.
Orderable(N) == \A S \in SUBSET (1..N) : \E s \in [1..Cardinality(S) -> S] : Rises(s)

LEMMA OrderableNext ==
  ASSUME NEW N \in Nat, Orderable(N)
  PROVE  Orderable(N + 1)
<1> SUFFICES ASSUME NEW S \in SUBSET (1..(N + 1))
             PROVE  \E s \in [1..Cardinality(S) -> S] : Rises(s)
  BY DEF Orderable
<1>1. CASE N + 1 \notin S
  <2>1. S \in SUBSET (1..N)
    BY <1>1
  <2> QED BY <2>1 DEF Orderable
<1>2. CASE N + 1 \in S
  <2> DEFINE T == S \ {N + 1}
             c == Cardinality(T)
  <2>1. T \in SUBSET (1..N)
    OBVIOUS
  <2>2. IsFiniteSet(S) /\ Cardinality(S) \in Nat /\ c \in Nat
    BY <2>1, FewNumbers, N + 1 \in Nat
  <2>3. Cardinality(S) = c + 1
    <3>1. c = IF N + 1 \in S THEN Cardinality(S) - 1 ELSE Cardinality(S)
      BY <2>2, FS_RemoveElement
    <3> QED BY <1>2, <2>2, <3>1
  <2>4. PICK t \in [1..c -> T] : Rises(t)
    BY <2>1 DEF Orderable
  <2> HIDE DEF c, T
  <2>4a. \A n \in 1..c : t[n] \in 1..N
    BY <2>1, <2>4
  <2> DEFINE s == [n \in 1..(c + 1) |-> IF n = c + 1 THEN N + 1 ELSE t[n]]
  <2>5. \A n \in 1..(c + 1) : n # c + 1 => n \in 1..c
    BY <2>2
  <2>6. s \in [1..Cardinality(S) -> S]
    BY <1>2, <2>3, <2>4, <2>5 DEF T
  <2>7. Rises(s)
    <3> SUFFICES ASSUME NEW m \in 1..(c + 1), NEW n \in 1..(c + 1), m < n PROVE s[m] < s[n]
      BY DEF Rises
    <3>1. m \in 1..c /\ s[m] = t[m] /\ t[m] \in 1..N
      BY <2>2, <2>4a
    <3>2. CASE n = c + 1
      BY <3>1, <3>2
    <3>3. CASE n # c + 1
      <4>1. n \in 1..c /\ s[n] = t[n]
        BY <2>5, <3>3
      <4> QED BY <2>4, <3>1, <4>1 DEF Rises
    <3> QED BY <3>2, <3>3
  <2> QED BY <2>6, <2>7
<1> QED BY <1>1, <1>2

LEMMA AllOrderable == \A N \in Nat : Orderable(N)
<1> DEFINE S == {N \in Nat : ~Orderable(N)}
<1> SUFFICES ASSUME S # {} PROVE FALSE
  OBVIOUS
<1>1. PICK x \in S : \A y \in S : x <= y
  BY LeastNumber
<1>2. Orderable(0)
  <2> SUFFICES ASSUME NEW T \in SUBSET (1..0)
               PROVE  \E s \in [1..Cardinality(T) -> T] : Rises(s)
    BY DEF Orderable
  <2>1. T = {}
    OBVIOUS
  <2>1a. Cardinality(T) = 0
    BY <2>1, FS_EmptySet
  <2>2. [n \in 1..0 |-> 0] \in [1..Cardinality(T) -> T] /\ Rises([n \in 1..0 |-> 0])
    BY <2>1, <2>1a DEF Rises
  <2> QED BY <2>2
<1>3. x - 1 \in Nat /\ x - 1 \notin S
  BY <1>1, <1>2
<1>4. Orderable(x - 1 + 1)
  BY <1>3, OrderableNext
<1> QED BY <1>1, <1>4

\* InOrder is such an order.
LEMMA InOrderDef ==
  ASSUME NEW N \in Nat, NEW S \in SUBSET (1..N)
  PROVE  InOrder(S) \in [1..Cardinality(S) -> S] /\ Rises(InOrder(S))
BY AllOrderable DEF Orderable, InOrder, Rises

\* What is picked from a sequence is of it, and no more than there are places.
LEMMA PickedDef ==
  ASSUME NEW T, NEW s \in Seq(T), NEW P \in SUBSET (DOMAIN s)
  PROVE  /\ Picked(s, P) \in Seq(T)
         /\ Len(Picked(s, P)) = Cardinality(P) /\ Cardinality(P) <= Len(s)
         /\ Rises(InOrder(P))
         /\ \A n \in 1..Cardinality(P) :
              InOrder(P)[n] \in P /\ Picked(s, P)[n] = s[InOrder(P)[n]]
<1>1. Len(s) \in Nat /\ DOMAIN s = 1..Len(s) /\ \A k \in P : s[k] \in T
  OBVIOUS
<1>2. /\ Cardinality(P) \in Nat /\ Cardinality(P) <= Len(s)
      /\ InOrder(P) \in [1..Cardinality(P) -> P] /\ Rises(InOrder(P))
  BY <1>1, FewNumbers, InOrderDef
<1>3. Picked(s, P) = [n \in 1..Cardinality(P) |-> s[InOrder(P)[n]]]
  BY <1>2 DEF Picked
<1>4. \A n \in 1..Cardinality(P) : s[InOrder(P)[n]] \in T
  BY <1>1, <1>2
<1>5. Picked(s, P) \in Seq(T)
  BY <1>2, <1>3, <1>4, IsASeq
<1>6. DOMAIN Picked(s, P) = 1..Cardinality(P)
  BY <1>3
<1> QED BY <1>2, <1>3, <1>5, <1>6

-------------------------------------------------------------------------------
(* Texts                                                                   *)

\* The bounds are numbers.
LEMMA Bounds ==
  /\ SlideMax \in Nat /\ VisionMax \in Nat /\ MaxRetries \in Nat /\ MaxMore \in Nat
  /\ Concurrency \in Nat /\ Concurrency > 0
BY ReadersAssumption

\* Every piece has its turn; that of a slide is the fourth.
LEMMA PieceTurns ==
  /\ Turn(Caption) = 1 /\ Turn(Speech) = 2 /\ Turn(Transcript) = 2 /\ Turn(Frames) = 3
  /\ {Caption, Speech, Transcript, Frames} \subseteq Pieces
  /\ IsVideo(Speech) /\ IsVideo(Frames) /\ ~IsVideo(Caption) /\ ~IsVideo(Transcript)
BY DEF Turn, Caption, Speech, Transcript, Frames, Piece, IsSlide, IsVideo, Pieces

LEMMA SlideTurns ==
  ASSUME NEW p \in Pieces
  PROVE  /\ Turn(p) \in 0..4 /\ p.of \in Nat
         /\ Turn(p) = 4 <=> IsSlide(p)
         /\ IsSlide(p) => p # Caption /\ p # Transcript /\ p # Speech /\ p # Frames /\ ~IsVideo(p)
BY Bounds DEF Turn, Pieces, Caption, Speech, Transcript, Frames, Description, Document, Title,
              Note, Edited, Slide, Piece, IsSlide, IsVideo

LEMMA SlidePieces ==
  ASSUME NEW l \in 1..SlideMax, NEW o \in 1..SlideMax
  PROVE  Slide(l, o) \in Pieces /\ IsSlide(Slide(l, o)) /\ Slide(l, o).of = o
BY DEF Pieces, Slide, Piece, IsSlide

\* What the elements of a sequence are, and of two that are joined.
LEMMA ToSetDef ==
  ASSUME NEW T, NEW s \in Seq(T)
  PROVE  /\ ToSet(s) \subseteq T
         /\ \A x : x \in ToSet(s) <=> \E n \in 1..Len(s) : s[n] = x
BY DEF ToSet

LEMMA ToSetJoin ==
  ASSUME NEW T, NEW s \in Seq(T), NEW t \in Seq(T)
  PROVE  s \o t \in Seq(T) /\ ToSet(s \o t) = ToSet(s) \cup ToSet(t)
<1>1. /\ s \o t \in Seq(T) /\ Len(s \o t) = Len(s) + Len(t)
      /\ Len(s) \in Nat /\ Len(t) \in Nat
      /\ \A i \in 1..(Len(s) + Len(t)) :
           (s \o t)[i] = IF i <= Len(s) THEN s[i] ELSE t[i - Len(s)]
  BY ConcatProperties
<1>2. ASSUME NEW x \in ToSet(s \o t) PROVE x \in ToSet(s) \cup ToSet(t)
  <2>1. PICK i \in 1..Len(s \o t) : (s \o t)[i] = x
    BY <1>1, ToSetDef
  <2>2. CASE i <= Len(s)
    BY <1>1, <2>1, <2>2, ToSetDef
  <2>3. CASE i > Len(s)
    <3>1. i - Len(s) \in 1..Len(t) /\ t[i - Len(s)] = x
      BY <1>1, <2>1, <2>3
    <3> QED BY <3>1, ToSetDef
  <2> QED BY <1>1, <2>1, <2>2, <2>3
<1>3. ASSUME NEW x \in ToSet(s) PROVE x \in ToSet(s \o t)
  <2>1. PICK i \in 1..Len(s) : s[i] = x
    BY ToSetDef
  <2>2. i \in 1..Len(s \o t) /\ (s \o t)[i] = x
    BY <1>1, <2>1
  <2> QED BY <1>1, <2>2, ToSetDef
<1>4. ASSUME NEW x \in ToSet(t) PROVE x \in ToSet(s \o t)
  <2>1. PICK i \in 1..Len(t) : t[i] = x
    BY ToSetDef
  <2>2. Len(s) + i \in 1..Len(s \o t) /\ (s \o t)[Len(s) + i] = x
    BY <1>1, <2>1
  <2> QED BY <1>1, <2>2, ToSetDef
<1> QED BY <1>1, <1>2, <1>3, <1>4

\* A text without slides in which everybody speaks in turn, and slides in their order.
Plain(t) == \A a \in 1..Len(t) :
  /\ Turn(t[a]) \in 1..3
  /\ \A b \in 1..Len(t) : a < b => Turn(t[a]) < Turn(t[b])
InPost(u) == \A a \in 1..Len(u) :
  /\ IsSlide(u[a])
  /\ \A b \in 1..Len(u) : a < b => u[a].of < u[b].of

\* What AuthorSpeaksFirst says of a text beside its author's words.
Ordered(text) ==
  /\ IsInjective(text)
  /\ \A p \in ToSet(text) : Turn(p) # 0
  /\ \A a, b \in DOMAIN text : a < b =>
       /\ Turn(text[a]) <= Turn(text[b])
       /\ IsSlide(text[a]) => text[a].of < text[b].of
SlidesOf(text) == {a \in DOMAIN text : IsSlide(text[a])}

LEMMA JoinOrdered ==
  ASSUME NEW t \in Seq(Pieces), NEW u \in Seq(Pieces), Plain(t), InPost(u)
  PROVE  Ordered(t \o u) /\ Cardinality(SlidesOf(t \o u)) = Len(u)
<1> DEFINE k == Len(t)
           m == Len(u)
           s == t \o u
<1>1. /\ s \in Seq(Pieces) /\ k \in Nat /\ m \in Nat /\ Len(s) = k + m /\ DOMAIN s = 1..(k + m)
      /\ \A i \in 1..(k + m) : s[i] = IF i <= k THEN t[i] ELSE u[i - k]
  BY ConcatProperties
<1>2. \A a \in 1..k : /\ s[a] = t[a] /\ Turn(s[a]) \in 1..3 /\ ~IsSlide(s[a])
                      /\ \A b \in 1..k : a < b => Turn(s[a]) < Turn(s[b])
  <2>1. \A a \in 1..k : s[a] = t[a] /\ t[a] \in Pieces
    BY <1>1
  <2> QED BY <2>1, SlideTurns DEF Plain
<1>3. \A a \in (k + 1)..(k + m) :
         /\ s[a] = u[a - k] /\ a - k \in 1..m /\ s[a] \in Pieces /\ IsSlide(s[a]) /\ Turn(s[a]) = 4
  <2>1. \A a \in (k + 1)..(k + m) : s[a] = u[a - k] /\ a - k \in 1..m /\ u[a - k] \in Pieces
    BY <1>1
  <2> QED BY <2>1, SlideTurns DEF InPost
<1>4. \A a, b \in (k + 1)..(k + m) : a < b => s[a].of < s[b].of
  <2> SUFFICES ASSUME NEW a \in (k + 1)..(k + m), NEW b \in (k + 1)..(k + m), a < b
               PROVE  s[a].of < s[b].of
    OBVIOUS
  <2>1. /\ s[a] = u[a - k] /\ a - k \in 1..m /\ s[b] = u[b - k] /\ b - k \in 1..m
        /\ a - k < b - k
    BY <1>1, <1>3
  <2> QED BY <2>1 DEF InPost
<1> HIDE DEF k, m, s
<1>5. \A a \in 1..(k + m) : a \in 1..k \/ a \in (k + 1)..(k + m)
  BY <1>1
<1>6. \A a, b \in 1..(k + m) : a < b =>
         /\ Turn(s[a]) <= Turn(s[b])
         /\ IsSlide(s[a]) => s[a].of < s[b].of
         /\ s[a] # s[b]
  <2> SUFFICES ASSUME NEW a \in 1..(k + m), NEW b \in 1..(k + m), a < b
               PROVE  /\ Turn(s[a]) <= Turn(s[b])
                      /\ IsSlide(s[a]) => s[a].of < s[b].of
                      /\ s[a] # s[b]
    OBVIOUS
  <2>1. CASE a \in 1..k /\ b \in 1..k
    BY <1>2, <2>1
  <2>2. CASE a \in 1..k /\ b \in (k + 1)..(k + m)
    BY <1>2, <1>3, <2>2
  <2>3. CASE a \in (k + 1)..(k + m)
    <3>1. b \in (k + 1)..(k + m)
      BY <1>1, <2>3
    <3>2. s[a].of \in Nat /\ s[b].of \in Nat
      BY <1>3, <2>3, <3>1, SlideTurns
    <3> QED BY <1>3, <1>4, <2>3, <3>1, <3>2
  <2> QED BY <1>5, <2>1, <2>2, <2>3
<1>7. IsInjective(s)
  BY <1>1, <1>6 DEF IsInjective
<1>8. \A p \in ToSet(s) : Turn(p) # 0
  BY <1>1, <1>2, <1>3, <1>5, ToSetDef
<1>9. SlidesOf(s) = (k + 1)..(k + m)
  BY <1>1, <1>2, <1>3, <1>5 DEF SlidesOf
<1>10. Cardinality((k + 1)..(k + m)) = m
  <2>1. Cardinality((k + 1)..(k + m)) = IF k + 1 > k + m THEN 0 ELSE k + m - (k + 1) + 1
    BY <1>1, FS_Interval
  <2> QED BY <1>1, <2>1
<1> QED BY <1>1, <1>6, <1>7, <1>8, <1>9, <1>10 DEF Ordered, s, m

-------------------------------------------------------------------------------
(* Slides                                                                  *)

\* The key of a slide says which it is, and a gap says nothing.
KeysSound(keys) == Len(keys) <= SlideMax /\ \A k \in 1..Len(keys) : keys[k] \in {0, k}

LEMMA TrimmedKeys ==
  ASSUME NEW keys \in Seq(0..SlideMax), KeysSound(keys)
  PROVE  Trimmed(keys) \in Seq(0..SlideMax) /\ KeysSound(Trimmed(keys))
<1> DEFINE last == {k \in DOMAIN keys : keys[k] # 0}
           top == CHOOSE k \in last : \A l \in last : l <= k
<1>1. CASE last = {}
  <2>1. Trimmed(keys) = <<>>
    BY <1>1 DEF Trimmed
  <2> QED BY <2>1, Bounds DEF KeysSound
<1>2. CASE last # {}
  <2>1. Len(keys) \in Nat /\ last \subseteq 1..Len(keys)
    OBVIOUS
  <2> DEFINE rest == {Len(keys) - k : k \in last}
  <2>2. rest \subseteq Nat /\ rest # {}
    BY <1>2, <2>1
  <2> HIDE DEF rest
  <2>3. PICK x \in rest : \A y \in rest : x <= y
    BY <2>2, LeastNumber
  <2>4. PICK k \in last : x = Len(keys) - k
    BY <2>3 DEF rest
  <2> HIDE DEF last
  <2>5. \A l \in last : l <= k
    <3> TAKE l \in last
    <3>1. Len(keys) - l \in rest
      BY DEF rest
    <3> QED BY <2>1, <2>3, <2>4, <3>1
  <2>6. top \in last
    BY <2>4, <2>5
  <2>7. Trimmed(keys) = SubSeq(keys, 1, top)
    BY <1>2 DEF Trimmed, last
  <2> HIDE DEF top
  <2>8. top \in 1..Len(keys)
    BY <2>1, <2>6
  <2>9. /\ Trimmed(keys) \in Seq(0..SlideMax) /\ Len(Trimmed(keys)) = top
        /\ \A k2 \in 1..top : Trimmed(keys)[k2] = keys[k2]
    <3>1. \A k2 \in 1..top : keys[k2] \in 0..SlideMax
      <4>1. \A k2 \in 1..top : k2 \in 1..Len(keys)
        BY <2>1, <2>8
      <4> QED BY <4>1, ElementOfSeq
    <3>2. \A k2 \in 1..(top - 1 + 1) : SubSeq(keys, 1, top)[k2] = keys[1 + k2 - 1]
      BY <2>1, <2>8, <3>1, SubSeqProperties
    <3> QED BY <2>1, <2>7, <2>8, <3>1, <3>2, SubSeqProperties
  <2> QED BY <2>1, <2>8, <2>9, Bounds DEF KeysSound
<1> QED BY <1>1, <1>2

\* What is kept is of slides of the post, in their order.
LEMMA KeptDef ==
  ASSUME NEW i, i.meta.keys \in Seq(0..SlideMax), KeysSound(i.meta.keys)
  PROVE  /\ Kept(i) \in Seq(1..SlideMax) /\ Len(Kept(i)) <= SlideMax
         /\ \A m, n \in 1..Len(Kept(i)) : m < n => Kept(i)[m] < Kept(i)[n]
<1> DEFINE keys == i.meta.keys
           P == {k \in DOMAIN keys : keys[k] # 0}
<1>1. DOMAIN keys = 1..Len(keys) /\ Len(keys) \in Nat
  OBVIOUS
<1>2. P \in SUBSET (DOMAIN keys)
  OBVIOUS
<1>3. /\ Kept(i) \in Seq(0..SlideMax)
      /\ Len(Kept(i)) = Cardinality(P) /\ Cardinality(P) <= Len(keys)
      /\ Rises(InOrder(P))
      /\ \A n \in 1..Cardinality(P) :
           InOrder(P)[n] \in P /\ Kept(i)[n] = keys[InOrder(P)[n]]
  BY <1>2, PickedDef DEF Kept
<1>4. \A k \in P : keys[k] = k /\ k \in 1..SlideMax
  BY <1>1, Bounds DEF KeysSound
<1>5. \A n \in 1..Len(Kept(i)) : Kept(i)[n] = InOrder(P)[n] /\ Kept(i)[n] \in 1..SlideMax
  BY <1>3, <1>4
<1>6. Kept(i) \in Seq(1..SlideMax)
  BY <1>3, <1>5, SeqByElements
<1>7. DOMAIN InOrder(P) = 1..Cardinality(P)
  BY <1>1, InOrderDef
<1>8. \A m, n \in 1..Len(Kept(i)) : m < n => Kept(i)[m] < Kept(i)[n]
  BY <1>3, <1>5, <1>7 DEF Rises
<1>9. Len(Kept(i)) <= SlideMax
  <2>1. Len(Kept(i)) \in Nat /\ Len(Kept(i)) <= Len(keys) /\ Len(keys) <= SlideMax
    BY <1>3 DEF KeysSound
  <2> QED BY <1>1, <2>1, Bounds
<1> QED BY <1>6, <1>8, <1>9

SlideStates == {"waiting", "reading", "read", "dropped"}

\* What the readers bring back is slides of the post, in its order, and not more than
\* there were readers.
LEMMA SlideTextsDef ==
  ASSUME NEW i, i.meta.keys \in Seq(0..SlideMax), KeysSound(i.meta.keys),
         slides \in Seq(SlideStates), Len(slides) <= Len(Kept(i))
  PROVE  /\ SlideTexts(i) \in Seq(Pieces) /\ InPost(SlideTexts(i))
         /\ Len(SlideTexts(i)) \in Nat /\ Len(SlideTexts(i)) <= Len(slides)
<1> DEFINE n == Len(slides)
           all == [k \in DOMAIN slides |-> Slide(k, Kept(i)[k])]
           P == {k \in DOMAIN slides : slides[k] = "read"}
           t == SlideTexts(i)
<1>1. n \in Nat /\ DOMAIN slides = 1..n
  OBVIOUS
<1>2. /\ Kept(i) \in Seq(1..SlideMax) /\ Len(Kept(i)) <= SlideMax /\ n <= Len(Kept(i))
      /\ \A a, b \in 1..Len(Kept(i)) : a < b => Kept(i)[a] < Kept(i)[b]
  BY KeptDef
<1>3. \A k \in 1..n : k \in 1..SlideMax /\ k \in 1..Len(Kept(i)) /\ Kept(i)[k] \in 1..SlideMax
  BY <1>1, <1>2, Bounds
<1>4. all \in [1..n -> Pieces] /\ DOMAIN all = 1..n
  BY <1>1, <1>3, SlidePieces
<1>5. all \in Seq(Pieces) /\ Len(all) = n
  BY <1>1, <1>4
<1>6. P \in SUBSET (DOMAIN all) /\ P \subseteq 1..n
  BY <1>1, <1>4
<1>6a. t = Picked(all, P)
  BY DEF SlideTexts
<1>7. /\ t \in Seq(Pieces) /\ Len(t) = Cardinality(P) /\ Cardinality(P) <= n
      /\ Rises(InOrder(P))
      /\ \A a \in 1..Cardinality(P) : InOrder(P)[a] \in P /\ t[a] = all[InOrder(P)[a]]
  <2> HIDE DEF t, all, P, n
  <2> QED BY <1>5, <1>6, <1>6a, PickedDef
<1>8. DOMAIN InOrder(P) = 1..Cardinality(P)
  BY <1>1, <1>6, InOrderDef
<1>9. InPost(t)
  <2> SUFFICES ASSUME NEW a \in 1..Len(t)
               PROVE  /\ IsSlide(t[a])
                      /\ \A b \in 1..Len(t) : a < b => t[a].of < t[b].of
    BY DEF InPost
  <2>1. \A b \in 1..Len(t) : /\ InOrder(P)[b] \in 1..n
                             /\ t[b] = Slide(InOrder(P)[b], Kept(i)[InOrder(P)[b]])
    BY <1>1, <1>6, <1>7
  <2> HIDE DEF all, P, t, n
  <2>2. \A b \in 1..Len(t) : IsSlide(t[b]) /\ t[b].of = Kept(i)[InOrder(P)[b]]
    BY <1>3, <2>1, SlidePieces
  <2>3. \A b \in 1..Len(t) : a < b => InOrder(P)[a] < InOrder(P)[b]
    BY <1>7, <1>8 DEF Rises
  <2> QED BY <1>2, <1>3, <2>1, <2>2, <2>3
<1> QED BY <1>7, <1>9

-------------------------------------------------------------------------------
(* The inductive invariant                                                 *)

\* The row, or the copy a task holds, of a memory without a video says of none that it was
\* read, and names a site only if it is YouTube's.
MetaSound(src, i) ==
  /\ ~src.video => i.meta.videoRead = "None"
  /\ ~src.video /\ src.from # "youtube" => i.meta.link = "none"
  /\ KeysSound(i.meta.keys)

\* What SaysWhatItRead and AuthorSpeaksFirst say of a text that was read.
Claims(src, i) ==
  LET text == ToSet(i.content) IN
  /\ i.meta.videoRead = "yes" <=> \E p \in text : IsVideo(p)
  /\ src.link => i.meta.link = "caption"
  /\ i.meta.link = "video"  => Frames \in text
  /\ i.meta.link = "speech" => {Speech, Transcript} \cap text # {}
Shows(src, i) ==
  /\ src.text <=> Caption \in ToSet(i.content)
  /\ Ordered(i.content)
  /\ Cardinality(SlidesOf(i.content)) <= VisionMax

\* The text when the source has been read, and when the video has.
Opening(src, subtitles) ==
  (IF src.text THEN <<Caption>> ELSE <<>>) \o
  (IF src.from = "youtube" /\ subtitles THEN <<Transcript>> ELSE <<>>)
Opened(src, i) == \E subtitles \in BOOLEAN : i.content = Opening(src, subtitles)
Spoke(src, i) == Plain(i.content) /\ (src.text <=> Caption \in ToSet(i.content))

\* How far the copy has come, stage by stage.
Working == pc # "idle" => item.status # "completed" /\ MetaSound(source, item)
Stages ==
  /\ pc = "video" => Opened(source, item) /\ (~source.video => Claims(source, item))
  /\ pc \in {"keys", "slides"} => Spoke(source, item) /\ Claims(source, item)
  /\ pc = "slides" => Len(slides) <= Len(Kept(item))
  /\ pc = "enrich" /\ source.from \in Sites => Shows(source, item) /\ Claims(source, item)
  /\ pc \in {"transcribe", "describe"} => source.from \notin Sites

ReadersInv ==
  /\ TypeOK /\ MetaSound(source, row) /\ Working /\ Stages
  /\ AuthorSpeaksFirst /\ DrawnFromWhatItSays /\ SaysWhatItRead

-------------------------------------------------------------------------------
(* What is known of a source and of a row                                  *)

\* A post has no more slides than it may, only a video or a video's page names a site, and
\* YouTube's are no videos of a post.
LEMMA SourceFacts ==
  ASSUME NEW src \in Sources
  PROVE  /\ src.text \in BOOLEAN /\ src.video \in BOOLEAN /\ src.link \in BOOLEAN
         /\ src.titled \in BOOLEAN /\ src.slides \in 0..SlideMax
         /\ src.video => src.from # "youtube"
         /\ src.link => src.video \/ src.from = "youtube"
<1>1. Naming \subseteq BOOLEAN
  BY DEF Naming, Names
<1>2. Carousels \subseteq 0..SlideMax
  <2> SUFFICES ASSUME NEW kind \in {"image", "video", "sidecar"}
               PROVE  Carousel(kind, 1..(SlideMax + 1)) \in 0..SlideMax
    BY DEF Carousels
  <2>1. Cardinality(1..(SlideMax + 1)) = SlideMax + 1
    <3>1. Cardinality(1..(SlideMax + 1)) = IF 1 > SlideMax + 1 THEN 0 ELSE SlideMax + 1 - 1 + 1
      BY Bounds, FS_Interval, SlideMax + 1 \in Int
    <3> QED BY Bounds, <3>1
  <2> QED BY <2>1, Bounds DEF Carousel, Least
<1>3. /\ src.text \in BOOLEAN /\ src.video \in BOOLEAN /\ src.link \in Naming
      /\ src.titled \in BOOLEAN /\ src.slides \in Carousels
      /\ src.video => src.from \in {"instagram", "facebook", "facebookRun"}
      /\ src.link => src.video \/ src.from = "youtube"
  BY DEF Sources
<1> QED BY <1>1, <1>2, <1>3

Statuses == {"pending", "processing", "completed", "skipped", "failed"}
Causes == {"none", "scrape", "video", "speech", "vision", "empty", "model"}
Links == {"none", "caption", "video", "speech"}

LEMMA RowFields ==
  ASSUME NEW r \in Rows
  PROVE  /\ r.status \in Statuses /\ r.content \in Seq(Pieces) /\ r.meta \in Metas
         /\ r.card \in Seq(Pieces) /\ r.highlights \subseteq Pieces /\ r.indexed \in Seq(Pieces)
         /\ r.cause \in Causes
         /\ r.meta.videoRead \in {"None", "yes", "no"} /\ r.meta.link \in Links
         /\ r.meta.doc \in Seq(Pieces) /\ r.meta.keys \in Seq(0..SlideMax)
         /\ r.meta.editor \in Seq(Pieces)
         /\ r # NoItem
BY DEF Rows, Metas, Statuses, Causes, Links, NoItem

\* The ends of a run write a status and a cause.
LEMMA Restated ==
  ASSUME NEW r \in Rows, NEW s \in Statuses, NEW c \in Causes
  PROVE  /\ [r EXCEPT !.status = s, !.cause = c] \in Rows
         /\ [r EXCEPT !.status = s, !.cause = c].status = s
         /\ [r EXCEPT !.status = s, !.cause = c].content = r.content
         /\ [r EXCEPT !.status = s, !.cause = c].meta = r.meta
BY DEF Rows, Statuses, Causes

LEMMA Skipped ==
  ASSUME NEW r \in Rows
  PROVE  /\ [r EXCEPT !.status = "skipped"] \in Rows
         /\ [r EXCEPT !.status = "skipped"].status = "skipped"
         /\ [r EXCEPT !.status = "skipped"].meta = r.meta
BY DEF Rows

LEMMA Rewritten ==
  ASSUME NEW r \in Rows, NEW t \in Seq(Pieces)
  PROVE  /\ [r EXCEPT !.content = t] \in Rows
         /\ [r EXCEPT !.content = t].content = t
         /\ [r EXCEPT !.content = t].meta = r.meta
         /\ [r EXCEPT !.content = t].status = r.status
BY DEF Rows

\* What is sound of a row depends on its metadata.
LEMMA SoundByMeta ==
  ASSUME NEW src, NEW r, NEW i, r.meta = i.meta, MetaSound(src, i)
  PROVE  MetaSound(src, r)
BY DEF MetaSound

-------------------------------------------------------------------------------
(* Steps of one kind                                                       *)

\* The committed row is what it was.
LEMMA RowStays ==
  ASSUME ReadersInv, UNCHANGED <<source, row>>
  PROVE  (MetaSound(source, row) /\ AuthorSpeaksFirst /\ DrawnFromWhatItSays /\ SaysWhatItRead)'
<1>1. MetaSound(source, row) /\ AuthorSpeaksFirst /\ DrawnFromWhatItSays /\ SaysWhatItRead
  BY DEF ReadersInv
<1>2. MetaSound(source, row)'
  BY <1>1 DEF MetaSound
<1>3. AuthorSpeaksFirst'
  BY <1>1 DEF AuthorSpeaksFirst, Completed, Unedited
<1>4. DrawnFromWhatItSays'
  BY <1>1 DEF DrawnFromWhatItSays, Completed, Unedited, TextOf
<1>5. SaysWhatItRead'
  BY <1>1 DEF SaysWhatItRead, Completed, Unedited
<1> QED BY <1>2, <1>3, <1>4, <1>5

\* A row that is not finished says nothing.
LEMMA Unfinished ==
  ASSUME row'.status # "completed"
  PROVE  (AuthorSpeaksFirst /\ DrawnFromWhatItSays /\ SaysWhatItRead)'
BY DEF AuthorSpeaksFirst, DrawnFromWhatItSays, SaysWhatItRead, Completed

Queued == queue' \in Seq(0..MaxRetries)
Scraped == scraper' \in {"none", "running", "done"}

\* No task is running afterwards.
LEMMA NowIdle ==
  ASSUME ReadersInv, Drop, row' \in Rows, Queued, Scraped, more' \in 0..MaxMore,
         UNCHANGED source
  PROVE  (TypeOK /\ Working /\ Stages)'
<1>1. slides' = <<>> /\ Cardinality(Reading') = 0
  <2>1. slides' = <<>> /\ Reading' = {}
    BY DEF Drop, Reading
  <2> QED BY <2>1, FS_EmptySet
<1>2. TypeOK'
  BY <1>1, Bounds DEF ReadersInv, TypeOK, Drop, Queued, Scraped
<1> QED BY <1>2 DEF Working, Stages, Drop

\* A run ends without a finished memory.
LEMMA RunEnds ==
  ASSUME ReadersInv, NEW i \in Rows, i.status # "completed", MetaSound(source, i), Commit(i),
         Queued, Scraped, UNCHANGED <<source, more>>
  PROVE  ReadersInv'
<1>1. row' = i /\ Drop
  BY DEF Commit
<1>2. (TypeOK /\ Working /\ Stages)'
  <2>1. more' \in 0..MaxMore
    BY DEF ReadersInv, TypeOK
  <2> QED BY <1>1, <2>1, NowIdle
<1>3. (AuthorSpeaksFirst /\ DrawnFromWhatItSays /\ SaysWhatItRead)'
  BY <1>1, Unfinished
<1>4. MetaSound(source, row)'
  BY <1>1 DEF MetaSound
<1> QED BY <1>2, <1>3, <1>4 DEF ReadersInv

LEMMA EndedTypes ==
  ASSUME TypeOK, Ended
  PROVE  Scraped
BY DEF TypeOK, Ended, Scraped

LEMMA FailEnds ==
  ASSUME ReadersInv, NEW i \in Rows, MetaSound(source, i), NEW cause \in Causes, NEW permanent,
         Fail(i, cause, permanent), UNCHANGED <<source, more>>
  PROVE  ReadersInv'
<1> DEFINE failed == [i EXCEPT !.status = "failed", !.cause = cause]
<1>1. failed \in Rows /\ failed.status = "failed" /\ failed.meta = i.meta
  BY Restated DEF Statuses
<1>2. TypeOK /\ Commit(failed) /\ Ended
  BY DEF Fail, ReadersInv
<1>3. Queued
  <2>1. queue \in Seq(0..MaxRetries) /\ attempt \in 0..MaxRetries
    BY <1>2 DEF TypeOK
  <2>2. CASE attempt < MaxRetries
    <3>1. attempt + 1 \in 0..MaxRetries
      BY <2>1, <2>2, Bounds
    <3>2. Append(queue, attempt + 1) \in Seq(0..MaxRetries)
      BY <2>1, <3>1, AppendProperties
    <3> QED BY <2>1, <3>2 DEF Fail, Queued
  <2>3. CASE ~(attempt < MaxRetries)
    BY <2>1, <2>3 DEF Fail, Queued
  <2> QED BY <2>2, <2>3
<1>4. MetaSound(source, failed)
  BY <1>1, SoundByMeta
<1> HIDE DEF failed
<1> QED BY <1>1, <1>2, <1>3, <1>4, EndedTypes, RunEnds

LEMMA SkipEnds ==
  ASSUME ReadersInv, NEW i \in Rows, MetaSound(source, i), Skip(i), UNCHANGED <<source, more>>
  PROVE  ReadersInv'
<1> DEFINE skipped == [i EXCEPT !.status = "skipped"]
<1>1. skipped \in Rows /\ skipped.status = "skipped" /\ skipped.meta = i.meta
  BY Skipped
<1>2. TypeOK /\ Commit(skipped) /\ Ended /\ UNCHANGED queue
  BY DEF Skip, Done, ReadersInv
<1>3. Queued
  BY <1>2 DEF TypeOK, Queued
<1>4. MetaSound(source, skipped)
  BY <1>1, SoundByMeta
<1> HIDE DEF skipped
<1> QED BY <1>1, <1>2, <1>3, <1>4, EndedTypes, RunEnds

Places == {"idle", "extract", "video", "keys", "slides", "transcribe", "describe", "enrich"}

\* The run goes on, with nobody reading a slide.
LEMMA GoesOn ==
  ASSUME ReadersInv, item' \in Rows, item'.status # "completed", MetaSound(source, item'),
         pc' \in Places \ {"idle", "slides"}, slides' = <<>>, late' = FALSE,
         by' \in {"none", "process", "finalize"}, attempt' \in 0..MaxRetries, Queued,
         UNCHANGED <<source, row, scraper, more>>, Stages'
  PROVE  ReadersInv'
<1>1. Cardinality(Reading') = 0
  <2>1. Reading' = {}
    BY DEF Reading
  <2> QED BY <2>1, FS_EmptySet
<1>2. item' # NoItem
  BY RowFields
<1>3. TypeOK'
  BY <1>1, <1>2, Bounds DEF ReadersInv, TypeOK, Queued, Places
<1>4. Working'
  BY DEF Working, MetaSound
<1> QED BY <1>3, <1>4, RowStays DEF ReadersInv

-------------------------------------------------------------------------------
(* Taking up a message, and reading the source                             *)

LEMMA InitKeeps == Init => ReadersInv
<1> SUFFICES ASSUME Init PROVE ReadersInv
  OBVIOUS
<1>1. PICK readable \in Readable(source) : row = Saved(source, readable)
  BY DEF Init
<1>2. NoMeta \in Metas
  BY Bounds DEF NoMeta, Metas
<1>3. {Transcript, Note, Document} \subseteq Pieces
  BY DEF Pieces
<1>4. /\ row.status \in {"pending", "skipped"} /\ row.content \in Seq(Pieces) /\ row.meta = NoMeta
      /\ row \in Rows
  <2> DEFINE content == CASE source.from = "voice"                   -> Recorded
                          [] source.from = "note"                    -> <<Note>>
                          [] source.from = "document" /\ source.text -> <<Document>>
                          [] OTHER                                   -> <<>>
             status == IF readable THEN "pending" ELSE "skipped"
  <2>1. {<<Transcript>>, <<Note>>, <<Document>>, <<>>} \subseteq Seq(Pieces)
    BY <1>3
  <2>2. content \in Seq(Pieces)
    BY <2>1 DEF Recorded
  <2>3. row = [status |-> status, content |-> content, meta |-> NoMeta, card |-> <<>>,
               highlights |-> {}, indexed |-> <<>>, cause |-> "none"]
    BY <1>1 DEF Saved
  <2>4. status \in {"pending", "skipped"}
    OBVIOUS
  <2> HIDE DEF content, status
  <2> QED BY <1>2, <2>1, <2>2, <2>3, <2>4 DEF Rows
<1>5. MetaSound(source, row)
  BY <1>4, Bounds DEF MetaSound, NoMeta, KeysSound
<1>6. Cardinality(Reading) = 0
  <2>1. Reading = {}
    BY DEF Init, Reading
  <2> QED BY <2>1, FS_EmptySet
<1>7. TypeOK
  <2>1. queue \in Seq(0..MaxRetries)
    <3>1. <<0>> \in Seq(0..MaxRetries) /\ <<>> \in Seq(0..MaxRetries)
      BY Bounds
    <3>2. queue = <<0>> \/ queue = <<>>
      BY DEF Init
    <3> QED BY <3>1, <3>2
  <2>2. slides = <<>> /\ slides \in Seq(SlideStates) /\ Len(slides) <= VisionMax
    BY Bounds DEF Init
  <2> QED BY <1>4, <1>6, <2>1, <2>2, Bounds DEF Init, TypeOK, SlideStates
<1>8. AuthorSpeaksFirst /\ DrawnFromWhatItSays /\ SaysWhatItRead
  BY <1>4 DEF AuthorSpeaksFirst, DrawnFromWhatItSays, SaysWhatItRead, Completed
<1> QED BY <1>5, <1>7, <1>8 DEF ReadersInv, Working, Stages, Init

LEMMA TakeKeeps == ASSUME ReadersInv, Take PROVE ReadersInv'
<1>1. TypeOK /\ row \in Rows /\ MetaSound(source, row)
  BY DEF ReadersInv, TypeOK
<1> DEFINE taken == [row EXCEPT !.status = "processing", !.cause = "none"]
<1>2. item' = taken
  BY DEF Take
<1>3. /\ taken \in Rows /\ taken.status = "processing" /\ taken.content = row.content
      /\ taken.meta = row.meta
  <2>1. row \in Rows /\ "processing" \in Statuses /\ "none" \in Causes
    BY <1>1 DEF Statuses, Causes
  <2> QED BY <2>1 DEF Rows
<1> HIDE DEF taken
<1>4. queue # <<>> /\ queue \in Seq(0..MaxRetries)
  BY <1>1 DEF Take, TypeOK
<1>5. Queued /\ attempt' \in 0..MaxRetries
  BY <1>4, HeadTailProperties DEF Take, Queued
<1>6. slides' = <<>> /\ late' = FALSE /\ by' = "process" /\ UNCHANGED <<source, row, scraper, more>>
  BY <1>1 DEF Take, TypeOK
<1>7. /\ pc' \in {"extract", "transcribe", "describe", "enrich"}
      /\ source.from \in Sites => pc' = "extract"
  BY DEF Take, Sites, Deferred
<1>8. Stages'
  BY <1>6, <1>7 DEF Stages
<1>9. MetaSound(source, item')
  BY <1>1, <1>2, <1>3, SoundByMeta
<1> QED BY <1>2, <1>3, <1>5, <1>6, <1>7, <1>8, <1>9, GoesOn DEF Places

LEMMA FinalizeKeeps == ASSUME ReadersInv, Finalize PROVE ReadersInv'
<1>1. /\ TypeOK /\ row \in Rows /\ MetaSound(source, row) /\ pc = "idle" /\ item = NoItem
      /\ slides = <<>> /\ late = FALSE
      /\ UNCHANGED <<source, attempt, slides, late, queue, more>>
  BY DEF ReadersInv, TypeOK, Finalize
<1> DEFINE failed == [row EXCEPT !.status = "failed", !.cause = "scrape"]
<1>2. failed \in Rows /\ failed.status = "failed" /\ failed.meta = row.meta
  BY <1>1, Restated DEF Statuses, Causes
<1> HIDE DEF failed
<1>3. CASE UNCHANGED <<item, pc, by>> /\ scraper' = "done" /\ row' \in {row, failed}
  <2>1. row' \in Rows
    BY <1>1, <1>2, <1>3
  <2>2. Cardinality(Reading') <= Concurrency
    <3>1. Reading' = {}
      BY <1>1 DEF Reading
    <3> QED BY <3>1, FS_EmptySet, Bounds
  <2>3. TypeOK'
    BY <1>1, <1>3, <2>1, <2>2 DEF TypeOK
  <2>4. (Working /\ Stages)'
    BY <1>1, <1>3 DEF Working, Stages
  <2>5. CASE row' = row
    BY <1>1, <2>3, <2>4, <2>5, RowStays DEF ReadersInv
  <2>6. CASE row' = failed
    <3>1. MetaSound(source, row)'
      BY <1>1, <1>2, <2>6 DEF MetaSound
    <3> QED BY <1>2, <2>3, <2>4, <2>6, <3>1, Unfinished DEF ReadersInv
  <2> QED BY <1>3, <2>5, <2>6
<1>4. CASE /\ row.status # "completed" /\ item' = row /\ by' = "finalize" /\ pc' = "extract"
           /\ UNCHANGED <<row, scraper>>
  <2>1. attempt' \in 0..MaxRetries /\ Queued
    BY <1>1 DEF TypeOK, Queued
  <2>2. Stages'
    BY <1>4 DEF Stages
  <2> QED BY <1>1, <1>4, <2>1, <2>2, GoesOn DEF Places
<1> QED BY <1>1, <1>3, <1>4 DEF Finalize, failed

LEMMA StartKeeps == ASSUME ReadersInv, Start PROVE ReadersInv'
<1>1. /\ TypeOK /\ item \in Rows /\ item.status # "completed" /\ MetaSound(source, item)
  BY DEF ReadersInv, TypeOK, Working, Start
<1>2. UNCHANGED <<source, more>>
  BY DEF Start
<1>3. CASE Commit(item) /\ scraper' = "running" /\ UNCHANGED queue
  <2>1. Queued /\ Scraped
    BY <1>1, <1>3 DEF TypeOK, Queued, Scraped
  <2> QED BY <1>1, <1>2, <1>3, <2>1, RunEnds
<1>4. ASSUME NEW end \in Starts, Fail(item, "scrape", end = "gone") PROVE ReadersInv'
  BY <1>1, <1>2, <1>4, FailEnds DEF Causes
<1> QED BY <1>3, <1>4 DEF Start

\* A text that is one piece, or none.
Perhaps(said, p) == IF said THEN <<p>> ELSE <<>>

LEMMA PerhapsDef ==
  ASSUME NEW said \in BOOLEAN, NEW p \in Pieces, Turn(p) \in 1..3
  PROVE  /\ Perhaps(said, p) \in Seq(Pieces) /\ Plain(Perhaps(said, p))
         /\ \A x : x \in ToSet(Perhaps(said, p)) <=> said /\ x = p
<1>1. CASE said
  <2>1. Perhaps(said, p) = <<p>>
    BY <1>1 DEF Perhaps
  <2>2. <<p>> \in Seq(Pieces) /\ Len(<<p>>) = 1 /\ <<p>>[1] = p
    OBVIOUS
  <2>3. Perhaps(said, p) \in Seq(Pieces) /\ Len(Perhaps(said, p)) = 1 /\ Perhaps(said, p)[1] = p
    BY <2>1, <2>2
  <2>4. Plain(Perhaps(said, p))
    BY <2>3 DEF Plain
  <2>5. \A x : x \in ToSet(Perhaps(said, p)) <=> x = p
    BY <2>3, ToSetDef
  <2> QED BY <1>1, <2>3, <2>4, <2>5
<1>2. CASE ~said
  <2>1. Perhaps(said, p) \in Seq(Pieces) /\ Len(Perhaps(said, p)) = 0
    BY <1>2 DEF Perhaps
  <2>2. Plain(Perhaps(said, p))
    BY <2>1 DEF Plain
  <2>3. \A x : x \notin ToSet(Perhaps(said, p))
    <3> DEFINE e == Perhaps(said, p)
    <3>1. e \in Seq(Pieces) /\ 1..Len(e) = {}
      BY <2>1
    <3> HIDE DEF e
    <3>2. \A x : x \in ToSet(e) <=> \E n \in 1..Len(e) : e[n] = x
      BY <3>1, ToSetDef
    <3> QED BY <3>1, <3>2 DEF e
  <2> QED BY <1>2, <2>1, <2>2, <2>3
<1> QED BY <1>1, <1>2

\* Everybody speaks in turn in two texts that are joined, if all of the first are before all
\* of the second.
LEMMA PlainJoin ==
  ASSUME NEW s \in Seq(Pieces), NEW t \in Seq(Pieces), Plain(s), Plain(t),
         \A p \in ToSet(s), q \in ToSet(t) : Turn(p) < Turn(q)
  PROVE  Plain(s \o t)
<1> DEFINE k == Len(s)
           m == Len(t)
           j == s \o t
<1>1. /\ k \in Nat /\ m \in Nat /\ Len(j) = k + m
      /\ \A i \in 1..(k + m) : j[i] = IF i <= k THEN s[i] ELSE t[i - k]
  BY ConcatProperties
<1>2. \A i \in 1..k : j[i] = s[i] /\ s[i] \in ToSet(s) /\ Turn(s[i]) \in 1..3
  BY <1>1, ToSetDef DEF Plain
<1>3. \A i \in (k + 1)..(k + m) :
        j[i] = t[i - k] /\ i - k \in 1..m /\ t[i - k] \in ToSet(t) /\ Turn(t[i - k]) \in 1..3
  <2>1. \A i \in (k + 1)..(k + m) : j[i] = t[i - k] /\ i - k \in 1..m
    BY <1>1
  <2> QED BY <2>1, ToSetDef DEF Plain
<1> SUFFICES ASSUME NEW a \in 1..(k + m)
             PROVE  /\ Turn(j[a]) \in 1..3
                    /\ \A b \in 1..(k + m) : a < b => Turn(j[a]) < Turn(j[b])
  BY <1>1 DEF Plain
<1>4. Turn(j[a]) \in 1..3
  BY <1>1, <1>2, <1>3
<1>5. ASSUME NEW b \in 1..(k + m), a < b PROVE Turn(j[a]) < Turn(j[b])
  <2>1. CASE b <= k
    BY <1>1, <1>2, <1>5, <2>1 DEF Plain
  <2>2. CASE a <= k /\ b > k
    BY <1>1, <1>2, <1>3, <2>2
  <2>3. CASE a > k
    <3>1. a - k \in 1..m /\ b - k \in 1..m /\ a - k < b - k /\ j[a] = t[a - k] /\ j[b] = t[b - k]
      BY <1>1, <1>3, <1>5, <2>3
    <3> QED BY <3>1 DEF Plain
  <2> QED BY <1>1, <1>5, <2>1, <2>2, <2>3
<1> QED BY <1>4, <1>5

\* What there is to read in a source before its video.
LEMMA OpeningDef ==
  ASSUME NEW src \in Sources, NEW subtitles \in BOOLEAN
  PROVE  /\ Opening(src, subtitles) \in Seq(Pieces) /\ Plain(Opening(src, subtitles))
         /\ \A x : x \in ToSet(Opening(src, subtitles)) <=>
                     \/ src.text /\ x = Caption
                     \/ src.from = "youtube" /\ subtitles /\ x = Transcript
<1> DEFINE asked == src.from = "youtube" /\ subtitles
           c == Perhaps(src.text, Caption)
           t == Perhaps(asked, Transcript)
<1>1. src.text \in BOOLEAN /\ asked \in BOOLEAN
  BY SourceFacts
<1>2. /\ c \in Seq(Pieces) /\ Plain(c) /\ t \in Seq(Pieces) /\ Plain(t)
      /\ \A x : x \in ToSet(c) <=> src.text /\ x = Caption
      /\ \A x : x \in ToSet(t) <=> asked /\ x = Transcript
  <2> HIDE DEF asked
  <2> QED BY <1>1, PieceTurns, PerhapsDef
<1>3. Opening(src, subtitles) = c \o t
  BY DEF Opening, Perhaps
<1> HIDE DEF c, t
<1>4. Plain(c \o t)
  BY <1>2, PieceTurns, PlainJoin
<1> QED BY <1>2, <1>3, <1>4, ToSetJoin

\* What is written into the metadata leaves the rest of the row alone.
LEMMA MetaRewritten ==
  ASSUME NEW r \in Rows, NEW m \in Metas
  PROVE  /\ [r EXCEPT !.meta = m] \in Rows
         /\ [r EXCEPT !.meta = m].meta = m
         /\ [r EXCEPT !.meta = m].content = r.content
         /\ [r EXCEPT !.meta = m].status = r.status
BY DEF Rows

\* A site is its author's if the author named it.
LEMMA CollectDef ==
  ASSUME NEW written \in BOOLEAN, NEW seen \in BOOLEAN, NEW spoken \in BOOLEAN
  PROVE  /\ Collect(written, seen, spoken) \in Links
         /\ written => Collect(written, seen, spoken) = "caption"
         /\ Collect(written, seen, spoken) = "video" => seen
         /\ Collect(written, seen, spoken) = "speech" => spoken
<1> DEFINE c == Collect(written, seen, spoken)
<1>1. CASE written
  <2>1. c = "caption"
    BY <1>1 DEF Collect
  <2> QED BY <2>1 DEF Links
<1>2. CASE ~written /\ seen
  <2>1. c = "video"
    BY <1>2 DEF Collect
  <2> QED BY <1>2, <2>1 DEF Links
<1>3. CASE ~written /\ ~seen /\ spoken
  <2>1. c = "speech"
    BY <1>3 DEF Collect
  <2> QED BY <1>3, <2>1 DEF Links
<1>4. CASE ~written /\ ~seen /\ ~spoken
  <2>1. c = "none"
    BY <1>4 DEF Collect
  <2> QED BY <1>4, <2>1 DEF Links
<1> QED BY <1>1, <1>2, <1>3, <1>4

LEMMA WithLinkDef ==
  ASSUME NEW i \in Rows, NEW link \in Links
  PROVE  /\ WithLink(i, link) \in Rows
         /\ WithLink(i, link).content = i.content /\ WithLink(i, link).status = i.status
         /\ WithLink(i, link).meta.videoRead = i.meta.videoRead
         /\ WithLink(i, link).meta.keys = i.meta.keys
         /\ WithLink(i, link).meta.link = IF source.from = "youtube" THEN link ELSE i.meta.link
<1>1. CASE source.from # "youtube"
  BY <1>1 DEF WithLink
<1>2. CASE source.from = "youtube"
  <2> DEFINE m == [i.meta EXCEPT !.link = link]
  <2>1. /\ m \in Metas /\ m.link = link /\ m.videoRead = i.meta.videoRead
        /\ m.keys = i.meta.keys
    BY RowFields DEF Metas, Links
  <2>2. WithLink(i, link) = [i EXCEPT !.meta = m]
    BY <1>2 DEF WithLink, Rows
  <2> HIDE DEF m
  <2> QED BY <1>2, <2>1, <2>2, MetaRewritten
<1> QED BY <1>1, <1>2

\* The slides that were copied are kept under their place in the post.
LEMMA KeepSlidesDef ==
  ASSUME NEW i \in Rows, KeysSound(i.meta.keys), source.slides \in 0..SlideMax,
         NEW signedAnew \in BOOLEAN, NEW copied \in SUBSET (1..source.slides)
  PROVE  LET kept == KeepSlides(i, signedAnew, copied) IN
         /\ kept \in Rows /\ kept.content = i.content /\ kept.status = i.status
         /\ kept.meta.videoRead = i.meta.videoRead /\ kept.meta.link = i.meta.link
         /\ KeysSound(kept.meta.keys)
<1> DEFINE kept == KeepSlides(i, signedAnew, copied)
           keys == [k \in 1..source.slides |-> IF k \in copied THEN k ELSE 0]
           m == [i.meta EXCEPT !.keys = Trimmed(keys)]
<1>1. CASE kept = i
  BY <1>1
<1>2. CASE kept # i
  <2>1. kept = [i EXCEPT !.meta.keys = Trimmed(keys)]
    BY <1>2 DEF KeepSlides
  <2>2. keys \in Seq(0..SlideMax) /\ Len(keys) = source.slides
        /\ \A k \in 1..source.slides : keys[k] \in {0, k}
    <3>1. \A k \in 1..source.slides : keys[k] \in 0..SlideMax
      BY Bounds
    <3> QED BY <3>1, Bounds
  <2>3. KeysSound(keys)
    BY <2>2, Bounds DEF KeysSound
  <2> HIDE DEF keys
  <2>4. Trimmed(keys) \in Seq(0..SlideMax) /\ KeysSound(Trimmed(keys))
    BY <2>2, <2>3, TrimmedKeys
  <2>5. m \in Metas /\ m.videoRead = i.meta.videoRead /\ m.link = i.meta.link
        /\ m.keys = Trimmed(keys)
    BY <2>4, RowFields DEF Metas
  <2>6. kept = [i EXCEPT !.meta = m]
    BY <2>1 DEF Rows
  <2> HIDE DEF m, kept
  <2> QED BY <2>4, <2>5, <2>6, MetaRewritten DEF kept
<1> QED BY <1>1, <1>2

LEMMA ExtractKeeps == ASSUME ReadersInv, Extract PROVE ReadersInv'
<1>1. /\ TypeOK /\ item \in Rows /\ item.status # "completed" /\ MetaSound(source, item)
      /\ source \in Sources /\ slides = <<>> /\ late = FALSE /\ by \in {"none", "process", "finalize"}
      /\ KeysSound(item.meta.keys)
  BY DEF ReadersInv, TypeOK, Working, Extract, MetaSound
<1>2. UNCHANGED <<source, more>>
  BY DEF Extract
<1>4. ASSUME Skip(Apply(item, <<>>)) PROVE ReadersInv'
  <2> DEFINE emptied == Apply(item, <<>>)
  <2>1. emptied \in Rows /\ emptied.meta = item.meta
    <3>1. <<>> \in Seq(Pieces)
      OBVIOUS
    <3> QED BY <1>1, <3>1, Rewritten DEF Apply
  <2>2. MetaSound(source, emptied)
    BY <1>1, <2>1, SoundByMeta
  <2> HIDE DEF emptied
  <2> QED BY <1>2, <1>4, <2>1, <2>2, SkipEnds DEF emptied
<1>5. ASSUME NEW signedAnew \in BOOLEAN, NEW subtitles \in BOOLEAN, NEW named \in Naming,
             NEW copied \in SUBSET (1..source.slides),
             item' = KeepSlides(WithLink(Apply(item, Extracted(subtitles)),
                                         Collect(source.link, FALSE, subtitles /\ named)),
                                signedAnew, copied),
             pc' = "video", UNCHANGED <<row, attempt, by, slides, late, queue, scraper>>
      PROVE  ReadersInv'
  <2> DEFINE text == Extracted(subtitles)
             link == Collect(source.link, FALSE, subtitles /\ named)
             a == Apply(item, text)
             b == WithLink(a, link)
  <2>1. /\ text \in Seq(Pieces) /\ text = Opening(source, subtitles)
        /\ \A x : x \in ToSet(text) <=> \/ source.text /\ x = Caption
                                        \/ source.from = "youtube" /\ subtitles /\ x = Transcript
    BY <1>1, OpeningDef DEF Extracted, Opening
  <2>2. /\ link \in Links /\ link # "video"
        /\ source.link => link = "caption"
        /\ link = "speech" => subtitles
    <3>1. source.link \in BOOLEAN /\ (subtitles /\ named) \in BOOLEAN
      BY <1>1, SourceFacts
    <3> QED BY <3>1, CollectDef
  <2> HIDE DEF text, link
  <2>3. a \in Rows /\ a.content = text /\ a.meta = item.meta /\ a.status = item.status
    BY <1>1, <2>1, Rewritten DEF Apply
  <2> HIDE DEF a
  <2>4. /\ b \in Rows /\ b.content = text /\ b.status = item.status
        /\ b.meta.videoRead = item.meta.videoRead /\ b.meta.keys = item.meta.keys
        /\ b.meta.link = IF source.from = "youtube" THEN link ELSE item.meta.link
    BY <2>2, <2>3, WithLinkDef
  <2> HIDE DEF b
  <2>5. KeysSound(b.meta.keys) /\ source.slides \in 0..SlideMax
    BY <1>1, <2>4, SourceFacts
  <2>6. item' = KeepSlides(b, signedAnew, copied)
    BY <1>5 DEF a, b, text, link
  <2>7. /\ item' \in Rows /\ item'.content = text /\ item'.status = item.status
        /\ item'.meta.videoRead = item.meta.videoRead
        /\ item'.meta.link = IF source.from = "youtube" THEN link ELSE item.meta.link
        /\ KeysSound(item'.meta.keys)
    BY <2>4, <2>5, <2>6, KeepSlidesDef
  <2>8. MetaSound(source, item')
    BY <1>1, <2>7 DEF MetaSound
  <2>9. ASSUME ~source.video PROVE Claims(source, item')
    <3>1. item'.meta.videoRead = "None" /\ (source.from # "youtube" => item'.meta.link = "none")
      BY <2>8, <2>9 DEF MetaSound
    <3>2. source.link => source.from = "youtube"
      BY <1>1, <2>9, SourceFacts
    <3>3. \A p \in ToSet(text) : ~IsVideo(p)
      BY <2>1, PieceTurns
    <3>4. item'.meta.link = "speech" => Transcript \in ToSet(text)
      BY <2>1, <2>2, <2>7, <3>1
    <3> QED BY <2>2, <2>7, <3>1, <3>2, <3>3, <3>4 DEF Claims
  <2>10. Stages'
    <3>1. Opened(source, item')
      BY <2>1, <2>7 DEF Opened
    <3> QED BY <1>2, <1>5, <2>9, <3>1 DEF Stages, Claims, Opened, Opening
  <2>11. by' \in {"none", "process", "finalize"} /\ attempt' \in 0..MaxRetries /\ Queued
    BY <1>1, <1>5 DEF TypeOK, Queued
  <2> QED BY <1>1, <1>2, <1>5, <2>7, <2>8, <2>10, <2>11, GoesOn DEF Places
<1>6. PICK end \in Reads(source.from) :
         \/ end # "read" /\ Fail(item, "scrape", end = "gone")
         \/ end = "read" /\ source.from = "instagramLink" /\ Skip(Apply(item, <<>>))
         \/ /\ end = "read" /\ source.from # "instagramLink"
            /\ \E signedAnew, subtitles \in BOOLEAN, named \in Naming,
                  copied \in SUBSET (1..source.slides) :
                 item' = KeepSlides(WithLink(Apply(item, Extracted(subtitles)),
                                             Collect(source.link, FALSE, subtitles /\ named)),
                                    signedAnew, copied)
            /\ pc' = "video"
            /\ UNCHANGED <<row, attempt, by, slides, late, queue, scraper>>
  BY DEF Extract
<1>7. CASE end # "read"
  <2>1. Fail(item, "scrape", end = "gone")
    BY <1>6, <1>7
  <2> QED BY <1>1, <1>2, <2>1, FailEnds DEF Causes
<1> QED BY <1>4, <1>5, <1>6, <1>7

-------------------------------------------------------------------------------
(* Watching the video                                                      *)

\* What is read in a video is what was said, then what was seen.
LEMMA ReadingsDef ==
  ASSUME NEW r \in Readings
  PROVE  /\ r.text \in Seq(Pieces) /\ Plain(r.text)
         /\ \A x \in ToSet(r.text) : x = Speech \/ x = Frames
         /\ r.text # <<>> => \E x \in ToSet(r.text) : IsVideo(x)
<1>1. CASE r.text = <<>>
  <2>1. Perhaps(FALSE, Speech) = <<>>
    BY DEF Perhaps
  <2> DEFINE e == Perhaps(FALSE, Speech)
  <2>2. e \in Seq(Pieces) /\ Plain(e) /\ \A x : x \in ToSet(e) <=> FALSE /\ x = Speech
    <3>1. FALSE \in BOOLEAN /\ Speech \in Pieces /\ Turn(Speech) \in 1..3
      BY PieceTurns
    <3> QED BY <3>1, PerhapsDef
  <2>3. r.text = e
    BY <1>1, <2>1
  <2> HIDE DEF e
  <2> QED BY <1>1, <2>2, <2>3
<1>2. CASE r.text # <<>>
  <2>1. PICK sample \in Samples, heard \in BOOLEAN, sight \in Sights :
          r = ReadVideo(sample, heard, sight)
    BY <1>2 DEF Readings
  <2> DEFINE seen == sample = "frames" /\ sight = "text"
             s == Perhaps(heard, Speech)
             f == Perhaps(seen, Frames)
  <2>2. r.text = s \o f
    BY <1>2, <2>1 DEF ReadVideo, Perhaps
  <2>3. seen \in BOOLEAN
    OBVIOUS
  <2> HIDE DEF seen
  <2>4. /\ s \in Seq(Pieces) /\ Plain(s) /\ f \in Seq(Pieces) /\ Plain(f)
        /\ \A x : x \in ToSet(s) <=> heard /\ x = Speech
        /\ \A x : x \in ToSet(f) <=> seen /\ x = Frames
    BY <2>3, PieceTurns, PerhapsDef
  <2>5. heard \/ seen
    <3>1. Perhaps(FALSE, Speech) = <<>> /\ Perhaps(FALSE, Frames) = <<>> /\ <<>> \o <<>> = <<>>
      BY DEF Perhaps
    <3> QED BY <1>2, <2>2, <2>3, <3>1
  <2> HIDE DEF s, f
  <2>6. Plain(s \o f)
    BY <2>4, PieceTurns, PlainJoin
  <2>7. /\ s \o f \in Seq(Pieces)
        /\ \A x : x \in ToSet(s \o f) <=> (heard /\ x = Speech) \/ (seen /\ x = Frames)
    BY <2>4, ToSetJoin
  <2>8. \E x \in ToSet(s \o f) : IsVideo(x)
    BY <2>5, <2>7, PieceTurns
  <2> QED BY <2>2, <2>6, <2>7, <2>8
<1> QED BY <1>1, <1>2

LEMMA WithVideoDef ==
  ASSUME NEW i \in Rows, NEW text \in Seq(Pieces), NEW link \in Links, NEW accepted \in BOOLEAN
  PROVE  LET new == WithVideo(i, text, link, accepted) IN
         /\ new \in Rows /\ new.status = i.status
         /\ new.content = IF text = <<>> THEN i.content ELSE i.content \o text
         /\ new.meta.videoRead = IF text = <<>> THEN "no" ELSE "yes"
         /\ new.meta.link = link /\ new.meta.keys = i.meta.keys
<1> DEFINE new == WithVideo(i, text, link, accepted)
           content == i.content \o text
           no == [i.meta EXCEPT !.videoRead = "no", !.link = link]
           yes == [i.meta EXCEPT !.videoRead = "yes", !.link = link]
           doc == [yes EXCEPT !.doc = VideoDoc(content)]
<1>1. i.meta \in Metas /\ i.content \in Seq(Pieces) /\ content \in Seq(Pieces)
  BY RowFields, ConcatProperties
<1>2. /\ no \in Metas /\ no.videoRead = "no" /\ no.link = link /\ no.keys = i.meta.keys
  BY <1>1 DEF Metas, Links
<1>3. /\ yes \in Metas /\ yes.videoRead = "yes" /\ yes.link = link /\ yes.keys = i.meta.keys
  BY <1>1 DEF Metas, Links
<1> HIDE DEF content
<1>4. VideoDoc(content) \in Seq(Pieces)
  BY <1>1, PickedDef DEF VideoDoc
<1>5. /\ doc \in Metas /\ doc.videoRead = "yes" /\ doc.link = link /\ doc.keys = i.meta.keys
  <2> HIDE DEF yes
  <2> QED BY <1>3, <1>4 DEF Metas
<1>6. CASE text = <<>>
  <2>1. new = [i EXCEPT !.meta = no]
    BY <1>1, <1>6 DEF WithVideo, Rows
  <2> HIDE DEF new, no
  <2>2. new \in Rows /\ new.meta = no /\ new.content = i.content /\ new.status = i.status
    BY <1>2, <2>1, MetaRewritten
  <2> QED BY <1>2, <1>6, <2>2 DEF new
<1>7. CASE text # <<>>
  <2> DEFINE longer == [i EXCEPT !.content = content]
  <2>1. /\ longer \in Rows /\ longer.content = content /\ longer.meta = i.meta
        /\ longer.status = i.status
    BY <1>1, Rewritten
  <2>2. new = [longer EXCEPT !.meta = IF accepted THEN doc ELSE yes]
    BY <1>1, <1>7 DEF WithVideo, Rows, content
  <2> HIDE DEF new, doc, yes, longer
  <2> DEFINE m == IF accepted THEN doc ELSE yes
  <2>3. /\ m \in Metas /\ m.videoRead = "yes" /\ m.link = link /\ m.keys = i.meta.keys
    BY <1>3, <1>5
  <2>4. new = [longer EXCEPT !.meta = m]
    BY <2>2
  <2> HIDE DEF m
  <2>5. new \in Rows /\ new.meta = m /\ new.content = content /\ new.status = i.status
    BY <2>1, <2>3, <2>4, MetaRewritten
  <2> QED BY <1>7, <2>3, <2>5 DEF new, content
<1> QED BY <1>6, <1>7

LEMMA WatchKeeps == ASSUME ReadersInv, Watch PROVE ReadersInv'
<1>1. /\ TypeOK /\ item \in Rows /\ item.status # "completed" /\ MetaSound(source, item)
      /\ source \in Sources /\ slides = <<>> /\ late = FALSE /\ by \in {"none", "process", "finalize"}
      /\ KeysSound(item.meta.keys) /\ (~source.video => Claims(source, item))
      /\ attempt \in 0..MaxRetries /\ queue \in Seq(0..MaxRetries)
  BY DEF ReadersInv, TypeOK, Working, Watch, MetaSound, Stages
<1>2. PICK subtitles \in BOOLEAN : item.content = Opening(source, subtitles)
  BY DEF ReadersInv, Stages, Watch, Opened
<1>3. /\ item.content \in Seq(Pieces) /\ Plain(item.content)
      /\ \A x : x \in ToSet(item.content) <=>
                  \/ source.text /\ x = Caption
                  \/ source.from = "youtube" /\ subtitles /\ x = Transcript
  BY <1>1, <1>2, OpeningDef
<1>4. UNCHANGED <<source, more>>
  BY DEF Watch
<1>5. source.text <=> Caption \in ToSet(item.content)
  BY <1>1, <1>3, SourceFacts DEF Caption, Transcript, Piece
<1>6. ASSUME item' \in Rows, item'.status # "completed", MetaSound(source, item'),
             Spoke(source, item'), Claims(source, item'), pc' = "keys",
             UNCHANGED <<row, attempt, by, slides, late, queue, scraper>>
      PROVE  ReadersInv'
  <2>1. Stages'
    BY <1>4, <1>6 DEF Stages, Spoke, Claims
  <2>2. Queued
    BY <1>1, <1>6 DEF Queued
  <2> QED BY <1>1, <1>4, <1>6, <2>1, <2>2, GoesOn DEF Places
<1>7. CASE ~source.video /\ item' = item /\ pc' = "keys"
           /\ UNCHANGED <<row, attempt, by, slides, late, queue, scraper>>
  <2>1. Spoke(source, item') /\ Claims(source, item')
    BY <1>1, <1>3, <1>5, <1>7 DEF Spoke
  <2> QED BY <1>1, <1>6, <1>7, <2>1
<1>8. ASSUME Fail(item, "video", FALSE) PROVE ReadersInv'
  BY <1>1, <1>4, <1>8, FailEnds DEF Causes
<1>9. ASSUME source.video, NEW r \in Readings, NEW accepted \in BOOLEAN, NEW named \in Naming,
             item' = WithVideo(item, r.text,
                               Collect(source.link, named /\ Frames \in ToSet(r.text),
                                       named /\ Speech \in ToSet(r.text)), accepted),
             pc' = "keys", UNCHANGED <<row, attempt, by, slides, late, queue, scraper>>
      PROVE  ReadersInv'
  <2> DEFINE seen   == named /\ Frames \in ToSet(r.text)
             spoken == named /\ Speech \in ToSet(r.text)
             link   == Collect(source.link, seen, spoken)
             text   == r.text
  <2>1. /\ text \in Seq(Pieces) /\ Plain(text)
        /\ \A x \in ToSet(text) : x = Speech \/ x = Frames
        /\ text # <<>> => \E x \in ToSet(text) : IsVideo(x)
    BY ReadingsDef
  <2>2. /\ link \in Links /\ (source.link => link = "caption")
        /\ link = "video" => Frames \in ToSet(text)
        /\ link = "speech" => Speech \in ToSet(text)
    <3>1. source.link \in BOOLEAN /\ seen \in BOOLEAN /\ spoken \in BOOLEAN
      BY <1>1, SourceFacts
    <3> HIDE DEF seen, spoken
    <3>2. /\ link \in Links /\ (source.link => link = "caption")
          /\ link = "video" => seen
          /\ link = "speech" => spoken
      BY <3>1, CollectDef
    <3> QED BY <3>2 DEF seen, spoken
  <2>3. item' = WithVideo(item, text, link, accepted)
    BY <1>9
  <2> HIDE DEF link, text
  <2>4. /\ item' \in Rows /\ item'.status = item.status
        /\ item'.content = IF text = <<>> THEN item.content ELSE item.content \o text
        /\ item'.meta.videoRead = IF text = <<>> THEN "no" ELSE "yes"
        /\ item'.meta.link = link /\ item'.meta.keys = item.meta.keys
    BY <1>1, <2>1, <2>2, <2>3, WithVideoDef
  <2>5. source.from # "youtube"
    BY <1>1, <1>9, SourceFacts
  <2>6. MetaSound(source, item')
    BY <1>1, <1>9, <2>4 DEF MetaSound
  <2>7. \A x \in ToSet(item.content) : x = Caption /\ ~IsVideo(x)
    BY <1>3, <2>5, PieceTurns
  <2>8. CASE text = <<>>
    <3>1. item'.content = item.content /\ ToSet(text) = {}
      <4>1. Len(text) = 0 /\ 1..0 = {}
        BY <2>8
      <4>2. ToSet(text) = {}
        BY <2>1, <4>1, ToSetDef
      <4> QED BY <2>4, <2>8, <4>2
    <3>2. Spoke(source, item')
      BY <1>3, <1>5, <3>1 DEF Spoke
    <3>3. Claims(source, item')
      BY <2>2, <2>4, <2>7, <2>8, <3>1 DEF Claims
    <3> QED BY <1>1, <1>6, <1>9, <2>4, <2>6, <3>2, <3>3
  <2>9. CASE text # <<>>
    <3>1. /\ item'.content = item.content \o text /\ item'.content \in Seq(Pieces)
          /\ ToSet(item'.content) = ToSet(item.content) \cup ToSet(text)
      BY <1>3, <2>1, <2>4, <2>9, ToSetJoin
    <3>2. Plain(item'.content)
      <4>1. \A p \in ToSet(item.content), q \in ToSet(text) : Turn(p) < Turn(q)
        BY <2>1, <2>7, PieceTurns
      <4> QED BY <1>3, <2>1, <3>1, <4>1, PlainJoin
    <3>3. Caption \notin ToSet(text)
      BY <2>1, PieceTurns
    <3>4. Spoke(source, item')
      BY <1>5, <3>1, <3>2, <3>3 DEF Spoke
    <3>5. Claims(source, item')
      BY <2>1, <2>2, <2>4, <2>9, <3>1 DEF Claims
    <3> QED BY <1>1, <1>6, <1>9, <2>4, <2>6, <3>4, <3>5
  <2> QED BY <2>8, <2>9
<1> QED BY <1>7, <1>8, <1>9 DEF Watch

-------------------------------------------------------------------------------
(* Reading the slides                                                      *)

\* A text in which everybody speaks in turn is in order, and has no slides.
LEMMA PlainOrdered ==
  ASSUME NEW t \in Seq(Pieces), Plain(t)
  PROVE  Ordered(t) /\ Cardinality(SlidesOf(t)) = 0
<1> DEFINE e == [n \in 1..0 |-> Caption]
<1>1. e \in Seq(Pieces) /\ Len(e) = 0 /\ e = <<>>
  OBVIOUS
<1>2. t \o e = t
  BY <1>1, ConcatEmptySeq
<1> HIDE DEF e
<1>3. InPost(e)
  BY <1>1 DEF InPost
<1> QED BY <1>1, <1>2, <1>3, JoinOrdered

\* Slides that follow a text change nothing of what it says of its author and its video.
LEMMA SlidesFollow ==
  ASSUME NEW src, NEW i \in Rows, NEW new \in Rows, NEW u \in Seq(Pieces), InPost(u),
         Len(u) <= VisionMax, Spoke(src, i), Claims(src, i),
         new.content = i.content \o u, new.meta = i.meta
  PROVE  Shows(src, new) /\ Claims(src, new)
<1>1. i.content \in Seq(Pieces) /\ Plain(i.content) /\ (src.text <=> Caption \in ToSet(i.content))
  BY RowFields DEF Spoke
<1>2. /\ new.content \in Seq(Pieces)
      /\ ToSet(new.content) = ToSet(i.content) \cup ToSet(u)
  BY <1>1, ToSetJoin
<1>3. \A x \in ToSet(u) : x \in Pieces /\ IsSlide(x)
  BY ToSetDef DEF InPost
<1>4. \A x \in ToSet(u) : /\ x # Caption /\ x # Transcript /\ x # Speech /\ x # Frames
                          /\ ~IsVideo(x)
  BY <1>3, SlideTurns
<1>5. Ordered(new.content) /\ Cardinality(SlidesOf(new.content)) = Len(u)
  BY <1>1, JoinOrdered
<1>6. Shows(src, new)
  BY <1>1, <1>2, <1>4, <1>5 DEF Shows
<1>7. Claims(src, new)
  BY <1>2, <1>4 DEF Claims
<1> QED BY <1>6, <1>7

\* The slide readers are at work.
LEMMA SlidesGoOn ==
  ASSUME ReadersInv, pc \in {"keys", "slides"}, pc' = "slides", slides' \in Seq(SlideStates),
         Len(slides') <= Len(Kept(item)), Len(slides') <= VisionMax,
         Cardinality(Reading') <= Concurrency,
         UNCHANGED <<source, row, item, attempt, by, queue, scraper, more>>
  PROVE  ReadersInv'
<1>1. TypeOK'
  BY DEF ReadersInv, TypeOK, SlideStates
<1>2. Spoke(source, item) /\ Claims(source, item)
  BY DEF ReadersInv, Stages
<1>3. Stages'
  BY <1>2 DEF Stages, Spoke, Claims
<1>4. Working'
  BY DEF ReadersInv, Working, MetaSound
<1> QED BY <1>1, <1>3, <1>4, RowStays DEF ReadersInv

LEMMA OpenSlidesKeeps == ASSUME ReadersInv, OpenSlides PROVE ReadersInv'
<1>1. /\ TypeOK /\ item \in Rows /\ item.status # "completed" /\ MetaSound(source, item)
      /\ slides = <<>> /\ late = FALSE /\ by \in {"none", "process", "finalize"}
      /\ KeysSound(item.meta.keys) /\ item.meta.keys \in Seq(0..SlideMax)
      /\ attempt \in 0..MaxRetries /\ queue \in Seq(0..MaxRetries)
      /\ Spoke(source, item) /\ Claims(source, item)
  BY RowFields DEF ReadersInv, TypeOK, Working, OpenSlides, MetaSound, Stages
<1> DEFINE n == Least(VisionMax, Len(Kept(item)))
<1>2. n \in Nat /\ n <= VisionMax /\ n <= Len(Kept(item))
  BY <1>1, KeptDef, Bounds DEF Least
<1>3. /\ slides' = [k \in 1..n |-> "waiting"] /\ pc' = IF n = 0 THEN "enrich" ELSE "slides"
      /\ UNCHANGED <<source, row, item, attempt, by, late, queue, scraper, more>>
  BY DEF OpenSlides
<1> HIDE DEF n
<1>4. CASE n = 0
  <2>1. slides' = <<>> /\ pc' = "enrich"
    BY <1>3, <1>4
  <2>2. Ordered(item.content) /\ Cardinality(SlidesOf(item.content)) = 0
    BY <1>1, RowFields, PlainOrdered DEF Spoke
  <2>3. Shows(source, item)
    BY <1>1, <2>2, Bounds DEF Shows, Spoke
  <2>4. Stages'
    BY <1>1, <1>3, <2>1, <2>3 DEF Stages, Shows, Claims
  <2>5. Queued
    BY <1>1, <1>3 DEF Queued
  <2> QED BY <1>1, <1>3, <2>1, <2>4, <2>5, GoesOn DEF Places
<1>5. CASE n # 0
  <2>1. slides' \in Seq(SlideStates) /\ Len(slides') = n /\ pc' = "slides"
    BY <1>2, <1>3, <1>5 DEF SlideStates
  <2>2. Cardinality(Reading') <= Concurrency
    <3>1. Reading' = {}
      BY <1>3 DEF Reading
    <3> QED BY <3>1, FS_EmptySet, Bounds
  <2> QED BY <1>2, <1>3, <2>1, <2>2, SlidesGoOn DEF OpenSlides
<1> QED BY <1>4, <1>5

\* One slide reader goes on, as long as no more of them are reading than may.
LEMMA SlideMoves ==
  ASSUME ReadersInv, pc = "slides", NEW k \in DOMAIN slides, NEW state \in SlideStates,
         slides' = [slides EXCEPT ![k] = state], UNCHANGED late,
         state = "reading" => Cardinality(Reading) < Concurrency,
         UNCHANGED <<source, row, item, attempt, pc, by, queue, scraper, more>>
  PROVE  ReadersInv'
<1>1. /\ slides \in Seq(SlideStates) /\ Len(slides) <= VisionMax
      /\ Cardinality(Reading) <= Concurrency /\ Len(slides) <= Len(Kept(item))
  BY DEF ReadersInv, TypeOK, Stages, SlideStates
<1>2. slides' \in Seq(SlideStates) /\ Len(slides') = Len(slides) /\ DOMAIN slides' = DOMAIN slides
  BY <1>1
<1>3. IsFiniteSet(Reading) /\ Cardinality(Reading) \in Nat
  <2>1. Len(slides) \in Nat /\ Reading \in SUBSET (1..Len(slides))
    BY <1>1 DEF Reading
  <2> QED BY <2>1, FewNumbers
<1>4. Cardinality(Reading') <= Concurrency
  <2>1. CASE state = "reading"
    <3>1. Reading' = Reading \cup {k}
      BY <1>1, <1>2, <2>1 DEF Reading
    <3>2. Cardinality(Reading \cup {k}) <= Cardinality(Reading) + 1
      <4>1. Cardinality(Reading \cup {k}) =
              IF k \in Reading THEN Cardinality(Reading) ELSE Cardinality(Reading) + 1
        BY <1>3, FS_AddElement
      <4> QED BY <1>3, <4>1
    <3>3. Cardinality(Reading \cup {k}) \in Nat
      BY <1>3, FS_AddElement, FS_CardinalityType
    <3> QED BY <1>3, <2>1, <3>1, <3>2, <3>3, Bounds
  <2>2. CASE state # "reading"
    <3>1. Reading' \subseteq Reading
      BY <1>1, <1>2, <2>2 DEF Reading
    <3>2. Cardinality(Reading') \in Nat /\ Cardinality(Reading') <= Cardinality(Reading)
      BY <1>3, <3>1, FS_Subset, FS_CardinalityType
    <3> QED BY <1>1, <1>3, <3>2, Bounds
  <2> QED BY <2>1, <2>2
<1> QED BY <1>1, <1>2, <1>4, SlidesGoOn

LEMMA EnterKeeps == ASSUME ReadersInv, NEW k \in DOMAIN slides, Enter(k) PROVE ReadersInv'
<1> DEFINE state == IF late THEN "dropped" ELSE "reading"
<1>1. state \in SlideStates
  BY DEF SlideStates
<1> QED BY <1>1, SlideMoves DEF Enter

LEMMA AnswerKeeps == ASSUME ReadersInv, NEW k \in DOMAIN slides, Answer(k) PROVE ReadersInv'
<1>1. PICK answer \in {"read", "dropped"} : slides' = [slides EXCEPT ![k] = answer]
  BY DEF Answer
<1>2. answer \in SlideStates /\ answer # "reading"
  BY DEF SlideStates
<1> QED BY <1>1, <1>2, SlideMoves DEF Answer

LEMMA DeadlineKeeps == ASSUME ReadersInv, Deadline PROVE ReadersInv'
<1>1. /\ slides \in Seq(SlideStates) /\ Len(slides) <= VisionMax
      /\ Cardinality(Reading) <= Concurrency /\ Len(slides) <= Len(Kept(item))
  BY DEF ReadersInv, TypeOK, Stages, SlideStates, Deadline
<1>2. Reading' = Reading
  BY DEF Deadline, Reading
<1> QED BY <1>1, <1>2, SlidesGoOn DEF Deadline

LEMMA CloseSlidesKeeps == ASSUME ReadersInv, CloseSlides PROVE ReadersInv'
<1>1. /\ TypeOK /\ item \in Rows /\ item.status # "completed" /\ MetaSound(source, item)
      /\ by \in {"none", "process", "finalize"} /\ VisionMax \in Nat
      /\ KeysSound(item.meta.keys) /\ item.meta.keys \in Seq(0..SlideMax)
      /\ attempt \in 0..MaxRetries /\ queue \in Seq(0..MaxRetries)
      /\ Spoke(source, item) /\ Claims(source, item)
      /\ slides \in Seq(SlideStates) /\ Len(slides) <= VisionMax /\ Len(slides) <= Len(Kept(item))
  BY RowFields, Bounds
     DEF ReadersInv, TypeOK, Working, CloseSlides, MetaSound, Stages, SlideStates
<1> DEFINE u == SlideTexts(item)
<1>2. u \in Seq(Pieces) /\ InPost(u) /\ Len(u) \in Nat /\ Len(u) <= Len(slides)
  BY <1>1, SlideTextsDef
<1>3. Len(u) <= VisionMax
  BY <1>1, <1>2
<1>4. /\ item' = WithSlides(item, u) /\ pc' = "enrich" /\ slides' = <<>> /\ late' = FALSE
      /\ UNCHANGED <<source, row, attempt, by, queue, scraper, more>>
  BY DEF CloseSlides
<1> HIDE DEF u
<1>5. /\ item' \in Rows /\ item'.content = item.content \o u /\ item'.meta = item.meta
      /\ item'.status = item.status
  <2>1. item.content \in Seq(Pieces) /\ item.content \o u \in Seq(Pieces)
    BY <1>1, <1>2, RowFields, ConcatProperties
  <2>2. CASE u = <<>>
    <3>1. item.content \o u = item.content
      BY <2>1, <2>2, ConcatEmptySeq
    <3> QED BY <1>1, <1>4, <2>2, <3>1 DEF WithSlides
  <2>3. CASE u # <<>>
    <3>1. item' = [item EXCEPT !.content = item.content \o u]
      BY <1>1, <1>4, <2>3 DEF WithSlides, Rows
    <3> QED BY <1>1, <2>1, <3>1, Rewritten
  <2> QED BY <2>2, <2>3
<1>6. Shows(source, item') /\ Claims(source, item')
  BY <1>1, <1>2, <1>3, <1>5, SlidesFollow
<1>7. MetaSound(source, item')
  BY <1>1, <1>5, SoundByMeta
<1>8. Stages'
  BY <1>4, <1>6 DEF Stages, Shows, Claims
<1>9. Queued
  BY <1>1, <1>4 DEF Queued
<1> QED BY <1>1, <1>4, <1>5, <1>7, <1>8, <1>9, GoesOn DEF Places

-------------------------------------------------------------------------------
(* The other readers, and enrichment                                       *)

LEMMA UploadKeeps ==
  ASSUME ReadersInv, pc \in {"transcribe", "describe"}, NEW cause \in Causes, NEW answers,
         NEW piece \in Pieces, Upload(cause, answers, piece)
  PROVE  ReadersInv'
<1>1. /\ TypeOK /\ item \in Rows /\ item.status # "completed" /\ MetaSound(source, item)
      /\ slides = <<>> /\ late = FALSE /\ by \in {"none", "process", "finalize"}
      /\ attempt \in 0..MaxRetries /\ queue \in Seq(0..MaxRetries) /\ source.from \notin Sites
  BY DEF ReadersInv, TypeOK, Working, Stages
<1>2. UNCHANGED <<source, more>>
  BY DEF Upload
<1>3. CASE Skip(item)
  BY <1>1, <1>2, <1>3, SkipEnds
<1>4. CASE Fail(item, cause, FALSE)
  BY <1>1, <1>2, <1>4, FailEnds
<1>5. CASE /\ item' = [item EXCEPT !.content = <<piece>>] /\ pc' = "enrich"
           /\ UNCHANGED <<row, attempt, by, slides, late, queue, scraper>>
  <2>1. <<piece>> \in Seq(Pieces)
    OBVIOUS
  <2>2. item' \in Rows /\ item'.meta = item.meta /\ item'.status = item.status
    BY <1>1, <1>5, <2>1, Rewritten
  <2>3. MetaSound(source, item')
    BY <1>1, <2>2, SoundByMeta
  <2>4. Stages'
    BY <1>1, <1>2, <1>5 DEF Stages
  <2>5. Queued
    BY <1>1, <1>5 DEF Queued
  <2> QED BY <1>1, <1>2, <1>5, <2>2, <2>3, <2>4, <2>5, GoesOn DEF Places
<1> QED BY <1>3, <1>4, <1>5 DEF Upload

LEMMA UploadsKeep == ASSUME ReadersInv, Transcribe \/ Describe PROVE ReadersInv'
<1>1. {Transcript, Description} \subseteq Pieces /\ {"speech", "vision"} \subseteq Causes
  BY DEF Pieces, Causes
<1> QED BY <1>1, UploadKeeps DEF Transcribe, Describe

\* What a finished run leaves: the text, quotes from it, and a card and an index of it.
LEMMA FinishedRow ==
  ASSUME ReadersInv, pc = "enrich", row' \in Rows, row'.content = item.content,
         row'.meta = item.meta, row'.highlights \subseteq ToSet(item.content),
         row'.card = TextOf(item), row'.indexed = TextOf(item), UNCHANGED source
  PROVE  (MetaSound(source, row) /\ AuthorSpeaksFirst /\ DrawnFromWhatItSays /\ SaysWhatItRead)'
<1>1. /\ source.from \in Sites => Shows(source, item) /\ Claims(source, item)
      /\ MetaSound(source, item)
  BY DEF ReadersInv, Working, Stages
<1>2. MetaSound(source, row)'
  BY <1>1 DEF MetaSound
<1>3. AuthorSpeaksFirst'
  BY <1>1 DEF AuthorSpeaksFirst, Shows, Ordered, SlidesOf
<1>4. DrawnFromWhatItSays'
  BY DEF DrawnFromWhatItSays, TextOf
<1>5. SaysWhatItRead'
  BY <1>1 DEF SaysWhatItRead, Claims
<1> QED BY <1>2, <1>3, <1>4, <1>5

LEMMA EnrichKeeps == ASSUME ReadersInv, Enrich PROVE ReadersInv'
<1>1. /\ TypeOK /\ item \in Rows /\ item.status # "completed" /\ MetaSound(source, item)
      /\ attempt \in 0..MaxRetries /\ queue \in Seq(0..MaxRetries) /\ pc = "enrich"
      /\ item.content \in Seq(Pieces)
  BY RowFields DEF ReadersInv, TypeOK, Working, Enrich
<1>2. UNCHANGED <<source, more>>
  BY DEF Enrich
<1>3. PICK card \in CardFields, answered \in BOOLEAN, spans \in Spans, embedding \in Embeddings :
        LET quoted == IF item.content = <<>> THEN {} ELSE KeepVerbatim(spans, item.content)
            i == [item EXCEPT !.card = TextOf(item), !.highlights = quoted]
        IN  IF TextOf(item) = <<>> THEN Fail(item, "empty", FALSE)
            ELSE IF ~card \/ (item.content # <<>> /\ ~answered)
              THEN Fail(item, "model", FALSE)
            ELSE IF embedding = "fault" THEN Fail(i, "model", FALSE)
            ELSE Done([i EXCEPT !.status = "completed", !.indexed = EmbedInput(i)])
  BY DEF Enrich
<1> DEFINE quoted == IF item.content = <<>> THEN {} ELSE KeepVerbatim(spans, item.content)
           i == [item EXCEPT !.card = TextOf(item), !.highlights = quoted]
           last == [i EXCEPT !.status = "completed", !.indexed = EmbedInput(i)]
<1>4. Fail(item, "empty", FALSE) \/ Fail(item, "model", FALSE) \/ Fail(i, "model", FALSE) \/ Done(last)
  <2> HIDE DEF i, last
  <2> QED BY <1>3 DEF i, last, quoted
<1>5. quoted \subseteq ToSet(item.content) /\ quoted \subseteq Pieces
  BY <1>1, ToSetDef DEF KeepVerbatim
<1>6. TextOf(item) \in Seq(Pieces)
  <2>1. <<Title>> \in Seq(Pieces)
    BY DEF Pieces
  <2> QED BY <1>1, <2>1 DEF TextOf
<1> HIDE DEF quoted
<1>7. /\ i \in Rows /\ i.content = item.content /\ i.meta = item.meta /\ i.highlights = quoted
      /\ i.card = TextOf(item)
  <2> DEFINE t == TextOf(item)
  <2> HIDE DEF t
  <2>1. t \in Seq(Pieces) /\ i = [item EXCEPT !.card = t, !.highlights = quoted]
    BY <1>6 DEF t
  <2> HIDE DEF i
  <2>2. i \in Rows /\ i.content = item.content /\ i.meta = item.meta /\ i.highlights = quoted
        /\ i.card = t
    BY <1>1, <1>5, <2>1 DEF Rows
  <2> QED BY <2>2 DEF t
<1>8. EmbedInput(i) = TextOf(item)
  BY <1>7 DEF EmbedInput, TextOf
<1> HIDE DEF i
<1>9. /\ last \in Rows /\ last.content = item.content /\ last.meta = item.meta
      /\ last.highlights = quoted /\ last.card = TextOf(item) /\ last.indexed = TextOf(item)
  <2> DEFINE t == EmbedInput(i)
  <2>1. t \in Seq(Pieces)
    BY <1>6, <1>8
  <2> HIDE DEF t
  <2>2. last = [i EXCEPT !.status = "completed", !.indexed = t]
    BY DEF t
  <2> HIDE DEF last
  <2>3. last \in Rows /\ last.content = i.content /\ last.meta = i.meta
        /\ last.highlights = i.highlights /\ last.card = i.card /\ last.indexed = t
    BY <1>7, <2>1, <2>2 DEF Rows
  <2> QED BY <1>7, <1>8, <2>3 DEF t
<1> HIDE DEF last
<1>10. CASE Fail(item, "empty", FALSE) \/ Fail(item, "model", FALSE)
  BY <1>1, <1>2, <1>10, FailEnds DEF Causes
<1>11. CASE Fail(i, "model", FALSE)
  <2>1. MetaSound(source, i)
    BY <1>1, <1>7, SoundByMeta
  <2> QED BY <1>2, <1>7, <1>11, <2>1, FailEnds DEF Causes
<1>12. CASE Done(last)
  <2>1. row' = last /\ Drop /\ Ended /\ UNCHANGED queue
    BY <1>12 DEF Done, Commit
  <2>2. Queued /\ Scraped
    BY <1>1, <2>1, EndedTypes DEF Queued
  <2>3. more' \in 0..MaxMore
    BY <1>1, <1>2 DEF TypeOK
  <2>4. (TypeOK /\ Working /\ Stages)'
    BY <1>2, <1>9, <2>1, <2>2, <2>3, NowIdle
  <2>5. (MetaSound(source, row) /\ AuthorSpeaksFirst /\ DrawnFromWhatItSays /\ SaysWhatItRead)'
    BY <1>1, <1>2, <1>5, <1>9, <2>1, FinishedRow
  <2> QED BY <2>4, <2>5 DEF ReadersInv
<1> QED BY <1>4, <1>10, <1>11, <1>12

-------------------------------------------------------------------------------
(* Its owner, and the workers that die                                     *)

\* Between two runs, no task is disturbed by what is written and queued.
LEMMA BetweenRuns ==
  ASSUME ReadersInv, pc = "idle", row' \in Rows, Queued, more' \in 0..MaxMore,
         UNCHANGED <<source, item, attempt, pc, by, slides, late, scraper>>
  PROVE  (TypeOK /\ Working /\ Stages)'
<1>1. Reading' = Reading
  BY DEF Reading
<1>2. TypeOK'
  BY <1>1 DEF ReadersInv, TypeOK, Queued
<1> QED BY <1>2 DEF Working, Stages

LEMMA OneMore ==
  ASSUME TypeOK, more < MaxMore, more' = more + 1
  PROVE  more' \in 0..MaxMore
BY Bounds DEF TypeOK

LEMMA EditKeeps == ASSUME ReadersInv, Edit PROVE ReadersInv'
<1>1. /\ TypeOK /\ row \in Rows /\ MetaSound(source, row) /\ DrawnFromWhatItSays
      /\ queue \in Seq(0..MaxRetries) /\ row.content \in Seq(Pieces) /\ row.meta \in Metas
  BY RowFields DEF ReadersInv, TypeOK
<1>2. /\ more < MaxMore /\ pc = "idle" /\ more' = more + 1
      /\ UNCHANGED <<source, item, attempt, pc, by, slides, late, queue, scraper>>
  BY DEF Edit
<1>3. PICK blocks \in SUBSET Blocks, fits \in BOOLEAN, kept \in {<<>>, row.content} :
        LET text == Sanitized(blocks, fits, kept) IN
        /\ text # <<>>
        /\ row' = [row EXCEPT !.content = text, !.meta.editor = text,
                              !.highlights = KeepVerbatim(@, text)]
  BY DEF Edit
<1> DEFINE text == Sanitized(blocks, fits, kept)
           m == [row.meta EXCEPT !.editor = text]
           h == KeepVerbatim(row.highlights, text)
<1>4. text \in Seq(Pieces) /\ text # <<>>
  <2>1. kept \in Seq(Pieces) /\ Edited \in Pieces
    <3>1. <<>> \in Seq(Pieces)
      OBVIOUS
    <3>2. kept = <<>> \/ kept = row.content
      BY <1>3
    <3>3. Edited \in Pieces
      BY DEF Pieces
    <3> QED BY <1>1, <3>1, <3>2, <3>3
  <2>2. Append(kept, Edited) \in Seq(Pieces) /\ <<>> \in Seq(Pieces)
    BY <2>1, AppendProperties
  <2> QED BY <1>3, <2>2 DEF Sanitized
<1> HIDE DEF text
<1>5. /\ m \in Metas /\ m.editor = text /\ m.videoRead = row.meta.videoRead
      /\ m.link = row.meta.link /\ m.keys = row.meta.keys
  BY <1>1, <1>4 DEF Metas
<1>6. h \subseteq ToSet(text) /\ h \subseteq Pieces
  BY <1>1, RowFields DEF KeepVerbatim
<1>7. row' = [row EXCEPT !.content = text, !.meta = m, !.highlights = h]
  BY <1>1, <1>3 DEF Rows, text
<1> HIDE DEF m, h
<1>8. /\ row' \in Rows /\ row'.status = row.status /\ row'.meta = m /\ row'.content = text
      /\ row'.highlights = h /\ row'.card = row.card /\ row'.indexed = row.indexed
  BY <1>1, <1>4, <1>5, <1>6, <1>7 DEF Rows
<1>9. MetaSound(source, row)'
  BY <1>1, <1>2, <1>5, <1>8 DEF MetaSound
<1>10. ~Unedited'
  BY <1>4, <1>5, <1>8 DEF Unedited
<1>11. DrawnFromWhatItSays'
  BY <1>1, <1>6, <1>8, <1>10 DEF DrawnFromWhatItSays, Completed
<1>12. (AuthorSpeaksFirst /\ SaysWhatItRead)'
  BY <1>10 DEF AuthorSpeaksFirst, SaysWhatItRead
<1>13. Queued /\ more' \in 0..MaxMore
  BY <1>1, <1>2, OneMore DEF Queued
<1>14. (TypeOK /\ Working /\ Stages)'
  BY <1>2, <1>8, <1>13, BetweenRuns
<1> QED BY <1>9, <1>11, <1>12, <1>14 DEF ReadersInv

LEMMA ReprocessKeeps == ASSUME ReadersInv, Reprocess PROVE ReadersInv'
<1>1. /\ TypeOK /\ row \in Rows /\ MetaSound(source, row) /\ queue \in Seq(0..MaxRetries)
      /\ row.content \in Seq(Pieces)
  BY RowFields DEF ReadersInv, TypeOK
<1>2. /\ more < MaxMore /\ pc = "idle" /\ more' = more + 1 /\ queue' = Append(queue, 0)
      /\ UNCHANGED <<source, item, attempt, pc, by, slides, late, scraper>>
  BY DEF Reprocess
<1> DEFINE text == IF Retranscribable THEN <<>> ELSE row.content
<1>3. text \in Seq(Pieces)
  BY <1>1
<1>4. row' = [row EXCEPT !.status = "pending", !.cause = "none", !.content = text]
  BY <1>1 DEF Reprocess, Rows
<1> HIDE DEF text
<1>5. row' \in Rows /\ row'.status = "pending" /\ row'.meta = row.meta
  BY <1>1, <1>3, <1>4 DEF Rows
<1>6. Queued
  BY <1>1, <1>2, Bounds, AppendProperties DEF Queued
<1>7. more' \in 0..MaxMore
  BY <1>1, <1>2, OneMore
<1>8. (TypeOK /\ Working /\ Stages)'
  BY <1>2, <1>5, <1>6, <1>7, BetweenRuns
<1>9. MetaSound(source, row)'
  BY <1>1, <1>2, <1>5 DEF MetaSound
<1> QED BY <1>5, <1>8, <1>9, Unfinished DEF ReadersInv

LEMMA CrashKeeps == ASSUME ReadersInv, Crash PROVE ReadersInv'
<1>1. /\ TypeOK /\ row \in Rows /\ queue \in Seq(0..MaxRetries) /\ attempt \in 0..MaxRetries
  BY DEF ReadersInv, TypeOK
<1>2. Drop /\ UNCHANGED <<source, row, scraper>> /\ more' \in 0..MaxMore
  BY <1>1, OneMore DEF Crash
<1>3. Queued /\ Scraped
  BY <1>1, <1>2, AppendProperties DEF Crash, Queued, Scraped, TypeOK
<1>4. (TypeOK /\ Working /\ Stages)'
  BY <1>1, <1>2, <1>3, NowIdle
<1> QED BY <1>2, <1>4, RowStays DEF ReadersInv

LEMMA RedeliveredKeeps == ASSUME ReadersInv, Redelivered PROVE ReadersInv'
<1>1. TypeOK /\ row' \in Rows /\ more' \in 0..MaxMore
  BY OneMore DEF Redelivered, ReadersInv, TypeOK
<1>2. <<0>> \in Seq(0..MaxRetries)
  BY Bounds
<1>3. Queued
  BY <1>2 DEF Redelivered, Queued
<1>4. (TypeOK /\ Working /\ Stages)'
  BY <1>1, <1>3, BetweenRuns DEF Redelivered
<1> QED BY <1>4, RowStays DEF ReadersInv, Redelivered

LEMMA NextKeeps == ReadersInv /\ [Next]_vars => ReadersInv'
<1> SUFFICES ASSUME ReadersInv, [Next]_vars PROVE ReadersInv'
  OBVIOUS
<1>1. CASE Take \/ Finalize \/ Start \/ Extract \/ Watch
  BY <1>1, TakeKeeps, FinalizeKeeps, StartKeeps, ExtractKeeps, WatchKeeps
<1>2. CASE ReadSlides
  BY <1>2, OpenSlidesKeeps, EnterKeeps, AnswerKeeps, CloseSlidesKeeps DEF ReadSlides
<1>3. CASE Transcribe \/ Describe \/ Enrich
  BY <1>3, UploadsKeep, EnrichKeeps
<1>4. CASE Deadline
  BY <1>4, DeadlineKeeps
<1>5. CASE Edit \/ Reprocess
  BY <1>5, EditKeeps, ReprocessKeeps
<1>6. CASE Crash \/ Redelivered
  BY <1>6, CrashKeeps, RedeliveredKeeps
<1>7. CASE UNCHANGED vars
  <2>1. Reading' = Reading
    BY <1>7 DEF vars, Reading
  <2>2. TypeOK'
    BY <1>7, <2>1 DEF ReadersInv, TypeOK, vars
  <2>3. Working' /\ Stages'
    BY <1>7 DEF ReadersInv, Working, Stages, MetaSound, Opened, Opening, Claims, Spoke, Shows, vars
  <2> QED BY <1>7, <2>2, <2>3, RowStays DEF ReadersInv, vars
<1> QED BY <1>1, <1>2, <1>3, <1>4, <1>5, <1>6, <1>7 DEF Next, Work

LEMMA Holds == Spec => []ReadersInv
BY InitKeeps, NextKeeps, PTL DEF Spec

-------------------------------------------------------------------------------
(* The theorems                                                            *)

\* Every variable has its type: no more slides are read at once than the semaphore admits,
\* and no more in all than the budget, whatever the deadline and the workers do
\* (_read_slides).
THEOREM ReadersTypeCorrect == Spec => []TypeOK
<1>1. ReadersInv => TypeOK
  BY DEF ReadersInv
<1> QED BY <1>1, Holds, PTL

\* A finished memory opens with what its author wrote, once, and a machine's account follows
\* in its order, however many runs it took and whatever of them failed (_apply, _read_video,
\* _read_slides).
THEOREM ReadersAuthorSpeaksFirst == Spec => []AuthorSpeaksFirst
<1>1. ReadersInv => AuthorSpeaksFirst
  BY DEF ReadersInv
<1> QED BY <1>1, Holds, PTL

\* A finished memory quotes nothing that is not in it, and its card and its index were drawn
\* from the text it holds (_enrich, keep_verbatim, update_content).
THEOREM ReadersDrawnFromWhatItSays == Spec => []DrawnFromWhatItSays
<1>1. ReadersInv => DrawnFromWhatItSays
  BY DEF ReadersInv
<1> QED BY <1>1, Holds, PTL

\* What a finished memory says of its reading is true of the text it holds: that its video
\* was read, and who named its site (_read_video, collect_links).
THEOREM ReadersSaysWhatItRead == Spec => []SaysWhatItRead
<1>1. ReadersInv => SaysWhatItRead
  BY DEF ReadersInv
<1> QED BY <1>1, Holds, PTL

===============================================================================
