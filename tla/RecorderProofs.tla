--------------------------- MODULE RecorderProofs ---------------------------
(***************************************************************************)
(* The recording runtime, for any number of calls, queue and frames: a     *)
(* completed recording is whole, an uploaded AMBE file has what its call   *)
(* had, and the worker implements the promise of module Recordings.        *)
(***************************************************************************)
EXTENDS Recorder, TLAPS, SequenceTheorems, FiniteSetTheorems

\* The items of a queue; those not carried out yet.
Elems(q) == {q[i] : i \in 1..Len(q)}
Pipe == Elems(queue) \cup {hand}
AudioOf(q) == {x \in Elems(q) : IsAudio(x)}
Waits(c, n) == \E x \in Pipe : IsAudio(x) /\ x.call = c /\ x.n = n

\* In which order the producers queue: a call's audio between its start and its
\* finish and before the next call's start, nothing after the shutdown.
Follows(a, b) ==
  /\ a.type # "shutdown"
  /\ b.type = "start" => a.call < b.call
  /\ IsAudio(b) => /\ a.type = "start" => a.call <= b.call
                   /\ a.type = "finish" => a.call # b.call
                   /\ IsAudio(a) /\ a.call = b.call => a.n < b.n
InOrder(q) == \A i, j \in 1..Len(q) : i < j => Follows(q[i], q[j])

IsItem(x) == x \in Item /\ (x.type # "shutdown" => x.call \in Calls)

Ambe == [state : {"off", "open", "closed"}, of : Calls \cup {NoCall},
         header : Nat, payload : Nat]

RecTypes ==
  /\ queue \in Seq(Item) /\ (\A x \in Elems(queue) : IsItem(x))
  /\ hand = Nothing \/ IsItem(hand)
  /\ stopping \in BOOLEAN /\ active \in Calls \cup {NoCall} /\ ambe \in Ambe
  /\ last \in 0..MaxCalls /\ up \subseteq 1..last
  /\ producer \in {NoCall, last} /\ (producer # NoCall => producer \in up /\ ~stopping)
  /\ heard \in [Calls -> Nat]
  /\ kept \in [Calls -> SUBSET (1..MaxAudio)] /\ saved \in [Calls -> SUBSET (1..MaxAudio)]
  /\ result \in [Calls -> {"none", "recording"} \cup Final]

\* The queue is in order, the item in hand before all of it, and the audio in it
\* is counted.
QueueInv ==
  /\ InOrder(queue) /\ \A x \in Elems(queue) : Follows(hand, x)
  /\ IsFiniteSet(AudioOf(queue)) /\ frames = Cardinality(AudioOf(queue))

\* What an item not carried out yet tells of its call: a start is of a call later
\* than the one recorded, a finish of one that is over, and audio comes after all
\* that has been saved.
ItemInv(x) ==
  /\ x.call <= last
  /\ x.type = "shutdown" => stopping
  /\ x.type = "start" => active < x.call /\ result[x.call] = "none"
  /\ x.type = "finish" => x.call \notin up
  /\ IsAudio(x) => /\ x.n \in 1..heard[x.call]
                   /\ \A m \in saved[x.call] : m < x.n
                   /\ result[x.call] # "completed"

\* What a call's result tells: unless it failed, its audio that was kept is saved
\* or waits; a completed one gets no more.
CallInv(c) ==
  /\ result[c] = "none" => /\ saved[c] = {}
                           /\ c <= last => \E x \in Pipe : x.type = "start" /\ x.call = c
  /\ last < c => result[c] = "none"
  /\ result[c] = "recording" <=> active = c
  /\ result[c] = "completed" => producer # c
  /\ \A m \in saved[c] : m <= heard[c]
  /\ result[c] # "failed" =>
       \A n \in 1..MaxAudio : n \in kept[c] <=> n \in saved[c] \/ Waits(c, n)

\* An AMBE file holds the bursts saved of its call, which is the one recorded if
\* that is a DMR call; a file uploaded holds those of a call that is over.
FileHolds(f) ==
  /\ f.of \in Calls /\ result[f.of] # "none"
  /\ f.payload = AmbePerBurst * Cardinality(saved[f.of])
AmbeInv ==
  /\ ambe.payload <= ambe.header
  /\ ambe.state = "open" => FileHolds(ambe) /\ IsDmr(ambe.of)
  /\ ambe.state = "open" /\ active # NoCall /\ IsDmr(active) => ambe.of = active
  /\ active # NoCall /\ IsDmr(active) /\ Remote => ambe.state = "open"
  /\ ~Remote => ambe.state = "off"
  /\ \A u \in uploads : FileHolds(u) /\ result[u.of] \in Final /\ u.payload <= u.header

RecInv ==
  /\ RecTypes /\ QueueInv /\ AmbeInv
  /\ \A x \in Pipe : ItemInv(x)
  /\ \A c \in Calls : CallInv(c)

-----------------------------------------------------------------------------
(* The queue *)

LEMMA EmptyQueue == Elems(<<>>) = {} /\ InOrder(<<>>) /\ AudioOf(<<>>) = {}
  BY DEF Elems, InOrder, AudioOf

\* An item queued is the last.
LEMMA AppendQueue ==
  ASSUME NEW q \in Seq(Item), NEW x \in Item
  PROVE  /\ Append(q, x) \in Seq(Item)
         /\ Elems(Append(q, x)) = Elems(q) \cup {x}
         /\ InOrder(q) /\ (\A y \in Elems(q) : Follows(y, x)) => InOrder(Append(q, x))
<1>1. /\ Append(q, x) \in Seq(Item) /\ Len(q) \in Nat /\ Len(Append(q, x)) = Len(q) + 1
      /\ \A i \in 1..Len(q) : Append(q, x)[i] = q[i]
      /\ Append(q, x)[Len(q) + 1] = x
  BY AppendProperties
<1>2. Elems(Append(q, x)) = Elems(q) \cup {x}
  BY <1>1 DEF Elems
<1>3. ASSUME InOrder(q), \A y \in Elems(q) : Follows(y, x)
      PROVE  InOrder(Append(q, x))
  <2> SUFFICES ASSUME NEW i \in 1..Len(Append(q, x)), NEW j \in 1..Len(Append(q, x)), i < j
               PROVE  Follows(Append(q, x)[i], Append(q, x)[j])
    BY DEF InOrder
  <2>1. i \in 1..Len(q) /\ Append(q, x)[i] = q[i] /\ q[i] \in Elems(q)
    BY <1>1 DEF Elems
  <2>2. CASE j \in 1..Len(q)
    BY <1>1, <1>3, <2>1, <2>2 DEF InOrder
  <2>3. CASE j = Len(q) + 1
    BY <1>1, <1>3, <2>1, <2>3
  <2> QED BY <1>1, <2>2, <2>3
<1> QED BY <1>1, <1>2, <1>3

\* The item taken is before all that stay.
LEMMA TailQueue ==
  ASSUME NEW q \in Seq(Item), q # <<>>
  PROVE  /\ Tail(q) \in Seq(Item) /\ Head(q) \in Elems(q)
         /\ Elems(q) = Elems(Tail(q)) \cup {Head(q)}
         /\ InOrder(q) => InOrder(Tail(q)) /\ \A y \in Elems(Tail(q)) : Follows(Head(q), y)
<1>1. /\ Tail(q) \in Seq(Item) /\ Len(q) \in Nat \ {0} /\ Len(Tail(q)) = Len(q) - 1
      /\ Head(q) = q[1]
      /\ \A i \in 1..Len(Tail(q)) : Tail(q)[i] = q[i + 1]
  BY HeadTailProperties, EmptySeq
<1>2. Elems(q) = Elems(Tail(q)) \cup {Head(q)}
  <2>1. \A i \in 1..Len(q) : i = 1 \/ (i - 1 \in 1..Len(Tail(q)) /\ Tail(q)[i - 1] = q[i])
    BY <1>1
  <2>2. \A i \in 1..Len(Tail(q)) : i + 1 \in 1..Len(q)
    BY <1>1
  <2>3. Elems(q) \subseteq Elems(Tail(q)) \cup {Head(q)}
    BY <1>1, <2>1 DEF Elems
  <2>4. Elems(Tail(q)) \cup {Head(q)} \subseteq Elems(q)
    BY <1>1, <2>2 DEF Elems
  <2> QED BY <2>3, <2>4
<1>3. ASSUME InOrder(q) PROVE InOrder(Tail(q)) /\ \A y \in Elems(Tail(q)) : Follows(Head(q), y)
  BY <1>1, <1>3 DEF InOrder, Elems
<1> QED BY <1>1, <1>2, <1>3

\* A set of indices has a first one.
LEMMA MinIsIn ==
  ASSUME NEW S \in SUBSET Nat, S # {}
  PROVE  Min(S) \in S
<1>1. PICK p \in S : \A q \in S : ~(<<q, p>> \in OpToRel(<, Nat))
  BY NatLessThanWellFounded, WFMin
<1>2. ASSUME NEW q \in S PROVE p <= q
  <2>1. <<q, p>> \in Nat \X Nat /\ <<q, p>>[1] = q /\ <<q, p>>[2] = p
    OBVIOUS
  <2>2. q < p => <<q, p>> \in OpToRel(<, Nat)
    BY <2>1, Zenon DEF OpToRel
  <2>3. ~(q < p)
    BY <1>1, <2>2, Zenon
  <2> QED BY <2>3
<1> QED BY <1>2 DEF Min

\* The audio a full queue drops.
LEMMA DroppedIsAudio ==
  ASSUME NEW q \in Seq(Item), AudioOf(q) # {}
  PROVE  Dropped(q) \in 1..Len(q) /\ IsAudio(q[Dropped(q)])
<1> DEFINE I == {i \in 1..Len(q) : IsAudio(q[i])}
<1>1. I # {} /\ I \in SUBSET Nat
  BY DEF AudioOf, Elems
<1>2. Min(I) \in I
  BY <1>1, MinIsIn
<1>3. Dropped(q) = Min(I)
  BY <1>1 DEF Dropped, SelectInSeq
<1> QED BY <1>2, <1>3

\* The queue without one of its items.
LEMMA RemoveQueue ==
  ASSUME NEW q \in Seq(Item), NEW k \in 1..Len(q)
  PROVE  /\ RemoveAt(q, k) \in Seq(Item)
         /\ Elems(q) = Elems(RemoveAt(q, k)) \cup {q[k]}
         /\ InOrder(q) => /\ InOrder(RemoveAt(q, k))
                          /\ \A y \in Elems(RemoveAt(q, k)) : Follows(y, q[k]) \/ Follows(q[k], y)
<1> DEFINE r == RemoveAt(q, k)
<1>1. Len(q) \in Nat /\ k \in Nat
  BY LenProperties
<1>2. /\ SubSeq(q, 1, k - 1) \in Seq(Item) /\ Len(SubSeq(q, 1, k - 1)) = k - 1
      /\ \A i \in 1..(k - 1) : SubSeq(q, 1, k - 1)[i] = q[i]
  <2>1. \A i \in 1..(k - 1) : q[i] \in Item
    BY <1>1, ElementOfSeq
  <2> QED BY <1>1, <2>1, SubSeqProperties
<1>3. /\ SubSeq(q, k + 1, Len(q)) \in Seq(Item) /\ Len(SubSeq(q, k + 1, Len(q))) = Len(q) - k
      /\ \A i \in 1..(Len(q) - k) : SubSeq(q, k + 1, Len(q))[i] = q[i + k]
  <2>1. \A i \in (k + 1)..Len(q) : q[i] \in Item
    BY <1>1, ElementOfSeq
  <2>2. /\ SubSeq(q, k + 1, Len(q)) \in Seq(Item)
        /\ Len(SubSeq(q, k + 1, Len(q))) = IF k + 1 <= Len(q) THEN Len(q) - (k + 1) + 1 ELSE 0
        /\ \A i \in 1..(Len(q) - (k + 1) + 1) : SubSeq(q, k + 1, Len(q))[i] = q[(k + 1) + i - 1]
    BY <1>1, <2>1, SubSeqProperties
  <2> QED BY <1>1, <2>2
<1>4. /\ r \in Seq(Item) /\ Len(r) = Len(q) - 1
      /\ \A i \in 1..(Len(q) - 1) : r[i] = IF i < k THEN q[i] ELSE q[i + 1]
  <2>1. r = SubSeq(q, 1, k - 1) \o SubSeq(q, k + 1, Len(q))
    BY DEF RemoveAt
  <2>2. /\ r \in Seq(Item) /\ Len(r) = (k - 1) + (Len(q) - k)
        /\ \A i \in 1..((k - 1) + (Len(q) - k)) :
             r[i] = IF i <= k - 1 THEN SubSeq(q, 1, k - 1)[i]
                    ELSE SubSeq(q, k + 1, Len(q))[i - (k - 1)]
    <3> DEFINE a == SubSeq(q, 1, k - 1)
               b == SubSeq(q, k + 1, Len(q))
    <3> HIDE DEF a, b
    <3>1. a \in Seq(Item) /\ b \in Seq(Item) /\ Len(a) = k - 1 /\ Len(b) = Len(q) - k
      BY <1>2, <1>3 DEF a, b
    <3>2. /\ a \o b \in Seq(Item)
          /\ Len(a \o b) = Len(a) + Len(b)
          /\ \A i \in 1..(Len(a) + Len(b)) :
               (a \o b)[i] = IF i <= Len(a) THEN a[i] ELSE b[i - Len(a)]
      BY <3>1, ConcatProperties
    <3> QED BY <2>1, <3>1, <3>2 DEF a, b
  <2>3. (k - 1) + (Len(q) - k) = Len(q) - 1
    BY <1>1
  <2>4. ASSUME NEW i \in 1..(Len(q) - 1) PROVE r[i] = IF i < k THEN q[i] ELSE q[i + 1]
    <3> HIDE DEF r
    <3>0. i \in Int /\ i >= 1 /\ i \in 1..((k - 1) + (Len(q) - k))
      BY <1>1
    <3>1. CASE i < k
      <4>1. i \in 1..(k - 1) /\ i <= k - 1
        BY <1>1, <3>0, <3>1
      <4>2. r[i] = SubSeq(q, 1, k - 1)[i]
        BY <2>2, <3>0, <4>1
      <4> QED BY <1>2, <3>1, <4>1, <4>2
    <3>2. CASE ~(i < k)
      <4>1. i - (k - 1) \in 1..(Len(q) - k) /\ (i - (k - 1)) + k = i + 1
        BY <1>1, <3>0, <3>2
      <4>2. SubSeq(q, k + 1, Len(q))[i - (k - 1)] = q[i + 1]
        BY <1>3, <4>1
      <4>3. ~(i <= k - 1)
        BY <1>1, <3>0, <3>2
      <4>4. r[i] = SubSeq(q, k + 1, Len(q))[i - (k - 1)]
        BY <2>2, <3>0, <4>3
      <4> QED BY <3>2, <4>2, <4>4
    <3> QED BY <3>1, <3>2
  <2> QED BY <2>2, <2>3, <2>4
<1>5. Elems(q) \subseteq Elems(r) \cup {q[k]}
  <2> SUFFICES ASSUME NEW i \in 1..Len(q), i # k PROVE q[i] \in Elems(r)
    BY DEF Elems
  <2>1. CASE i < k
    <3>1. i \in 1..Len(r) /\ r[i] = q[i]
      BY <1>1, <1>4, <2>1
    <3> QED BY <3>1 DEF Elems
  <2>2. CASE i > k
    <3>1. i - 1 \in 1..Len(r) /\ r[i - 1] = q[i]
      BY <1>1, <1>4, <2>2
    <3> QED BY <3>1 DEF Elems
  <2> QED BY <1>1, <2>1, <2>2
<1>6. ASSUME NEW i \in 1..Len(r)
      PROVE  \E m \in 1..Len(q) : r[i] = q[m] /\ m # k /\ m = (IF i < k THEN i ELSE i + 1)
  BY <1>1, <1>4
<1>7. Elems(r) \cup {q[k]} \subseteq Elems(q)
  BY <1>6 DEF Elems
<1>8. ASSUME InOrder(q) PROVE InOrder(r)
  <2> SUFFICES ASSUME NEW i \in 1..Len(r), NEW j \in 1..Len(r), i < j
               PROVE  Follows(r[i], r[j])
    BY DEF InOrder
  <2>1. PICK m \in 1..Len(q) : r[i] = q[m] /\ m = (IF i < k THEN i ELSE i + 1)
    BY <1>6
  <2>2. PICK l \in 1..Len(q) : r[j] = q[l] /\ l = (IF j < k THEN j ELSE j + 1)
    BY <1>6
  <2>3. m < l
    BY <1>1, <1>4, <2>1, <2>2
  <2> QED BY <1>8, <2>1, <2>2, <2>3 DEF InOrder
<1>9. ASSUME InOrder(q), NEW y \in Elems(r) PROVE Follows(y, q[k]) \/ Follows(q[k], y)
  <2>1. PICK i \in 1..Len(r) : y = r[i]
    BY DEF Elems
  <2>2. PICK m \in 1..Len(q) : y = q[m] /\ m # k
    BY <1>6, <2>1
  <2> QED BY <1>1, <1>9, <2>2 DEF InOrder
<1> QED BY <1>4, <1>5, <1>7, <1>8, <1>9

-----------------------------------------------------------------------------
(* Items *)

LEMMA CallsAre == MaxCalls \in Nat /\ Calls = 1..MaxCalls /\ NoCall = 0 /\ NoCall \notin Calls
  BY CallsAssumption DEF Calls, NoCall

LEMMA ItemsAre ==
  ASSUME NEW x, IsItem(x)
  PROVE  /\ x \in Item /\ x.type \in {"start", "audio", "finish", "shutdown"}
         /\ x.call \in Calls \cup {NoCall} /\ x.n \in 0..MaxAudio
         /\ x.type # "shutdown" => x.call \in Calls
  BY DEF IsItem, Item

LEMMA NothingIs ==
  /\ Nothing.type = "nothing" /\ Nothing.call = NoCall /\ Nothing.n = 0
  /\ ~IsAudio(Nothing)
  BY DEF Nothing, IsAudio

LEMMA ControlIs ==
  ASSUME NEW type \in {"start", "finish", "shutdown"}, NEW c \in Calls \cup {NoCall},
         type # "shutdown" => c \in Calls
  PROVE  /\ IsItem(Control(type, c)) /\ ~IsAudio(Control(type, c))
         /\ Control(type, c).type = type /\ Control(type, c).call = c
<1>1. Control(type, c) = [type |-> type, call |-> c, n |-> 0]
  BY DEF Control
<1>2. 0 \in 0..MaxAudio
  BY FramesAssumption
<1> QED BY <1>1, <1>2 DEF IsItem, Item, IsAudio

\* What waits, with its types.
LEMMA PipeIs ==
  ASSUME RecInv
  PROVE  /\ \A x \in Elems(queue) : IsItem(x) /\ x \in Pipe
         /\ hand \in Pipe
         /\ \A x \in Pipe : /\ IsItem(x) \/ x = Nothing
                            /\ x.call \in 0..MaxCalls /\ x.n \in Nat
                            /\ ItemInv(x)
                            /\ IsAudio(x) \/ x.type \in {"start", "finish"} => x.call \in Calls
<1>1. \A x \in Elems(queue) : IsItem(x)
  BY DEF RecInv, RecTypes
<1>2. hand = Nothing \/ IsItem(hand)
  BY DEF RecInv, RecTypes
<1>3. ASSUME NEW x \in Pipe
      PROVE  /\ IsItem(x) \/ x = Nothing
             /\ x.call \in 0..MaxCalls /\ x.n \in Nat
             /\ IsAudio(x) \/ x.type \in {"start", "finish"} => x.call \in Calls
  <2>1. CASE IsItem(x)
    BY <2>1, ItemsAre, CallsAre DEF IsAudio
  <2>2. CASE x = Nothing
    BY <2>2, NothingIs, CallsAre
  <2> QED BY <1>1, <1>2, <2>1, <2>2 DEF Pipe
<1> QED BY <1>1, <1>3 DEF Pipe, RecInv

LEMMA ActiveIsCall ==
  ASSUME RecInv
  PROVE  /\ active \in 0..MaxCalls /\ active <= last /\ last \in 0..MaxCalls
         /\ active # NoCall => active \in Calls /\ result[active] = "recording"
         /\ \A c \in Calls : result[c] = "recording" <=> active = c
<1>1. active \in Calls \cup {NoCall} /\ last \in 0..MaxCalls
  BY DEF RecInv, RecTypes
<1>2. \A c \in Calls : result[c] = "recording" <=> active = c
  BY DEF RecInv, CallInv
<1>3. \A c \in Calls : last < c => result[c] = "none"
  BY DEF RecInv, CallInv
<1> QED BY <1>1, <1>2, <1>3, CallsAre

\* No audio comes twice.
LEMMA AudioIsOnce ==
  ASSUME RecInv, NEW x \in Pipe, NEW y \in Pipe, Follows(x, y),
         IsAudio(x), IsAudio(y)
  PROVE  ~(x.call = y.call /\ x.n = y.n)
  BY PipeIs DEF Follows

-----------------------------------------------------------------------------
(* What a step leaves untouched *)

\* A step of a producer leaves the files alone.
LEMMA FilesKept ==
  ASSUME RecInv, UNCHANGED working
  PROVE  AmbeInv'
  BY DEF RecInv, AmbeInv, FileHolds, working

\* A control item queued.
LEMMA ControlQueued ==
  ASSUME RecInv, NEW x, IsItem(x), ~IsAudio(x),
         queue' = Append(queue, x), UNCHANGED <<hand, frames>>,
         \A y \in Pipe : Follows(y, x)
  PROVE  /\ QueueInv' /\ queue' \in Seq(Item) /\ (\A y \in Elems(queue') : IsItem(y))
         /\ Pipe' = Pipe \cup {x}
         /\ \A c, n : Waits(c, n)' <=> Waits(c, n)
<1>1. queue \in Seq(Item) /\ QueueInv /\ \A y \in Elems(queue) : IsItem(y)
  BY DEF RecInv, RecTypes
<1>2. /\ queue' \in Seq(Item) /\ Elems(queue') = Elems(queue) \cup {x}
      /\ InOrder(queue')
  BY <1>1, AppendQueue, ItemsAre DEF QueueInv, Pipe
<1>3. Pipe' = Pipe \cup {x}
  BY <1>2 DEF Pipe
<1>4. AudioOf(queue') = AudioOf(queue)
  BY <1>2 DEF AudioOf
<1>5. \A y \in Elems(queue') : Follows(hand', y)
  BY <1>1, <1>2 DEF QueueInv, Pipe
<1>6. QueueInv'
  BY <1>1, <1>2, <1>4, <1>5 DEF QueueInv
<1>7. \A c, n : Waits(c, n)' <=> Waits(c, n)
  BY <1>3 DEF Waits
<1> QED BY <1>1, <1>2, <1>3, <1>6, <1>7

-----------------------------------------------------------------------------
(* The producers *)

LEMMA InitRec == Init => RecInv
<1> SUFFICES ASSUME Init PROVE RecInv
  OBVIOUS
<1>1. /\ queue = <<>> /\ frames = 0 /\ stopping = FALSE /\ producer = NoCall
      /\ hand = Nothing /\ active = NoCall /\ ambe = NoAmbe /\ last = 0 /\ up = {}
      /\ heard = [c \in Calls |-> 0] /\ kept = [c \in Calls |-> {}]
      /\ saved = [c \in Calls |-> {}] /\ result = [c \in Calls |-> "none"] /\ uploads = {}
  BY DEF Init
<1>2. Pipe = {Nothing}
  BY <1>1, EmptyQueue DEF Pipe
<1>3. NoAmbe \in Ambe /\ NoAmbe.state = "off" /\ NoAmbe.payload <= NoAmbe.header
  BY DEF NoAmbe, Ambe
<1>4. RecTypes
  <2>1. queue \in Seq(Item) /\ (\A x \in Elems(queue) : IsItem(x)) /\ hand = Nothing
    BY <1>1, EmptyQueue, EmptySeq
  <2>2. /\ stopping \in BOOLEAN /\ active \in Calls \cup {NoCall} /\ ambe \in Ambe
        /\ last \in 0..MaxCalls /\ up \subseteq 1..last
        /\ producer \in {NoCall, last} /\ producer = NoCall
    <3>1. 0 \in 0..MaxCalls /\ {} \subseteq 1..0 /\ NoAmbe \in Ambe
      BY <1>3, CallsAre
    <3> QED BY <1>1, <3>1, CallsAre
  <2>3. /\ heard \in [Calls -> Nat] /\ kept \in [Calls -> SUBSET (1..MaxAudio)]
        /\ saved \in [Calls -> SUBSET (1..MaxAudio)]
    BY <1>1
  <2>4. result \in [Calls -> {"none", "recording"} \cup Final]
    BY <1>1
  <2> QED BY <2>1, <2>2, <2>3, <2>4 DEF RecTypes
<1>5. QueueInv
  BY <1>1, EmptyQueue, FS_EmptySet DEF QueueInv
<1>6. AmbeInv
  BY <1>1, <1>3 DEF AmbeInv
<1>7. ItemInv(Nothing)
  BY <1>1, NothingIs, CallsAre DEF ItemInv
<1>8. ASSUME NEW c \in Calls PROVE CallInv(c)
  <2>1. c \in Nat /\ c > 0
    BY CallsAre
  <2>2. \A n : ~Waits(c, n)
    BY <1>2, NothingIs DEF Waits
  <2> QED BY <1>1, <2>1, <2>2, CallsAre DEF CallInv
<1> QED BY <1>2, <1>4, <1>5, <1>6, <1>7, <1>8 DEF RecInv

LEMMA StartCallStep ==
  ASSUME RecInv, NEW c \in Calls, StartCall(c)
  PROVE  RecInv'
<1> DEFINE x == Control("start", c)
<1>1. /\ ~stopping /\ c = last + 1 /\ producer' = c /\ last' = c /\ up' = up \cup {c}
      /\ queue' = Append(queue, x)
      /\ UNCHANGED <<frames, stopping, hand, heard, kept, working>>
  BY DEF StartCall
<1>2. IsItem(x) /\ ~IsAudio(x) /\ x.type = "start" /\ x.call = c
  BY ControlIs
<1> HIDE DEF x
<1>3. \A y \in Pipe : y.call < c /\ Follows(y, x)
  BY <1>1, <1>2, PipeIs, CallsAre, SMTT(30) DEF ItemInv, Follows, RecInv, RecTypes
<1>4. /\ QueueInv' /\ queue' \in Seq(Item) /\ (\A y \in Elems(queue') : IsItem(y))
      /\ Pipe' = Pipe \cup {x} /\ \A d, n : Waits(d, n)' <=> Waits(d, n)
  BY <1>1, <1>2, <1>3, ControlQueued
<1>5. UNCHANGED <<active, ambe, saved, result, uploads>> /\ result[c] = "none"
  BY <1>1, CallsAre DEF working, RecInv, CallInv, RecTypes
<1>6. RecTypes'
  BY <1>1, <1>4, <1>5, CallsAre DEF RecInv, RecTypes
<1>7. ASSUME NEW y \in Pipe PROVE ItemInv(y)'
  BY <1>1, <1>3, <1>5, PipeIs, CallsAre DEF ItemInv, RecInv, RecTypes
<1>8. ItemInv(x)'
  BY <1>1, <1>2, <1>5, ActiveIsCall, CallsAre DEF ItemInv
<1>9. ASSUME NEW d \in Calls PROVE CallInv(d)'
  BY <1>1, <1>2, <1>4, <1>5, CallsAre DEF CallInv, RecInv, RecTypes
<1> QED BY <1>1, <1>4, <1>6, <1>7, <1>8, <1>9, FilesKept DEF RecInv

LEMMA FinishCallStep ==
  ASSUME RecInv, NEW c \in Calls, FinishCall(c)
  PROVE  RecInv'
<1> DEFINE x == Control("finish", c)
<1>1. /\ ~stopping /\ c \in up /\ up' = up \ {c}
      /\ producer' = IF producer = c THEN NoCall ELSE producer
      /\ queue' = Append(queue, x)
      /\ UNCHANGED <<frames, stopping, hand, last, heard, kept, working>>
  BY DEF FinishCall
<1>2. IsItem(x) /\ ~IsAudio(x) /\ x.type = "finish" /\ x.call = c
  BY ControlIs
<1> HIDE DEF x
<1>3. \A y \in Pipe : Follows(y, x)
  BY <1>1, <1>2, PipeIs DEF ItemInv, Follows, IsAudio
<1>4. /\ QueueInv' /\ queue' \in Seq(Item) /\ (\A y \in Elems(queue') : IsItem(y))
      /\ Pipe' = Pipe \cup {x} /\ \A d, n : Waits(d, n)' <=> Waits(d, n)
  BY <1>1, <1>2, <1>3, ControlQueued
<1>5. UNCHANGED <<active, ambe, saved, result, uploads>>
  BY <1>1 DEF working
<1>6. RecTypes'
  BY <1>1, <1>4, <1>5, CallsAre DEF RecInv, RecTypes
<1>7. ASSUME NEW y \in Pipe PROVE ItemInv(y)'
  BY <1>1, <1>5, PipeIs DEF ItemInv
<1>8. ItemInv(x)'
  BY <1>1, <1>2, CallsAre DEF ItemInv, RecInv, RecTypes
<1>9. ASSUME NEW d \in Calls PROVE CallInv(d)'
  BY <1>1, <1>4, <1>5, CallsAre DEF CallInv, RecInv
<1> QED BY <1>1, <1>4, <1>6, <1>7, <1>8, <1>9, FilesKept DEF RecInv

LEMMA StopStep ==
  ASSUME RecInv, Stop
  PROVE  RecInv'
<1> DEFINE x == Control("shutdown", NoCall)
<1>1. /\ ~stopping /\ stopping' = TRUE /\ producer' = NoCall
      /\ queue' = Append(queue, x)
      /\ UNCHANGED <<frames, hand, kept, last, up, heard, working>>
  BY DEF Stop, producing
<1>2. IsItem(x) /\ ~IsAudio(x) /\ x.type = "shutdown" /\ x.call = NoCall
  BY ControlIs
<1> HIDE DEF x
<1>3. \A y \in Pipe : Follows(y, x)
  BY <1>1, <1>2, PipeIs DEF ItemInv, Follows, IsAudio
<1>4. /\ QueueInv' /\ queue' \in Seq(Item) /\ (\A y \in Elems(queue') : IsItem(y))
      /\ Pipe' = Pipe \cup {x} /\ \A d, n : Waits(d, n)' <=> Waits(d, n)
  BY <1>1, <1>2, <1>3, ControlQueued
<1>5. UNCHANGED <<active, ambe, saved, result, uploads>>
  BY <1>1 DEF working
<1>6. RecTypes'
  BY <1>1, <1>4, <1>5, CallsAre DEF RecInv, RecTypes
<1>7. ASSUME NEW y \in Pipe PROVE ItemInv(y)'
  BY <1>1, <1>5, PipeIs DEF ItemInv
<1>8. ItemInv(x)'
  BY <1>1, <1>2, CallsAre DEF ItemInv, RecInv, RecTypes, IsAudio
<1>9. ASSUME NEW d \in Calls PROVE CallInv(d)'
  BY <1>1, <1>4, <1>5, CallsAre DEF CallInv, RecInv
<1> QED BY <1>1, <1>4, <1>6, <1>7, <1>8, <1>9, FilesKept DEF RecInv

\* What the audio a call submits comes after.
LEMMA AudioIsLast ==
  ASSUME RecInv, ~stopping, NEW c \in Calls, c = last, c \in up,
         NEW x, IsAudio(x), x.call = c, x.n = heard[c] + 1
  PROVE  \A y \in Pipe : Follows(y, x) /\ (IsAudio(y) => y # x)
<1> SUFFICES ASSUME NEW y \in Pipe PROVE Follows(y, x) /\ (IsAudio(y) => y # x)
  OBVIOUS
<1>1. heard[c] \in Nat
  BY DEF RecInv, RecTypes
<1>2. ItemInv(y) /\ y.n \in Nat
  BY PipeIs
<1>3. IsAudio(y) /\ y.call = c => y.n < x.n
  BY <1>1, <1>2 DEF ItemInv
<1> QED BY <1>1, <1>2, <1>3 DEF ItemInv, Follows, IsAudio

\* Submitted audio that fits the queue, or takes the place of other audio, in the
\* pipe of what else waits.
LEMMA SubmitKeeps ==
  ASSUME RecInv, Submit, NEW x \in Item,
         x = [type |-> "audio", call |-> producer, n |-> heard[producer] + 1],
         RecTypes', QueueInv',
         NEW rest, rest \subseteq Pipe, Pipe' = rest \cup {x}, hand \in rest,
         \A y \in Pipe : y.type = "start" => y \in rest,
         \A d \in Calls, n \in 1..MaxAudio : result[d] # "failed" =>
           (n \in kept'[d] <=> n \in saved[d] \/ (\E y \in rest : IsAudio(y) /\ y.call = d /\ y.n = n)
                                  \/ (d = x.call /\ n = x.n))
  PROVE  RecInv'
<1> DEFINE c == producer
<1>1. /\ ~stopping /\ c # NoCall /\ heard' = [heard EXCEPT ![c] = @ + 1]
      /\ UNCHANGED <<stopping, producer, hand, last, up, working>>
  BY DEF Submit
<1>2. c \in Calls /\ c = last /\ c \in up /\ heard[c] \in Nat
  BY <1>1, CallsAre DEF RecInv, RecTypes
<1>3. IsAudio(x) /\ x.call = c /\ x.n = heard[c] + 1
  BY DEF IsAudio
<1>4. UNCHANGED <<active, ambe, saved, result, uploads>>
  BY <1>1 DEF working
<1>5. \A d \in Calls : heard'[d] \in Nat /\ heard[d] <= heard'[d]
  BY <1>1, <1>2 DEF RecInv, RecTypes
<1>6. ASSUME NEW y \in rest PROVE ItemInv(y)'
  <2>1. ItemInv(y) /\ (IsAudio(y) => y.call \in Calls /\ y.n \in Nat)
    BY PipeIs
  <2>2. IsAudio(y) => y.n \in 1..heard'[y.call]
    BY <1>5, <2>1 DEF ItemInv, RecInv, RecTypes
  <2> QED BY <1>1, <1>4, <2>1, <2>2 DEF ItemInv
<1>7. CallInv(c)
  BY <1>2 DEF RecInv
<1>8. ItemInv(x)'
  <2>1. x.n \in 1..heard'[c]
    BY <1>1, <1>2, <1>3 DEF RecInv, RecTypes
  <2>2. \A m \in saved[c] : m < x.n
    BY <1>2, <1>3, <1>7 DEF CallInv, RecInv, RecTypes
  <2>3. result[c] # "completed" /\ x.call <= last
    BY <1>2, <1>3, <1>7 DEF CallInv, RecInv, RecTypes
  <2> QED BY <1>1, <1>3, <1>4, <2>1, <2>2, <2>3 DEF ItemInv, IsAudio
<1>9. ASSUME NEW d \in Calls PROVE CallInv(d)'
  <2>1. CallInv(d)
    BY DEF RecInv
  <2>2. \A n : Waits(d, n)' <=> (\E y \in rest : IsAudio(y) /\ y.call = d /\ y.n = n)
                                  \/ (d = x.call /\ n = x.n)
    BY <1>3 DEF Waits
  <2>3. \A m \in saved[d] : m <= heard'[d]
    BY <1>5, <2>1 DEF CallInv, RecInv, RecTypes
  <2>4. (\E y \in Pipe : y.type = "start" /\ y.call = d)
           => \E y \in Pipe' : y.type = "start" /\ y.call = d
    OBVIOUS
  <2> QED BY <1>1, <1>4, <2>1, <2>2, <2>3, <2>4 DEF CallInv
<1> QED BY <1>1, <1>6, <1>8, <1>9, FilesKept DEF RecInv

LEMMA SubmitStep ==
  ASSUME RecInv, Submit
  PROVE  RecInv'
<1> DEFINE c == producer
           x == [type |-> "audio", call |-> c, n |-> heard[c] + 1]
           k == Dropped(queue)
<1>1. /\ ~stopping /\ c # NoCall /\ heard[c] < MaxAudio
      /\ heard' = [heard EXCEPT ![c] = @ + 1]
      /\ UNCHANGED <<stopping, producer, hand, last, up, working>>
  BY DEF Submit
<1>2. c \in Calls /\ c = last /\ c \in up /\ heard[c] \in Nat
  BY <1>1, CallsAre DEF RecInv, RecTypes
<1>3. x.type = "audio" /\ x.call = c /\ x.n = heard[c] + 1 /\ IsAudio(x)
  BY DEF IsAudio
<1>4. x \in Item /\ IsItem(x) /\ x.n \in 1..MaxAudio
  BY <1>1, <1>2, FramesAssumption DEF Item, IsItem
<1> HIDE DEF x
<1>5. \A y \in Pipe : Follows(y, x) /\ (IsAudio(y) => y # x)
  BY <1>1, <1>2, <1>3, AudioIsLast
<1>6. UNCHANGED <<active, ambe, saved, result, uploads>>
  BY <1>1 DEF working
<1>7. queue \in Seq(Item) /\ QueueInv /\ frames \in Nat /\ MaxFrames \in Nat \ {0}
  BY FramesAssumption, FS_CardinalityType DEF RecInv, RecTypes, QueueInv
<1>8. CASE frames < MaxFrames
  <2>1. /\ queue' = Append(queue, x) /\ frames' = frames + 1
        /\ kept' = [kept EXCEPT ![c] = @ \cup {x.n}]
    BY <1>7, <1>8 DEF Submit, x
  <2>2. queue' \in Seq(Item) /\ Elems(queue') = Elems(queue) \cup {x} /\ InOrder(queue')
    BY <1>4, <1>5, <1>7, <2>1, AppendQueue DEF QueueInv, Pipe
  <2>3. AudioOf(queue') = AudioOf(queue) \cup {x} /\ x \notin AudioOf(queue)
    BY <1>3, <1>5, <2>2 DEF AudioOf, Pipe
  <2>4. IsFiniteSet(AudioOf(queue')) /\ frames' = Cardinality(AudioOf(queue'))
    BY <1>7, <2>1, <2>3, FS_AddElement DEF QueueInv
  <2>5. QueueInv'
    BY <1>1, <1>5, <1>7, <2>2, <2>4 DEF QueueInv, Pipe
  <2>6. RecTypes'
    BY <1>1, <1>2, <1>4, <1>6, <2>1, <2>2, SMTT(30) DEF RecInv, RecTypes
  <2>7. Pipe' = Pipe \cup {x}
    BY <1>1, <2>2 DEF Pipe
  <2>8. ASSUME NEW d \in Calls, NEW n \in 1..MaxAudio, result[d] # "failed"
        PROVE  n \in kept'[d] <=> n \in saved[d] \/ (\E y \in Pipe : IsAudio(y) /\ y.call = d /\ y.n = n)
                                    \/ (d = x.call /\ n = x.n)
    <3>1. n \in kept[d] <=> n \in saved[d] \/ Waits(d, n)
      BY <2>8 DEF RecInv, CallInv
    <3>2. n \in kept'[d] <=> n \in kept[d] \/ (d = x.call /\ n = x.n)
      BY <1>2, <1>3, <2>1 DEF RecInv, RecTypes
    <3> QED BY <3>1, <3>2 DEF Waits
  <2> QED BY <1>4, <2>5, <2>6, <2>7, <2>8, SubmitKeeps, PipeIs DEF x
<1>9. CASE frames >= MaxFrames
  <2> DEFINE old == queue[k]
             r == RemoveAt(queue, k)
  <2>1. /\ queue' = Append(r, x) /\ frames' = frames
        /\ kept' = [d \in Calls |-> (kept[d] \ {n \in {old.n} : d = old.call})
                                       \cup {n \in {x.n} : d = x.call}]
    BY <1>7, <1>9 DEF Submit, x
  <2>2. AudioOf(queue) # {}
    BY <1>7, <1>9, FramesAssumption, FS_EmptySet DEF QueueInv
  <2>3. k \in 1..Len(queue) /\ IsAudio(old)
    BY <1>7, <2>2, DroppedIsAudio
  <2>4. /\ r \in Seq(Item) /\ Elems(queue) = Elems(r) \cup {old} /\ InOrder(r)
        /\ \A y \in Elems(r) : Follows(y, old) \/ Follows(old, y)
    BY <1>7, <2>3, RemoveQueue DEF QueueInv
  <2> HIDE DEF r, old
  <2> DEFINE rest == Elems(r) \cup {hand}
  <2>5. old \in Pipe /\ rest \subseteq Pipe /\ Pipe = rest \cup {old}
    BY <2>4 DEF Pipe
  <2>6. \A y \in rest : IsAudio(y) => ~(y.call = old.call /\ y.n = old.n)
    <3>1. Follows(hand, old)
      BY <1>7, <2>4 DEF QueueInv
    <3> QED BY <2>3, <2>4, <2>5, <3>1, AudioIsOnce
  <2>7. queue' \in Seq(Item) /\ Elems(queue') = Elems(r) \cup {x} /\ InOrder(queue')
    BY <1>4, <1>5, <2>1, <2>4, <2>5, AppendQueue
  <2>8. /\ AudioOf(queue') = (AudioOf(queue) \ {old}) \cup {x}
        /\ old \in AudioOf(queue) /\ x \notin AudioOf(queue) \ {old}
    BY <1>3, <1>5, <2>3, <2>4, <2>5, <2>6, <2>7 DEF AudioOf, Pipe
  <2>9. IsFiniteSet(AudioOf(queue')) /\ frames' = Cardinality(AudioOf(queue'))
    <3> DEFINE A == AudioOf(queue)
    <3>1. IsFiniteSet(A) /\ frames = Cardinality(A)
      BY <1>7 DEF QueueInv
    <3>2. IsFiniteSet(A \ {old}) /\ Cardinality(A \ {old}) = Cardinality(A) - 1
      BY <2>8, <3>1, FS_RemoveElement
    <3>3. /\ IsFiniteSet((A \ {old}) \cup {x})
          /\ Cardinality((A \ {old}) \cup {x}) = Cardinality(A \ {old}) + 1
      BY <2>8, <3>2, FS_AddElement
    <3>4. Cardinality(A) \in Nat
      BY <3>1, FS_CardinalityType
    <3> QED BY <2>1, <2>8, <3>1, <3>2, <3>3, <3>4
  <2>10. QueueInv'
    <3>1. \A y \in Elems(queue') : Follows(hand', y)
      BY <1>1, <1>5, <1>7, <2>4, <2>7 DEF QueueInv, Pipe
    <3> QED BY <2>7, <2>9, <3>1 DEF QueueInv
  <2>11. RecTypes'
    <3>1. kept' \in [Calls -> SUBSET (1..MaxAudio)]
      BY <1>4, <2>1 DEF RecInv, RecTypes
    <3>2. \A y \in Elems(queue') : IsItem(y)
      BY <1>4, <2>4, <2>7, PipeIs
    <3>3. heard' \in [Calls -> Nat]
      BY <1>1, <1>2 DEF RecInv, RecTypes
    <3> QED BY <1>1, <1>6, <2>7, <3>1, <3>2, <3>3 DEF RecInv, RecTypes
  <2>12. Pipe' = rest \cup {x}
    BY <1>1, <2>7 DEF Pipe
  <2>13. \A y \in Pipe : y.type = "start" => y \in rest
    BY <2>3, <2>5 DEF IsAudio
  <2>14. ASSUME NEW d \in Calls, NEW n \in 1..MaxAudio, result[d] # "failed"
         PROVE  n \in kept'[d] <=> n \in saved[d] \/ (\E y \in rest : IsAudio(y) /\ y.call = d /\ y.n = n)
                                     \/ (d = x.call /\ n = x.n)
    <3>1. n \in kept[d] <=> n \in saved[d] \/ Waits(d, n)
      BY <2>14 DEF RecInv, CallInv
    <3>2. n \in kept'[d] <=> (n \in kept[d] /\ ~(d = old.call /\ n = old.n)) \/ (d = x.call /\ n = x.n)
      BY <2>1
    <3>3. Waits(d, n) /\ ~(d = old.call /\ n = old.n)
            <=> \E y \in rest : IsAudio(y) /\ y.call = d /\ y.n = n
      BY <2>5, <2>6 DEF Waits
    <3>4. ItemInv(old) /\ old.n \in Nat
      BY <2>5, PipeIs
    <3>5. n \in saved[d] => ~(d = old.call /\ n = old.n)
      BY <2>3, <3>4 DEF ItemInv
    <3> QED BY <3>1, <3>2, <3>3, <3>5
  <2>15. x = [type |-> "audio", call |-> producer, n |-> heard[producer] + 1] /\ hand \in rest
    BY DEF x
  <2> HIDE DEF rest
  <2> QED BY <1>4, <2>5, <2>10, <2>11, <2>12, <2>13, <2>14, <2>15, SubmitKeeps
<1> QED BY <1>7, <1>8, <1>9

-----------------------------------------------------------------------------
(* The worker *)

LEMMA TakeStep ==
  ASSUME RecInv, Take
  PROVE  RecInv'
<1> DEFINE h == Head(queue)
<1>1. /\ hand = Nothing /\ queue # <<>> /\ hand' = h /\ queue' = Tail(queue)
      /\ frames' = (IF IsAudio(h) THEN frames - 1 ELSE frames)
      /\ UNCHANGED <<stopping, producer, kept, last, up, heard, working>>
  BY DEF Take, Ready, FramesAfterTake, producing
<1>2. queue \in Seq(Item) /\ QueueInv
  BY DEF RecInv, RecTypes
<1>3. /\ queue' \in Seq(Item) /\ h \in Elems(queue)
      /\ Elems(queue) = Elems(queue') \cup {h}
      /\ InOrder(queue') /\ \A y \in Elems(queue') : Follows(h, y)
  BY <1>1, <1>2, TailQueue DEF QueueInv
<1> HIDE DEF h
<1>4. Pipe' = Elems(queue) /\ Pipe = Pipe' \cup {Nothing}
  BY <1>1, <1>3 DEF Pipe
<1>5. UNCHANGED <<active, ambe, saved, result, uploads>>
  BY <1>1 DEF working
<1>6. IsFiniteSet(AudioOf(queue')) /\ frames' = Cardinality(AudioOf(queue'))
  <2>1. CASE IsAudio(h)
    <3>1. h \in Pipe /\ h.n \in Nat
      BY <1>3, PipeIs
    <3>2. h \notin Elems(queue')
      BY <1>3, <2>1, <3>1 DEF Follows
    <3>3. AudioOf(queue') = AudioOf(queue) \ {h} /\ h \in AudioOf(queue)
      BY <1>3, <2>1, <3>2 DEF AudioOf
    <3> QED BY <1>1, <1>2, <2>1, <3>3, FS_RemoveElement DEF QueueInv
  <2>2. CASE ~IsAudio(h)
    <3>1. AudioOf(queue') = AudioOf(queue)
      BY <1>3, <2>2 DEF AudioOf
    <3> QED BY <1>1, <1>2, <2>2, <3>1 DEF QueueInv
  <2> QED BY <2>1, <2>2
<1>7. QueueInv'
  BY <1>1, <1>3, <1>6 DEF QueueInv
<1>8. RecTypes'
  <2>1. IsItem(hand') /\ \A y \in Elems(queue') : IsItem(y)
    BY <1>1, <1>3, PipeIs
  <2> QED BY <1>1, <1>3, <1>5, <2>1 DEF RecInv, RecTypes
<1>9. ASSUME NEW y \in Pipe' PROVE ItemInv(y)'
  BY <1>1, <1>4, <1>5, PipeIs DEF ItemInv
<1>10. ASSUME NEW d \in Calls PROVE CallInv(d)'
  <2>1. \A n : Waits(d, n)' <=> Waits(d, n)
    BY <1>4, NothingIs DEF Waits
  <2>2. (\E y \in Pipe : y.type = "start" /\ y.call = d)
          => \E y \in Pipe' : y.type = "start" /\ y.call = d
    BY <1>4, NothingIs
  <2> QED BY <1>1, <1>5, <2>1, <2>2 DEF CallInv, RecInv
<1> QED BY <1>1, <1>7, <1>8, <1>9, <1>10, FilesKept DEF RecInv

\* An item carried out leaves the pipe, and all that was behind it in it.
LEMMA DoPipe ==
  ASSUME RecInv, Do
  PROVE  /\ UNCHANGED <<queue, frames, stopping, producer, kept, last, up, heard>>
         /\ hand' = Nothing /\ IsItem(hand) /\ hand \in Pipe /\ ItemInv(hand)
         /\ hand.call \in 0..MaxCalls /\ hand.n \in Nat
         /\ hand.type # "shutdown" => hand.call \in Calls
         /\ Pipe = Elems(queue) \cup {hand} /\ Pipe' = Elems(queue) \cup {Nothing}
         /\ \A y \in Elems(queue) :
              /\ Follows(hand, y) /\ IsItem(y) /\ ItemInv(y)
              /\ y.call \in 0..MaxCalls /\ y.n \in Nat
              /\ y.type # "shutdown" => y.call \in Calls
         /\ \A c, n : Waits(c, n) <=>
              Waits(c, n)' \/ (IsAudio(hand) /\ hand.call = c /\ hand.n = n)
         /\ \A c, n : Waits(c, n)' <=>
              \E y \in Elems(queue) : IsAudio(y) /\ y.call = c /\ y.n = n
         /\ QueueInv' /\ ItemInv(Nothing)'
<1>1. UNCHANGED <<queue, frames, stopping, producer, kept, last, up, heard>> /\ hand' = Nothing
  BY DEF Do, producing
<1>2. IsItem(hand)
  <2>1. hand.type \in {"start", "audio", "finish", "shutdown"}
    BY DEF Do, DoStart, DoAudio, DoFinish, DoShutdown, IsAudio
  <2> QED BY <2>1, NothingIs DEF RecInv, RecTypes
<1>3. Pipe = Elems(queue) \cup {hand} /\ Pipe' = Elems(queue) \cup {Nothing}
  BY <1>1 DEF Pipe
<1>4. ASSUME NEW y \in Pipe, IsItem(y)
      PROVE  /\ ItemInv(y) /\ y.call \in 0..MaxCalls /\ y.n \in Nat
             /\ y.type # "shutdown" => y.call \in Calls
  BY <1>4, PipeIs, ItemsAre
<1>5. \A y \in Elems(queue) : Follows(hand, y) /\ IsItem(y)
  BY PipeIs DEF RecInv, QueueInv
<1>6. \A c, n : Waits(c, n)' <=> \E y \in Elems(queue) : IsAudio(y) /\ y.call = c /\ y.n = n
  BY <1>3, NothingIs DEF Waits
<1>7. \A c, n : Waits(c, n) <=>
        Waits(c, n)' \/ (IsAudio(hand) /\ hand.call = c /\ hand.n = n)
  BY <1>3, <1>6 DEF Waits
<1>8. QueueInv'
  <2>1. ASSUME NEW y \in Elems(queue) PROVE Follows(Nothing, y)
    <3>1. y.type = "start" => y.call \in 1..MaxCalls
      BY <1>3, <1>4, <1>5, CallsAre
    <3> QED BY <3>1, NothingIs, CallsAre DEF Follows
  <2> QED BY <1>1, <2>1 DEF RecInv, QueueInv
<1>9. ItemInv(Nothing)'
  BY <1>1, NothingIs, CallsAre DEF ItemInv, RecInv, RecTypes
<1> QED BY <1>1, <1>2, <1>3, <1>4, <1>5, <1>6, <1>7, <1>8, <1>9

\* What closing a session leaves: its call ended, and an AMBE file only if there
\* was one, which holds what it held.
LEMMA ClosingsAre ==
  ASSUME RecInv, NEW done \in Closings
  PROVE  /\ done.result \in [Calls -> {"none", "recording"} \cup Final]
         /\ \A d \in Calls : IF d = active THEN done.result[d] \in Final
                                           ELSE done.result[d] = result[d]
         /\ done.ambe \in Ambe /\ done.ambe.of = ambe.of
         /\ done.ambe.payload = ambe.payload /\ done.ambe.header = ambe.header
         /\ done.ambe.state = "open" => ambe.state = "open"
         /\ ~Remote => done.ambe.state = "off"
         /\ \A u \in done.up : /\ FileHolds(u) /\ u.payload <= u.header
                               /\ done.result[u.of] \in Final
<1>1. /\ ambe \in Ambe /\ result \in [Calls -> {"none", "recording"} \cup Final]
      /\ ambe.state \in {"off", "open", "closed"} /\ AmbeInv
  BY DEF RecInv, RecTypes, Ambe
<1>2. CASE active = NoCall
  <2>1. done = [result |-> result, ambe |-> ambe, up |-> {}]
    BY <1>2 DEF Closings
  <2> QED BY <1>1, <1>2, <2>1, CallsAre DEF AmbeInv
<1>3. CASE active # NoCall
  <2>1. active \in Calls /\ result[active] = "recording"
    BY <1>3, ActiveIsCall
  <2>2. CASE done = [result |-> [result EXCEPT ![active] = "failed"], ambe |-> ambe, up |-> {}]
    BY <1>1, <2>1, <2>2 DEF AmbeInv, Final
  <2>3. ASSUME NEW f \in Finishings(active, ambe),
               done = [result |-> [result EXCEPT ![active] = "completed"],
                       ambe |-> f.ambe, up |-> f.up]
        PROVE  /\ done.result \in [Calls -> {"none", "recording"} \cup Final]
               /\ \A d \in Calls : IF d = active THEN done.result[d] \in Final
                                                 ELSE done.result[d] = result[d]
               /\ done.ambe \in Ambe /\ done.ambe.of = ambe.of
               /\ done.ambe.payload = ambe.payload /\ done.ambe.header = ambe.header
               /\ done.ambe.state = "open" => ambe.state = "open"
               /\ ~Remote => done.ambe.state = "off"
               /\ \A u \in done.up : /\ FileHolds(u) /\ u.payload <= u.header
                                     /\ done.result[u.of] \in Final
    <3>1. done.result = [result EXCEPT ![active] = "completed"] /\ done.ambe = f.ambe /\ done.up = f.up
      BY <2>3
    <3>2. /\ f.ambe \in Ambe /\ f.ambe.of = ambe.of
          /\ f.ambe.payload = ambe.payload /\ f.ambe.header = ambe.header
          /\ f.ambe.state = "open" => ambe.state = "open"
          /\ ambe.state = "off" => f.ambe.state = "off"
      BY <1>1 DEF Finishings, Ambe
    <3>3. \A d \in Calls : IF d = active THEN done.result[d] = "completed"
                                         ELSE done.result[d] = result[d]
      BY <1>1, <2>1, <3>1
    <3>4. ASSUME NEW u \in f.up
          PROVE  FileHolds(u) /\ u.payload <= u.header /\ done.result[u.of] \in Final
      <4>1. /\ ambe.state = "open" /\ u.of = ambe.of /\ u.header = ambe.header
            /\ u.payload = ambe.payload
        BY <1>1, <3>4 DEF Finishings
      <4>2. FileHolds(u) /\ u.payload <= u.header
        BY <1>1, <4>1 DEF AmbeInv, FileHolds
      <4>3. u.of \in Calls /\ result[u.of] # "none"
        BY <4>2 DEF FileHolds
      <4>4. u.of # active => result[u.of] \in Final
        BY <1>1, <4>3, ActiveIsCall
      <4> QED BY <3>3, <4>2, <4>3, <4>4 DEF Final
    <3>5. done.result \in [Calls -> {"none", "recording"} \cup Final]
      BY <1>1, <3>1 DEF Final
    <3> QED BY <1>1, <3>1, <3>2, <3>3, <3>4, <3>5 DEF AmbeInv, Final
  <2> QED BY <1>3, <2>2, <2>3 DEF Closings
<1> QED BY <1>2, <1>3

\* What remains to be shown of a step that carries an item out.
LEMMA DoKeeps ==
  ASSUME RecInv, Do,
         active' \in Calls \cup {NoCall}, ambe' \in Ambe,
         saved' \in [Calls -> SUBSET (1..MaxAudio)],
         result' \in [Calls -> {"none", "recording"} \cup Final],
         AmbeInv', \A y \in Elems(queue) : ItemInv(y)', \A d \in Calls : CallInv(d)'
  PROVE  RecInv'
<1>1. RecTypes'
  <2>1. UNCHANGED <<queue, stopping, producer, kept, last, up, heard>> /\ hand' = Nothing
    BY DoPipe
  <2> QED BY <2>1 DEF RecInv, RecTypes
<1> QED BY <1>1, DoPipe DEF RecInv

LEMMA DoStartStep ==
  ASSUME RecInv, Do, DoStart
  PROVE  RecInv'
<1> DEFINE c == hand.call
<1>1. /\ hand.type = "start" /\ ~IsAudio(hand) /\ c \in Calls /\ saved' = saved
      /\ \A d, n : Waits(d, n) <=> Waits(d, n)'
  BY DoPipe DEF DoStart, IsAudio
<1>2. PICK done \in Closings :
        /\ uploads' = uploads \cup done.up
        /\ \/ /\ result' = [done.result EXCEPT ![c] = "recording"] /\ active' = c
              /\ ambe' = IF IsDmr(c) /\ Remote
                         THEN [done.ambe EXCEPT !.state = "open", !.of = c, !.payload = 0]
                         ELSE done.ambe
           \/ /\ result' = [done.result EXCEPT ![c] = "failed"] /\ active' = NoCall
              /\ ambe' = Aborted(done.ambe)
  BY DEF DoStart
<1>3. /\ c \in 1..MaxCalls /\ c <= last /\ active < c /\ result[c] = "none"
      /\ active \in 0..MaxCalls /\ last \in 0..MaxCalls
  BY <1>1, DoPipe, ActiveIsCall, CallsAre DEF ItemInv
<1>4. saved[c] = {}
  BY <1>1, <1>3 DEF RecInv, CallInv
<1>5. /\ result' \in [Calls -> {"none", "recording"} \cup Final]
      /\ result'[c] = (IF active' = c THEN "recording" ELSE "failed")
      /\ active' \in {c, NoCall}
      /\ \A d \in Calls \ {c} : IF d = active THEN result'[d] \in Final
                                              ELSE result'[d] = result[d]
  <2>1. /\ done.result \in [Calls -> {"none", "recording"} \cup Final]
        /\ \A d \in Calls : IF d = active THEN done.result[d] \in Final
                                          ELSE done.result[d] = result[d]
    BY ClosingsAre
  <2> QED BY <1>1, <1>2, <2>1, CallsAre DEF Final
<1>6. ASSUME NEW y \in Elems(queue) PROVE ItemInv(y)'
  <2>1. ItemInv(y) /\ Follows(hand, y) /\ y.call \in 0..MaxCalls
    BY DoPipe
  <2>2. y.type = "start" => active' < y.call /\ result'[y.call] = "none"
    BY <1>1, <1>3, <1>5, <2>1, DoPipe, CallsAre DEF ItemInv, Follows
  <2>3. IsAudio(y) => result'[y.call] # "completed"
    <3> SUFFICES ASSUME IsAudio(y) PROVE result'[y.call] # "completed"
      OBVIOUS
    <3>1. c <= y.call /\ y.call \in Calls /\ result[y.call] # "completed"
      BY <1>1, <2>1, DoPipe DEF ItemInv, Follows, IsAudio
    <3> QED BY <1>3, <1>5, <3>1
  <2> QED BY <1>1, <2>1, <2>2, <2>3, DoPipe DEF ItemInv
<1>7. ASSUME NEW d \in Calls PROVE CallInv(d)'
  <2>1. CallInv(d) /\ d \in 1..MaxCalls
    BY CallsAre DEF RecInv
  <2>2. result'[d] = "none" => d # c /\ result[d] = "none"
    BY <1>5 DEF Final
  <2>3. (\E y \in Pipe : y.type = "start" /\ y.call = d) /\ d # c
           => \E y \in Pipe' : y.type = "start" /\ y.call = d
    BY DoPipe
  <2>4. last < d => result'[d] = "none"
    BY <1>3, <1>5, <2>1, ActiveIsCall DEF CallInv
  <2>5. result'[d] = "recording" <=> active' = d
    BY <1>3, <1>5, <2>1, CallsAre DEF CallInv, Final
  <2>6. result'[d] = "completed" => producer # d
    BY <1>3, <1>5, <2>1, CallsAre DEF CallInv, RecInv, RecTypes
  <2>7. result'[d] # "failed" => result[d] # "failed"
    BY <1>3, <1>5, <2>1 DEF CallInv
  <2> QED BY <1>1, <2>1, <2>2, <2>3, <2>4, <2>5, <2>6, <2>7, DoPipe DEF CallInv
<1>8. /\ done.ambe \in Ambe /\ done.ambe.payload <= done.ambe.header
      /\ done.ambe.state = "open" => FileHolds(done.ambe) /\ IsDmr(done.ambe.of)
      /\ ~Remote => done.ambe.state = "off"
  BY ClosingsAre DEF RecInv, AmbeInv, FileHolds
<1>9. ASSUME NEW f, FileHolds(f) PROVE FileHolds(f)'
  <2>1. f.of \in Calls \ {c} /\ result[f.of] # "none"
    BY <1>3, <1>9 DEF FileHolds
  <2> QED BY <1>1, <1>5, <1>9, <2>1 DEF FileHolds, Final
<1>10. ambe' \in Ambe /\ ambe'.payload <= ambe'.header
  <2>1. Aborted(done.ambe) \in Ambe /\ Aborted(done.ambe).payload <= Aborted(done.ambe).header
    BY <1>8 DEF Ambe, Aborted
  <2>2. [done.ambe EXCEPT !.state = "open", !.of = c, !.payload = 0] \in Ambe
    BY <1>1, <1>8 DEF Ambe
  <2>3. /\ [done.ambe EXCEPT !.state = "open", !.of = c, !.payload = 0].payload = 0
        /\ [done.ambe EXCEPT !.state = "open", !.of = c, !.payload = 0].header \in Nat
    BY <1>8 DEF Ambe
  <2>4. ambe' \in {Aborted(done.ambe), done.ambe,
                   [done.ambe EXCEPT !.state = "open", !.of = c, !.payload = 0]}
    BY <1>2
  <2>5. CASE ambe' = [done.ambe EXCEPT !.state = "open", !.of = c, !.payload = 0]
    <3>1. ambe'.payload = 0 /\ ambe'.header \in Nat /\ ambe' \in Ambe
      BY <2>2, <2>3, <2>5
    <3> QED BY <3>1
  <2> QED BY <1>8, <2>1, <2>4, <2>5
<1>11. /\ ambe'.state = "open" => FileHolds(ambe)' /\ IsDmr(ambe'.of)
       /\ ambe'.state = "open" /\ active' # NoCall /\ IsDmr(active') => ambe'.of = active'
       /\ active' # NoCall /\ IsDmr(active') /\ Remote => ambe'.state = "open"
       /\ ~Remote => ambe'.state = "off"
  <2>1. CASE active' = NoCall
    <3>1. ambe'.state = "off"
      BY <1>1, <1>2, <1>8, <2>1, CallsAre DEF Ambe, Aborted
    <3> QED BY <2>1, <3>1
  <2>2. CASE active' = c /\ IsDmr(c) /\ Remote
    <3>1. ambe' = [done.ambe EXCEPT !.state = "open", !.of = c, !.payload = 0]
      BY <1>1, <1>2, <2>2, CallsAre
    <3>2. ambe'.state = "open" /\ ambe'.of = c /\ ambe'.payload = 0
      BY <1>8, <3>1 DEF Ambe
    <3>3. AmbePerBurst * Cardinality(saved'[c]) = 0
      BY <1>1, <1>4, FS_EmptySet, FramesAssumption
    <3>4. FileHolds(ambe)'
      BY <1>1, <1>5, <2>2, <3>2, <3>3 DEF FileHolds
    <3> QED BY <2>2, <3>2, <3>4
  <2>3. CASE active' = c /\ ~(IsDmr(c) /\ Remote)
    <3>1. ambe' = done.ambe
      BY <1>1, <1>2, <2>3, CallsAre
    <3>2. FileHolds(done.ambe) => FileHolds(ambe)'
      BY <1>9, <3>1 DEF FileHolds
    <3> QED BY <1>8, <2>3, <3>1, <3>2
  <2> QED BY <1>5, <2>1, <2>2, <2>3
<1>12. ASSUME NEW u \in uploads'
       PROVE  FileHolds(u)' /\ result'[u.of] \in Final /\ u.payload <= u.header
  <2>1. FileHolds(u) /\ done.result[u.of] \in Final /\ u.payload <= u.header
    <3>1. CASE u \in uploads
      <4>1. FileHolds(u) /\ result[u.of] \in Final /\ u.payload <= u.header
        BY <3>1 DEF RecInv, AmbeInv
      <4>2. u.of \in Calls /\ u.of # active
        BY <4>1, ActiveIsCall DEF FileHolds, Final
      <4> QED BY <4>1, <4>2, ClosingsAre
    <3>2. CASE u \in done.up
      BY <3>2, ClosingsAre
    <3> QED BY <1>2, <3>1, <3>2
  <2>2. u.of \in Calls \ {c}
    BY <1>3, <2>1 DEF FileHolds
  <2>3. result'[u.of] = done.result[u.of]
    BY <1>1, <1>2, <2>2, ClosingsAre
  <2> QED BY <1>9, <2>1, <2>3
<1>13. AmbeInv'
  BY <1>10, <1>11, <1>12 DEF AmbeInv
<1>14. active' \in Calls \cup {NoCall} /\ saved' \in [Calls -> SUBSET (1..MaxAudio)]
  BY <1>1, <1>5 DEF RecInv, RecTypes
<1> QED BY <1>5, <1>6, <1>7, <1>10, <1>13, <1>14, DoKeeps

\* The session closed with no audio of its call behind the item carried out.
LEMMA CloseStep ==
  ASSUME RecInv, Do, Close, ~IsAudio(hand), hand.type # "start",
         producer = NoCall \/ producer # active,
         \A y \in Elems(queue) : IsAudio(y) => y.call # active
  PROVE  RecInv'
<1>1. active' = NoCall /\ saved' = saved /\ \A d, n : Waits(d, n) <=> Waits(d, n)'
  BY DoPipe DEF Close
<1>2. PICK done \in Closings :
        result' = done.result /\ ambe' = done.ambe /\ uploads' = uploads \cup done.up
  BY DEF Close
<1>3. /\ result' \in [Calls -> {"none", "recording"} \cup Final]
      /\ \A d \in Calls : IF d = active THEN result'[d] \in Final ELSE result'[d] = result[d]
  BY <1>2, ClosingsAre
<1>4. ASSUME NEW y \in Elems(queue) PROVE ItemInv(y)'
  <2>1. ItemInv(y) /\ y.call \in 0..MaxCalls
    BY DoPipe
  <2>2. y.type = "start" => active' < y.call /\ result'[y.call] = "none"
    BY <1>1, <1>3, <2>1, DoPipe, ActiveIsCall, CallsAre DEF ItemInv
  <2>3. IsAudio(y) => result'[y.call] # "completed"
    BY <1>3, <2>1, DoPipe DEF ItemInv, IsAudio
  <2> QED BY <1>1, <2>1, <2>2, <2>3, DoPipe DEF ItemInv
<1>5. ASSUME NEW d \in Calls PROVE CallInv(d)'
  <2>1. CallInv(d) /\ d \in 1..MaxCalls
    BY CallsAre DEF RecInv
  <2>2. result'[d] = "none" => result[d] = "none"
    BY <1>3 DEF Final
  <2>3. (\E y \in Pipe : y.type = "start" /\ y.call = d)
           => \E y \in Pipe' : y.type = "start" /\ y.call = d
    BY DoPipe
  <2>4. last < d => result'[d] = "none"
    BY <1>3, <2>1, ActiveIsCall DEF CallInv
  <2>5. result'[d] # "recording" /\ active' # d
    BY <1>1, <1>3, <2>1, CallsAre DEF CallInv, Final
  <2>6. result'[d] = "completed" => producer # d
    BY <1>3, <2>1, CallsAre DEF CallInv
  <2>7. result'[d] # "failed" => result[d] # "failed"
    BY <1>3, <2>1 DEF CallInv
  <2> QED BY <1>1, <2>1, <2>2, <2>3, <2>4, <2>5, <2>6, <2>7, DoPipe DEF CallInv
<1>6. ASSUME NEW f, FileHolds(f) PROVE FileHolds(f)'
  BY <1>1, <1>3, <1>6 DEF FileHolds, Final
<1>7. ASSUME NEW u \in uploads'
      PROVE  FileHolds(u)' /\ result'[u.of] \in Final /\ u.payload <= u.header
  <2>1. CASE u \in uploads
    <3>1. FileHolds(u) /\ result[u.of] \in Final /\ u.payload <= u.header
      BY <2>1 DEF RecInv, AmbeInv
    <3>2. u.of \in Calls /\ u.of # active
      BY <3>1, ActiveIsCall DEF FileHolds, Final
    <3> QED BY <1>3, <1>6, <3>1, <3>2
  <2>2. CASE u \in done.up
    BY <1>2, <1>6, <2>2, ClosingsAre
  <2> QED BY <1>2, <2>1, <2>2
<1>8. /\ ambe' \in Ambe /\ ambe'.payload <= ambe'.header
      /\ ambe'.state = "open" => FileHolds(ambe)' /\ IsDmr(ambe'.of)
      /\ ~Remote => ambe'.state = "off"
  <2>1. /\ done.ambe \in Ambe /\ done.ambe.payload <= done.ambe.header
        /\ done.ambe.state = "open" => FileHolds(done.ambe) /\ IsDmr(done.ambe.of)
        /\ ~Remote => done.ambe.state = "off"
    BY ClosingsAre DEF RecInv, AmbeInv, FileHolds
  <2>2. FileHolds(done.ambe) => FileHolds(ambe)'
    BY <1>2, <1>6 DEF FileHolds
  <2> QED BY <1>2, <2>1, <2>2
<1>9. AmbeInv'
  BY <1>1, <1>7, <1>8 DEF AmbeInv
<1>10. active' \in Calls \cup {NoCall} /\ saved' \in [Calls -> SUBSET (1..MaxAudio)]
  BY <1>1 DEF RecInv, RecTypes
<1> QED BY <1>3, <1>4, <1>5, <1>8, <1>9, <1>10, DoKeeps

\* What an item of audio finds, and what is behind it.
LEMMA AudioIs ==
  ASSUME RecInv, Do, IsAudio(hand)
  PROVE  /\ hand.call \in Calls /\ hand.call <= last /\ hand.n \in 1..MaxAudio
         /\ hand.n <= heard[hand.call] /\ heard[hand.call] \in Nat
         /\ \A m \in saved[hand.call] : m < hand.n
         /\ result[hand.call] \in {"recording", "failed"}
         /\ \A y \in Elems(queue) : /\ y.type = "start" => hand.call < y.call
                                    /\ IsAudio(y) /\ y.call = hand.call => hand.n < y.n
<1> DEFINE c == hand.call
<1>1. /\ hand.type = "audio" /\ c \in Calls /\ c <= last /\ c \in 1..MaxCalls
      /\ hand.n \in 1..heard[c] /\ heard[c] \in Nat
      /\ \A m \in saved[c] : m < hand.n
      /\ result[c] # "completed"
  BY DoPipe, CallsAre DEF ItemInv, IsAudio, RecInv, RecTypes
<1>2. hand.n \in 0..MaxAudio
  BY DoPipe, ItemsAre
<1>3. ASSUME NEW y \in Elems(queue)
      PROVE  /\ y.type = "start" => c < y.call
             /\ IsAudio(y) /\ y.call = c => hand.n < y.n
  <2>1. Follows(hand, y)
    BY DoPipe
  <2> QED BY <1>1, <2>1 DEF Follows, IsAudio
<1>4. result[c] # "none"
  <2> SUFFICES ASSUME result[c] = "none" PROVE FALSE
    OBVIOUS
  <2>1. PICK y \in Pipe : y.type = "start" /\ y.call = c
    BY <1>1 DEF RecInv, CallInv
  <2>2. y \in Elems(queue)
    BY <1>1, <2>1, DoPipe
  <2> QED BY <1>1, <1>3, <2>1, <2>2
<1>5. result[c] \in {"none", "recording", "completed", "failed"}
  BY <1>1 DEF RecInv, RecTypes, Final
<1> QED BY <1>1, <1>2, <1>3, <1>4, <1>5

\* Audio of another call is passed over: it has failed.
LEMMA PassOverStep ==
  ASSUME RecInv, Do, IsAudio(hand), active # hand.call,
         UNCHANGED <<active, ambe, saved, result, uploads>>
  PROVE  RecInv'
<1>1. AmbeInv'
  BY DEF RecInv, AmbeInv, FileHolds
<1>2. ASSUME NEW y \in Elems(queue) PROVE ItemInv(y)'
  BY DoPipe DEF ItemInv
<1>3. ASSUME NEW d \in Calls PROVE CallInv(d)'
  <2>1. CallInv(d)
    BY DEF RecInv
  <2>2. result[hand.call] = "failed"
    BY AudioIs, ActiveIsCall
  <2>3. (\E y \in Pipe : y.type = "start" /\ y.call = d)
           => \E y \in Pipe' : y.type = "start" /\ y.call = d
    BY DoPipe DEF IsAudio
  <2> QED BY <2>1, <2>2, <2>3, DoPipe DEF CallInv
<1> QED BY <1>1, <1>2, <1>3, DoKeeps DEF RecInv, RecTypes

\* A file whose call gets another burst.
LEMMA OneMoreBurst ==
  ASSUME NEW S \in SUBSET (1..MaxAudio), NEW n \in 1..MaxAudio, n \notin S
  PROVE  AmbePerBurst * Cardinality(S \cup {n}) = AmbePerBurst * Cardinality(S) + AmbePerBurst
<1>1. IsFiniteSet(S)
  <2>1. IsFiniteSet(1..MaxAudio)
    BY FS_Interval, FramesAssumption
  <2> QED BY <2>1, FS_Subset
<1>2. Cardinality(S) \in Nat /\ Cardinality(S \cup {n}) = Cardinality(S) + 1
  BY <1>1, FS_CardinalityType, FS_AddElement
<1>3. ASSUME NEW k \in Nat PROVE AmbePerBurst * (k + 1) = AmbePerBurst * k + AmbePerBurst
  BY FramesAssumption
<1> QED BY <1>2, <1>3

\* The running recording takes its audio, and so does the AMBE file of a DMR call.
LEMMA SaveStep ==
  ASSUME RecInv, Do, IsAudio(hand), active = hand.call,
         saved' = [saved EXCEPT ![active] = @ \cup {hand.n}],
         ambe' = IF IsDmr(active) /\ ambe.state = "open"
                 THEN [ambe EXCEPT !.header = @ + AmbePerBurst,
                                   !.payload = @ + AmbePerBurst]
                 ELSE ambe,
         UNCHANGED <<active, result, uploads>>
  PROVE  RecInv'
<1>1. /\ active \in Calls /\ result[active] = "recording" /\ hand.n \in 1..MaxAudio
      /\ hand.n <= heard[active] /\ \A m \in saved[active] : m < hand.n
      /\ \A y \in Elems(queue) : IsAudio(y) /\ y.call = active => hand.n < y.n
  BY AudioIs, ActiveIsCall, CallsAre
<1>2. /\ saved \in [Calls -> SUBSET (1..MaxAudio)] /\ ambe \in Ambe
      /\ ambe.header \in Nat /\ ambe.payload \in Nat /\ AmbePerBurst \in Nat
  BY FramesAssumption DEF RecInv, RecTypes, Ambe
<1>3. /\ saved' \in [Calls -> SUBSET (1..MaxAudio)]
      /\ saved'[active] = saved[active] \cup {hand.n}
      /\ \A d \in Calls \ {active} : saved'[d] = saved[d]
  BY <1>1, <1>2
<1>4. ambe' \in Ambe /\ ambe'.payload <= ambe'.header
  <2>1. ambe.payload <= ambe.header
    BY DEF RecInv, AmbeInv
  <2>2. /\ ambe.header + AmbePerBurst \in Nat /\ ambe.payload + AmbePerBurst \in Nat
        /\ ambe.payload + AmbePerBurst <= ambe.header + AmbePerBurst
    BY <1>2, <2>1
  <2>3. CASE IsDmr(active) /\ ambe.state = "open"
    <3> DEFINE h == ambe.header + AmbePerBurst
               p == ambe.payload + AmbePerBurst
    <3>1. ambe' = [ambe EXCEPT !.header = h, !.payload = p]
      BY <2>3
    <3>2. h \in Nat /\ p \in Nat /\ p <= h /\ ambe \in Ambe
      BY <1>2, <2>2
    <3> HIDE DEF h, p
    <3>3. ambe' \in Ambe /\ ambe'.header = h /\ ambe'.payload = p
      BY <3>1, <3>2 DEF Ambe
    <3> QED BY <3>2, <3>3
  <2> QED BY <1>2, <2>1, <2>3
<1>5. ASSUME NEW y \in Elems(queue) PROVE ItemInv(y)'
  <2>1. ItemInv(y) /\ (IsAudio(y) => y.call \in Calls)
    BY DoPipe DEF IsAudio
  <2>2. IsAudio(y) => \A m \in saved'[y.call] : m < y.n
    BY <1>1, <1>3, <2>1 DEF ItemInv
  <2> QED BY <2>1, <2>2, DoPipe DEF ItemInv
<1>6. ASSUME NEW d \in Calls PROVE CallInv(d)'
  <2>1. CallInv(d)
    BY DEF RecInv
  <2>2. (\E y \in Pipe : y.type = "start" /\ y.call = d)
           => \E y \in Pipe' : y.type = "start" /\ y.call = d
    BY DoPipe DEF IsAudio
  <2>3. result[d] = "none" => saved'[d] = {}
    BY <1>1, <1>3, <2>1 DEF CallInv
  <2>4. \A m \in saved'[d] : m <= heard[d]
    BY <1>1, <1>3, <2>1 DEF CallInv
  <2>5. \A n : n \in saved'[d] \/ Waits(d, n)' <=> n \in saved[d] \/ Waits(d, n)
    BY <1>3, DoPipe
  <2> QED BY <2>1, <2>2, <2>3, <2>4, <2>5, DoPipe DEF CallInv
<1>7. ASSUME NEW f, FileHolds(f), f.of # active PROVE FileHolds(f)'
  BY <1>3, <1>7 DEF FileHolds
<1>8. ambe'.state = ambe.state /\ ambe'.of = ambe.of
  BY <1>2 DEF Ambe
<1>9. ambe.state = "open" => FileHolds(ambe)'
  <2> SUFFICES ASSUME ambe.state = "open" PROVE FileHolds(ambe)'
    OBVIOUS
  <2>1. FileHolds(ambe) /\ IsDmr(ambe.of) /\ (IsDmr(active) => ambe.of = active)
    BY <1>1, CallsAre DEF RecInv, AmbeInv
  <2>2. CASE IsDmr(active)
    <3>1. ambe'.payload = ambe.payload + AmbePerBurst
      BY <1>2, <2>2 DEF Ambe
    <3>2. AmbePerBurst * Cardinality(saved'[active])
            = AmbePerBurst * Cardinality(saved[active]) + AmbePerBurst
      <4>1. hand.n \notin saved[active]
        BY <1>1
      <4> QED BY <1>1, <1>2, <1>3, <4>1, OneMoreBurst
    <3> QED BY <1>8, <2>1, <2>2, <3>1, <3>2, SMTT(30) DEF FileHolds
  <2>3. CASE ~IsDmr(active)
    <3>1. ambe' = ambe /\ ambe.of # active
      BY <2>1, <2>3
    <3> QED BY <1>7, <2>1, <3>1 DEF FileHolds
  <2> QED BY <2>2, <2>3
<1>10. ASSUME NEW u \in uploads'
       PROVE  FileHolds(u)' /\ result'[u.of] \in Final /\ u.payload <= u.header
  <2>1. FileHolds(u) /\ result[u.of] \in Final /\ u.payload <= u.header
    BY DEF RecInv, AmbeInv
  <2>2. u.of # active
    BY <1>1, <2>1 DEF Final
  <2> QED BY <1>7, <2>1, <2>2
<1>11. AmbeInv'
  BY <1>4, <1>8, <1>9, <1>10 DEF RecInv, AmbeInv
<1>12. /\ active' \in Calls \cup {NoCall}
       /\ result' \in [Calls -> {"none", "recording"} \cup Final]
  BY DEF RecInv, RecTypes
<1> QED BY <1>3, <1>4, <1>5, <1>6, <1>11, <1>12, DoKeeps

\* A write that fails ends the recording and gives the AMBE file up.
LEMMA FailStep ==
  ASSUME RecInv, Do, IsAudio(hand), active = hand.call,
         result' = [result EXCEPT ![active] = "failed"], active' = NoCall,
         NEW k \in Nat, ambe' = Aborted([ambe EXCEPT !.header = @ + k]),
         UNCHANGED <<saved, uploads>>
  PROVE  RecInv'
<1>1. /\ active \in Calls /\ active \in 1..MaxCalls /\ result[active] = "recording"
      /\ \A y \in Elems(queue) : y.type = "start" => active < y.call
  BY AudioIs, ActiveIsCall, CallsAre
<1>2. /\ result' \in [Calls -> {"none", "recording"} \cup Final]
      /\ result'[active] = "failed" /\ \A d \in Calls \ {active} : result'[d] = result[d]
  BY <1>1 DEF RecInv, RecTypes, Final
<1>3. ambe' \in Ambe /\ ambe'.state = "off" /\ ambe'.payload <= ambe'.header
  <2>1. ambe \in Ambe /\ ambe.payload <= ambe.header /\ ambe.payload \in Nat /\ ambe.header \in Nat
    BY DEF RecInv, RecTypes, AmbeInv, Ambe
  <2>2. ambe' = [state |-> "off", of |-> NoCall, header |-> ambe.header + k,
                 payload |-> ambe.payload]
    BY <2>1 DEF Ambe, Aborted
  <2> QED BY <2>1, <2>2 DEF Ambe
<1>4. ASSUME NEW y \in Elems(queue) PROVE ItemInv(y)'
  <2>1. ItemInv(y) /\ (y.type # "shutdown" => y.call \in Calls)
    BY DoPipe
  <2>2. y.type = "start" => active' < y.call /\ result'[y.call] = "none"
    BY <1>1, <1>2, <2>1, CallsAre DEF ItemInv
  <2>3. IsAudio(y) => result'[y.call] # "completed"
    BY <1>1, <1>2, <2>1 DEF ItemInv, IsAudio
  <2> QED BY <2>1, <2>2, <2>3, DoPipe DEF ItemInv
<1>5. ASSUME NEW d \in Calls PROVE CallInv(d)'
  <2>1. CallInv(d) /\ d \in 1..MaxCalls
    BY CallsAre DEF RecInv
  <2>2. (\E y \in Pipe : y.type = "start" /\ y.call = d)
           => \E y \in Pipe' : y.type = "start" /\ y.call = d
    BY DoPipe DEF IsAudio
  <2>3. CASE d = active
    <3>1. active <= last
      BY ActiveIsCall
    <3> QED BY <1>1, <1>2, <2>1, <2>3, <3>1, DoPipe, CallsAre DEF CallInv
  <2>4. CASE d # active
    <3>1. \A n : Waits(d, n)' <=> Waits(d, n)
      BY <2>4, DoPipe
    <3> QED BY <1>2, <2>1, <2>2, <2>4, <3>1, DoPipe, CallsAre DEF CallInv
  <2> QED BY <2>3, <2>4
<1>6. ASSUME NEW u \in uploads'
      PROVE  FileHolds(u)' /\ result'[u.of] \in Final /\ u.payload <= u.header
  <2>1. FileHolds(u) /\ result[u.of] \in Final /\ u.payload <= u.header
    BY DEF RecInv, AmbeInv
  <2>2. u.of \in Calls \ {active}
    BY <1>1, <2>1 DEF FileHolds, Final
  <2> QED BY <1>2, <2>1, <2>2 DEF FileHolds
<1>7. AmbeInv'
  BY <1>3, <1>6 DEF AmbeInv
<1>8. active' \in Calls \cup {NoCall} /\ saved' \in [Calls -> SUBSET (1..MaxAudio)]
  BY DEF RecInv, RecTypes
<1> QED BY <1>2, <1>3, <1>4, <1>5, <1>7, <1>8, DoKeeps

LEMMA DoStep ==
  ASSUME RecInv, Do
  PROVE  RecInv'
<1>1. CASE DoStart
  BY <1>1, DoStartStep
<1>2. CASE DoAudio
  <2> DEFINE writes == IsDmr(hand.call) /\ ambe.state = "open"
  <2>1. IsAudio(hand) /\ uploads' = uploads
    BY <1>2 DEF DoAudio
  <2>2. CASE active # hand.call /\ UNCHANGED <<active, ambe, saved, result>>
    BY <2>1, <2>2, PassOverStep
  <2>3. CASE /\ active = hand.call
             /\ saved' = [saved EXCEPT ![hand.call] = @ \cup {hand.n}]
             /\ ambe' = (IF writes
                         THEN [ambe EXCEPT !.header = @ + AmbePerBurst,
                                           !.payload = @ + AmbePerBurst]
                         ELSE ambe)
             /\ UNCHANGED <<active, result>>
    BY <2>1, <2>3, SaveStep
  <2>4. CASE /\ active = hand.call /\ result' = [result EXCEPT ![hand.call] = "failed"]
             /\ active' = ActiveAfterFailure
             /\ \E k \in IF writes THEN 0..AmbePerBurst ELSE {0} :
                  ambe' = Aborted([ambe EXCEPT !.header = @ + k])
             /\ UNCHANGED saved
    <3>1. PICK k \in Nat : ambe' = Aborted([ambe EXCEPT !.header = @ + k])
      BY <2>4, FramesAssumption
    <3>2. active' = NoCall
      BY <2>4 DEF ActiveAfterFailure
    <3> QED BY <2>1, <2>4, <3>1, <3>2, FailStep
  <2> QED BY <1>2, <2>2, <2>3, <2>4 DEF DoAudio
<1>3. CASE DoFinish
  <2>1. hand.type = "finish" /\ ~IsAudio(hand) /\ hand.call \notin up /\ hand.call \in Calls
    BY <1>3, DoPipe DEF DoFinish, ItemInv, IsAudio
  <2>2. CASE active = hand.call /\ Close
    <3>1. producer = NoCall \/ producer # active
      BY <2>1, <2>2 DEF RecInv, RecTypes
    <3>2. \A y \in Elems(queue) : IsAudio(y) => y.call # active
      BY <2>1, <2>2, DoPipe DEF Follows
    <3> QED BY <2>1, <2>2, <3>1, <3>2, CloseStep
  <2>3. CASE UNCHANGED <<active, ambe, saved, result, uploads>>
    <3>1. AmbeInv'
      BY <2>3 DEF RecInv, AmbeInv, FileHolds
    <3>2. ASSUME NEW y \in Elems(queue) PROVE ItemInv(y)'
      BY <2>3, DoPipe DEF ItemInv
    <3>3. ASSUME NEW d \in Calls PROVE CallInv(d)'
      <4>1. CallInv(d) /\ \A n : Waits(d, n)' <=> Waits(d, n)
        BY <2>1, DoPipe DEF RecInv
      <4>2. (\E y \in Pipe : y.type = "start" /\ y.call = d)
               => \E y \in Pipe' : y.type = "start" /\ y.call = d
        BY <2>1, DoPipe
      <4> QED BY <2>3, <4>1, <4>2, DoPipe DEF CallInv
    <3> QED BY <2>3, <3>1, <3>2, <3>3, DoKeeps DEF RecInv, RecTypes
  <2> QED BY <1>3, <2>2, <2>3 DEF DoFinish, Closes
<1>4. CASE DoShutdown
  <2>1. hand.type = "shutdown" /\ ~IsAudio(hand) /\ stopping /\ Close
    BY <1>4, DoPipe DEF DoShutdown, ItemInv, IsAudio
  <2>2. producer = NoCall
    BY <2>1 DEF RecInv, RecTypes
  <2>3. Elems(queue) = {}
    BY <2>1, DoPipe DEF Follows
  <2> QED BY <2>1, <2>2, <2>3, CloseStep
<1> QED BY <1>1, <1>2, <1>3, <1>4 DEF Do

LEMMA RecStep ==
  ASSUME RecInv, [Next]_vars
  PROVE  RecInv'
<1>1. CASE UNCHANGED vars
  <2>1. /\ UNCHANGED <<queue, frames, stopping, producer, hand, kept, last, up, heard>>
        /\ UNCHANGED <<active, ambe, saved, result, uploads>>
    BY <1>1 DEF vars, producing, working
  <2>2. RecTypes' /\ QueueInv' /\ AmbeInv' /\ Pipe' = Pipe
    BY <2>1 DEF RecInv, RecTypes, QueueInv, AmbeInv, FileHolds, Pipe
  <2>3. ASSUME NEW y \in Pipe PROVE ItemInv(y)'
    BY <2>1 DEF RecInv, ItemInv
  <2>4. ASSUME NEW d \in Calls PROVE CallInv(d)'
    BY <2>1, <2>2 DEF RecInv, CallInv, Waits
  <2> QED BY <2>2, <2>3, <2>4 DEF RecInv
<1>2. CASE Next
  BY <1>2, StartCallStep, FinishCallStep, SubmitStep, StopStep, TakeStep, DoStep
     DEF Next, Worker
<1> QED BY <1>1, <1>2

LEMMA RecAlways == Spec => []RecInv
  BY InitRec, RecStep, PTL DEF Spec

-----------------------------------------------------------------------------
(* The theorems *)

\* A completed recording has nothing waiting, so what it kept is what it saved.
LEMMA RecIsWhole == RecInv => CompletedIsWhole
<1> SUFFICES ASSUME RecInv PROVE CompletedIsWhole
  OBVIOUS
<1>1. ASSUME NEW c \in Calls, result[c] = "completed" PROVE saved[c] = kept[c]
  <2>1. CallInv(c)
    BY DEF RecInv
  <2>2. \A n : ~Waits(c, n)
    BY <1>1, PipeIs DEF Waits, ItemInv
  <2>3. saved[c] \subseteq 1..MaxAudio /\ kept[c] \subseteq 1..MaxAudio
    BY DEF RecInv, RecTypes
  <2> QED BY <1>1, <2>1, <2>2, <2>3 DEF CallInv
<1>2. ASSUME NEW u \in uploads
      PROVE  u.payload = AmbePerBurst * Cardinality(saved[u.of]) /\ u.header >= u.payload
  <2>1. /\ FileHolds(u) /\ u.payload <= u.header
    BY DEF RecInv, AmbeInv
  <2> QED BY <2>1 DEF FileHolds
<1> QED BY <1>1, <1>2 DEF CompletedIsWhole

\* Whatever the producers do and whatever fails, a completed recording holds all
\* the audio of its call that the queue did not drop, and an uploaded AMBE file the
\* bursts saved of the call it was opened for (close_session, process_dmr_burst).
THEOREM CompletedRecordingsAreWhole == Spec => []CompletedIsWhole
  BY RecAlways, RecIsWhole, PTL

\* What the worker's steps are of the promise: an item of audio passed over and a
\* finish that closes nothing are none.
LEMMA PromiseClose ==
  ASSUME RecInv, Close
  PROVE  [Promise!Next]_(Promise!vars)
<1>1. PICK done \in Closings : result' = done.result
  BY DEF Close
<1>2. saved' = saved
  BY DEF Close
<1>3. CASE active = NoCall
  <2>1. result' = result
    BY <1>1, <1>3 DEF Closings
  <2> QED BY <1>2, <2>1 DEF Promise!vars
<1>4. CASE active # NoCall
  <2>1. active \in Calls /\ result[active] = "recording"
    BY <1>4, ActiveIsCall
  <2>2. \E e \in Final : result' = [result EXCEPT ![active] = e]
    <3>1. done.result \in {[result EXCEPT ![active] = "failed"],
                           [result EXCEPT ![active] = "completed"]}
      BY <1>4 DEF Closings
    <3> QED BY <1>1, <3>1 DEF Final
  <2>3. Promise!End(active)
    BY <1>2, <2>1, <2>2 DEF Promise!End, Promise!Recording, Promise!Final, Final
  <2> QED BY <2>1, <2>3 DEF Promise!Next
<1> QED BY <1>3, <1>4

LEMMA PromiseDo ==
  ASSUME RecInv, Do
  PROVE  [Promise!Next]_(Promise!vars)
<1> DEFINE c == hand.call
<1>1. CASE DoStart
  <2>1. hand.type = "start" /\ c \in Calls /\ saved' = saved
    BY <1>1, DoPipe DEF DoStart
  <2>2. result[c] = "none" /\ result \in [Calls -> {"none", "recording"} \cup Final]
    BY <2>1, DoPipe DEF ItemInv, RecInv, RecTypes
  <2>3. PICK done \in Closings, got \in {"recording", "failed"} :
          result' = [done.result EXCEPT ![c] = got]
    BY <1>1 DEF DoStart
  <2>4. /\ done.result \in [Calls -> {"none", "recording"} \cup Final]
        /\ \A d \in Calls : IF d = active THEN done.result[d] \in Final
                                          ELSE done.result[d] = result[d]
    BY ClosingsAre
  <2>5. \A d \in Calls : result[d] = "recording" <=> active = d
    BY ActiveIsCall
  <2>6. \E ended \in Final : \A d \in Calls :
          done.result[d] = IF result[d] = "recording" THEN ended ELSE result[d]
    <3>1. CASE active \in Calls
      <4>1. done.result[active] \in Final
        BY <2>4, <3>1
      <4> QED BY <2>4, <2>5, <4>1
    <3>2. CASE active \notin Calls
      <4>1. "failed" \in Final
        BY DEF Final
      <4> QED BY <2>4, <2>5, <3>2, <4>1
    <3> QED BY <3>1, <3>2
  <2>7. \E ended \in Final :
          result' = [d \in Calls |-> IF d = c THEN got
                                     ELSE IF result[d] = "recording" THEN ended ELSE result[d]]
    BY <2>1, <2>3, <2>4, <2>6
  <2>8. Promise!Begin(c)
    BY <2>1, <2>2, <2>7 DEF Promise!Begin, Promise!Recording, Promise!Final, Final
  <2> QED BY <2>1, <2>8 DEF Promise!Next
<1>2. CASE DoAudio
  <2>1. IsAudio(hand) /\ c \in Calls /\ hand.n \in 1..MaxAudio /\ \A m \in saved[c] : m < hand.n
    BY <1>2, AudioIs DEF DoAudio
  <2>2. active = c => result[c] = "recording"
    BY <2>1, ActiveIsCall
  <2>3. CASE UNCHANGED <<saved, result>>
    BY <2>3 DEF Promise!vars
  <2>4. CASE active = c /\ saved' = [saved EXCEPT ![c] = @ \cup {hand.n}] /\ UNCHANGED result
    <3>1. Promise!Save(c)
      BY <2>1, <2>2, <2>4 DEF Promise!Save, Promise!Recording
    <3> QED BY <2>1, <3>1 DEF Promise!Next
  <2>5. CASE active = c /\ result' = [result EXCEPT ![c] = "failed"] /\ UNCHANGED saved
    <3>1. Promise!End(c)
      BY <2>1, <2>2, <2>5 DEF Promise!End, Promise!Recording, Promise!Final
    <3> QED BY <2>1, <3>1 DEF Promise!Next
  <2> QED BY <1>2, <2>3, <2>4, <2>5 DEF DoAudio
<1>3. CASE DoFinish
  <2>1. CASE Close
    BY <2>1, PromiseClose
  <2>2. CASE UNCHANGED <<active, ambe, saved, result, uploads>>
    BY <2>2 DEF Promise!vars
  <2> QED BY <1>3, <2>1, <2>2 DEF DoFinish
<1>4. CASE DoShutdown
  BY <1>4, PromiseClose DEF DoShutdown
<1> QED BY <1>1, <1>2, <1>3, <1>4 DEF Do

\* Each step of the runtime is one of the promise or none: the threads that feed
\* it and the queue are not seen.
LEMMA PromiseStep ==
  ASSUME RecInv, [Next]_vars
  PROVE  [Promise!Next]_(Promise!vars)
<1>1. CASE Do
  BY <1>1, PromiseDo
<1>2. CASE UNCHANGED working
  BY <1>2 DEF working, Promise!vars
<1> QED BY <1>1, <1>2
        DEF Next, Worker, StartCall, FinishCall, Submit, Stop, Take, vars

LEMMA PromiseInit == Init => Promise!Init
  BY DEF Init, Promise!Init

\* The runtime implements the promise of module Recordings: one recording at a
\* time, each ended once, each with audio of its own call in the order heard.
THEOREM RuntimeKeepsPromise == Spec => IsRecordings
  BY RecAlways, PromiseInit, PromiseStep, PTL DEF Spec, IsRecordings, Promise!Spec

=============================================================================
