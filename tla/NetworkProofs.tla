--------------------------- MODULE NetworkProofs ---------------------------
(***************************************************************************)
(* The event stream of the network service, for any clients and any number *)
(* of events: what a client has received are the events from its accept    *)
(* on, each once and in order.                                             *)
(*                                                                         *)
(* Events are numbered.  The queue holds the last ones published, the      *)
(* frames of a flush the last ones taken from it, and a client lacks those *)
(* of the frames that it waits for.                                        *)
(***************************************************************************)
EXTENDS Network, TLAPS, SequenceTheorems

Open == {"reading", "paused", "closed"}

StreamTypes ==
  /\ published \in Nat /\ outbound \in Seq(Nat) /\ Len(outbound) <= published
  /\ worker \in {"none", "polls", "sends", "joined"}
  /\ clients \subseteq Clients /\ todo \subseteq clients
  /\ frames \in Seq(Nat) /\ Len(frames) <= Taken + 1
  /\ peer \in [Clients -> Open \cup {"away", "asking"}]
  /\ \A c \in Clients : c \in clients <=> peer[c] \in Open
  /\ got \in [Clients -> Seq(Nat)] /\ joinedAt \in [Clients -> Nat]

\* The queue ends with the last event published, and starts after the last taken.
QueueInOrder == \A i \in 1..Len(outbound) : outbound[i] = Taken + i

\* Of the events taken: how many are in frames still to be sent.
Unsent == IF frames = <<>> THEN 0 ELSE Len(frames) - 1

\* The frames end with the last event taken and the line behind it.
FramesInOrder ==
  /\ worker = "sends" <=> frames # <<>>
  /\ frames # <<>> <=> todo # {}
  /\ frames # <<>> => frames[Len(frames)] = Line
  /\ \A i \in 1..Unsent : frames[i] = (Taken - Unsent) + i

\* A client that has been dealt with has the first of the events unsent.
Lacks(c) == IF c \in todo \/ Unsent = 0 THEN Unsent ELSE Unsent - 1

GotInOrder ==
  \A c \in clients :
    /\ \A i \in 1..Len(got[c]) : got[c][i] = joinedAt[c] + i
    /\ peer[c] # "closed" => joinedAt[c] + Len(got[c]) = Taken - Lacks(c)

StreamInv ==
  /\ StreamTypes /\ QueueInOrder /\ FramesInOrder /\ GotInOrder
  /\ service = "new" => worker = "none"

-----------------------------------------------------------------------------
(* Queues *)

LEMMA Appended ==
  ASSUME NEW s \in Seq(Nat), NEW e \in Nat
  PROVE  /\ Append(s, e) \in Seq(Nat) /\ Len(s) \in Nat /\ Len(Append(s, e)) = Len(s) + 1
         /\ \A i \in 1..Len(s) : Append(s, e)[i] = s[i]
         /\ Append(s, e)[Len(s) + 1] = e
  BY AppendProperties, LenProperties

LEMMA NumbersOf ==
  ASSUME StreamInv
  PROVE  /\ Len(outbound) \in Nat /\ Taken \in Nat /\ published = Taken + Len(outbound)
         /\ Len(frames) \in Nat /\ Unsent \in Nat /\ Unsent <= Taken
         /\ frames # <<>> => Len(frames) = Unsent + 1
<1>1. /\ published \in Nat /\ outbound \in Seq(Nat) /\ Len(outbound) <= published
      /\ frames \in Seq(Nat) /\ Len(frames) <= Taken + 1
  BY DEF StreamInv, StreamTypes
<1>2. Len(outbound) \in Nat /\ Len(frames) \in Nat
  BY <1>1, LenProperties
<1>3. Taken \in Nat /\ published = Taken + Len(outbound)
  BY <1>1, <1>2 DEF Taken
<1>4. frames # <<>> => Len(frames) >= 1
  BY <1>1, EmptySeq
<1> QED BY <1>1, <1>2, <1>3, <1>4 DEF Unsent

\* A step that leaves the stream alone.
LEMMA StreamRests ==
  ASSUME StreamInv, UNCHANGED streamVars, service' # "new" \/ service' = service
  PROVE  StreamInv'
<1>1. UNCHANGED <<published, outbound, worker, stopping, clients, frames, todo, peer,
                  got, joinedAt>>
  BY DEF streamVars
<1>2. Taken' = Taken /\ Unsent' = Unsent /\ \A c : Lacks(c)' = Lacks(c)
  BY <1>1 DEF Taken, Unsent, Lacks
<1> QED BY <1>1, <1>2 DEF StreamInv, StreamTypes, QueueInOrder, FramesInOrder, GotInOrder

-----------------------------------------------------------------------------
(* The peers and the relay *)

LEMMA PeersMoveStream == StreamInv /\ PeersMove => StreamInv'
<1> SUFFICES ASSUME StreamInv, NEW c \in Clients, PeerMoves(c), service' = service
             PROVE  StreamInv'
  BY DEF PeersMove
<1>1. PICK to \in {"asking", "reading", "paused", "closed"} :
        /\ peer' = [peer EXCEPT ![c] = to]
        /\ (peer[c] \in Open) <=> (to \in Open)
        /\ to # "closed" => peer[c] # "closed"
  BY DEF PeerMoves, Dials, Pauses, Resumes, HangsUp, Open
<1>2. UNCHANGED <<published, outbound, worker, clients, frames, todo, got, joinedAt>>
  BY DEF PeerMoves, Dials, Pauses, Resumes, HangsUp
<1>3. Taken' = Taken /\ Unsent' = Unsent /\ \A d : Lacks(d)' = Lacks(d)
  BY <1>2 DEF Taken, Unsent, Lacks
<1>4. peer \in [Clients -> Open \cup {"away", "asking"}]
  BY DEF StreamInv, StreamTypes
<1>5. peer' \in [Clients -> Open \cup {"away", "asking"}]
  BY <1>1, <1>4 DEF Open
<1>6. \A d \in Clients : /\ (peer'[d] \in Open) <=> (peer[d] \in Open)
                         /\ peer'[d] # "closed" => peer[d] # "closed"
  BY <1>1, <1>4
<1>7. StreamTypes'
  BY <1>2, <1>3, <1>5, <1>6 DEF StreamInv, StreamTypes
<1>8. GotInOrder'
  BY <1>2, <1>3, <1>6 DEF StreamInv, StreamTypes, GotInOrder
<1>9. QueueInOrder' /\ FramesInOrder'
  BY <1>2, <1>3 DEF StreamInv, QueueInOrder, FramesInOrder
<1> QED BY <1>2, <1>7, <1>8, <1>9 DEF StreamInv

LEMMA RelayEventStream == StreamInv /\ RelayEvent => StreamInv'
<1> SUFFICES ASSUME StreamInv, RelayEvent PROVE StreamInv'
  OBVIOUS
<1>1. /\ published' = published + 1 /\ outbound' = Append(outbound, published + 1)
      /\ UNCHANGED <<worker, clients, frames, todo, peer, got, joinedAt, service>>
  BY DEF RelayEvent, Publishes
<1>2. /\ published \in Nat /\ outbound \in Seq(Nat)
  BY DEF StreamInv, StreamTypes
<1>3. /\ outbound' \in Seq(Nat) /\ Len(outbound') = Len(outbound) + 1
      /\ \A i \in 1..Len(outbound) : outbound'[i] = outbound[i]
      /\ outbound'[Len(outbound) + 1] = published + 1
  BY <1>1, <1>2, Appended
<1>4. Taken' = Taken /\ published' = Taken + Len(outbound')
  BY <1>1, <1>2, <1>3, NumbersOf DEF Taken
<1>5. Unsent' = Unsent /\ \A d : Lacks(d)' = Lacks(d)
  BY <1>1 DEF Unsent, Lacks
<1>6. QueueInOrder'
  <2> SUFFICES ASSUME NEW i \in 1..Len(outbound') PROVE outbound'[i] = Taken + i
    BY <1>4 DEF QueueInOrder
  <2>1. CASE i \in 1..Len(outbound)
    BY <1>3, <2>1 DEF StreamInv, QueueInOrder
  <2>2. CASE i = Len(outbound) + 1
    <3>1. Taken + i = published + 1
      BY <2>2, NumbersOf
    <3> QED BY <1>3, <2>2, <3>1
  <2> QED BY <1>3, <2>1, <2>2, NumbersOf
<1>7. StreamTypes'
  <2>1. published' \in Nat /\ Len(outbound') <= published'
    BY <1>1, <1>3, <1>4, NumbersOf
  <2> QED BY <1>1, <1>3, <1>4, <2>1 DEF StreamInv, StreamTypes
<1>8. FramesInOrder' /\ GotInOrder'
  BY <1>1, <1>4, <1>5 DEF StreamInv, FramesInOrder, GotInOrder
<1> QED BY <1>1, <1>6, <1>7, <1>8 DEF StreamInv

-----------------------------------------------------------------------------
(* The worker *)

\* A client that is accepted has nothing yet of what comes.
LEMMA AcceptsStream ==
  ASSUME StreamInv, NEW c \in Clients, Accepts(c), service' = service
  PROVE  StreamInv'
<1>1. /\ worker = "polls" /\ peer[c] = "asking"
      /\ UNCHANGED <<published, outbound, worker, frames, todo>>
  BY DEF Accepts, Polls
<1>2. /\ peer \in [Clients -> Open \cup {"away", "asking"}]
      /\ got \in [Clients -> Seq(Nat)] /\ joinedAt \in [Clients -> Nat]
      /\ clients \subseteq Clients /\ todo \subseteq clients
      /\ \A d \in Clients : d \in clients <=> peer[d] \in Open
  BY DEF StreamInv, StreamTypes
<1>3. Taken' = Taken /\ Unsent' = Unsent /\ (\A d : Lacks(d)' = Lacks(d)) /\ frames = <<>>
  BY <1>1 DEF Taken, Unsent, Lacks, StreamInv, FramesInOrder
<1>4. c \notin clients
  BY <1>1, <1>2 DEF Open
<1>5. QueueInOrder' /\ FramesInOrder'
  BY <1>1, <1>3 DEF StreamInv, QueueInOrder, FramesInOrder
<1>6. CASE HasPlace
  <2>1. /\ clients' = clients \cup {c}
        /\ peer' = [peer EXCEPT ![c] = "reading"]
        /\ got' = [got EXCEPT ![c] = <<>>]
        /\ joinedAt' = [joinedAt EXCEPT ![c] = Taken]
    BY <1>6 DEF Accepts, Taken
  <2>2. /\ peer' \in [Clients -> Open \cup {"away", "asking"}]
        /\ got' \in [Clients -> Seq(Nat)] /\ joinedAt' \in [Clients -> Nat]
    BY <1>2, <2>1, NumbersOf DEF Open
  <2>3. \A d \in Clients : d \in clients' <=> peer'[d] \in Open
    BY <1>2, <2>1 DEF Open
  <2>4. StreamTypes'
    BY <1>1, <1>2, <1>3, <2>1, <2>2, <2>3 DEF StreamInv, StreamTypes
  <2>5. GotInOrder'
    <3> SUFFICES ASSUME NEW d \in clients'
                 PROVE  /\ \A i \in 1..Len(got'[d]) : got'[d][i] = joinedAt'[d] + i
                        /\ peer'[d] # "closed" =>
                             joinedAt'[d] + Len(got'[d]) = Taken - Lacks(d)
      BY <1>3 DEF GotInOrder
    <3>1. CASE d = c
      <4>1. got'[c] = <<>> /\ joinedAt'[c] = Taken
        BY <1>2, <2>1
      <4>2. Lacks(c) = 0
        BY <1>3 DEF Lacks, Unsent
      <4> QED BY <3>1, <4>1, <4>2, NumbersOf
    <3>2. CASE d # c
      <4>1. d \in clients /\ got'[d] = got[d] /\ joinedAt'[d] = joinedAt[d] /\ peer'[d] = peer[d]
        BY <1>2, <2>1, <3>2
      <4> QED BY <4>1 DEF StreamInv, GotInOrder
    <3> QED BY <3>1, <3>2
  <2> QED BY <1>1, <1>5, <2>4, <2>5 DEF StreamInv
<1>7. CASE ~HasPlace
  <2>1. peer' = [peer EXCEPT ![c] = "away"] /\ UNCHANGED <<clients, got, joinedAt>>
    BY <1>7 DEF Accepts
  <2>2. /\ peer' \in [Clients -> Open \cup {"away", "asking"}]
        /\ \A d \in Clients : d \in clients' <=> peer'[d] \in Open
        /\ \A d \in clients : peer'[d] = peer[d]
    BY <1>2, <1>4, <2>1 DEF Open
  <2>3. StreamTypes' /\ GotInOrder'
    BY <1>1, <1>3, <2>1, <2>2 DEF StreamInv, StreamTypes, GotInOrder
  <2> QED BY <1>1, <1>5, <2>3 DEF StreamInv
<1> QED BY <1>6, <1>7

\* The events queued become frames that every client lacks.
LEMMA FlushesStream ==
  ASSUME StreamInv, Flushes, service' = service
  PROVE  StreamInv'
<1>1. /\ worker = "polls" /\ outbound' = <<>>
      /\ UNCHANGED <<published, clients, peer, got, joinedAt>>
  BY DEF Flushes, Polls
<1>2. Taken' = published /\ published \in Nat
  BY <1>1 DEF Taken, StreamInv, StreamTypes
<1>3. outbound' \in Seq(Nat) /\ Len(outbound') = 0 /\ QueueInOrder'
  BY <1>1 DEF QueueInOrder
<1>4. frames = <<>> /\ todo = {} /\ Unsent = 0
  BY <1>1 DEF StreamInv, FramesInOrder, Unsent
<1>5. CASE clients = {}
  <2>1. UNCHANGED <<worker, frames, todo>>
    BY <1>5 DEF Flushes
  <2>2. Len(frames') <= Taken' + 1 /\ Unsent' = 0
    BY <1>2, <1>4, <2>1 DEF Unsent
  <2>3. StreamTypes'
    BY <1>1, <1>2, <1>3, <2>1, <2>2 DEF StreamInv, StreamTypes
  <2>4. FramesInOrder'
    BY <1>1, <1>4, <2>1, <2>2 DEF FramesInOrder
  <2>5. GotInOrder'
    BY <1>1, <1>5 DEF GotInOrder
  <2> QED BY <1>1, <1>3, <2>1, <2>3, <2>4, <2>5 DEF StreamInv
<1>6. CASE clients # {}
  <2>1. worker' = "sends" /\ frames' = Append(outbound, Line) /\ todo' = clients
    BY <1>6 DEF Flushes
  <2>2. outbound \in Seq(Nat) /\ Line \in Nat
    BY DEF StreamInv, StreamTypes, Line
  <2>3. /\ frames' \in Seq(Nat) /\ Len(frames') = Len(outbound) + 1 /\ Len(outbound) \in Nat
        /\ \A i \in 1..Len(outbound) : frames'[i] = outbound[i]
        /\ frames'[Len(outbound) + 1] = Line
    BY <2>1, <2>2, Appended
  <2>4. frames' # <<>> /\ Unsent' = Len(outbound)
    BY <2>3 DEF Unsent
  <2>5. Taken' - Unsent' = Taken /\ Unsent' <= Taken'
    BY <1>2, <2>3, <2>4, NumbersOf
  <2>6. StreamTypes'
    <3>1. Len(frames') <= Taken' + 1
      BY <1>2, <2>3, <2>4, <2>5
    <3> QED BY <1>1, <1>2, <1>3, <2>1, <2>3, <3>1 DEF StreamInv, StreamTypes
  <2>7. FramesInOrder'
    <3>1. \A i \in 1..Unsent' : frames'[i] = (Taken' - Unsent') + i
      BY <2>3, <2>4, <2>5 DEF StreamInv, QueueInOrder
    <3> QED BY <1>6, <2>1, <2>3, <2>4, <3>1 DEF FramesInOrder
  <2>8. GotInOrder'
    <3> SUFFICES ASSUME NEW d \in clients
                 PROVE  /\ \A i \in 1..Len(got[d]) : got[d][i] = joinedAt[d] + i
                        /\ peer[d] # "closed" =>
                             joinedAt[d] + Len(got[d]) = Taken' - Lacks(d)'
      BY <1>1 DEF GotInOrder
    <3>1. Lacks(d) = 0 /\ Lacks(d)' = Unsent'
      BY <1>4, <2>1 DEF Lacks
    <3>2. /\ \A i \in 1..Len(got[d]) : got[d][i] = joinedAt[d] + i
          /\ peer[d] # "closed" => joinedAt[d] + Len(got[d]) = Taken - Lacks(d)
      BY DEF StreamInv, GotInOrder
    <3> QED BY <2>5, <3>1, <3>2, NumbersOf
  <2> QED BY <1>1, <1>3, <2>1, <2>6, <2>7, <2>8 DEF StreamInv
<1> QED BY <1>5, <1>6

\* One client dealt with: the frames are in order, the others lack what they did, and
\* that one an event less.
LEMMA GoesOnFrames ==
  ASSUME StreamInv, worker = "sends", NEW c \in todo, NEW keep, todo \ {c} \subseteq keep,
         GoesOn(c, keep), Taken' = Taken
  PROVE  /\ frames' \in Seq(Nat) /\ Len(frames') <= Taken' + 1
         /\ worker' \in {"sends", "polls"} /\ todo' \subseteq keep
         /\ FramesInOrder'
         /\ \A d \in keep \ {c} : Lacks(d)' = Lacks(d)
         /\ c \in keep => Lacks(c)' = (IF Unsent = 0 THEN 0 ELSE Unsent - 1)
<1>1. /\ frames # <<>> /\ frames \in Seq(Nat) /\ Len(frames) \in Nat
      /\ Len(frames) = Unsent + 1 /\ Unsent \in Nat /\ Taken \in Nat /\ Unsent <= Taken
      /\ frames[Len(frames)] = Line
      /\ \A i \in 1..Unsent : frames[i] = (Taken - Unsent) + i
  BY NumbersOf DEF StreamInv, StreamTypes, FramesInOrder
<1>2. CASE todo \ {c} # {}
  <2>1. todo' = todo \ {c} /\ frames' = frames /\ worker' = worker
    BY <1>2 DEF GoesOn
  <2>2. Unsent' = Unsent
    BY <2>1 DEF Unsent
  <2>3. FramesInOrder'
    BY <1>1, <1>2, <2>1, <2>2 DEF FramesInOrder
  <2>4. \A d \in keep \ {c} : Lacks(d)' = Lacks(d)
    BY <2>1, <2>2 DEF Lacks
  <2>5. Lacks(c)' = (IF Unsent = 0 THEN 0 ELSE Unsent - 1)
    BY <2>1, <2>2 DEF Lacks
  <2>6. Len(frames') <= Taken' + 1
    BY <1>1, <2>1
  <2> QED BY <1>1, <2>1, <2>3, <2>4, <2>5, <2>6
<1>3. CASE todo = {c} /\ (keep = {} \/ Len(frames) = 1)
  <2>1. frames' = <<>>
    <3>1. CASE keep = {}
      BY <1>3, <3>1 DEF GoesOn
    <3>2. CASE keep # {} /\ Len(frames) = 1
      <4>1. frames' = Tail(frames)
        BY <1>3, <3>2 DEF GoesOn
      <4>2. frames # <<>>
        BY <3>2
      <4>3. Tail(frames) \in Seq(Nat) /\ Len(Tail(frames)) = Len(frames) - 1
        BY <1>1, <4>2, HeadTailProperties
      <4>4. Len(Tail(frames)) = 0
        BY <3>2, <4>3
      <4> QED BY <4>1, <4>3, <4>4, EmptySeq
    <3> QED BY <1>3, <3>1, <3>2
  <2>2. todo' = {} /\ worker' = "polls"
    BY <1>3, <2>1 DEF GoesOn
  <2>3. Unsent' = 0 /\ Len(frames') = 0
    BY <2>1 DEF Unsent
  <2>4. FramesInOrder'
    BY <2>1, <2>2, <2>3 DEF FramesInOrder
  <2>5. keep # {} => Unsent = 0
    BY <1>1, <1>3
  <2>6. \A d \in keep : Lacks(d)' = 0
    BY <2>3 DEF Lacks
  <2>7. \A d \in keep : Lacks(d) = 0
    BY <2>5 DEF Lacks
  <2>8. frames' \in Seq(Nat) /\ Len(frames') <= Taken' + 1
    BY <1>1, <2>1, <2>3
  <2> QED BY <2>2, <2>4, <2>5, <2>6, <2>7, <2>8
<1>4. CASE todo = {c} /\ keep # {} /\ Len(frames) # 1
  <2>1. frames' = Tail(frames)
    BY <1>4 DEF GoesOn
  <2>2. /\ frames' \in Seq(Nat) /\ Len(frames') = Len(frames) - 1
        /\ \A i \in 1..(Len(frames) - 1) : frames'[i] = frames[i + 1]
    BY <1>1, <2>1, HeadTailProperties
  <2>3. Unsent >= 1 /\ Len(frames') = Unsent /\ frames' # <<>>
    <3>1. Unsent >= 1 /\ Len(frames') = Unsent
      BY <1>1, <1>4, <2>2
    <3> QED BY <3>1
  <2>4. todo' = keep /\ worker' = "sends"
    BY <1>4, <2>3 DEF GoesOn
  <2>5. Unsent' = Unsent - 1
    BY <2>3 DEF Unsent
  <2>6. FramesInOrder'
    <3>1. frames'[Len(frames')] = Line
      <4>1. Len(frames') \in 1..(Len(frames) - 1) /\ Len(frames') + 1 = Len(frames)
        BY <1>1, <2>3
      <4> QED BY <1>1, <2>2, <4>1
    <3>2. \A i \in 1..Unsent' : frames'[i] = (Taken' - Unsent') + i
      <4> SUFFICES ASSUME NEW i \in 1..(Unsent - 1)
                   PROVE  frames'[i] = (Taken - (Unsent - 1)) + i
        BY <2>5
      <4>1. frames'[i] = frames[i + 1] /\ i + 1 \in 1..Unsent
        BY <1>1, <2>2
      <4>2. frames[i + 1] = (Taken - Unsent) + (i + 1)
        BY <1>1, <4>1
      <4> QED BY <1>1, <4>1, <4>2
    <3> QED BY <1>4, <2>3, <2>4, <3>1, <3>2 DEF FramesInOrder
  <2>7. \A d \in keep : Lacks(d)' = Unsent - 1
    BY <2>4, <2>5 DEF Lacks
  <2>8. \A d \in keep \ {c} : Lacks(d) = Unsent - 1
    BY <1>4, <2>3 DEF Lacks
  <2>9. Len(frames') <= Taken' + 1
    BY <1>1, <2>3
  <2> QED BY <2>2, <2>3, <2>4, <2>6, <2>7, <2>8, <2>9
<1> QED BY <1>2, <1>3, <1>4

LEMMA SendsStream ==
  ASSUME StreamInv, NEW c \in Clients, Sends(c), service' = service
  PROVE  StreamInv'
<1>1. /\ worker = "sends" /\ c \in todo /\ peer[c] = "reading" /\ GoesOn(c, clients)
      /\ UNCHANGED <<published, outbound, clients, peer, joinedAt>>
      /\ got' = [got EXCEPT ![c] = IF Head(frames) = Line THEN @ ELSE Append(@, Head(frames))]
  BY DEF Sends
<1>2. Taken' = Taken /\ c \in clients /\ todo \ {c} \subseteq clients
  BY <1>1 DEF Taken, StreamInv, StreamTypes
<1>3. /\ frames' \in Seq(Nat) /\ Len(frames') <= Taken' + 1
      /\ worker' \in {"sends", "polls"} /\ todo' \subseteq clients
      /\ FramesInOrder'
      /\ \A d \in clients \ {c} : Lacks(d)' = Lacks(d)
      /\ Lacks(c)' = (IF Unsent = 0 THEN 0 ELSE Unsent - 1)
  BY <1>1, <1>2, GoesOnFrames
<1>4. /\ frames # <<>> /\ frames \in Seq(Nat) /\ Len(frames) = Unsent + 1
      /\ Unsent \in Nat /\ Taken \in Nat /\ Unsent <= Taken
      /\ frames[Len(frames)] = Line
      /\ \A i \in 1..Unsent : frames[i] = (Taken - Unsent) + i
  BY <1>1, NumbersOf DEF StreamInv, StreamTypes, FramesInOrder
<1>5. Head(frames) = frames[1]
  BY <1>4
<1>6. /\ got \in [Clients -> Seq(Nat)] /\ joinedAt \in [Clients -> Nat]
      /\ joinedAt[c] \in Nat /\ got[c] \in Seq(Nat) /\ Len(got[c]) \in Nat
      /\ \A i \in 1..Len(got[c]) : got[c][i] = joinedAt[c] + i
      /\ joinedAt[c] + Len(got[c]) = Taken - Unsent
  <2>1. got \in [Clients -> Seq(Nat)] /\ joinedAt \in [Clients -> Nat]
    BY DEF StreamInv, StreamTypes
  <2>2. got[c] \in Seq(Nat) /\ joinedAt[c] \in Nat /\ Len(got[c]) \in Nat
    BY <2>1, LenProperties
  <2>3. Lacks(c) = Unsent
    BY <1>1 DEF Lacks
  <2> QED BY <1>1, <1>2, <2>1, <2>2, <2>3 DEF StreamInv, GotInOrder
<1>7. /\ got' \in [Clients -> Seq(Nat)]
      /\ \A i \in 1..Len(got'[c]) : got'[c][i] = joinedAt[c] + i
      /\ joinedAt[c] + Len(got'[c]) = Taken - Lacks(c)'
  <2>1. CASE Unsent = 0
    <3>1. Head(frames) = Line
      BY <1>4, <1>5, <2>1
    <3>2. got' = got
      BY <1>1, <1>6, <3>1
    <3> QED BY <1>3, <1>6, <2>1, <3>2
  <2>2. CASE Unsent # 0
    <3>1. Head(frames) = (Taken - Unsent) + 1
      BY <1>4, <1>5, <2>2
    <3>2. Head(frames) # Line /\ Head(frames) \in Nat
      BY <1>4, <3>1 DEF Line
    <3>3. got'[c] = Append(got[c], Head(frames)) /\ got' = [got EXCEPT ![c] = got'[c]]
      BY <1>1, <1>6, <3>2
    <3>4. /\ got'[c] \in Seq(Nat) /\ Len(got'[c]) = Len(got[c]) + 1
          /\ \A i \in 1..Len(got[c]) : got'[c][i] = got[c][i]
          /\ got'[c][Len(got[c]) + 1] = Head(frames)
      BY <1>6, <3>2, <3>3, Appended
    <3>5. got' \in [Clients -> Seq(Nat)]
      BY <1>6, <3>3, <3>4
    <3>6. Head(frames) = joinedAt[c] + (Len(got[c]) + 1)
      BY <1>4, <1>6, <3>1
    <3>7. ASSUME NEW i \in 1..Len(got'[c]) PROVE got'[c][i] = joinedAt[c] + i
      <4>1. CASE i \in 1..Len(got[c])
        BY <1>6, <3>4, <4>1
      <4>2. CASE i = Len(got[c]) + 1
        BY <3>4, <3>6, <4>2
      <4> QED BY <1>6, <3>4, <4>1, <4>2
    <3>8. joinedAt[c] + Len(got'[c]) = Taken - Lacks(c)'
      BY <1>3, <1>4, <1>6, <2>2, <3>4
    <3> QED BY <3>5, <3>7, <3>8
  <2> QED BY <2>1, <2>2
<1>8. StreamTypes'
  BY <1>1, <1>2, <1>3, <1>7 DEF StreamInv, StreamTypes
<1>9. QueueInOrder'
  BY <1>1, <1>2 DEF StreamInv, QueueInOrder
<1>10. GotInOrder'
  <2> SUFFICES ASSUME NEW d \in clients
               PROVE  /\ \A i \in 1..Len(got'[d]) : got'[d][i] = joinedAt[d] + i
                      /\ peer[d] # "closed" =>
                           joinedAt[d] + Len(got'[d]) = Taken - Lacks(d)'
    BY <1>1, <1>2 DEF GotInOrder
  <2>1. CASE d = c
    BY <1>7, <2>1
  <2>2. CASE d # c
    <3>1. got'[d] = got[d] /\ Lacks(d)' = Lacks(d)
      BY <1>1, <1>3, <1>6, <2>2
    <3> QED BY <3>1 DEF StreamInv, GotInOrder
  <2> QED BY <2>1, <2>2
<1>11. service' = "new" => worker' = "none"
  BY <1>1 DEF StreamInv
<1> QED BY <1>3, <1>8, <1>9, <1>10, <1>11 DEF StreamInv

LEMMA SendsInVainStream ==
  ASSUME StreamInv, NEW c \in Clients, SendsInVain(c), service' = service
  PROVE  StreamInv'
<1>1. /\ worker = "sends" /\ c \in todo /\ peer[c] = "closed" /\ GoesOn(c, clients)
      /\ UNCHANGED <<published, outbound, clients, peer, got, joinedAt>>
  BY DEF SendsInVain
<1>2. Taken' = Taken /\ todo \ {c} \subseteq clients
  BY <1>1 DEF Taken, StreamInv, StreamTypes
<1>3. /\ frames' \in Seq(Nat) /\ Len(frames') <= Taken' + 1
      /\ worker' \in {"sends", "polls"} /\ todo' \subseteq clients
      /\ FramesInOrder'
      /\ \A d \in clients \ {c} : Lacks(d)' = Lacks(d)
  BY <1>1, <1>2, GoesOnFrames
<1>4. StreamTypes' /\ QueueInOrder'
  BY <1>1, <1>2, <1>3 DEF StreamInv, StreamTypes, QueueInOrder
<1>5. GotInOrder'
  BY <1>1, <1>2, <1>3 DEF StreamInv, GotInOrder
<1>6. service' = "new" => worker' = "none"
  BY <1>1 DEF StreamInv
<1> QED BY <1>3, <1>4, <1>5, <1>6 DEF StreamInv

\* A client that is dropped takes nothing from the others.
LEMMA SendFailsStream ==
  ASSUME StreamInv, NEW c \in Clients, SendFails(c), service' = service
  PROVE  StreamInv'
<1>1. /\ worker = "sends" /\ c \in todo /\ GoesOn(c, clients')
      /\ clients' = clients \ {c} /\ peer' = [peer EXCEPT ![c] = "away"]
      /\ UNCHANGED <<published, outbound, got, joinedAt>>
  BY DEF SendFails, Drops
<1>2. /\ Taken' = Taken /\ todo \ {c} \subseteq clients' /\ clients \subseteq Clients
      /\ peer \in [Clients -> Open \cup {"away", "asking"}]
      /\ \A d \in Clients : d \in clients <=> peer[d] \in Open
  BY <1>1 DEF Taken, StreamInv, StreamTypes
<1>3. /\ frames' \in Seq(Nat) /\ Len(frames') <= Taken' + 1
      /\ worker' \in {"sends", "polls"} /\ todo' \subseteq clients'
      /\ FramesInOrder'
      /\ \A d \in clients' \ {c} : Lacks(d)' = Lacks(d)
  BY <1>1, <1>2, GoesOnFrames
<1>4. /\ peer' \in [Clients -> Open \cup {"away", "asking"}]
      /\ \A d \in Clients : d \in clients' <=> peer'[d] \in Open
      /\ \A d \in clients' : d \in clients /\ d # c /\ peer'[d] = peer[d]
  BY <1>1, <1>2 DEF Open
<1>5. StreamTypes' /\ QueueInOrder'
  BY <1>1, <1>2, <1>3, <1>4 DEF StreamInv, StreamTypes, QueueInOrder
<1>6. GotInOrder'
  BY <1>1, <1>2, <1>3, <1>4 DEF StreamInv, GotInOrder
<1>7. service' = "new" => worker' = "none"
  BY <1>1 DEF StreamInv
<1> QED BY <1>3, <1>5, <1>6, <1>7 DEF StreamInv

LEMMA WorkerLeavesStream ==
  ASSUME StreamInv, WorkerLeaves, service' = service
  PROVE  StreamInv'
<1>1. /\ worker = "polls" /\ worker' = "joined" /\ clients' = {}
      /\ peer' = [c \in Clients |-> "away"]
      /\ UNCHANGED <<published, outbound, frames, todo, got, joinedAt>>
  BY DEF WorkerLeaves
<1>2. Taken' = Taken /\ Unsent' = Unsent /\ frames = <<>> /\ todo = {}
  BY <1>1 DEF Taken, Unsent, StreamInv, FramesInOrder
<1>3. StreamTypes'
  BY <1>1, <1>2 DEF StreamInv, StreamTypes, Open
<1>4. QueueInOrder' /\ FramesInOrder' /\ GotInOrder'
  BY <1>1, <1>2 DEF StreamInv, QueueInOrder, FramesInOrder, GotInOrder
<1>5. service' = "new" => worker' = "none"
  BY <1>1 DEF StreamInv
<1> QED BY <1>3, <1>4, <1>5 DEF StreamInv

LEMMA StreamWorksStream == StreamInv /\ StreamWorks => StreamInv'
  BY FlushesStream, WorkerLeavesStream, AcceptsStream, SendsStream, SendsInVainStream,
     SendFailsStream DEF StreamWorks, Work

-----------------------------------------------------------------------------
(* The service *)

LEMMA StartsStream == StreamInv /\ Starts => StreamInv'
<1> SUFFICES ASSUME StreamInv, Starts PROVE StreamInv'
  OBVIOUS
<1>1. /\ service = "new" /\ worker' \in {"polls", "none"} /\ service' # "new"
      /\ UNCHANGED <<published, outbound, clients, frames, todo, peer, got, joinedAt>>
  BY DEF Starts
<1>2. Taken' = Taken /\ Unsent' = Unsent /\ \A c : Lacks(c)' = Lacks(c)
  BY <1>1 DEF Taken, Unsent, Lacks
<1>3. frames = <<>>
  BY <1>1 DEF StreamInv, FramesInOrder
<1>4. FramesInOrder'
  BY <1>1, <1>2, <1>3 DEF StreamInv, FramesInOrder
<1>5. StreamTypes' /\ QueueInOrder' /\ GotInOrder'
  BY <1>1, <1>2 DEF StreamInv, StreamTypes, QueueInOrder, GotInOrder
<1> QED BY <1>1, <1>4, <1>5 DEF StreamInv

LEMMA ServiceStream == StreamInv /\ Service => StreamInv'
<1> SUFFICES ASSUME StreamInv, Service PROVE StreamInv'
  OBVIOUS
<1>1. CASE Starts
  BY <1>1, StartsStream
<1>2. CASE StartFails \/ Stops \/ StreamStopped
  BY <1>2, StreamRests DEF StartFails, Stops, StreamStopped
<1>3. CASE ServerStopped
  <2>1. UNCHANGED <<published, outbound, worker, clients, frames, todo, peer, got, joinedAt>>
    BY <1>3 DEF ServerStopped
  <2>2. service' # "new"
    BY <1>3 DEF ServerStopped
  <2>3. Taken' = Taken /\ Unsent' = Unsent /\ \A c : Lacks(c)' = Lacks(c)
    BY <2>1 DEF Taken, Unsent, Lacks
  <2> QED BY <2>1, <2>2, <2>3
          DEF StreamInv, StreamTypes, QueueInOrder, FramesInOrder, GotInOrder
<1> QED BY <1>1, <1>2, <1>3 DEF Service

LEMMA InitStream == Init => StreamInv
<1> SUFFICES ASSUME Init PROVE StreamInv
  OBVIOUS
<1>1. Taken = 0
  <2>1. published = 0 /\ Len(outbound) = 0
    BY DEF Init, StreamInit
  <2> QED BY <2>1 DEF Taken
<1>2. Unsent = 0
  BY DEF Init, StreamInit, Unsent
<1> USE DEF Init, StreamInit
<1>3. StreamTypes
  BY <1>1 DEF StreamTypes, Open
<1>4. QueueInOrder
  BY DEF QueueInOrder
<1>5. FramesInOrder
  BY <1>1, <1>2 DEF FramesInOrder
<1>6. GotInOrder
  BY DEF GotInOrder
<1> QED BY <1>3, <1>4, <1>5, <1>6 DEF StreamInv

LEMMA StreamStep == StreamInv /\ [Next]_vars => StreamInv'
<1> SUFFICES ASSUME StreamInv, [Next]_vars PROVE StreamInv'
  OBVIOUS
<1>1. CASE Receives \/ ServerWorks
  BY <1>1, StreamRests DEF Receives, ServerWorks
<1>2. CASE UNCHANGED vars
  BY <1>2, StreamRests DEF vars
<1> QED BY <1>1, <1>2, ServiceStream, RelayEventStream, StreamWorksStream, PeersMoveStream
        DEF Next

\* Whoever else comes, stands still, hangs up or is dropped, and whenever the service is
\* stopped: a client has the events from its accept on, each once and in order, between
\* flushes all of them but those still queued (TcpStatusPublisher::run).
THEOREM EventsComeInOrder == Spec => []EventsInOrder
<1>1. StreamInv => EventsInOrder
  <2> SUFFICES ASSUME StreamInv, NEW c \in clients
               PROVE  /\ \A i \in DOMAIN got[c] : got[c][i] = joinedAt[c] + i
                      /\ worker = "polls" /\ peer[c] # "closed" =>
                           joinedAt[c] + Len(got[c]) = Taken
    BY DEF EventsInOrder
  <2>1. got[c] \in Seq(Nat)
    BY DEF StreamInv, StreamTypes
  <2>2. DOMAIN got[c] = 1..Len(got[c])
    BY <2>1, LenProperties
  <2>3. worker = "polls" => Lacks(c) = 0
    BY DEF StreamInv, FramesInOrder, Lacks, Unsent
  <2>4. Taken - 0 = Taken
    BY NumbersOf
  <2> QED BY <2>2, <2>3, <2>4 DEF StreamInv, GotInOrder
<1> QED BY <1>1, InitStream, StreamStep, PTL DEF Spec
=============================================================================
