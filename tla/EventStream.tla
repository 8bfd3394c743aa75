---------------------------- MODULE EventStream ----------------------------
(***************************************************************************)
(* The TCP event stream (TcpStatusPublisher): threads of the relay publish *)
(* events, one worker accepts clients and once a second sends every client *)
(* the events that came since, with blocking sends.                        *)
(*                                                                         *)
(* The signal windows and the status line of a flush are one frame without *)
(* an event.  A peer that does not read blocks the worker: the room its    *)
(* socket's buffers give is taken as used up.                              *)
(***************************************************************************)
EXTENDS Integers, Sequences, FiniteSets

CONSTANTS
  Clients,          \* peers of the stream
  Watched,          \* the clients EventsArrive follows: one will do, they are alike
  MaximumClients,   \* config.maximum_clients
  MaxEvents         \* bound: events published

ASSUME EventStreamAssumption ==
  Watched \subseteq Clients /\ MaximumClients \in Nat \ {0} /\ MaxEvents \in Nat

VARIABLES
  published,        \* number of events published so far (history); events are 1, 2, ...
  outbound,         \* outbound: events waiting for the next flush
  worker,           \* the thread: "none", "polls", "sends", "joined"
  stopping,         \* stopping
  clients,          \* clients
  frames,           \* frames of the flush under way still to be sent
  todo,             \* clients the first of them has not been sent to
  peer,             \* a client's own end of its connection
  got,              \* events a client received (history)
  joinedAt          \* events flushed before it was accepted (history)

streamVars == <<published, outbound, worker, stopping, clients, frames, todo, peer, got, joinedAt>>

Line == 0           \* a frame without an event

StreamInit ==
  /\ published = 0 /\ outbound = <<>>
  /\ worker = "none" /\ stopping = FALSE
  /\ clients = {} /\ frames = <<>> /\ todo = {}
  /\ peer = [c \in Clients |-> "away"]
  /\ got = [c \in Clients |-> <<>>]
  /\ joinedAt = [c \in Clients |-> 0]

(***************************************************************************)
(* The peers.                                                              *)
(***************************************************************************)
Dials(c) ==
  /\ peer[c] = "away" /\ worker \in {"polls", "sends"}
  /\ peer' = [peer EXCEPT ![c] = "asking"]
  /\ UNCHANGED <<published, outbound, worker, stopping, clients, frames, todo, got, joinedAt>>

Pauses(c) ==
  /\ peer[c] = "reading"
  /\ peer' = [peer EXCEPT ![c] = "paused"]
  /\ UNCHANGED <<published, outbound, worker, stopping, clients, frames, todo, got, joinedAt>>

Resumes(c) ==
  /\ peer[c] = "paused"
  /\ peer' = [peer EXCEPT ![c] = "reading"]
  /\ UNCHANGED <<published, outbound, worker, stopping, clients, frames, todo, got, joinedAt>>

HangsUp(c) ==
  /\ peer[c] \in {"reading", "paused"}
  /\ peer' = [peer EXCEPT ![c] = "closed"]
  /\ UNCHANGED <<published, outbound, worker, stopping, clients, frames, todo, got, joinedAt>>

(***************************************************************************)
(* publish_relay_event, called by the relay's threads.                     *)
(***************************************************************************)
Publishes ==
  /\ published < MaxEvents
  /\ published' = published + 1
  /\ outbound' = Append(outbound, published')
  /\ UNCHANGED <<worker, stopping, clients, frames, todo, peer, got, joinedAt>>

(***************************************************************************)
(* run: accept, flush, send.                                               *)
(***************************************************************************)
Polls == worker = "polls" /\ ~stopping

HasPlace == Cardinality(clients) < MaximumClients

\* The hello, which blocks like any send, is sent with the accept.
Accepts(c) ==
  /\ Polls /\ peer[c] = "asking"
  /\ IF HasPlace
     THEN /\ clients' = clients \cup {c}
          /\ peer' = [peer EXCEPT ![c] = "reading"]
          /\ got' = [got EXCEPT ![c] = <<>>]
          /\ joinedAt' = [joinedAt EXCEPT ![c] = published - Len(outbound)]
     ELSE /\ peer' = [peer EXCEPT ![c] = "away"]
          /\ UNCHANGED <<clients, got, joinedAt>>
  /\ UNCHANGED <<published, outbound, worker, stopping, frames, todo>>

\* Mutant: the events taken are left in the queue.
FlushesKeeping ==
  /\ Polls /\ clients # {}
  /\ worker' = "sends" /\ frames' = Append(outbound, Line) /\ todo' = clients
  /\ UNCHANGED <<published, outbound, stopping, clients, peer, got, joinedAt>>

\* The second is over: the events are taken under the mutex.
Flushes ==
  /\ Polls
  /\ outbound' = <<>>
  /\ IF clients = {}
     THEN UNCHANGED <<worker, frames, todo>>
     ELSE /\ worker' = "sends"
          /\ frames' = Append(outbound, Line)
          /\ todo' = clients
  /\ UNCHANGED <<published, stopping, clients, peer, got, joinedAt>>

\* The client c has been dealt with; those in keep get the frames that follow.
GoesOn(c, keep) ==
  IF todo \ {c} # {}
  THEN todo' = todo \ {c} /\ UNCHANGED <<frames, worker>>
  ELSE /\ frames' = IF keep = {} THEN <<>> ELSE Tail(frames)
       /\ todo' = IF frames' = <<>> THEN {} ELSE keep
       /\ worker' = IF frames' = <<>> THEN "polls" ELSE "sends"

Sends(c) ==
  /\ worker = "sends" /\ c \in todo /\ peer[c] = "reading"
  /\ got' = [got EXCEPT ![c] = IF Head(frames) = Line THEN @ ELSE Append(@, Head(frames))]
  /\ GoesOn(c, clients)
  /\ UNCHANGED <<published, outbound, stopping, clients, peer, joinedAt>>

\* A send to a peer that has hung up may still succeed, for nothing.
SendsInVain(c) ==
  /\ worker = "sends" /\ c \in todo /\ peer[c] = "closed"
  /\ GoesOn(c, clients)
  /\ UNCHANGED <<published, outbound, stopping, clients, peer, got, joinedAt>>

\* Mutant: a failure gives up the frame.
DropsAbandoning(c) ==
  /\ clients' = clients \ {c}
  /\ peer' = [peer EXCEPT ![c] = "away"]
  /\ frames' = Tail(frames)
  /\ todo' = IF frames' = <<>> THEN {} ELSE clients'
  /\ worker' = IF todo' = {} THEN "polls" ELSE "sends"

\* A failed send closes the client and drops it from the list.
Drops(c) ==
  /\ clients' = clients \ {c}
  /\ peer' = [peer EXCEPT ![c] = "away"]
  /\ GoesOn(c, clients')

SendFails(c) ==
  /\ worker = "sends" /\ c \in todo /\ peer[c] = "closed"
  /\ Drops(c)
  /\ UNCHANGED <<published, outbound, stopping, got, joinedAt>>

\* stop sets the flag; the worker sees it at the top of its loop, is joined, and
\* only then are the clients' sockets shut down.
LeavesAlone == stopping /\ clients = {}      \* mutant: the worker waits for its clients
Leaves == stopping

WorkerLeaves ==
  /\ worker = "polls" /\ Leaves
  /\ worker' = "joined"
  /\ clients' = {}
  /\ peer' = [c \in Clients |-> "away"]
  /\ UNCHANGED <<published, outbound, stopping, frames, todo, got, joinedAt>>

Work ==
  \/ Flushes \/ WorkerLeaves
  \/ \E c \in Clients : Accepts(c) \/ Sends(c) \/ SendsInVain(c) \/ SendFails(c)

PeerMoves(c) == Dials(c) \/ Pauses(c) \/ Resumes(c) \/ HangsUp(c)

(***************************************************************************)
(* Properties.                                                             *)
(***************************************************************************)
\* What a client has received are the events from its accept on, each once and in
\* order, whoever else came, stood still or was dropped in the middle of a flush;
\* between flushes it has all of them but those still queued, unless it hung up.
Taken == published - Len(outbound)

EventsInOrder ==
  \A c \in clients :
    /\ \A i \in DOMAIN got[c] : got[c][i] = joinedAt[c] + i
    /\ worker = "polls" /\ peer[c] # "closed" => joinedAt[c] + Len(got[c]) = Taken

\* Unless it leaves or the stream is stopped, a client gets every event published
\* after its accept, each once and in order, whatever becomes of the others.
EventsArrive ==
  \A c \in Watched, e \in 1 .. MaxEvents :
    (c \in clients /\ joinedAt[c] < e /\ e <= published)
      ~> \/ c \notin clients \/ peer[c] = "closed" \/ stopping
         \/ /\ Len(got[c]) >= e - joinedAt[c]
            /\ \A i \in 1 .. e - joinedAt[c] : got[c][i] = joinedAt[c] + i
=============================================================================
