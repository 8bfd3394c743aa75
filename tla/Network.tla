------------------------------ MODULE Network ------------------------------
(***************************************************************************)
(* The network service (NetworkControlService): the TCP event stream and   *)
(* the UDP status server, started and stopped together, and both fed with  *)
(* the relay's events.                                                     *)
(***************************************************************************)
EXTENDS EventStream, StatusServer

CONSTANT
  Worlds           \* configurations and what goes on: [tcp, udp, events, receivers]

ASSUME WorldsAssumption ==
  Worlds \subseteq [tcp : BOOLEAN, udp : BOOLEAN, events : BOOLEAN, receivers : BOOLEAN]

VARIABLES
  world,           \* tcp_status.enabled, udp_control.enabled, and the bounds of the instance
  service          \* "new", "up", "stopsUdp", "stopsTcp", "down"

vars == <<streamVars, statusVars, world, service>>

Init ==
  /\ StreamInit /\ StatusInit
  /\ world \in Worlds
  /\ service = "new"

\* start.  When the UDP socket cannot be bound the publisher is stopped again.
Starts ==
  /\ service = "new"
  /\ worker' = IF world.tcp THEN "polls" ELSE "none"
  /\ \/ /\ server' = IF world.udp THEN "runs" ELSE "none"
        /\ service' = "up"
        /\ UNCHANGED stopping
     \/ /\ world.udp
        /\ service' = "stopsTcp" /\ stopping' = TRUE
        /\ UNCHANGED server
  /\ UNCHANGED <<published, outbound, clients, frames, todo, peer, got, joinedAt,
                 radio, carrier, decoded, inCall, statuses, listener, packet, world>>

\* The TCP socket cannot be bound: nothing was started.
StartFails ==
  /\ service = "new" /\ world.tcp
  /\ service' = "down"
  /\ UNCHANGED <<streamVars, statusVars, world>>

\* stop, after the radio is closed: first the server, then the publisher.
Stops ==
  /\ service = "up" /\ ~radio
  /\ service' = "stopsUdp"
  /\ server' = IF server = "runs" THEN "stopping" ELSE server
  /\ UNCHANGED <<streamVars, radio, carrier, decoded, inCall, statuses, listener,
                 packet, world>>

ServerStopped ==
  /\ service = "stopsUdp" /\ server \in {"none", "joined"}
  /\ service' = "stopsTcp"
  /\ stopping' = TRUE
  /\ UNCHANGED <<published, outbound, worker, clients, frames, todo, peer, got, joinedAt,
                 statusVars, world>>

StreamStopped ==
  /\ service = "stopsTcp" /\ worker \in {"none", "joined"}
  /\ service' = "down"
  /\ UNCHANGED <<streamVars, statusVars, world>>

Service == Starts \/ StartFails \/ Stops \/ ServerStopped \/ StreamStopped

\* publish_relay_event, also while the stream is not configured.
RelayEvent ==
  /\ world.events /\ service = "up" /\ Publishes
  /\ UNCHANGED <<statusVars, world, service>>

StreamFlushes == Flushes /\ UNCHANGED <<statusVars, world, service>>

StreamWorks == Work /\ UNCHANGED <<statusVars, world, service>>

PeersMove == (\E c \in Clients : PeerMoves(c)) /\ UNCHANGED <<statusVars, world, service>>

Receives ==
  /\ world.receivers /\ service = "up"
  /\ \/ Radio
     \/ \E r \in Receivers : Monitors(r) \/ CallReported(r) \/ CallOver(r) \/ Ages(r)
  /\ UNCHANGED <<streamVars, world, service>>

ServerWorks ==
  /\ Requests \/ StatusSent \/ ServerLeaves
  /\ UNCHANGED <<streamVars, world, service>>

Next ==
  \/ Service \/ RelayEvent \/ StreamWorks \/ PeersMove \/ Receives \/ ServerWorks

Spec == Init /\ [][Next]_vars

(***************************************************************************)
(* The threads run, the monitors report, time passes, and a client that    *)
(* stopped reading reads on or hangs up one day: without that a blocked    *)
(* send holds the stream, and stop(), for ever.  (A blocked send returns   *)
(* when the client reads, however often it stops again.  Each round of   *)
(* the worker accepts at most one client before it looks at the clock.)    *)
(***************************************************************************)
Alone(A) == A /\ UNCHANGED <<streamVars, world, service>>

FairSpec ==
  /\ Spec
  /\ SF_vars(StreamWorks) /\ SF_vars(StreamFlushes)
  /\ WF_vars(ServerStopped) /\ WF_vars(StreamStopped)
  /\ WF_vars(Alone(ServerLeaves)) /\ WF_vars(Alone(StatusSent))
  /\ \A r \in Receivers :
       /\ WF_vars(Alone(Monitors(r))) /\ WF_vars(Alone(CallReported(r)))
       /\ WF_vars(Alone(Ages(r)))
  /\ \A c \in Clients :
       WF_vars((Resumes(c) \/ (peer[c] = "paused" /\ HangsUp(c)))
               /\ UNCHANGED <<statusVars, world, service>>)

\* A stop is carried out: no client holds the service open, and a start that
\* failed half way leaves no thread behind.
StopsInTheEnd ==
  (service \notin {"new", "up"})
    ~> (service = "down" /\ worker \in {"none", "joined"} /\ clients = {})
=============================================================================
