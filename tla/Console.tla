------------------------------ MODULE Console ------------------------------
(***************************************************************************)
(* The touch screen and the repeater across UDP: the request, reply and    *)
(* status handling of gui/main.cpp, the control server of                  *)
(* rpt/src/network_protocol.cpp, and what the main loop of rpt/src/main.cpp *)
(* publishes of the commands it carries out.                               *)
(*                                                                         *)
(* The screen sends a command and gets a reply that says it was queued.    *)
(* What became of it shows in the status stream, 200 ms apart, seconds     *)
(* later.  Until then the screen holds a confirmation: it shows the new    *)
(* channel already and waits for a status that agrees.  It gives up after  *)
(* a limit, and it asks for the stream again whenever that goes silent.    *)
(*                                                                         *)
(* Datagrams on the loopback stay in order; some are lost.  The repeater   *)
(* may crash and is started again.                                         *)
(***************************************************************************)
EXTENDS Integers, Sequences

CONSTANTS
  Profiles,      \* channel profiles
  FirstProfile,  \* the one the configuration file makes active
  NoProfile,     \* none shown yet
  StaleAfter,    \* kept up to so many ticks, a status is current
  RetryAfter,    \* ticks between two attempts to connect
  ReplyWithin,   \* ticks a reply may take
  ConfirmWithin, \* ticks a confirmation may take, the reply included
  Touches,       \* what the user may touch
  MaxCommands,   \* bound: commands the user gives
  MaxMishaps,    \* bound: datagrams lost, crashes, operations on the radio failed
  MaxBehind,     \* bound: status packets of the previous run after a restart
  NetCap         \* bound: datagrams waiting for the screen

ASSUME ProfilesAssumption == FirstProfile \in Profiles /\ NoProfile \notin Profiles
ASSUME LimitsAssumption ==
  /\ StaleAfter \in Nat /\ RetryAfter \in Nat /\ NetCap \in Nat \ {0}
  /\ ReplyWithin \in Nat /\ ConfirmWithin \in Nat /\ ReplyWithin <= ConfirmWithin
ASSUME BoundsAssumption ==
  /\ MaxCommands \in Nat /\ MaxMishaps \in Nat /\ MaxBehind \in Nat
ASSUME TouchesAssumption == Touches \subseteq {"forwarding", "channel"}

VARIABLES
  gui,      \* the screen's state: see Gui
  toServer, \* datagrams to the repeater
  toGui,    \* datagrams to the screen
  up,       \* the repeater: "down", "boot" while it opens the radio, "on"
  st,       \* NetworkRuntimeState, what a status tells: see Status
  radio,    \* whether the radio is open
  box,      \* NetworkCommandMailbox
  sub,      \* whether the screen is subscribed
  due,      \* the next packet of the stream is due
  behind,   \* status packets the screen takes for old ones after a restart
  asked,    \* number of commands given
  mishaps,  \* number of mishaps
  met       \* history: what the last start or stop asked for has been so since,
            \* or was told already by a status still under way

netVars == <<toServer, toGui>>
ownerVars == <<st, radio>>
serverVars == <<up, box, sub, due, behind>>
boundVars == <<asked, mishaps>>
vars == <<gui, netVars, ownerVars, serverVars, boundVars, met>>

Status == [profile : Profiles, fwd : BOOLEAN, running : BOOLEAN,
           fault : BOOLEAN, err : BOOLEAN]

NoSwitch == [phase |-> "none"]
NoForwarding == [phase |-> "none"]

\* A fresh process: forwarding is on, the radio not yet open.
Booting(p) == [profile |-> p, fwd |-> TRUE, running |-> FALSE,
               fault |-> FALSE, err |-> FALSE]

\* send_initial_queries; the reads of version, gain and calibration are
\* answered like the subscription and left to it.
InitialQueries == <<"get_status", "get_channel", "start_status_query">>
Query(op) == [op |-> op, id |-> 0]
Queries(ops) == [i \in DOMAIN ops |-> Query(ops[i])]

Init ==
  /\ gui = [profile |-> NoProfile, fwd |-> FALSE, running |-> FALSE,
            fault |-> FALSE, err |-> FALSE, known |-> FALSE, online |-> FALSE,
            silent |-> StaleAfter + 1, retry |-> 0,
            sw |-> NoSwitch, fw |-> NoForwarding, done |-> FALSE]
  /\ toServer = Queries(InitialQueries) /\ toGui = <<>>
  /\ up = "boot" /\ st = Booting(FirstProfile) /\ radio = FALSE
  /\ box = <<>> /\ sub = FALSE /\ due = FALSE /\ behind = 0
  /\ asked = 0 /\ mishaps = 0 /\ met = FALSE

-----------------------------------------------------------------------------
(* The screen: what a datagram does to its state *)

EvaluateSwitch(g) ==
  IF g.sw.phase = "accepted" /\ g.sw.confirmed
  THEN [g EXCEPT !.sw = NoSwitch]
  ELSE g

\* A status tells what a start or a stop asks for.
Tells(start, s) == IF start THEN s.fwd /\ s.running ELSE ~s.fwd /\ ~s.running
Reached(g) == Tells(g.fw.start, g)

\* Mutant: an error ends the wait, but is not told.
EvaluateForwardingBlind(g) ==
  IF g.fw.phase = "accepted" /\ g.known /\ (g.err \/ Reached(g))
  THEN [g EXCEPT !.fw = NoForwarding, !.done = TRUE]
  ELSE g

EvaluateForwarding(g) ==
  IF g.fw.phase = "accepted" /\ g.known /\ (g.err \/ Reached(g))
  THEN [g EXCEPT !.fw = NoForwarding, !.done = ~g.err]
  ELSE g

Evaluate(g) == EvaluateForwarding(EvaluateSwitch(g))

\* Mutant: the screen is only protected until the reply has come.
AwaitingReply(g, s) == g.sw.phase = "sent" /\ s.profile # g.sw.profile

\* While a switch is awaited a status with another channel is not shown,
\* unless there is an error or the wait was too long: then it has failed.
Awaiting(g, s) == g.sw.phase # "none" /\ s.profile # g.sw.profile
GivesUp(g, s) == s.err \/ g.sw.age > ConfirmWithin

AfterProfile(g, s) ==
  IF Awaiting(g, s)
  THEN IF GivesUp(g, s)
       THEN [g EXCEPT !.sw = NoSwitch, !.profile = s.profile]
       ELSE g
  ELSE [g EXCEPT !.profile = s.profile,
                 !.sw = IF @.phase = "none" THEN @ ELSE [@ EXCEPT !.confirmed = TRUE]]

UpdateRuntime(g, s) ==
  Evaluate([AfterProfile(g, s) EXCEPT !.fwd = s.fwd, !.running = s.running,
              !.fault = s.fault, !.err = s.err, !.known = TRUE])

\* A reply whose state is not the runtime's: it has no last_error.
UpdateOther(g) == Evaluate([g EXCEPT !.err = FALSE])

\* A switch that was accepted is shown before it happens.
AcceptSwitch(g) ==
  EvaluateSwitch([g EXCEPT !.sw.phase = "accepted", !.profile = g.sw.profile])
AcceptForwarding(g) == EvaluateForwarding([g EXCEPT !.fw.phase = "accepted"])

\* expire_pending_requests and expire_state_confirmations.
Late(wait) ==
  \/ wait.phase = "sent" /\ wait.age > ReplyWithin
  \/ wait.phase = "accepted" /\ wait.age > ConfirmWithin

ExpireSwitch(g) ==
  IF Late(g.sw) THEN [g EXCEPT !.sw = NoSwitch] ELSE g
ExpireForwarding(g) ==
  IF Late(g.fw) THEN [g EXCEPT !.fw = NoForwarding] ELSE g

\* Silence makes everything known about forwarding unknown ...
NoteSilence(g) ==
  LET stale == g.silent > StaleAfter
  IN  [g EXCEPT !.online = ~stale, !.known = @ /\ ~(stale /\ g.online)]

\* Mutant: only a screen that knew the repeater connects again.
ReconnectsKnown(g) == ~g.online /\ g.known /\ g.retry >= RetryAfter

\* ... and connects again.
Reconnects(g) == ~g.online /\ g.retry >= RetryAfter
Reconnect(g) == IF Reconnects(g) THEN [g EXCEPT !.retry = 0] ELSE g

-----------------------------------------------------------------------------
(* The screen: its loop, its user and its clock *)

Room == Len(toGui) < NetCap
Delivered(datagrams) == IF up = "down" THEN <<>> ELSE datagrams
SendAlso(datagrams) == toServer' = toServer \o Delivered(datagrams)

Fresh == [gui EXCEPT !.done = FALSE]

\* handle_network: a datagram is heard ...
Hear(kind) ==
  /\ toGui # <<>> /\ Head(toGui).kind = kind /\ toGui' = Tail(toGui)
  /\ UNCHANGED <<ownerVars, serverVars, boundVars, met>>

HearStream ==
  /\ Hear("stream") /\ UNCHANGED toServer
  /\ gui' = IF Head(toGui).new
            THEN UpdateRuntime([Fresh EXCEPT !.silent = 0, !.online = TRUE], Head(toGui).st)
            ELSE Fresh

HearStatus ==
  /\ Hear("status") /\ UNCHANGED toServer
  /\ gui' = UpdateRuntime(Fresh, Head(toGui).st)

HearChannel ==
  /\ Hear("channel") /\ UNCHANGED toServer
  /\ gui' = UpdateOther([Fresh EXCEPT !.profile = Head(toGui).profile])

HearOther ==
  /\ Hear("other") /\ UNCHANGED toServer
  /\ gui' = UpdateOther(Fresh)

\* A reply counts for the latest switch and the latest start or stop only.
Answers(reply, wait) == wait.phase = "sent" /\ wait.id = reply.id

HearReply ==
  /\ Hear("reply")
  /\ \/ /\ Answers(Head(toGui), gui.sw)
        /\ gui' = AcceptSwitch(Fresh) /\ SendAlso(Queries(<<"get_status">>))
     \/ /\ Answers(Head(toGui), gui.fw)
        /\ gui' = AcceptForwarding(Fresh) /\ UNCHANGED toServer
     \/ /\ ~Answers(Head(toGui), gui.sw) /\ ~Answers(Head(toGui), gui.fw)
        /\ gui' = Fresh /\ UNCHANGED toServer

Listen == HearStream \/ HearStatus \/ HearChannel \/ HearOther \/ HearReply

\* ... and, all that had arrived being heard, the limits are checked.
Turn ==
  LET g == NoteSilence(ExpireForwarding(ExpireSwitch(Fresh))) IN
  /\ gui' = Reconnect(g)
  /\ SendAlso(IF Reconnects(g) THEN Queries(InitialQueries) ELSE <<>>)
  /\ UNCHANGED <<toGui, ownerVars, serverVars, boundVars, met>>

\* controls_enabled: the stream is heard and no reply is missing, but for
\* those of switches.
ControlsEnabled == gui.online /\ gui.fw.phase # "sent"

Give(op, profile) ==
  /\ ControlsEnabled /\ asked < MaxCommands
  /\ asked' = asked + 1
  /\ SendAlso(<<[op |-> op, id |-> asked + 1, profile |-> profile]>>)
  /\ UNCHANGED <<toGui, ownerVars, serverVars, mishaps>>

\* The statuses on their way to the screen.
IsStatus(datagram) == datagram.kind \in {"stream", "status"}
UnderWay == {toGui[i].st : i \in {j \in DOMAIN toGui : IsStatus(toGui[j])}}

\* The forwarding button: it stops what runs, resets what is faulty.
TouchForwarding ==
  LET start == ~gui.fault /\ ~gui.fwd IN
  /\ "forwarding" \in Touches
  /\ Give(IF start THEN "start" ELSE "stop", NoProfile)
  /\ gui' = [Fresh EXCEPT
               !.fw = [phase |-> "sent", id |-> asked', start |-> start, age |-> 0]]
  /\ met' = (Tells(start, st) \/ Tells(start, gui) \/ \E s \in UnderWay : Tells(start, s))

TouchChannel(p) ==
  /\ "channel" \in Touches
  /\ Give("switch", p)
  /\ gui' = [Fresh EXCEPT
               !.sw = [phase |-> "sent", id |-> asked', profile |-> p,
                       confirmed |-> FALSE, age |-> 0]]
  /\ UNCHANGED met

Older(wait) ==
  IF wait.phase = "none" \/ wait.age > ConfirmWithin THEN wait
  ELSE [wait EXCEPT !.age = @ + 1]

\* A period of the stream passes: its packet has been sent, all requests are
\* answered, and what the screen has not heard yet is late.
Tick ==
  /\ toServer = <<>> /\ ~(due /\ sub)
  /\ gui' = [gui EXCEPT
       !.silent = IF @ > StaleAfter THEN @ ELSE @ + 1,
       !.retry = IF @ >= RetryAfter THEN @ ELSE @ + 1,
       !.sw = Older(@), !.fw = Older(@)]
  /\ due' = sub
  /\ UNCHANGED <<netVars, ownerVars, up, box, sub, behind, boundVars, met>>

-----------------------------------------------------------------------------
(* The repeater: the network thread *)

Answer(q) ==
  CASE q.op = "get_status"  -> [kind |-> "status", st |-> st]
    [] q.op = "get_channel" -> [kind |-> "channel", profile |-> st.profile]
    [] q.op = "start_status_query" -> [kind |-> "other"]
    [] OTHER -> [kind |-> "reply", id |-> q.id]

Commands(q) == IF q.op \in {"start", "stop", "switch"} THEN <<q>> ELSE <<>>

\* A subscription starts the period anew.
Subscribes(q) == q.op = "start_status_query"

Serve ==
  /\ up # "down" /\ toServer # <<>> /\ Room
  /\ LET q == Head(toServer) IN
     /\ toGui' = Append(toGui, Answer(q))
     /\ box' = box \o Commands(q)
     /\ sub' = (sub \/ Subscribes(q))
     /\ due' = (due /\ ~Subscribes(q))
  /\ toServer' = Tail(toServer)
  /\ UNCHANGED <<gui, ownerVars, up, behind, boundVars, met>>

\* A packet of the stream, numbered from one in each run of the repeater.
Numbered == behind = 0

SendStatus ==
  /\ up # "down" /\ sub /\ due /\ due' = FALSE
  /\ toServer = <<>> /\ Room
  /\ toGui' = Append(toGui, [kind |-> "stream", new |-> Numbered, st |-> st])
  /\ behind' = IF behind = 0 THEN 0 ELSE behind - 1
  /\ UNCHANGED <<gui, toServer, ownerVars, up, box, sub, boundVars, met>>

Network == Serve \/ SendStatus

-----------------------------------------------------------------------------
(* The repeater: its main loop, as far as a status tells *)

Running == [st EXCEPT !.fwd = TRUE, !.running = TRUE, !.fault = FALSE, !.err = FALSE]
Faulted == [st EXCEPT !.fwd = FALSE, !.running = FALSE, !.fault = TRUE, !.err = TRUE]
Stopped == [st EXCEPT !.fwd = FALSE, !.running = FALSE, !.fault = FALSE, !.err = FALSE]
Refused == [st EXCEPT !.err = TRUE]

Mishap == mishaps < MaxMishaps /\ mishaps' = mishaps + 1
Fails == Mishap /\ UNCHANGED asked
Works == UNCHANGED boundVars

\* The state that carries a start or a stop out, whatever a status tells.
Carried(start, s, open) == IF start THEN s.fwd /\ open ELSE ~s.fwd /\ ~open

NoteMet ==
  met' = (met \/ (gui.fw.phase # "none" /\ Carried(gui.fw.start, st', radio')))

Boot ==
  /\ up = "boot" /\ up' = "on"
  /\ \/ /\ Works /\ radio' = TRUE
        /\ st' = [st EXCEPT !.running = TRUE, !.fault = FALSE, !.err = FALSE]
     \/ /\ Fails /\ radio' = FALSE
        /\ st' = Faulted
  /\ NoteMet
  /\ UNCHANGED <<gui, netVars, box, sub, due, behind>>

Doing(op) ==
  /\ up = "on" /\ box # <<>> /\ Head(box).op = op
  /\ box' = Tail(box)
  /\ UNCHANGED <<gui, netVars, up, sub, due, behind>>

DoStart ==
  /\ Doing("start")
  /\ \/ /\ Works /\ radio' = TRUE
        /\ st' = Running
     \/ /\ Fails /\ ~radio /\ UNCHANGED radio
        /\ st' = Faulted
  /\ NoteMet

DoStop ==
  /\ Doing("stop") /\ Works
  /\ radio' = FALSE /\ st' = Stopped
  /\ NoteMet

\* Without a radio a switch is refused.  With one it succeeds, or the radio
\* goes back to the previous channel, or nothing is open any more.
DoSwitch ==
  /\ Doing("switch")
  /\ \/ /\ ~radio /\ Works
        /\ st' = Refused /\ UNCHANGED radio
     \/ /\ radio /\ Works
        /\ st' = [st EXCEPT !.profile = Head(box).profile, !.err = FALSE]
        /\ UNCHANGED radio
     \/ /\ radio /\ Fails
        /\ st' = Refused /\ radio' \in BOOLEAN
  /\ NoteMet

HealthFails ==
  /\ up = "on" /\ radio /\ Fails
  /\ radio' = FALSE /\ st' = Faulted
  /\ NoteMet
  /\ UNCHANGED <<gui, netVars, serverVars>>

Owner == Boot \/ DoStart \/ DoStop \/ DoSwitch

-----------------------------------------------------------------------------
(* The world *)

\* Datagrams to a process that is gone are gone.
Crash ==
  /\ up # "down" /\ Mishap
  /\ up' = "down" /\ radio' = FALSE
  /\ toServer' = <<>> /\ box' = <<>> /\ sub' = FALSE /\ due' = FALSE
  /\ UNCHANGED <<gui, toGui, st, behind, asked, met>>

\* The active channel is kept in the configuration file.
Restart ==
  /\ up = "down" /\ up' = "boot"
  /\ st' = Booting(st.profile)
  /\ behind' \in 0..MaxBehind
  /\ UNCHANGED <<gui, netVars, radio, box, sub, due, boundVars, met>>

Lose ==
  /\ Mishap
  /\ \/ /\ toServer # <<>> /\ toServer' = Tail(toServer)
        /\ UNCHANGED toGui
     \/ /\ toGui # <<>> /\ toGui' = Tail(toGui)
        /\ UNCHANGED toServer
  /\ UNCHANGED <<gui, ownerVars, serverVars, asked, met>>

Next ==
  \/ Listen \/ Turn \/ TouchForwarding \/ (\E p \in Profiles : TouchChannel(p)) \/ Tick
  \/ Network \/ Owner \/ HealthFails
  \/ Crash \/ Restart \/ Lose

Spec == Init /\ [][Next]_vars

\* Both loops run for ever, and a crashed repeater is started again.  Nothing
\* makes the user touch, or a radio or a process fail.
FairSpec ==
  /\ Spec
  /\ WF_vars(Listen) /\ WF_vars(Turn) /\ WF_vars(Tick)
  /\ WF_vars(Serve) /\ WF_vars(SendStatus) /\ WF_vars(Owner) /\ WF_vars(Restart)

-----------------------------------------------------------------------------
(* Properties *)

\* The screen says forwarding started or stopped only when that was so after it
\* was asked for, or the repeater had said so already in what the screen showed
\* or was about to hear: no failure, loss, crash or error that a reply without
\* one wipes out makes it say so of a command that was never carried out.
ForwardingVerdictIsTrue == gui.done => met

\* In the end, whatever was lost or failed, the screen shows the repeater's
\* channel and state and waits for nothing.
ScreenSettles ==
  <>[](/\ gui.profile = st.profile /\ gui.fwd = st.fwd
       /\ gui.running = st.running /\ gui.fault = st.fault
       /\ gui.sw = NoSwitch /\ gui.fw = NoForwarding)

Rollback ==
  /\ gui.sw.phase = "accepted" /\ \E i \in 1..Len(box) : box[i].id = gui.sw.id
  /\ gui.sw.age <= ConfirmWithin /\ radio /\ gui'.profile # gui.profile

\* With one command given and no mishap, an old status does not take the screen
\* back while the switch it shows is still to be carried out.  With a second
\* switch behind it, the failure of the first does.
NoRollbackUndisturbed == [][mishaps = 0 /\ asked = 1 => ~Rollback]_vars

=============================================================================
