---------------------------- MODULE ConsoleProofs ----------------------------
(***************************************************************************)
(* What the touch screen says of a start or a stop, for any number of      *)
(* commands, losses, crashes and failures, and any limits and buffers; and *)
(* the channel it shows while a switch undisturbed is still to be done.    *)
(***************************************************************************)
EXTENDS Console, TLAPS, SequenceTheorems, FiniteSetTheorems

Command == [op : {"start", "stop"}, id : Nat, profile : {NoProfile}]
             \cup [op : {"switch"}, id : Nat, profile : Profiles]
Request == Command \cup [op : {"get_status", "get_channel", "start_status_query"}, id : {0}]
Datagram == [kind : {"stream"}, new : BOOLEAN, st : Status] \cup [kind : {"status"}, st : Status]
              \cup [kind : {"channel"}, profile : Profiles] \cup [kind : {"other"}]
              \cup [kind : {"reply"}, id : Nat]

\* A wait for a start or a stop, and the screen as far as it takes part in one.
Waiting(w) == w.phase # "none"
IsWait(w) ==
  \/ w = NoForwarding
  \/ w = [phase |-> w.phase, id |-> w.id, start |-> w.start, age |-> w.age]
     /\ w.phase \in {"sent", "accepted"} /\ w.start \in BOOLEAN
Shown == {"profile", "fwd", "running", "fault", "err", "known", "online", "silent",
          "retry", "sw", "fw", "done"}
IsScreen(g) ==
  /\ g = [x \in Shown |-> g[x]]
  /\ g.fwd \in BOOLEAN /\ g.running \in BOOLEAN /\ g.err \in BOOLEAN /\ g.fault \in BOOLEAN
  /\ g.known \in BOOLEAN /\ g.done \in BOOLEAN /\ IsWait(g.fw)

ConsoleTypes ==
  /\ IsScreen(gui) /\ met \in BOOLEAN /\ radio \in BOOLEAN /\ asked \in Nat
  /\ toServer \in Seq(Request) /\ toGui \in Seq(Datagram) /\ box \in Seq(Command)
  /\ st \in Status

\* The inductive invariant's heart: what the screen waits for and has not been
\* met is told by nothing, neither the repeater nor a status under way nor what
\* the screen shows.
NotTold ==
  Waiting(gui.fw) /\ ~met =>
    /\ ~Tells(gui.fw.start, st) /\ ~Tells(gui.fw.start, gui)
    /\ \A s \in UnderWay : ~Tells(gui.fw.start, s)

VerdictInv == ConsoleTypes /\ NotTold /\ ForwardingVerdictIsTrue

-----------------------------------------------------------------------------
(* Datagrams *)

LEMMA StatusIs ==
  ASSUME NEW s \in Status
  PROVE  /\ s.profile \in Profiles /\ s.fwd \in BOOLEAN /\ s.running \in BOOLEAN
         /\ s.fault \in BOOLEAN /\ s.err \in BOOLEAN
  BY DEF Status

LEMMA DatagramIs ==
  ASSUME NEW d \in Datagram
  PROVE  /\ IsStatus(d) => d.st \in Status
         /\ d.kind \in {"stream", "status", "channel", "other", "reply"}
         /\ d.kind = "stream" => d.new \in BOOLEAN
  BY DEF Datagram, IsStatus

LEMMA RequestIs ==
  ASSUME NEW q \in Request
  PROVE  q.id \in Nat /\ (q.op \in {"start", "stop", "switch"} => q \in Command)
  BY DEF Request, Command

\* A datagram heard was under way, and nothing comes to be.
LEMMA HeardIs ==
  ASSUME toGui \in Seq(Datagram), toGui # <<>>, toGui' = Tail(toGui)
  PROVE  /\ Head(toGui) \in Datagram /\ toGui' \in Seq(Datagram)
         /\ UnderWay' \subseteq UnderWay
         /\ IsStatus(Head(toGui)) => Head(toGui).st \in UnderWay
<1>1. /\ Head(toGui) = toGui[1] /\ Len(toGui) \in Nat \ {0}
      /\ Tail(toGui) \in Seq(Datagram) /\ Len(Tail(toGui)) = Len(toGui) - 1
      /\ \A i \in 1..Len(Tail(toGui)) : Tail(toGui)[i] = toGui[i + 1]
      /\ Head(toGui) \in Datagram
  BY HeadTailProperties, EmptySeq
<1>2. DOMAIN toGui = 1..Len(toGui) /\ DOMAIN Tail(toGui) = 1..Len(Tail(toGui))
  BY <1>1, LenProperties
<1>3. \A i \in 1..Len(Tail(toGui)) : i + 1 \in 1..Len(toGui)
  BY <1>1
<1>4. UnderWay' = {Tail(toGui)[i].st : i \in {j \in 1..Len(Tail(toGui)) : IsStatus(Tail(toGui)[j])}}
  BY <1>2 DEF UnderWay, IsStatus
<1>5. UnderWay = {toGui[i].st : i \in {j \in 1..Len(toGui) : IsStatus(toGui[j])}}
  BY <1>2 DEF UnderWay
<1>6. UnderWay' \subseteq UnderWay
  BY <1>1, <1>3, <1>4, <1>5
<1>7. IsStatus(Head(toGui)) => Head(toGui).st \in UnderWay
  BY <1>1, <1>5
<1> QED BY <1>1, <1>6, <1>7

\* A datagram sent puts no status under way but its own.
LEMMA SentIs ==
  ASSUME toGui \in Seq(Datagram), NEW d \in Datagram, toGui' = Append(toGui, d)
  PROVE  /\ toGui' \in Seq(Datagram)
         /\ \A s \in UnderWay' : s \in UnderWay \/ (IsStatus(d) /\ s = d.st)
<1>1. /\ Append(toGui, d) \in Seq(Datagram) /\ Len(toGui) \in Nat
      /\ Len(Append(toGui, d)) = Len(toGui) + 1
      /\ \A i \in 1..Len(toGui) : Append(toGui, d)[i] = toGui[i]
      /\ Append(toGui, d)[Len(toGui) + 1] = d
  BY AppendProperties
<1>2. DOMAIN toGui = 1..Len(toGui) /\ DOMAIN Append(toGui, d) = 1..(Len(toGui) + 1)
  BY <1>1, LenProperties
<1>3. UnderWay' = {Append(toGui, d)[i].st :
                     i \in {j \in 1..(Len(toGui) + 1) : IsStatus(Append(toGui, d)[j])}}
  BY <1>2 DEF UnderWay, IsStatus
<1>4. UnderWay = {toGui[i].st : i \in {j \in 1..Len(toGui) : IsStatus(toGui[j])}}
  BY <1>2 DEF UnderWay
<1>5. ASSUME NEW s \in UnderWay' PROVE s \in UnderWay \/ (IsStatus(d) /\ s = d.st)
  <2>1. PICK i \in 1..(Len(toGui) + 1) :
          IsStatus(Append(toGui, d)[i]) /\ s = Append(toGui, d)[i].st
    BY <1>3
  <2>2. i \in 1..Len(toGui) \/ i = Len(toGui) + 1
    BY <1>1
  <2> QED BY <1>1, <1>4, <2>1, <2>2
<1> QED BY <1>1, <1>5

-----------------------------------------------------------------------------
(* What the screen's functions do to a wait *)

\* What the screen does without a new status, and when it hears one: the wait is
\* kept or ended, and called done only if what it shows was asked for.
Keeps(g, h) ==
  /\ IsScreen(h) /\ h.fwd = g.fwd /\ h.running = g.running
  /\ h.fw = g.fw \/ h.fw = NoForwarding
  /\ h.done => g.done \/ (Waiting(g.fw) /\ Reached(g))

LEMMA WaitIs ==
  ASSUME NEW w, IsWait(w), w.phase # "none"
  PROVE  /\ w.start \in BOOLEAN /\ w.phase \in {"sent", "accepted"}
         /\ w = [phase |-> w.phase, id |-> w.id, start |-> w.start, age |-> w.age]
  BY DEF IsWait, NoForwarding

LEMMA NoWait == IsWait(NoForwarding) /\ ~Waiting(NoForwarding)
  BY DEF IsWait, Waiting, NoForwarding

LEMMA EvaluateForwardingKeeps ==
  ASSUME NEW g, IsScreen(g)
  PROVE  Keeps(g, EvaluateForwarding(g))
<1>1. CASE g.fw.phase = "accepted" /\ g.known /\ (g.err \/ Reached(g))
  <2> DEFINE h == [g EXCEPT !.fw = NoForwarding, !.done = ~g.err]
  <2>1. EvaluateForwarding(g) = h
    BY <1>1 DEF EvaluateForwarding
  <2>2. PICK b \in BOOLEAN : b = ~g.err
    OBVIOUS
  <2>3. h = [g EXCEPT !.fw = NoForwarding, !.done = b]
    BY <2>2
  <2> HIDE DEF h
  <2>4. IsScreen(h) /\ h.fwd = g.fwd /\ h.running = g.running /\ h.fw = NoForwarding
        /\ h.done = b
    BY <2>3, NoWait DEF IsScreen, Shown
  <2>5. Waiting(g.fw)
    BY <1>1 DEF Waiting
  <2> QED BY <1>1, <2>1, <2>2, <2>4, <2>5 DEF Keeps
<1>2. CASE ~(g.fw.phase = "accepted" /\ g.known /\ (g.err \/ Reached(g)))
  BY <1>2 DEF EvaluateForwarding, Keeps
<1> QED BY <1>1, <1>2

LEMMA EvaluateSwitchKeeps ==
  ASSUME NEW g, IsScreen(g)
  PROVE  /\ IsScreen(EvaluateSwitch(g)) /\ EvaluateSwitch(g).fwd = g.fwd
         /\ EvaluateSwitch(g).running = g.running /\ EvaluateSwitch(g).fw = g.fw
         /\ EvaluateSwitch(g).done = g.done
  BY DEF EvaluateSwitch, IsScreen, Shown

LEMMA EvaluateKeeps ==
  ASSUME NEW g, IsScreen(g)
  PROVE  Keeps(g, Evaluate(g))
<1> DEFINE e == EvaluateSwitch(g)
<1>1. IsScreen(e) /\ e.fwd = g.fwd /\ e.running = g.running /\ e.fw = g.fw /\ e.done = g.done
  BY EvaluateSwitchKeeps
<1> HIDE DEF e
<1>2. Keeps(e, EvaluateForwarding(e)) /\ (Reached(e) <=> Reached(g))
  BY <1>1, EvaluateForwardingKeeps DEF Reached, Tells
<1>3. Keeps(g, EvaluateForwarding(e))
  BY <1>1, <1>2 DEF Keeps
<1> QED BY <1>3 DEF Evaluate, e

LEMMA UpdateOtherKeeps ==
  ASSUME NEW g, IsScreen(g)
  PROVE  Keeps(g, UpdateOther(g))
<1> DEFINE e == [g EXCEPT !.err = FALSE]
<1>1. IsScreen(e) /\ e.fwd = g.fwd /\ e.running = g.running /\ e.fw = g.fw /\ e.done = g.done
  BY DEF IsScreen, Shown
<1> HIDE DEF e
<1>2. Keeps(e, Evaluate(e)) /\ (Reached(e) <=> Reached(g))
  BY <1>1, EvaluateKeeps DEF Reached, Tells
<1>3. Keeps(g, Evaluate(e))
  BY <1>1, <1>2 DEF Keeps
<1> QED BY <1>3 DEF UpdateOther, e

\* A status heard is what the screen shows.
LEMMA UpdateRuntimeShows ==
  ASSUME NEW g, IsScreen(g), NEW s \in Status
  PROVE  LET h == UpdateRuntime(g, s) IN
         /\ IsScreen(h) /\ h.fwd = s.fwd /\ h.running = s.running
         /\ h.fw = g.fw \/ h.fw = NoForwarding
         /\ h.done => g.done \/ (Waiting(g.fw) /\ Tells(g.fw.start, s))
<1> DEFINE a == AfterProfile(g, s)
           e == [a EXCEPT !.fwd = s.fwd, !.running = s.running,
                          !.fault = s.fault, !.err = s.err, !.known = TRUE]
<1>1. IsScreen(a) /\ a.fw = g.fw /\ a.done = g.done
  <2>1. CASE Awaiting(g, s)
    BY <2>1 DEF AfterProfile, IsScreen, Shown
  <2>2. CASE ~Awaiting(g, s)
    <3> DEFINE w == IF g.sw.phase = "none" THEN g.sw ELSE [g.sw EXCEPT !.confirmed = TRUE]
    <3>1. a = [g EXCEPT !.profile = s.profile, !.sw = w]
      BY <2>2 DEF AfterProfile
    <3> HIDE DEF w, a
    <3> QED BY <3>1 DEF IsScreen, Shown
  <2> QED BY <2>1, <2>2
<1> HIDE DEF a
<1>2. /\ IsScreen(e) /\ e.fwd = s.fwd /\ e.running = s.running
      /\ e.fw = g.fw /\ e.done = g.done
  BY <1>1, StatusIs DEF IsScreen, Shown
<1> HIDE DEF e
<1>3. Keeps(e, Evaluate(e)) /\ (Reached(e) <=> Tells(g.fw.start, s))
  BY <1>2, EvaluateKeeps DEF Reached, Tells
<1>4. UpdateRuntime(g, s) = Evaluate(e)
  BY DEF UpdateRuntime, e, a
<1> QED BY <1>2, <1>3, <1>4 DEF Keeps

LEMMA AcceptForwardingKeeps ==
  ASSUME NEW g, IsScreen(g), Waiting(g.fw)
  PROVE  LET h == AcceptForwarding(g) IN
         /\ IsScreen(h) /\ h.fwd = g.fwd /\ h.running = g.running
         /\ h.fw = NoForwarding \/ (Waiting(h.fw) /\ h.fw.start = g.fw.start)
         /\ h.done => g.done \/ Reached(g)
<1> DEFINE w == [g.fw EXCEPT !.phase = "accepted"]
           e == [g EXCEPT !.fw = w]
<1>1. IsWait(w) /\ w.start = g.fw.start /\ Waiting(w)
  <2>1. /\ g.fw = [phase |-> g.fw.phase, id |-> g.fw.id, start |-> g.fw.start, age |-> g.fw.age]
        /\ g.fw.start \in BOOLEAN
    BY WaitIs DEF IsScreen, Waiting
  <2>2. w = [phase |-> "accepted", id |-> g.fw.id, start |-> g.fw.start, age |-> g.fw.age]
    BY <2>1
  <2> HIDE DEF w
  <2> QED BY <2>1, <2>2 DEF IsWait, Waiting
<1> HIDE DEF w
<1>2. IsScreen(e) /\ e.fwd = g.fwd /\ e.running = g.running /\ e.fw = w /\ e.done = g.done
  BY <1>1 DEF IsScreen, Shown
<1>3. AcceptForwarding(g) = EvaluateForwarding(e)
  BY DEF AcceptForwarding, e, w
<1> HIDE DEF e
<1>4. Keeps(e, EvaluateForwarding(e)) /\ (Reached(e) <=> Reached(g))
  BY <1>1, <1>2, EvaluateForwardingKeeps DEF Reached, Tells
<1> QED BY <1>1, <1>2, <1>3, <1>4 DEF Keeps

LEMMA FreshIs ==
  ASSUME IsScreen(gui)
  PROVE  /\ IsScreen(Fresh) /\ Fresh.fwd = gui.fwd /\ Fresh.running = gui.running
         /\ Fresh.fw = gui.fw /\ Fresh.done = FALSE /\ (Reached(Fresh) <=> Reached(gui))
<1>1. /\ IsScreen(Fresh) /\ Fresh.fwd = gui.fwd /\ Fresh.running = gui.running
      /\ Fresh.fw = gui.fw /\ Fresh.done = FALSE
  BY DEF Fresh, IsScreen, Shown
<1> QED BY <1>1 DEF Reached, Tells

-----------------------------------------------------------------------------
(* Requests and the screen's steps *)

LEMMA SentAlsoIs ==
  ASSUME toServer \in Seq(Request), NEW sent \in Seq(Request), SendAlso(sent)
  PROVE  toServer' \in Seq(Request)
<1>1. Delivered(sent) \in Seq(Request)
  BY EmptySeq DEF Delivered
<1> QED BY <1>1, ConcatProperties DEF SendAlso

LEMMA QueriesAre ==
  /\ Queries(<<"get_status">>) \in Seq(Request)
  /\ Queries(InitialQueries) \in Seq(Request)
  /\ Queries(<<>>) \in Seq(Request)
<1>1. \A op \in {"get_status", "get_channel", "start_status_query"} : Query(op) \in Request
  BY DEF Query, Request
<1>2. Queries(<<"get_status">>) \in [1..1 -> Request]
  BY <1>1 DEF Queries
<1>3. Queries(InitialQueries) \in [1..3 -> Request]
  BY <1>1 DEF Queries, InitialQueries
<1>4. Queries(<<>>) \in [1..0 -> Request]
  BY DEF Queries
<1>5. 0 \in Nat /\ 1 \in Nat /\ 3 \in Nat
  OBVIOUS
<1> QED BY <1>2, <1>3, <1>4, <1>5, SeqDef, ZenonT(60)

\* A step of the screen that asks for nothing: what it shows it showed before or
\* was under way, and so it is with what it calls done.
Told(start) == \E s \in UnderWay \cup {st, gui} : Tells(start, s)

LEMMA ScreenKeeps ==
  ASSUME VerdictInv, UNCHANGED <<st, radio, box, met, asked>>,
         toServer' \in Seq(Request), toGui' \in Seq(Datagram), UnderWay' \subseteq UnderWay,
         IsScreen(gui)',
         \/ gui'.fw \in {gui.fw, NoForwarding}
         \/ Waiting(gui.fw) /\ gui'.fw.start = gui.fw.start,
         \A start \in BOOLEAN : Tells(start, gui') => Told(start),
         gui'.done => gui.done \/ (Waiting(gui.fw) /\ Told(gui.fw.start))
  PROVE  VerdictInv'
<1>1. Waiting(gui.fw) => gui.fw.start \in BOOLEAN
  BY WaitIs DEF VerdictInv, ConsoleTypes, IsScreen, Waiting
<1>2. Waiting(gui.fw) /\ ~met => ~Told(gui.fw.start)
  BY DEF VerdictInv, NotTold, Told
<1>3. ForwardingVerdictIsTrue'
  BY <1>2 DEF VerdictInv, ForwardingVerdictIsTrue
<1>4. NotTold'
  <2> SUFFICES ASSUME Waiting(gui'.fw), ~met
               PROVE  /\ ~Tells(gui'.fw.start, st) /\ ~Tells(gui'.fw.start, gui')
                      /\ \A s \in UnderWay' : ~Tells(gui'.fw.start, s)
    BY DEF NotTold, Tells, Waiting
  <2>1. Waiting(gui.fw) /\ gui'.fw.start = gui.fw.start
    BY NoWait
  <2> QED BY <1>1, <1>2, <2>1 DEF Told
<1>5. ConsoleTypes'
  BY DEF VerdictInv, ConsoleTypes
<1> QED BY <1>3, <1>4, <1>5 DEF VerdictInv

LEMMA InvIs ==
  ASSUME VerdictInv
  PROVE  /\ IsScreen(gui) /\ toServer \in Seq(Request) /\ toGui \in Seq(Datagram)
         /\ asked \in Nat /\ box \in Seq(Command) /\ st \in Status /\ radio \in BOOLEAN
         /\ \A start \in BOOLEAN : /\ Tells(start, Fresh) <=> Tells(start, gui)
                                   /\ Tells(start, gui) => Told(start)
<1>1. /\ IsScreen(gui) /\ toServer \in Seq(Request) /\ toGui \in Seq(Datagram)
      /\ asked \in Nat /\ box \in Seq(Command) /\ st \in Status /\ radio \in BOOLEAN
  BY DEF VerdictInv, ConsoleTypes
<1> QED BY <1>1, FreshIs DEF Tells, Told

LEMMA HearStep ==
  ASSUME VerdictInv, Listen
  PROVE  VerdictInv'
<1>1. /\ toGui # <<>> /\ toGui' = Tail(toGui)
      /\ UNCHANGED <<st, radio, box, met, asked>>
  BY DEF Listen, HearStream, HearStatus, HearChannel, HearOther, HearReply, Hear,
         ownerVars, serverVars, boundVars
<1>2. /\ Head(toGui) \in Datagram /\ toGui' \in Seq(Datagram) /\ UnderWay' \subseteq UnderWay
      /\ IsStatus(Head(toGui)) => Head(toGui).st \in UnderWay
  BY <1>1, HeardIs, InvIs
<1>3. /\ IsScreen(Fresh) /\ Fresh.fwd = gui.fwd /\ Fresh.running = gui.running
      /\ Fresh.fw = gui.fw /\ Fresh.done = FALSE
  BY FreshIs, InvIs
<1>4. ASSUME NEW g, IsScreen(g), g.fwd = gui.fwd, g.running = gui.running,
             g.fw = gui.fw, g.done = FALSE, UNCHANGED toServer,
             IsStatus(Head(toGui)), gui' = UpdateRuntime(g, Head(toGui).st)
      PROVE  VerdictInv'
  <2> DEFINE s == Head(toGui).st
  <2>1. s \in Status /\ s \in UnderWay
    BY <1>2, <1>4, DatagramIs
  <2> HIDE DEF s
  <2>2. /\ IsScreen(gui') /\ gui'.fwd = s.fwd /\ gui'.running = s.running
        /\ gui'.fw = g.fw \/ gui'.fw = NoForwarding
        /\ gui'.done => g.done \/ (Waiting(g.fw) /\ Tells(g.fw.start, s))
    BY <1>4, <2>1, UpdateRuntimeShows DEF s
  <2>3. \A start \in BOOLEAN : Tells(start, gui') => Told(start)
    BY <2>1, <2>2 DEF Tells, Told
  <2>4. gui'.done => gui.done \/ (Waiting(gui.fw) /\ Told(gui.fw.start))
    BY <1>4, <2>1, <2>2 DEF Told
  <2>5. IsScreen(gui)'
    BY <2>2 DEF IsScreen, IsWait
  <2> QED BY <1>1, <1>2, <1>4, <2>2, <2>3, <2>4, <2>5, InvIs, ScreenKeeps
<1>5. ASSUME NEW g, IsScreen(g), g.fwd = gui.fwd, g.running = gui.running,
             g.fw = gui.fw, g.done = FALSE, toServer' \in Seq(Request),
             Keeps(g, gui')
      PROVE  VerdictInv'
  <2>1. /\ IsScreen(gui') /\ gui'.fwd = gui.fwd /\ gui'.running = gui.running
        /\ gui'.fw = gui.fw \/ gui'.fw = NoForwarding
        /\ gui'.done => Waiting(gui.fw) /\ Tells(gui.fw.start, gui)
    BY <1>5 DEF Keeps, Reached, Tells
  <2>2. \A start \in BOOLEAN : Tells(start, gui') => Told(start)
    BY <2>1 DEF Tells, Told
  <2>3. gui'.done => gui.done \/ (Waiting(gui.fw) /\ Told(gui.fw.start))
    BY <2>1 DEF Told
  <2>4. IsScreen(gui)'
    BY <2>1 DEF IsScreen, IsWait
  <2> QED BY <1>1, <1>2, <1>5, <2>1, <2>2, <2>3, <2>4, ScreenKeeps
<1>6. Keeps(Fresh, Fresh)
  BY <1>3 DEF Keeps
<1>7. CASE HearStream
  <2>1. UNCHANGED toServer /\ IsStatus(Head(toGui))
    BY <1>7 DEF HearStream, Hear, IsStatus
  <2>2. CASE Head(toGui).new
    <3> DEFINE g == [Fresh EXCEPT !.silent = 0, !.online = TRUE]
    <3>1. IsScreen(g) /\ g.fwd = gui.fwd /\ g.running = gui.running
          /\ g.fw = gui.fw /\ g.done = FALSE
      BY <1>3 DEF IsScreen, Shown
    <3>2. gui' = UpdateRuntime(g, Head(toGui).st)
      BY <1>7, <2>2 DEF HearStream
    <3> HIDE DEF g
    <3> QED BY <1>4, <2>1, <3>1, <3>2
  <2>3. CASE ~Head(toGui).new
    <3>1. gui' = Fresh
      BY <1>7, <2>3 DEF HearStream
    <3> QED BY <1>3, <1>5, <1>6, <2>1, <3>1, InvIs
  <2> QED BY <2>2, <2>3
<1>8. CASE HearStatus
  <2>1. UNCHANGED toServer /\ IsStatus(Head(toGui)) /\ gui' = UpdateRuntime(Fresh, Head(toGui).st)
    BY <1>8 DEF HearStatus, Hear, IsStatus
  <2> QED BY <1>3, <1>4, <2>1
<1>9. CASE HearChannel
  <2> DEFINE g == [Fresh EXCEPT !.profile = Head(toGui).profile]
  <2>1. IsScreen(g) /\ g.fwd = gui.fwd /\ g.running = gui.running
        /\ g.fw = gui.fw /\ g.done = FALSE
    BY <1>3 DEF IsScreen, Shown
  <2>2. gui' = UpdateOther(g) /\ UNCHANGED toServer
    BY <1>9 DEF HearChannel
  <2> HIDE DEF g
  <2> QED BY <1>5, <2>1, <2>2, UpdateOtherKeeps, InvIs
<1>10. CASE HearOther
  BY <1>3, <1>5, <1>10, UpdateOtherKeeps, InvIs DEF HearOther
<1>11. CASE HearReply
  <2>1. CASE gui' = AcceptSwitch(Fresh) /\ SendAlso(Queries(<<"get_status">>))
    <3> DEFINE e == [Fresh EXCEPT !.sw.phase = "accepted", !.profile = gui.sw.profile]
    <3>1. IsScreen(e) /\ e.fwd = gui.fwd /\ e.running = gui.running
          /\ e.fw = gui.fw /\ e.done = FALSE
      BY <1>3 DEF IsScreen, Shown
    <3>2. Fresh.sw = gui.sw
      BY InvIs DEF Fresh, IsScreen, Shown
    <3>3. gui' = EvaluateSwitch(e)
      BY <2>1, <3>2 DEF AcceptSwitch
    <3> HIDE DEF e
    <3>4. Keeps(e, gui')
      BY <3>1, <3>3, EvaluateSwitchKeeps DEF Keeps
    <3>5. toServer' \in Seq(Request)
      BY <2>1, InvIs, QueriesAre, SentAlsoIs
    <3> QED BY <1>5, <3>1, <3>4, <3>5
  <2>2. CASE Answers(Head(toGui), gui.fw) /\ gui' = AcceptForwarding(Fresh) /\ UNCHANGED toServer
    <3>1. Waiting(gui.fw)
      BY <2>2 DEF Answers, Waiting
    <3>2. /\ IsScreen(gui') /\ gui'.fwd = gui.fwd /\ gui'.running = gui.running
          /\ gui'.fw = NoForwarding \/ (Waiting(gui'.fw) /\ gui'.fw.start = gui.fw.start)
          /\ gui'.done => Tells(gui.fw.start, gui)
      BY <1>3, <2>2, <3>1, AcceptForwardingKeeps DEF Reached, Tells
    <3>3. \A start \in BOOLEAN : Tells(start, gui') => Told(start)
      BY <3>2 DEF Tells, Told
    <3>4. gui'.done => gui.done \/ (Waiting(gui.fw) /\ Told(gui.fw.start))
      BY <3>1, <3>2 DEF Told
    <3>5. IsScreen(gui)'
      BY <3>2 DEF IsScreen, IsWait
    <3> QED BY <1>1, <1>2, <2>2, <3>1, <3>2, <3>3, <3>4, <3>5, InvIs, ScreenKeeps
  <2>3. CASE gui' = Fresh /\ UNCHANGED toServer
    BY <1>3, <1>5, <1>6, <2>3, InvIs
  <2> QED BY <1>11, <2>1, <2>2, <2>3 DEF HearReply
<1> QED BY <1>7, <1>8, <1>9, <1>10, <1>11 DEF Listen

\* The limits are checked, and the screen connects again.
LEMMA TurnStep ==
  ASSUME VerdictInv, Turn
  PROVE  VerdictInv'
<1> DEFINE a == ExpireSwitch(Fresh)
           b == ExpireForwarding(a)
           g == NoteSilence(b)
<1>1. /\ gui' = Reconnect(g)
      /\ SendAlso(IF Reconnects(g) THEN Queries(InitialQueries) ELSE <<>>)
      /\ UNCHANGED <<toGui, st, radio, box, met, asked>>
  BY DEF Turn, ownerVars, serverVars, boundVars
<1>2. /\ IsScreen(Fresh) /\ Fresh.fwd = gui.fwd /\ Fresh.running = gui.running
      /\ Fresh.fw = gui.fw /\ Fresh.done = FALSE
  BY FreshIs, InvIs
<1>3. Keeps(Fresh, a) /\ a.done = FALSE
  BY <1>2 DEF ExpireSwitch, Keeps, IsScreen, Shown
<1> HIDE DEF a
<1>4. /\ IsScreen(b) /\ b.fwd = gui.fwd /\ b.running = gui.running
      /\ b.fw = gui.fw \/ b.fw = NoForwarding
      /\ b.done = FALSE
  BY <1>2, <1>3, NoWait DEF ExpireForwarding, Keeps, IsScreen, Shown
<1> HIDE DEF b
<1>5. /\ IsScreen(g) /\ g.fwd = b.fwd /\ g.running = b.running /\ g.fw = b.fw /\ g.done = b.done
  <2>1. PICK k \in BOOLEAN : k = (b.known /\ ~((b.silent > StaleAfter) /\ b.online))
    OBVIOUS
  <2>2. PICK o \in BOOLEAN : o = ~(b.silent > StaleAfter)
    OBVIOUS
  <2>3. g = [b EXCEPT !.online = o, !.known = k]
    BY <2>1, <2>2 DEF NoteSilence
  <2> HIDE DEF g
  <2> QED BY <1>4, <2>3 DEF IsScreen, Shown
<1> HIDE DEF g
<1>6. /\ IsScreen(gui') /\ gui'.fwd = gui.fwd /\ gui'.running = gui.running
      /\ gui'.fw \in {gui.fw, NoForwarding} /\ gui'.done = FALSE
  BY <1>1, <1>4, <1>5 DEF Reconnect, IsScreen, Shown
<1>7. toServer' \in Seq(Request)
  <2>1. <<>> \in Seq(Request)
    BY EmptySeq
  <2>2. (IF Reconnects(g) THEN Queries(InitialQueries) ELSE <<>>) \in Seq(Request)
    BY <2>1, QueriesAre
  <2> QED BY <1>1, <2>2, InvIs, SentAlsoIs
<1>8. \A start \in BOOLEAN : Tells(start, gui') => Told(start)
  BY <1>6 DEF Tells, Told
<1>9. IsScreen(gui)' /\ UnderWay' = UnderWay /\ toGui' \in Seq(Datagram)
  BY <1>1, <1>6, InvIs DEF IsScreen, IsWait, UnderWay, IsStatus
<1> QED BY <1>1, <1>6, <1>7, <1>8, <1>9, ScreenKeeps

LEMMA TickStep ==
  ASSUME VerdictInv, Tick
  PROVE  VerdictInv'
<1>1. PICK silent, retry, sw, w :
        /\ gui' = [gui EXCEPT !.silent = silent, !.retry = retry, !.sw = sw, !.fw = w]
        /\ w = Older(gui.fw)
        /\ UNCHANGED <<toServer, toGui, st, radio, box, met, asked>>
  BY DEF Tick, netVars, ownerVars, boundVars
<1>2. IsWait(w) /\ (w = gui.fw \/ (Waiting(gui.fw) /\ w.start = gui.fw.start))
  <2>1. CASE gui.fw.phase = "none" \/ gui.fw.age > ConfirmWithin
    BY <1>1, <2>1, InvIs DEF Older, IsScreen
  <2>2. CASE ~(gui.fw.phase = "none" \/ gui.fw.age > ConfirmWithin)
    <3>1. /\ gui.fw = [phase |-> gui.fw.phase, id |-> gui.fw.id,
                       start |-> gui.fw.start, age |-> gui.fw.age]
          /\ gui.fw.phase \in {"sent", "accepted"} /\ gui.fw.start \in BOOLEAN
      BY <2>2, InvIs, WaitIs DEF IsScreen
    <3>2. w = [phase |-> gui.fw.phase, id |-> gui.fw.id,
               start |-> gui.fw.start, age |-> gui.fw.age + 1]
      BY <1>1, <2>2, <3>1 DEF Older
    <3> QED BY <2>2, <3>1, <3>2 DEF IsWait, Waiting
  <2> QED BY <2>1, <2>2
<1>3. /\ IsScreen(gui') /\ gui'.fwd = gui.fwd /\ gui'.running = gui.running
      /\ gui'.fw = w /\ gui'.done = gui.done
  BY <1>1, <1>2, InvIs DEF IsScreen, Shown
<1>4. \A start \in BOOLEAN : Tells(start, gui') => Told(start)
  BY <1>3 DEF Tells, Told
<1>5. IsScreen(gui)' /\ UnderWay' = UnderWay /\ toGui' \in Seq(Datagram)
      /\ toServer' \in Seq(Request)
  BY <1>1, <1>3, InvIs DEF IsScreen, IsWait, UnderWay, IsStatus
<1> QED BY <1>1, <1>2, <1>3, <1>4, <1>5, ScreenKeeps

LEMMA TouchForwardingStep ==
  ASSUME VerdictInv, TouchForwarding
  PROVE  VerdictInv'
<1>1. PICK start \in BOOLEAN : start = (~gui.fault /\ ~gui.fwd)
  OBVIOUS
<1> DEFINE w == [phase |-> "sent", id |-> asked', start |-> start, age |-> 0]
           request == [op |-> IF start THEN "start" ELSE "stop", id |-> asked + 1,
                       profile |-> NoProfile]
<1>2. /\ gui' = [Fresh EXCEPT !.fw = w]
      /\ asked' = asked + 1 /\ SendAlso(<<request>>)
      /\ met' = (Tells(start, st) \/ Tells(start, gui) \/ \E s \in UnderWay : Tells(start, s))
      /\ UNCHANGED <<toGui, st, radio, box>>
  BY <1>1 DEF TouchForwarding, Give, ownerVars, serverVars
<1>3. IsWait(w) /\ w.start = start
  BY DEF IsWait
<1> HIDE DEF w
<1>4. /\ IsScreen(gui') /\ gui'.fwd = gui.fwd /\ gui'.running = gui.running
      /\ gui'.fw = w /\ gui'.done = FALSE
  BY <1>2, <1>3, FreshIs, InvIs DEF IsScreen, Shown
<1>5. toServer' \in Seq(Request)
  <2>1. request \in Request
    BY InvIs DEF Request, Command
  <2> HIDE DEF request
  <2>2. <<request>> \in Seq(Request)
    BY <2>1
  <2> QED BY <1>2, <2>2, InvIs, SentAlsoIs
<1>6. UnderWay' = UnderWay
  BY <1>2 DEF UnderWay, IsStatus
<1>7. NotTold'
  BY <1>2, <1>3, <1>4, <1>6 DEF NotTold, Tells
<1>8. ConsoleTypes'
  BY <1>2, <1>4, <1>5, InvIs DEF ConsoleTypes, IsScreen, IsWait
<1> QED BY <1>4, <1>7, <1>8 DEF VerdictInv, ForwardingVerdictIsTrue

LEMMA TouchChannelStep ==
  ASSUME VerdictInv, NEW p \in Profiles, TouchChannel(p)
  PROVE  VerdictInv'
<1> DEFINE request == [op |-> "switch", id |-> asked + 1, profile |-> p]
<1>1. PICK sw :
      /\ gui' = [Fresh EXCEPT !.sw = sw]
      /\ asked' = asked + 1 /\ SendAlso(<<request>>)
      /\ UNCHANGED <<toGui, st, radio, box, met>>
  BY DEF TouchChannel, Give, ownerVars, serverVars
<1>2. /\ IsScreen(gui') /\ gui'.fwd = gui.fwd /\ gui'.running = gui.running
      /\ gui'.fw = gui.fw /\ gui'.done = FALSE
  BY <1>1, FreshIs, InvIs DEF IsScreen, Shown
<1>3. toServer' \in Seq(Request)
  <2>1. request \in Request
    BY InvIs DEF Request, Command
  <2> HIDE DEF request
  <2>2. <<request>> \in Seq(Request)
    BY <2>1
  <2> QED BY <1>1, <2>2, InvIs, SentAlsoIs
<1>4. UnderWay' = UnderWay
  BY <1>1 DEF UnderWay, IsStatus
<1>5. NotTold'
  BY <1>1, <1>2, <1>4 DEF VerdictInv, NotTold, Tells, Waiting
<1>6. ConsoleTypes'
  BY <1>1, <1>2, <1>3, InvIs DEF VerdictInv, ConsoleTypes, IsScreen, IsWait
<1> QED BY <1>2, <1>5, <1>6 DEF VerdictInv, ForwardingVerdictIsTrue

-----------------------------------------------------------------------------
(* The repeater's steps *)

\* A step that leaves the screen alone, under way only what tells the same or was
\* so in fact.
LEMMA RepeaterKeeps ==
  ASSUME VerdictInv, UNCHANGED <<gui, asked>>,
         met' \in BOOLEAN, radio' \in BOOLEAN, toServer' \in Seq(Request),
         toGui' \in Seq(Datagram), box' \in Seq(Command), st' \in Status,
         met => met',
         \A s \in UnderWay' : s \in UnderWay \/ s = st,
         \A start \in BOOLEAN : Tells(start, st') =>
           Tells(start, st) \/ (Waiting(gui.fw) /\ gui.fw.start = start => met')
  PROVE  VerdictInv'
<1>1. Waiting(gui.fw) => gui.fw.start \in BOOLEAN
  BY WaitIs DEF VerdictInv, ConsoleTypes, IsScreen, Waiting
<1>2. NotTold'
  BY <1>1 DEF VerdictInv, NotTold, Tells, Waiting
<1>3. ConsoleTypes'
  BY DEF VerdictInv, ConsoleTypes, IsScreen, IsWait
<1>4. ForwardingVerdictIsTrue'
  BY DEF VerdictInv, ForwardingVerdictIsTrue
<1> QED BY <1>2, <1>3, <1>4 DEF VerdictInv

\* Nothing sent, taken or met.
LEMMA MetIs ==
  ASSUME VerdictInv
  PROVE  /\ met \in BOOLEAN
         /\ UNCHANGED toGui => UnderWay' = UnderWay
         /\ NoteMet => /\ met' \in BOOLEAN /\ (met => met')
                       /\ Waiting(gui.fw) /\ Carried(gui.fw.start, st', radio') => met'
  BY DEF VerdictInv, ConsoleTypes, UnderWay, IsStatus, NoteMet, Waiting

LEMMA HeadIs ==
  ASSUME NEW S, NEW q \in Seq(S), q # <<>>
  PROVE  Head(q) \in S /\ Tail(q) \in Seq(S)
  BY HeadTailProperties, EmptySeq

LEMMA AnswerIsDatagram ==
  ASSUME VerdictInv, NEW q \in Request
  PROVE  Answer(q) \in Datagram
<1>1. q.id \in Nat /\ st \in Status /\ st.profile \in Profiles
  BY RequestIs, InvIs, StatusIs
<1>2. CASE q.op = "get_status"
  BY <1>1, <1>2 DEF Answer, Datagram
<1>3. CASE q.op = "get_channel"
  BY <1>1, <1>3 DEF Answer, Datagram
<1>4. CASE q.op = "start_status_query"
  BY <1>1, <1>4 DEF Answer, Datagram
<1>5. CASE q.op \notin {"get_status", "get_channel", "start_status_query"}
  BY <1>1, <1>5 DEF Answer, Datagram
<1> QED BY <1>2, <1>3, <1>4, <1>5

LEMMA ServeStep ==
  ASSUME VerdictInv, Serve
  PROVE  VerdictInv'
<1> DEFINE q == Head(toServer)
<1>1. /\ toServer # <<>> /\ toGui' = Append(toGui, Answer(q))
      /\ box' = box \o Commands(q) /\ toServer' = Tail(toServer)
      /\ UNCHANGED <<gui, st, radio, asked, met>>
  BY DEF Serve, ownerVars, boundVars
<1>2. q \in Request /\ toServer' \in Seq(Request)
  BY <1>1, HeadIs, InvIs
<1> HIDE DEF q
<1>3. Answer(q) \in Datagram /\ (IsStatus(Answer(q)) => Answer(q).st = st)
  BY <1>2, AnswerIsDatagram DEF Answer, IsStatus
<1>4. toGui' \in Seq(Datagram) /\ \A s \in UnderWay' : s \in UnderWay \/ s = st
  BY <1>1, <1>3, SentIs, InvIs
<1>5. box' \in Seq(Command)
  <2>1. Commands(q) \in Seq(Command)
    <3>1. q.op \in {"start", "stop", "switch"} => q \in Command
      BY <1>2, RequestIs
    <3> QED BY <3>1, EmptySeq DEF Commands
  <2> QED BY <1>1, <2>1, InvIs, ConcatProperties
<1> QED BY <1>1, <1>2, <1>4, <1>5, InvIs, MetIs, RepeaterKeeps

LEMMA SendStatusStep ==
  ASSUME VerdictInv, SendStatus
  PROVE  VerdictInv'
<1>1. PICK n \in BOOLEAN : n = Numbered
  BY DEF Numbered
<1> DEFINE d == [kind |-> "stream", new |-> n, st |-> st]
<1>2. /\ toGui' = Append(toGui, d)
      /\ UNCHANGED <<gui, toServer, st, radio, box, asked, met>>
  BY <1>1 DEF SendStatus, ownerVars, boundVars
<1>3. d \in Datagram /\ d.st = st
  BY InvIs DEF Datagram
<1> HIDE DEF d
<1>4. toGui' \in Seq(Datagram) /\ \A s \in UnderWay' : s \in UnderWay \/ s = st
  BY <1>2, <1>3, SentIs, InvIs
<1> QED BY <1>2, <1>4, InvIs, MetIs, RepeaterKeeps

\* What the repeater's own steps make of its state.
LEMMA StatesAre ==
  ASSUME NEW s \in Status, s = st
  PROVE  /\ Running \in Status /\ Running.fwd = TRUE /\ Running.running = TRUE
         /\ Faulted \in Status /\ Faulted.fwd = FALSE /\ Faulted.running = FALSE
         /\ Stopped \in Status /\ Stopped.fwd = FALSE /\ Stopped.running = FALSE
         /\ Refused \in Status /\ Refused.fwd = s.fwd /\ Refused.running = s.running
  BY DEF Running, Faulted, Stopped, Refused, Status

LEMMA OwnerStep ==
  ASSUME VerdictInv, Owner \/ HealthFails
  PROVE  VerdictInv'
<1>1. UNCHANGED <<gui, toServer, toGui, asked>> /\ NoteMet
  BY DEF Owner, Boot, DoStart, DoStop, DoSwitch, Doing, HealthFails, netVars, Works, Fails,
         boundVars
<1>2. box' \in Seq(Command)
  <2>1. box' = box \/ (box # <<>> /\ box' = Tail(box))
    BY DEF Owner, Boot, DoStart, DoStop, DoSwitch, Doing, HealthFails, serverVars
  <2> QED BY <2>1, HeadIs, InvIs
<1>3. /\ st' \in Status /\ radio' \in BOOLEAN
      /\ \A start \in BOOLEAN : Tells(start, st') =>
           Tells(start, st) \/ Carried(start, st', radio')
  <2>1. st \in Status /\ radio \in BOOLEAN /\ st.fwd \in BOOLEAN
    BY InvIs, StatusIs
  <2>2. CASE Boot
    <3> DEFINE b == [st EXCEPT !.running = TRUE, !.fault = FALSE, !.err = FALSE]
    <3>1. b \in Status /\ b.running = TRUE
      BY <2>1 DEF Status
    <3> HIDE DEF b
    <3>2. (st' = b /\ radio' = TRUE) \/ (st' = Faulted /\ radio' = FALSE)
      BY <2>2 DEF Boot, b
    <3> QED BY <2>1, <3>1, <3>2, StatesAre DEF Tells, Carried
  <2>3. CASE DoStart
    BY <2>1, <2>3, StatesAre DEF DoStart, Tells, Carried
  <2>4. CASE DoStop
    BY <2>1, <2>4, StatesAre DEF DoStop, Tells, Carried
  <2>5. CASE DoSwitch
    <3>1. Head(box).op = "switch" /\ Head(box) \in Command
      BY <2>5, HeadIs, InvIs DEF DoSwitch, Doing
    <3>2. Head(box).profile \in Profiles
      BY <3>1 DEF Command
    <3>3. LET s == [st EXCEPT !.profile = Head(box).profile, !.err = FALSE] IN
          s \in Status /\ s.fwd = st.fwd /\ s.running = st.running
      BY <2>1, <3>2 DEF Status
    <3> QED BY <2>1, <2>5, <3>3, StatesAre DEF DoSwitch, Tells
  <2>6. CASE HealthFails
    BY <2>1, <2>6, StatesAre DEF HealthFails, Tells, Carried
  <2> QED BY <2>2, <2>3, <2>4, <2>5, <2>6 DEF Owner
<1>4. met' \in BOOLEAN /\ (met => met') /\ UnderWay' = UnderWay
      /\ (Waiting(gui.fw) /\ Carried(gui.fw.start, st', radio') => met')
  BY <1>1, MetIs
<1>5. \A start \in BOOLEAN : Tells(start, st') =>
        Tells(start, st) \/ (Waiting(gui.fw) /\ gui.fw.start = start => met')
  BY <1>3, <1>4
<1>6. toServer' \in Seq(Request) /\ toGui' \in Seq(Datagram)
  BY <1>1, InvIs
<1> QED BY <1>1, <1>2, <1>3, <1>4, <1>5, <1>6, RepeaterKeeps

-----------------------------------------------------------------------------
(* The world's steps *)

LEMMA CrashStep ==
  ASSUME VerdictInv, Crash
  PROVE  VerdictInv'
<1>1. /\ radio' = FALSE /\ toServer' = <<>> /\ box' = <<>>
      /\ UNCHANGED <<gui, toGui, st, asked, met>>
  BY DEF Crash
<1>2. toServer' \in Seq(Request) /\ box' \in Seq(Command) /\ radio' \in BOOLEAN
  BY <1>1, EmptySeq
<1> QED BY <1>1, <1>2, InvIs, MetIs, RepeaterKeeps

LEMMA RestartStep ==
  ASSUME VerdictInv, Restart
  PROVE  VerdictInv'
<1>1. /\ st' = Booting(st.profile)
      /\ UNCHANGED <<gui, toServer, toGui, radio, box, asked, met>>
  BY DEF Restart, netVars, boundVars
<1>2. st' \in Status /\ st'.fwd = TRUE /\ st'.running = FALSE
  BY <1>1, InvIs, StatusIs DEF Booting, Status
<1>3. \A start \in BOOLEAN : ~Tells(start, st')
  BY <1>2 DEF Tells
<1> QED BY <1>1, <1>2, <1>3, InvIs, MetIs, RepeaterKeeps

LEMMA LoseStep ==
  ASSUME VerdictInv, Lose
  PROVE  VerdictInv'
<1>1. /\ UNCHANGED <<gui, st, radio, box, asked, met>>
      /\ \/ toServer # <<>> /\ toServer' = Tail(toServer) /\ UNCHANGED toGui
         \/ toGui # <<>> /\ toGui' = Tail(toGui) /\ UNCHANGED toServer
  BY DEF Lose, ownerVars, serverVars
<1>2. CASE toServer # <<>> /\ toServer' = Tail(toServer) /\ UNCHANGED toGui
  <2>1. toServer' \in Seq(Request)
    BY <1>2, HeadIs, InvIs
  <2> QED BY <1>1, <1>2, <2>1, InvIs, MetIs, RepeaterKeeps
<1>3. CASE toGui # <<>> /\ toGui' = Tail(toGui) /\ UNCHANGED toServer
  <2>1. toGui' \in Seq(Datagram) /\ UnderWay' \subseteq UnderWay
    BY <1>3, HeardIs, InvIs
  <2> QED BY <1>1, <1>3, <2>1, InvIs, MetIs, RepeaterKeeps
<1> QED BY <1>1, <1>2, <1>3

-----------------------------------------------------------------------------
LEMMA VerdictInit == Init => VerdictInv
<1> SUFFICES ASSUME Init PROVE VerdictInv
  OBVIOUS
<1>1. /\ gui = [profile |-> NoProfile, fwd |-> FALSE, running |-> FALSE,
                fault |-> FALSE, err |-> FALSE, known |-> FALSE, online |-> FALSE,
                silent |-> StaleAfter + 1, retry |-> 0,
                sw |-> NoSwitch, fw |-> NoForwarding, done |-> FALSE]
      /\ toServer = Queries(InitialQueries) /\ toGui = <<>> /\ st = Booting(FirstProfile)
      /\ radio = FALSE /\ box = <<>> /\ asked = 0 /\ met = FALSE
  BY DEF Init
<1>2. IsScreen(gui) /\ ~Waiting(gui.fw) /\ gui.done = FALSE
  BY <1>1, NoWait DEF IsScreen, Shown
<1>3. st \in Status
  BY <1>1, ProfilesAssumption DEF Booting, Status
<1>4. toServer \in Seq(Request) /\ toGui \in Seq(Datagram) /\ box \in Seq(Command)
  BY <1>1, QueriesAre, EmptySeq
<1>5. ConsoleTypes
  BY <1>1, <1>2, <1>3, <1>4 DEF ConsoleTypes
<1> QED BY <1>2, <1>5 DEF VerdictInv, NotTold, ForwardingVerdictIsTrue

LEMMA VerdictStep ==
  ASSUME VerdictInv, [Next]_vars
  PROVE  VerdictInv'
<1>1. CASE UNCHANGED vars
  <2>1. UNCHANGED <<gui, toServer, toGui, st, radio, box, asked, met>>
    BY <1>1 DEF vars, netVars, ownerVars, serverVars, boundVars
  <2> QED BY <2>1, InvIs, MetIs, RepeaterKeeps
<1>2. CASE Next
  BY <1>2, HearStep, TurnStep, TickStep, TouchForwardingStep, TouchChannelStep, ServeStep,
     SendStatusStep, OwnerStep, CrashStep, RestartStep, LoseStep DEF Next, Network
<1> QED BY <1>1, <1>2

\* However many commands are given, datagrams lost, processes crashed and radios
\* failed, the screen says forwarding started or stopped only when that was so, or
\* told on its way, after the command (evaluate_forwarding_confirmation).
THEOREM VerdictsAreTrue == Spec => []ForwardingVerdictIsTrue
<1>1. VerdictInv => ForwardingVerdictIsTrue
  BY DEF VerdictInv
<1> QED BY <1>1, VerdictInit, VerdictStep, PTL DEF Spec

-----------------------------------------------------------------------------
(* The channel shown while a switch is to be carried out *)

IsSwitch(w) ==
  \/ w = NoSwitch
  \/ /\ w = [phase |-> w.phase, id |-> w.id, profile |-> w.profile,
             confirmed |-> w.confirmed, age |-> w.age]
     /\ w.phase \in {"sent", "accepted"} /\ w.age \in Nat

CalmTypes ==
  /\ IsSwitch(gui.sw) /\ gui.silent \in Nat /\ gui.online \in BOOLEAN
  /\ mishaps \in Nat /\ behind \in Nat /\ sub \in BOOLEAN /\ due \in BOOLEAN

\* The datagrams to the screen and what will be answered to those to the repeater.
Kind(q) ==
  IF q.op = "get_status" THEN "status"
  ELSE IF q.op = "get_channel" THEN "channel"
  ELSE IF q.op = "start_status_query" THEN "other" ELSE "reply"
Places == 1..(Len(toGui) + Len(toServer))
ToBeHeard(i) ==
  IF i <= Len(toGui) THEN toGui[i].kind ELSE Kind(toServer[i - Len(toGui)])

StreamsIn(datagrams) == {i \in 1..Len(datagrams) : datagrams[i].kind = "stream"}
Streams == StreamsIn(toGui)

Calm == mishaps = 0 /\ asked <= 1

\* The command is still to be given, or on its way, or waits for the main loop.
Undone ==
  \/ asked = 0 \/ box # <<>>
  \/ \E i \in Places : i > Len(toGui) /\ ToBeHeard(i) = "reply"

\* A subscribed screen that empties its buffer in time stays online: of each period
\* of silence a packet is there, or due.
StaysOnline ==
  /\ up # "down" /\ behind = 0 /\ Len(toGui) <= NetCap
  /\ \A i \in 1..Len(toGui) : toGui[i].kind = "stream" => toGui[i].new /\ sub
  /\ gui.online =>
       /\ sub /\ gui.silent <= Cardinality(Streams) + (IF due THEN 1 ELSE 0)
       /\ \A j \in 1..Len(toServer) : Subscribes(toServer[j]) => gui.silent = 0
  /\ ~gui.online => gui.silent > StaleAfter
  /\ asked = 1 => gui.online

\* The only reply is the last answer about the channel to be heard.
OneReply ==
  /\ asked = 0 => /\ box = <<>> /\ gui.sw.phase = "none"
                  /\ \A i \in Places : ToBeHeard(i) # "reply"
  /\ \A i, j \in Places : ToBeHeard(i) = "reply" /\ ToBeHeard(j) = "reply" => i = j
  /\ asked = 1 => \A i \in Places :
       ToBeHeard(i) = "channel" => \E j \in Places : j > i /\ ToBeHeard(j) = "reply"
  /\ (\E i \in Places : ToBeHeard(i) = "reply") => gui.sw.phase # "accepted"
  /\ Len(box) <= 1
  /\ box # <<>> => \A i \in Places : ToBeHeard(i) = "reply" => i <= Len(toGui)

NoError == Undone => ~st.err /\ \A s \in UnderWay : ~s.err

ShowsSwitch == gui.sw.phase = "accepted" /\ box # <<>> => gui.profile = gui.sw.profile

CalmInv ==
  /\ VerdictInv /\ CalmTypes
  /\ Calm => StaysOnline /\ OneReply /\ NoError /\ ShowsSwitch

-----------------------------------------------------------------------------
(* The screen's functions *)

\* The wait for a switch may end, all else about the channel is as it was.
Quiet(g, h) ==
  /\ IsScreen(h) /\ h.profile = g.profile /\ h.silent = g.silent /\ h.online = g.online
  /\ h.sw = g.sw \/ h.sw = NoSwitch

LEMMA SwitchIs ==
  ASSUME NEW w, IsSwitch(w)
  PROVE  /\ w.phase \in {"none", "sent", "accepted"}
         /\ w.phase = "none" => w = NoSwitch
         /\ w.phase # "none" =>
              /\ w.age \in Nat
              /\ w = [phase |-> w.phase, id |-> w.id, profile |-> w.profile,
                      confirmed |-> w.confirmed, age |-> w.age]
  BY DEF IsSwitch, NoSwitch

LEMMA NoSwitchIs == IsSwitch(NoSwitch) /\ NoSwitch.phase = "none"
  BY DEF IsSwitch, NoSwitch

LEMMA EvaluateSwitchQuiet ==
  ASSUME NEW g, IsScreen(g)
  PROVE  Quiet(g, EvaluateSwitch(g))
  BY DEF EvaluateSwitch, Quiet, IsScreen, Shown

LEMMA EvaluateForwardingQuiet ==
  ASSUME NEW g, IsScreen(g)
  PROVE  Quiet(g, EvaluateForwarding(g)) /\ EvaluateForwarding(g).sw = g.sw
<1>1. IsScreen(EvaluateForwarding(g))
  BY EvaluateForwardingKeeps DEF Keeps
<1>2. CASE g.fw.phase = "accepted" /\ g.known /\ (g.err \/ Reached(g))
  <2> DEFINE h == [g EXCEPT !.fw = NoForwarding, !.done = ~g.err]
  <2>1. EvaluateForwarding(g) = h
    BY <1>2 DEF EvaluateForwarding
  <2>2. /\ h.profile = g.profile /\ h.silent = g.silent /\ h.online = g.online
        /\ h.sw = g.sw
    BY DEF IsScreen, Shown
  <2> QED BY <1>1, <2>1, <2>2 DEF Quiet
<1>3. CASE ~(g.fw.phase = "accepted" /\ g.known /\ (g.err \/ Reached(g)))
  BY <1>3 DEF EvaluateForwarding, Quiet
<1> QED BY <1>2, <1>3

LEMMA EvaluateQuiet ==
  ASSUME NEW g, IsScreen(g)
  PROVE  /\ Quiet(g, Evaluate(g))
         /\ g.sw.phase = "accepted" /\ g.sw.confirmed => Evaluate(g).sw = NoSwitch
<1> DEFINE e == EvaluateSwitch(g)
<1>1. Quiet(g, e) /\ (g.sw.phase = "accepted" /\ g.sw.confirmed => e.sw = NoSwitch)
  BY EvaluateSwitchQuiet DEF EvaluateSwitch, IsScreen, Shown
<1> HIDE DEF e
<1>2. Quiet(e, EvaluateForwarding(e)) /\ EvaluateForwarding(e).sw = e.sw
  BY <1>1, EvaluateForwardingQuiet DEF Quiet
<1>3. Evaluate(g) = EvaluateForwarding(e)
  BY DEF Evaluate, e
<1> QED BY <1>1, <1>2, <1>3 DEF Quiet

LEMMA UpdateOtherQuiet ==
  ASSUME NEW g, IsScreen(g)
  PROVE  Quiet(g, UpdateOther(g))
<1> DEFINE e == [g EXCEPT !.err = FALSE]
<1>1. IsScreen(e) /\ Quiet(g, e) /\ e.sw = g.sw
  BY DEF Quiet, IsScreen, Shown
<1> HIDE DEF e
<1>2. Quiet(e, Evaluate(e))
  BY <1>1, EvaluateQuiet
<1>3. UpdateOther(g) = Evaluate(e)
  BY DEF UpdateOther, e
<1> QED BY <1>1, <1>2, <1>3 DEF Quiet

\* A status does not end a switch's showing unless the screen gives up on it.
LEMMA UpdateRuntimeSwitch ==
  ASSUME NEW g, IsScreen(g), IsSwitch(g.sw), NEW s \in Status
  PROVE  LET h == UpdateRuntime(g, s) IN
         /\ h.silent = g.silent /\ h.online = g.online /\ IsSwitch(h.sw)
         /\ h.sw.phase = g.sw.phase \/ h.sw = NoSwitch
         /\ h.sw.phase = "accepted" => h.sw.profile = g.sw.profile
         /\ g.sw.phase = "accepted" /\ g.profile = g.sw.profile
              /\ (~GivesUp(g, s) \/ h.sw.phase = "accepted") => h.profile = g.profile
<1> DEFINE a == AfterProfile(g, s)
           e == [a EXCEPT !.fwd = s.fwd, !.running = s.running,
                          !.fault = s.fault, !.err = s.err, !.known = TRUE]
           w == IF g.sw.phase = "none" THEN g.sw ELSE [g.sw EXCEPT !.confirmed = TRUE]
<1>1. /\ g.sw.phase \in {"none", "sent", "accepted"}
      /\ g.sw.phase = "none" => g.sw = NoSwitch
      /\ g.sw.phase # "none" =>
           /\ g.sw.age \in Nat
           /\ g.sw = [phase |-> g.sw.phase, id |-> g.sw.id, profile |-> g.sw.profile,
                      confirmed |-> g.sw.confirmed, age |-> g.sw.age]
  BY SwitchIs
<1>2. /\ IsSwitch(w) /\ w.phase = g.sw.phase
      /\ g.sw.phase # "none" => w.profile = g.sw.profile /\ w.confirmed
  <2>1. CASE g.sw.phase = "none"
    BY <2>1, <1>1, NoSwitchIs
  <2>2. CASE g.sw.phase # "none"
    <3>1. w = [phase |-> g.sw.phase, id |-> g.sw.id, profile |-> g.sw.profile,
               confirmed |-> TRUE, age |-> g.sw.age]
      BY <1>1, <2>2
    <3> HIDE DEF w
    <3> QED BY <1>1, <2>2, <3>1 DEF IsSwitch
  <2> QED BY <2>1, <2>2
<1> HIDE DEF w
<1>3. /\ IsScreen(a) /\ a.silent = g.silent /\ a.online = g.online
      /\ IF Awaiting(g, s)
         THEN IF GivesUp(g, s) THEN a.sw = NoSwitch /\ a.profile = s.profile
                               ELSE a.sw = g.sw /\ a.profile = g.profile
         ELSE a.sw = w /\ a.profile = s.profile
  <2>1. CASE Awaiting(g, s)
    BY <2>1 DEF AfterProfile, IsScreen, Shown
  <2>2. CASE ~Awaiting(g, s)
    <3>1. a = [g EXCEPT !.profile = s.profile, !.sw = w]
      BY <2>2 DEF AfterProfile, w
    <3> HIDE DEF a
    <3> QED BY <2>2, <3>1 DEF IsScreen, Shown
  <2> QED BY <2>1, <2>2
<1> HIDE DEF a
<1>4. /\ IsScreen(e) /\ e.silent = g.silent /\ e.online = g.online
      /\ e.sw = a.sw /\ e.profile = a.profile
  BY <1>3, StatusIs DEF IsScreen, Shown
<1> HIDE DEF e
<1> DEFINE h == UpdateRuntime(g, s)
<1>5. h = Evaluate(e)
  BY DEF UpdateRuntime, e, a
<1>6. /\ Quiet(e, h)
      /\ e.sw.phase = "accepted" /\ e.sw.confirmed => h.sw = NoSwitch
  BY <1>4, <1>5, EvaluateQuiet
<1> HIDE DEF h
<1>7. h.silent = g.silent /\ h.online = g.online /\ h.profile = a.profile
      /\ (h.sw = a.sw \/ h.sw = NoSwitch)
  BY <1>4, <1>6 DEF Quiet
<1>8. CASE Awaiting(g, s)
  <2>1. CASE GivesUp(g, s)
    BY <1>3, <1>7, <1>8, <2>1, NoSwitchIs DEF h
  <2>2. CASE ~GivesUp(g, s)
    BY <1>3, <1>7, <1>8, <2>2, NoSwitchIs DEF h
  <2> QED BY <2>1, <2>2
<1>9. CASE ~Awaiting(g, s)
  <2>1. a.sw = w /\ h.profile = s.profile
    BY <1>3, <1>7, <1>9
  <2>2. g.sw.phase # "none" => s.profile = g.sw.profile
    BY <1>9 DEF Awaiting
  <2>3. h.sw.phase # "accepted"
    BY <1>1, <1>2, <1>4, <1>6, <1>7, <2>1, NoSwitchIs
  <2> QED BY <1>2, <1>7, <2>1, <2>2, <2>3, NoSwitchIs DEF h
<1> QED BY <1>8, <1>9

-----------------------------------------------------------------------------
(* What is to be heard *)

\* Whatever the step took from the front, kept in its place, or added at the end.
LineFrom(k, added) ==
  /\ \A i \in Places : i > k => i - k \in Places' /\ ToBeHeard(i - k)' = ToBeHeard(i)
  /\ \A i \in Places' :
       \/ i + k \in Places /\ ToBeHeard(i)' = ToBeHeard(i + k)
       \/ i + k \notin Places /\ ToBeHeard(i)' \in added

LEMMA SeqFacts ==
  ASSUME toGui \in Seq(Datagram), toServer \in Seq(Request)
  PROVE  /\ Len(toGui) \in Nat /\ Len(toServer) \in Nat
         /\ toGui # <<>> =>
              /\ Len(toGui) > 0 /\ Len(Tail(toGui)) = Len(toGui) - 1
              /\ Tail(toGui) \in Seq(Datagram) /\ Head(toGui) = toGui[1]
              /\ \A i \in 1..(Len(toGui) - 1) : Tail(toGui)[i] = toGui[i + 1]
         /\ toServer # <<>> =>
              /\ Len(toServer) > 0 /\ Len(Tail(toServer)) = Len(toServer) - 1
              /\ Tail(toServer) \in Seq(Request) /\ Head(toServer) = toServer[1]
              /\ Head(toServer) \in Request
              /\ \A i \in 1..(Len(toServer) - 1) : Tail(toServer)[i] = toServer[i + 1]
  BY HeadTailProperties, EmptySeq, LenProperties

LEMMA Shift ==
  ASSUME NEW n \in Nat, NEW m \in Nat, NEW p \in Nat, NEW k \in Nat, k <= n
  PROVE  /\ \A i \in 1..(n + m) : i > k =>
              /\ i - k \in 1..((n - k) + (m + p))
              /\ i <= n => i - k \in 1..(n - k) /\ i - k <= n - k /\ (i - k) + k = i
              /\ ~(i <= n) => /\ ~(i - k <= n - k) /\ (i - k) - (n - k) = i - n
                             /\ i - n \in 1..m
         /\ \A i \in 1..((n - k) + (m + p)) :
              /\ i + k > k /\ (i + k) - k = i
              /\ i + k \notin 1..(n + m) =>
                   /\ ~(i <= n - k) /\ (i + k) - (n + m) \in 1..p
                   /\ i - (n - k) = m + ((i + k) - (n + m))
  OBVIOUS

LEMMA ScreenLine ==
  ASSUME toGui \in Seq(Datagram), toServer \in Seq(Request), NEW k \in {0, 1},
         k = 1 => toGui # <<>>, toGui' = (IF k = 1 THEN Tail(toGui) ELSE toGui),
         NEW more \in Seq(Request), toServer' = toServer \o more, NEW added,
         \A i \in 1..Len(more) : Kind(more[i]) \in added
  PROVE  LineFrom(k, added)
<1>1. /\ Len(toGui) \in Nat /\ Len(toServer) \in Nat /\ Len(more) \in Nat /\ k \in Nat
      /\ Len(toGui') = Len(toGui) - k /\ Len(toServer') = Len(toServer) + Len(more)
      /\ k <= Len(toGui)
  BY SeqFacts, ConcatProperties, LenProperties
<1>2. \A i \in 1..(Len(toGui) - k) : toGui'[i] = toGui[i + k]
  BY <1>1, SeqFacts
<1>3. /\ \A i \in 1..Len(toServer) : toServer'[i] = toServer[i]
      /\ \A i \in 1..Len(more) : toServer'[Len(toServer) + i] = more[i]
  BY <1>1, ConcatProperties
<1> DEFINE n == Len(toGui)
           m == Len(toServer)
           p == Len(more)
<1>4. /\ Places = 1..(n + m) /\ Places' = 1..((n - k) + (m + p))
      /\ n \in Nat /\ m \in Nat /\ p \in Nat
  BY <1>1 DEF Places
<1>5. /\ \A i : ToBeHeard(i) = IF i <= n THEN toGui[i].kind ELSE Kind(toServer[i - n])
      /\ \A i : ToBeHeard(i)' = IF i <= n - k THEN toGui'[i].kind ELSE Kind(toServer'[i - (n - k)])
  BY <1>1 DEF ToBeHeard, Kind
<1>6. /\ \A i \in 1..(n - k) : toGui'[i] = toGui[i + k]
      /\ \A i \in 1..m : toServer'[i] = toServer[i]
      /\ \A i \in 1..p : toServer'[m + i] = more[i] /\ Kind(more[i]) \in added
  BY <1>2, <1>3
<1> HIDE DEF n, m, p
<1>7. ASSUME NEW i \in Places, i > k
      PROVE  i - k \in Places' /\ ToBeHeard(i - k)' = ToBeHeard(i)
  <2>1. /\ i - k \in Places'
        /\ i <= n => i - k \in 1..(n - k) /\ i - k <= n - k /\ (i - k) + k = i
        /\ ~(i <= n) => /\ ~(i - k <= n - k) /\ (i - k) - (n - k) = i - n
                       /\ i - n \in 1..m
    BY <1>1, <1>4, <1>7, Shift DEF n
  <2>2. CASE i <= n
    <3>1. toGui'[i - k] = toGui[i]
      BY <1>6, <2>1, <2>2
    <3> QED BY <1>5, <2>1, <2>2, <3>1
  <2>3. CASE ~(i <= n)
    <3>1. toServer'[(i - k) - (n - k)] = toServer[i - n]
      BY <1>6, <2>1, <2>3
    <3> QED BY <1>5, <2>1, <2>3, <3>1
  <2> QED BY <2>2, <2>3
<1>8. ASSUME NEW i \in Places', i + k \notin Places
      PROVE  ToBeHeard(i)' \in added
  <2> DEFINE j == (i + k) - (n + m)
  <2>1. ~(i <= n - k) /\ j \in 1..p /\ i - (n - k) = m + j
    BY <1>1, <1>4, <1>8, Shift DEF n
  <2> HIDE DEF j
  <2>2. toServer'[i - (n - k)] = more[j] /\ Kind(more[j]) \in added
    BY <1>6, <2>1
  <2> QED BY <1>5, <2>1, <2>2
<1>9. ASSUME NEW i \in Places', i + k \in Places
      PROVE  ToBeHeard(i)' = ToBeHeard(i + k)
  <2>1. i + k > k /\ (i + k) - k = i
    BY <1>1, <1>4, Shift DEF n
  <2> QED BY <1>7, <1>9, <2>1
<1> QED BY <1>7, <1>8, <1>9 DEF LineFrom

LEMMA AnswerIs ==
  ASSUME NEW q \in Request
  PROVE  /\ Answer(q).kind = Kind(q) /\ Answer(q).kind # "stream"
         /\ IsStatus(Answer(q)) => Answer(q).st = st
         /\ Kind(q) = "reply" <=> q.op \in {"start", "stop", "switch"}
         /\ Subscribes(q) <=> Kind(q) = "other"
  BY DEF Request, Command, Answer, Kind, IsStatus, Subscribes

LEMMA ServeLine ==
  ASSUME toGui \in Seq(Datagram), toServer \in Seq(Request), toServer # <<>>,
         NEW d \in Datagram, d.kind = Kind(Head(toServer)),
         toGui' = Append(toGui, d), toServer' = Tail(toServer)
  PROVE  LineFrom(0, {})
<1>1. /\ Len(toGui) \in Nat /\ Len(toServer) \in Nat /\ Len(toServer) > 0
      /\ Len(toGui') = Len(toGui) + 1 /\ Len(toServer') = Len(toServer) - 1
  BY SeqFacts, AppendProperties
<1>2. /\ \A i \in 1..Len(toGui) : toGui'[i] = toGui[i]
      /\ toGui'[Len(toGui) + 1] = d
  BY <1>1, AppendProperties
<1>3. /\ Head(toServer) = toServer[1]
      /\ \A i \in 1..(Len(toServer) - 1) : toServer'[i] = toServer[i + 1]
  BY <1>1, SeqFacts
<1>4. Places' = Places
  <2>1. Len(toGui') + Len(toServer') = Len(toGui) + Len(toServer)
    BY <1>1
  <2> QED BY <2>1 DEF Places
<1>5. ASSUME NEW i \in Places
      PROVE  ToBeHeard(i)' = ToBeHeard(i) /\ i + 0 = i /\ i - 0 = i
  <2>1. i \in 1..(Len(toGui) + Len(toServer)) /\ i + 0 = i /\ i - 0 = i
    BY <1>1 DEF Places
  <2>2. CASE i <= Len(toGui)
    <3>1. i \in 1..Len(toGui) /\ i <= Len(toGui')
      BY <1>1, <2>1, <2>2
    <3> QED BY <1>2, <2>1, <2>2, <3>1 DEF ToBeHeard
  <2>3. CASE i = Len(toGui) + 1
    <3>1. i <= Len(toGui') /\ ~(i <= Len(toGui)) /\ i - Len(toGui) = 1
      BY <1>1, <2>1, <2>3
    <3>2. toGui'[i].kind = Kind(toServer[1])
      BY <1>2, <1>3, <2>3
    <3> QED BY <2>1, <3>1, <3>2 DEF ToBeHeard
  <2>4. CASE i > Len(toGui) + 1
    <3>1. /\ ~(i <= Len(toGui')) /\ ~(i <= Len(toGui))
          /\ i - Len(toGui') \in 1..(Len(toServer) - 1)
          /\ (i - Len(toGui')) + 1 = i - Len(toGui)
      BY <1>1, <2>1, <2>4
    <3>2. toServer'[i - Len(toGui')] = toServer[i - Len(toGui)]
      BY <1>3, <3>1
    <3> QED BY <2>1, <3>1, <3>2 DEF ToBeHeard, Kind
  <2> QED BY <1>1, <2>1, <2>2, <2>3, <2>4
<1> QED BY <1>4, <1>5 DEF LineFrom

LEMMA StreamLine ==
  ASSUME toGui \in Seq(Datagram), toServer \in Seq(Request), toServer = <<>>,
         NEW d \in Datagram, d.kind = "stream",
         toGui' = Append(toGui, d), toServer' = toServer
  PROVE  LineFrom(0, {"stream"})
<1>1. /\ Len(toGui) \in Nat /\ Len(toServer) = 0 /\ Len(toServer') = 0
      /\ Len(toGui') = Len(toGui) + 1
  BY SeqFacts, AppendProperties, EmptySeq
<1>2. /\ \A i \in 1..Len(toGui) : toGui'[i] = toGui[i]
      /\ toGui'[Len(toGui) + 1] = d
  BY <1>1, AppendProperties
<1>3. Places = 1..Len(toGui) /\ Places' = 1..(Len(toGui) + 1)
  <2>1. Len(toGui) + Len(toServer) = Len(toGui) /\ Len(toGui') + Len(toServer') = Len(toGui) + 1
    BY <1>1
  <2> QED BY <2>1 DEF Places
<1>4. ASSUME NEW i \in 1..Len(toGui) PROVE i \in Places' /\ ToBeHeard(i)' = ToBeHeard(i)
  <2>1. i \in Places' /\ i <= Len(toGui) /\ i <= Len(toGui')
    BY <1>1, <1>3
  <2> QED BY <1>2, <2>1 DEF ToBeHeard
<1>5. ASSUME NEW i \in 1..(Len(toGui) + 1), i \notin 1..Len(toGui) PROVE ToBeHeard(i)' = "stream"
  <2>1. i = Len(toGui) + 1 /\ i <= Len(toGui')
    BY <1>1, <1>5
  <2> QED BY <1>2, <2>1 DEF ToBeHeard
<1>6. \A i \in Places \cup Places' : i + 0 = i /\ i - 0 = i
  BY <1>1, <1>3
<1> QED BY <1>3, <1>4, <1>5, <1>6 DEF LineFrom

LEMMA StreamsAreFinite ==
  ASSUME NEW s \in Seq(Datagram)
  PROVE  /\ IsFiniteSet(StreamsIn(s)) /\ Cardinality(StreamsIn(s)) \in Nat
         /\ Cardinality(StreamsIn(s)) <= Len(s)
<1>1. Len(s) \in Nat
  BY LenProperties
<1>2. IsFiniteSet(1..Len(s)) /\ Cardinality(1..Len(s)) = Len(s)
  BY <1>1, FS_Interval
<1>3. StreamsIn(s) \in SUBSET (1..Len(s))
  BY DEF StreamsIn
<1> QED BY <1>2, <1>3, FS_Subset, FS_CardinalityType

LEMMA StreamsHeard ==
  ASSUME NEW s \in Seq(Datagram), s # <<>>, Head(s).kind # "stream"
  PROVE  Cardinality(StreamsIn(Tail(s))) = Cardinality(StreamsIn(s))
<1> DEFINE t == Tail(s)
           f == [i \in StreamsIn(t) |-> i + 1]
<1>1. /\ t \in Seq(Datagram) /\ Len(s) \in Nat /\ Len(s) >= 1 /\ Len(t) = Len(s) - 1
      /\ \A i \in 1..(Len(s) - 1) : t[i] = s[i + 1]
      /\ s[1].kind # "stream"
  BY HeadTailProperties, EmptySeq, LenProperties
<1> HIDE DEF t
<1>2. ASSUME NEW i \in StreamsIn(t) PROVE i \in Nat /\ i + 1 \in StreamsIn(s)
  <2>1. i \in 1..(Len(s) - 1) /\ t[i].kind = "stream"
    BY <1>1 DEF StreamsIn
  <2>2. i + 1 \in 1..Len(s) /\ s[i + 1].kind = "stream"
    BY <1>1, <2>1
  <2> QED BY <2>1, <2>2 DEF StreamsIn
<1>3. ASSUME NEW h \in StreamsIn(s) PROVE h - 1 \in StreamsIn(t) /\ h = (h - 1) + 1
  <2>1. h \in 1..Len(s) /\ s[h].kind = "stream"
    BY DEF StreamsIn
  <2>2. h # 1
    BY <1>1, <2>1
  <2>3. h - 1 \in 1..(Len(s) - 1) /\ h = (h - 1) + 1
    BY <1>1, <2>1, <2>2
  <2>4. t[h - 1].kind = "stream"
    BY <1>1, <2>1, <2>3
  <2> QED BY <1>1, <2>3, <2>4 DEF StreamsIn
<1>4. f \in [StreamsIn(t) -> StreamsIn(s)]
  BY <1>2
<1>5. \A i, j \in StreamsIn(t) : f[i] = f[j] => i = j
  BY <1>2
<1>6. \A h \in StreamsIn(s) : \E i \in StreamsIn(t) : f[i] = h
  BY <1>3
<1>7. f \in Bijection(StreamsIn(t), StreamsIn(s))
  BY <1>4, <1>5, <1>6 DEF Bijection, Injection, Surjection, IsInjective
<1>8. Cardinality(StreamsIn(t)) = Cardinality(StreamsIn(s))
  BY <1>1, <1>7, StreamsAreFinite, FS_Bijection DEF ExistsBijection
<1> QED BY <1>8 DEF t

LEMMA StreamsSent ==
  ASSUME NEW s \in Seq(Datagram), NEW d \in Datagram
  PROVE  Cardinality(StreamsIn(Append(s, d))) =
           Cardinality(StreamsIn(s)) + (IF d.kind = "stream" THEN 1 ELSE 0)
<1> DEFINE t == Append(s, d)
           n == Len(s) + 1
<1>1. /\ Len(s) \in Nat /\ Len(t) = n /\ t[n] = d
      /\ \A i \in 1..Len(s) : t[i] = s[i]
  BY AppendProperties, LenProperties
<1> HIDE DEF t
<1>2. \A i : i \in 1..n <=> i \in 1..Len(s) \/ i = n
  BY <1>1
<1>3. StreamsIn(t) = IF d.kind = "stream" THEN StreamsIn(s) \cup {n} ELSE StreamsIn(s)
  BY <1>1, <1>2 DEF StreamsIn
<1>4. n \notin StreamsIn(s)
  BY <1>1 DEF StreamsIn
<1>5. Cardinality(StreamsIn(s) \cup {n}) = Cardinality(StreamsIn(s)) + 1
  BY <1>4, StreamsAreFinite, FS_AddElement
<1>6. Cardinality(StreamsIn(s)) \in Nat
  BY StreamsAreFinite
<1> QED BY <1>3, <1>5, <1>6 DEF t

-----------------------------------------------------------------------------
(* The one reply *)

LEMMA LineKept ==
  ASSUME OneReply, toGui \in Seq(Datagram), toServer \in Seq(Request), NEW k \in {0, 1},
         Len(toGui') \in Nat, Len(toServer') \in Nat,
         NEW added, LineFrom(k, added), "reply" \notin added,
         asked = 1 => "channel" \notin added
  PROVE  /\ asked = 0 => \A i \in Places' : ToBeHeard(i)' # "reply"
         /\ \A i, j \in Places' : ToBeHeard(i)' = "reply" /\ ToBeHeard(j)' = "reply" => i = j
         /\ asked = 1 => \A i \in Places' :
              ToBeHeard(i)' = "channel" => \E j \in Places' : j > i /\ ToBeHeard(j)' = "reply"
         /\ \A i \in Places' : ToBeHeard(i)' = "reply" =>
              i + k \in Places /\ ToBeHeard(i + k) = "reply"
<1>1. /\ Len(toGui) \in Nat /\ Len(toServer) \in Nat
      /\ Places \subseteq Nat /\ Places' \subseteq Nat /\ k \in Nat
  BY SeqFacts DEF Places
<1>2. ASSUME NEW i \in Places', ToBeHeard(i)' = "reply"
      PROVE  i + k \in Places /\ ToBeHeard(i + k) = "reply"
  BY <1>2 DEF LineFrom
<1>3. ASSUME NEW i \in Places', NEW j \in Places',
             ToBeHeard(i)' = "reply", ToBeHeard(j)' = "reply"
      PROVE  i = j
  <2>1. i + k = j + k
    BY <1>2, <1>3 DEF OneReply
  <2> QED BY <1>1, <2>1
<1>4. ASSUME asked = 1, NEW i \in Places', ToBeHeard(i)' = "channel"
      PROVE  \E j \in Places' : j > i /\ ToBeHeard(j)' = "reply"
  <2>1. i + k \in Places /\ ToBeHeard(i + k) = "channel"
    BY <1>4 DEF LineFrom
  <2>2. PICK j \in Places : j > i + k /\ ToBeHeard(j) = "reply"
    BY <1>4, <2>1 DEF OneReply
  <2>3. j > k /\ j - k > i
    BY <1>1, <2>2
  <2>4. j - k \in Places' /\ ToBeHeard(j - k)' = "reply"
    BY <2>2, <2>3 DEF LineFrom
  <2> QED BY <2>3, <2>4
<1>5. asked = 0 => \A i \in Places' : ToBeHeard(i)' # "reply"
  BY <1>2 DEF OneReply
<1> QED BY <1>2, <1>3, <1>4, <1>5

LEMMA NoErrorKept ==
  ASSUME NoError, Undone' => Undone, Undone' => st' = st \/ ~st'.err,
         \A s \in UnderWay' : s \in UnderWay \/ s = st
  PROVE  NoError'
  BY DEF NoError

-----------------------------------------------------------------------------
(* A datagram is heard *)

\* What it leaves of the switch and of the screen's being online.
Heard ==
  LET d == Head(toGui) IN
  /\ IsSwitch(gui'.sw) /\ gui'.silent \in Nat /\ gui'.online \in BOOLEAN
  /\ d.kind = "stream" /\ d.new => gui'.online /\ gui'.silent = 0
  /\ d.kind # "stream" => gui'.online = gui.online /\ gui'.silent = gui.silent
  /\ gui.sw.phase = "none" => gui'.sw.phase = "none"
  /\ gui'.sw.phase = "accepted" =>
       \/ gui.sw.phase = "accepted" /\ gui'.sw.profile = gui.sw.profile
       \/ d.kind = "reply" /\ gui'.profile = gui'.sw.profile
  /\ /\ gui.sw.phase = "accepted" /\ gui.profile = gui.sw.profile /\ d.kind # "channel"
     /\ gui'.sw.phase = "accepted" \/ ~IsStatus(d) \/ ~GivesUp(gui, d.st)
     => gui'.profile = gui.profile

LEMMA FreshQuiet ==
  ASSUME IsScreen(gui)
  PROVE  IsScreen(Fresh) /\ Quiet(gui, Fresh) /\ Fresh.sw = gui.sw
  BY DEF Fresh, Quiet, IsScreen, Shown

LEMMA QuietIs ==
  ASSUME NEW g, NEW h, IsSwitch(g.sw), Quiet(g, h)
  PROVE  /\ IsSwitch(h.sw) /\ (g.sw.phase = "none" => h.sw.phase = "none")
         /\ h.sw.phase = "accepted" => g.sw.phase = "accepted" /\ h.sw.profile = g.sw.profile
  BY NoSwitchIs DEF Quiet

LEMMA QuietHeard ==
  ASSUME CalmTypes, Quiet(gui, gui'), Head(toGui).kind \notin {"stream", "channel"}
  PROVE  Heard
<1>1. IsSwitch(gui.sw) /\ gui.silent \in Nat /\ gui.online \in BOOLEAN
  BY DEF CalmTypes
<1>2. /\ gui'.profile = gui.profile /\ gui'.silent = gui.silent /\ gui'.online = gui.online
  BY DEF Quiet
<1> QED BY <1>1, <1>2, QuietIs DEF Heard

LEMMA HearStreamIs ==
  ASSUME VerdictInv, CalmTypes, HearStream
  PROVE  Heard
<1> DEFINE d == Head(toGui)
           g == [Fresh EXCEPT !.silent = 0, !.online = TRUE]
<1>1. d.kind = "stream" /\ d \in Datagram /\ d.st \in Status
  BY InvIs, HeardIs, DatagramIs DEF HearStream, Hear, IsStatus
<1>2. /\ IsSwitch(gui.sw) /\ gui.silent \in Nat /\ gui.online \in BOOLEAN
      /\ IsScreen(Fresh) /\ Quiet(gui, Fresh) /\ Fresh.sw = gui.sw
  BY InvIs, FreshQuiet DEF CalmTypes
<1>3. CASE d.new
  <2>1. /\ IsScreen(g) /\ g.silent = 0 /\ g.online = TRUE /\ g.sw = gui.sw
        /\ g.profile = gui.profile
    BY <1>2 DEF Quiet, IsScreen, Shown
  <2>2. gui' = UpdateRuntime(g, d.st)
    BY <1>3 DEF HearStream
  <2> HIDE DEF g, d
  <2>3. GivesUp(g, d.st) <=> GivesUp(gui, d.st)
    BY <2>1 DEF GivesUp
  <2>4. /\ gui'.silent = 0 /\ gui'.online = TRUE /\ IsSwitch(gui'.sw)
        /\ gui'.sw.phase = gui.sw.phase \/ gui'.sw = NoSwitch
        /\ gui'.sw.phase = "accepted" => gui'.sw.profile = gui.sw.profile
        /\ gui.sw.phase = "accepted" /\ gui.profile = gui.sw.profile
              /\ (~GivesUp(gui, d.st) \/ gui'.sw.phase = "accepted") => gui'.profile = gui.profile
    BY <1>1, <1>2, <2>1, <2>2, <2>3, UpdateRuntimeSwitch
  <2>5. IsStatus(d)
    BY <1>1 DEF IsStatus
  <2>6. IsSwitch(gui'.sw) /\ gui'.silent \in Nat /\ gui'.online \in BOOLEAN
    <3>1. gui'.online \in BOOLEAN
      BY <2>4, Zenon
    <3>2. \A n : n = 0 => n \in Nat
      OBVIOUS
    <3> QED BY <2>4, <3>1, <3>2, Zenon
  <2>7. /\ gui.sw.phase = "none" => gui'.sw.phase = "none"
        /\ gui'.sw.phase = "accepted" =>
             gui.sw.phase = "accepted" /\ gui'.sw.profile = gui.sw.profile
    BY <2>4, NoSwitchIs
  <2> QED BY <1>1, <2>4, <2>5, <2>6, <2>7 DEF Heard, d
<1>4. CASE ~d.new
  <2>1. gui' = Fresh
    BY <1>4 DEF HearStream
  <2> QED BY <1>1, <1>2, <1>4, <2>1, QuietIs DEF Heard, Quiet
<1> QED BY <1>3, <1>4

LEMMA HearStatusIs ==
  ASSUME VerdictInv, CalmTypes, HearStatus
  PROVE  Heard
<1> DEFINE d == Head(toGui)
<1>1. d.kind = "status" /\ d \in Datagram /\ IsStatus(d) /\ d.st \in Status
  BY InvIs, HeardIs, DatagramIs DEF HearStatus, Hear, IsStatus
<1>2. /\ IsSwitch(gui.sw) /\ gui.silent \in Nat /\ gui.online \in BOOLEAN
      /\ IsScreen(Fresh) /\ Fresh.sw = gui.sw /\ Fresh.profile = gui.profile
      /\ Fresh.silent = gui.silent /\ Fresh.online = gui.online
  BY InvIs, FreshQuiet DEF CalmTypes, Quiet
<1>3. gui' = UpdateRuntime(Fresh, d.st)
  BY DEF HearStatus
<1> HIDE DEF d
<1>4. GivesUp(Fresh, d.st) <=> GivesUp(gui, d.st)
  BY <1>2 DEF GivesUp
<1>5. /\ gui'.silent = gui.silent /\ gui'.online = gui.online /\ IsSwitch(gui'.sw)
      /\ gui'.sw.phase = gui.sw.phase \/ gui'.sw = NoSwitch
      /\ gui'.sw.phase = "accepted" => gui'.sw.profile = gui.sw.profile
      /\ gui.sw.phase = "accepted" /\ gui.profile = gui.sw.profile
            /\ (~GivesUp(gui, d.st) \/ gui'.sw.phase = "accepted") => gui'.profile = gui.profile
  BY <1>1, <1>2, <1>3, <1>4, UpdateRuntimeSwitch
<1> QED BY <1>1, <1>2, <1>5, NoSwitchIs DEF Heard, d

LEMMA HearChannelIs ==
  ASSUME VerdictInv, CalmTypes, HearChannel
  PROVE  Heard
<1> DEFINE d == Head(toGui)
           g == [Fresh EXCEPT !.profile = d.profile]
<1>1. d.kind = "channel"
  BY DEF HearChannel, Hear
<1>2. /\ IsSwitch(gui.sw) /\ gui.silent \in Nat /\ gui.online \in BOOLEAN
      /\ IsScreen(Fresh) /\ Quiet(gui, Fresh) /\ Fresh.sw = gui.sw
  BY InvIs, FreshQuiet DEF CalmTypes
<1>3. IsScreen(g) /\ g.sw = gui.sw /\ g.silent = gui.silent /\ g.online = gui.online
  BY <1>2 DEF Quiet, IsScreen, Shown
<1>4. gui' = UpdateOther(g)
  BY DEF HearChannel
<1> HIDE DEF g, d
<1>5. Quiet(g, gui')
  BY <1>3, <1>4, UpdateOtherQuiet
<1>6. /\ IsSwitch(gui'.sw) /\ (gui.sw.phase = "none" => gui'.sw.phase = "none")
      /\ gui'.sw.phase = "accepted" => gui.sw.phase = "accepted" /\ gui'.sw.profile = gui.sw.profile
  BY <1>2, <1>3, <1>5, QuietIs
<1>7. gui'.silent = gui.silent /\ gui'.online = gui.online
  BY <1>3, <1>5 DEF Quiet
<1> QED BY <1>1, <1>2, <1>6, <1>7 DEF Heard, d

LEMMA HearOtherIs ==
  ASSUME VerdictInv, CalmTypes, HearOther
  PROVE  Heard
<1>1. Head(toGui).kind = "other" /\ gui' = UpdateOther(Fresh)
  BY DEF HearOther, Hear
<1>2. IsScreen(Fresh) /\ Quiet(gui, Fresh) /\ Fresh.sw = gui.sw
  BY InvIs, FreshQuiet
<1>3. Quiet(Fresh, gui')
  BY <1>1, <1>2, UpdateOtherQuiet
<1>4. Quiet(gui, gui')
  BY <1>2, <1>3 DEF Quiet
<1> QED BY <1>1, <1>4, QuietHeard

LEMMA HearReplyIs ==
  ASSUME VerdictInv, CalmTypes, HearReply
  PROVE  Heard
<1>1. Head(toGui).kind = "reply"
  BY DEF HearReply, Hear
<1>2. /\ IsScreen(Fresh) /\ Quiet(gui, Fresh) /\ Fresh.sw = gui.sw
      /\ IsSwitch(gui.sw) /\ gui.silent \in Nat /\ gui.online \in BOOLEAN
  BY InvIs, FreshQuiet DEF CalmTypes
<1>3. CASE gui' = Fresh
  BY <1>1, <1>2, <1>3, QuietHeard
<1>4. CASE gui.fw.phase = "sent" /\ gui' = AcceptForwarding(Fresh)
  <2> DEFINE w == [Fresh.fw EXCEPT !.phase = "accepted"]
             e == [Fresh EXCEPT !.fw = w]
  <2>1. IsWait(w)
    <3>1. Fresh.fw.phase = "sent" /\ IsWait(Fresh.fw)
      BY <1>2, <1>4, InvIs, FreshIs DEF IsScreen
    <3>2. /\ Fresh.fw = [phase |-> Fresh.fw.phase, id |-> Fresh.fw.id,
                         start |-> Fresh.fw.start, age |-> Fresh.fw.age]
          /\ Fresh.fw.start \in BOOLEAN
      BY <3>1, WaitIs
    <3>3. w = [phase |-> "accepted", id |-> Fresh.fw.id,
               start |-> Fresh.fw.start, age |-> Fresh.fw.age]
      BY <3>2
    <3> HIDE DEF w
    <3> QED BY <3>2, <3>3 DEF IsWait
  <2>2. gui' = EvaluateForwarding(e)
    BY <1>4 DEF AcceptForwarding, e, w
  <2> HIDE DEF w
  <2>3. /\ IsScreen(e) /\ e.sw = gui.sw /\ e.profile = gui.profile
        /\ e.silent = gui.silent /\ e.online = gui.online
    BY <1>2, <2>1 DEF Quiet, IsScreen, Shown
  <2> HIDE DEF e
  <2>4. Quiet(e, gui')
    BY <2>2, <2>3, EvaluateForwardingQuiet
  <2>5. Quiet(gui, gui')
    BY <2>3, <2>4 DEF Quiet
  <2> QED BY <1>1, <2>5, QuietHeard
<1>5. CASE gui.sw.phase = "sent" /\ gui' = AcceptSwitch(Fresh)
  <2> DEFINE w == [gui.sw EXCEPT !.phase = "accepted"]
             e == [Fresh EXCEPT !.sw = w, !.profile = gui.sw.profile]
  <2>1. IsSwitch(w) /\ w.phase = "accepted" /\ w.profile = gui.sw.profile
    <3>1. /\ gui.sw = [phase |-> gui.sw.phase, id |-> gui.sw.id, profile |-> gui.sw.profile,
                       confirmed |-> gui.sw.confirmed, age |-> gui.sw.age]
          /\ gui.sw.age \in Nat
      BY <1>2, <1>5, SwitchIs
    <3>2. w = [phase |-> "accepted", id |-> gui.sw.id, profile |-> gui.sw.profile,
               confirmed |-> gui.sw.confirmed, age |-> gui.sw.age]
      BY <3>1
    <3> HIDE DEF w
    <3> QED BY <3>1, <3>2 DEF IsSwitch
  <2>2. gui' = EvaluateSwitch(e)
    BY <1>2, <1>5 DEF AcceptSwitch, e, w
  <2> HIDE DEF w
  <2>3. /\ IsScreen(e) /\ e.sw = w /\ e.profile = gui.sw.profile
        /\ e.silent = gui.silent /\ e.online = gui.online
    BY <1>2 DEF Quiet, IsScreen, Shown
  <2> HIDE DEF e
  <2>4. Quiet(e, gui')
    BY <2>2, <2>3, EvaluateSwitchQuiet
  <2>5. /\ gui'.silent = gui.silent /\ gui'.online = gui.online
        /\ gui'.profile = gui.sw.profile /\ (gui'.sw = w \/ gui'.sw = NoSwitch)
    BY <2>3, <2>4 DEF Quiet
  <2> QED BY <1>1, <1>2, <1>5, <2>1, <2>5, NoSwitchIs DEF Heard
<1> QED BY <1>3, <1>4, <1>5 DEF HearReply, Answers

\* A datagram heard is off the way; a reply may ask for the state.
LEMMA HearMoves ==
  ASSUME VerdictInv, CalmTypes, Listen
  PROVE  /\ toGui # <<>> /\ toGui' = Tail(toGui)
         /\ UNCHANGED <<st, radio, up, box, sub, due, behind, asked, mishaps>>
         /\ Heard /\ LineFrom(1, {"status"})
         /\ \E more \in Seq(Request) : /\ toServer' = toServer \o more
                                      /\ \A i \in 1..Len(more) : Kind(more[i]) = "status"
<1>1. /\ toGui # <<>> /\ toGui' = Tail(toGui)
      /\ UNCHANGED <<st, radio, up, box, sub, due, behind, asked, mishaps>>
  BY DEF Listen, HearStream, HearStatus, HearChannel, HearOther, HearReply, Hear,
         ownerVars, serverVars, boundVars
<1>2. Heard
  BY HearStreamIs, HearStatusIs, HearChannelIs, HearOtherIs, HearReplyIs DEF Listen
<1>3. toServer \in Seq(Request) /\ toGui \in Seq(Datagram)
  BY InvIs
<1>4. <<>> \in Seq(Request) /\ Len(<<>>) = 0 /\ toServer \o <<>> = toServer
  BY <1>3, EmptySeq, ConcatEmptySeq
<1>5. /\ Queries(<<"get_status">>) \in Seq(Request)
      /\ \A i \in 1..Len(Queries(<<"get_status">>)) : Kind(Queries(<<"get_status">>)[i]) = "status"
  BY QueriesAre DEF Queries, Query, Kind
<1>6. PICK more \in Seq(Request) : /\ toServer' = toServer \o more
                                 /\ \A i \in 1..Len(more) : Kind(more[i]) = "status"
  <2>1. toServer' = toServer \/ toServer' = toServer \o Queries(<<"get_status">>)
    BY <1>4 DEF Listen, HearStream, HearStatus, HearChannel, HearOther, HearReply, SendAlso,
                Delivered
  <2>2. \A i \in 1..Len(<<>>) : Kind(<<>>[i]) = "status"
    BY <1>4
  <2> QED BY <1>4, <1>5, <2>1, <2>2
<1>7. LineFrom(1, {"status"})
  BY <1>1, <1>3, <1>6, ScreenLine
<1> QED BY <1>1, <1>2, <1>6, <1>7

LEMMA HearCalm ==
  ASSUME CalmInv, Listen
  PROVE  CalmInv' /\ (Calm /\ asked = 1 => ~Rollback)
<1>1. /\ VerdictInv /\ CalmTypes /\ toServer \in Seq(Request) /\ toGui \in Seq(Datagram)
      /\ asked \in Nat
  BY InvIs DEF CalmInv
<1>2. /\ toGui # <<>> /\ toGui' = Tail(toGui)
      /\ UNCHANGED <<st, radio, up, box, sub, due, behind, asked, mishaps>>
      /\ Heard /\ LineFrom(1, {"status"})
  BY <1>1, HearMoves
<1>3. VerdictInv'
  BY <1>1, HearStep
<1>4. toServer' \in Seq(Request) /\ toGui' \in Seq(Datagram)
  BY <1>3 DEF VerdictInv, ConsoleTypes
<1>5. CalmTypes'
  BY <1>1, <1>2 DEF CalmTypes, Heard
<1>6. /\ Len(toGui) \in Nat /\ Len(toGui) > 0 /\ Len(toGui') = Len(toGui) - 1
      /\ Head(toGui) = toGui[1] /\ \A i \in 1..(Len(toGui) - 1) : toGui'[i] = toGui[i + 1]
      /\ Len(toServer) \in Nat /\ Len(toServer') \in Nat /\ Len(toGui') \in Nat
  BY <1>1, <1>2, <1>4, SeqFacts, LenProperties
<1>7. 1 \in Places /\ ToBeHeard(1) = Head(toGui).kind
  BY <1>6 DEF Places, ToBeHeard
<1> SUFFICES ASSUME Calm
             PROVE  /\ StaysOnline' /\ OneReply' /\ NoError' /\ ShowsSwitch'
                    /\ asked = 1 => ~Rollback
  BY <1>2, <1>3, <1>5 DEF CalmInv, Calm
<1>8. StaysOnline /\ OneReply /\ NoError /\ ShowsSwitch
  BY DEF CalmInv
<1>9. /\ asked = 0 => \A i \in Places' : ToBeHeard(i)' # "reply"
      /\ \A i, j \in Places' : ToBeHeard(i)' = "reply" /\ ToBeHeard(j)' = "reply" => i = j
      /\ asked = 1 => \A i \in Places' :
           ToBeHeard(i)' = "channel" => \E j \in Places' : j > i /\ ToBeHeard(j)' = "reply"
      /\ \A i \in Places' : ToBeHeard(i)' = "reply" =>
           i + 1 \in Places /\ ToBeHeard(i + 1) = "reply"
  BY <1>1, <1>2, <1>6, <1>8, LineKept
<1>10. \A i \in Places' : i \in Nat /\ i > 0 /\ i + 1 # 1
  BY <1>6 DEF Places
<1>11. Head(toGui).kind = "reply" => \A i \in Places' : ToBeHeard(i)' # "reply"
  BY <1>7, <1>8, <1>9, <1>10 DEF OneReply
<1>12. OneReply'
  <2>1. (\E i \in Places' : ToBeHeard(i)' = "reply") => gui'.sw.phase # "accepted"
    BY <1>2, <1>8, <1>9, <1>11 DEF OneReply, Heard
  <2>2. Len(box') <= 1 /\ (asked' = 0 => box' = <<>> /\ gui'.sw.phase = "none")
    BY <1>2, <1>8 DEF OneReply, Heard
  <2>3. ASSUME box' # <<>>, NEW i \in Places', ToBeHeard(i)' = "reply" PROVE i <= Len(toGui')
    <3>1. i + 1 <= Len(toGui)
      BY <1>2, <1>8, <1>9, <2>3 DEF OneReply
    <3> QED BY <1>6, <1>10, <3>1
  <2> QED BY <1>2, <1>9, <2>1, <2>2, <2>3 DEF OneReply
<1>13. NoError'
  <2>1. Undone' => Undone
    <3> SUFFICES ASSUME NEW i \in Places', i > Len(toGui'), ToBeHeard(i)' = "reply"
                 PROVE  Undone
      BY <1>2 DEF Undone
    <3>1. i + 1 \in Places /\ ToBeHeard(i + 1) = "reply" /\ i + 1 > Len(toGui)
      BY <1>6, <1>9, <1>10
    <3> QED BY <3>1 DEF Undone
  <2>2. UnderWay' \subseteq UnderWay
    BY <1>1, <1>2, HeardIs
  <2> QED BY <1>2, <1>8, <2>1, <2>2, NoErrorKept
<1>14. Head(toGui).kind = "channel" /\ asked = 1 => gui.sw.phase # "accepted"
  BY <1>7, <1>8 DEF OneReply
<1>15. asked = 0 => gui.sw.phase = "none"
  BY <1>8 DEF OneReply
<1>16. asked \in {0, 1}
  BY <1>1 DEF Calm
<1>17. ShowsSwitch'
  <2> SUFFICES ASSUME gui'.sw.phase = "accepted", box # <<>>
               PROVE  gui'.profile = gui'.sw.profile
    BY <1>2 DEF ShowsSwitch
  <2>1. CASE Head(toGui).kind = "reply" /\ gui'.profile = gui'.sw.profile
    BY <2>1
  <2>2. CASE gui.sw.phase = "accepted" /\ gui'.sw.profile = gui.sw.profile
    <3>1. gui.profile = gui.sw.profile /\ Head(toGui).kind # "channel"
      BY <1>8, <1>14, <1>15, <1>16, <2>2 DEF ShowsSwitch
    <3> QED BY <1>2, <2>2, <3>1 DEF Heard
  <2> QED BY <1>2, <2>1, <2>2 DEF Heard
<1>18. ASSUME asked = 1, Rollback PROVE FALSE
  <2>1. /\ gui.sw.phase = "accepted" /\ box # <<>> /\ gui.sw.age <= ConfirmWithin
        /\ gui'.profile # gui.profile
    <3>1. /\ gui.sw.phase = "accepted" /\ gui.sw.age <= ConfirmWithin
          /\ gui'.profile # gui.profile /\ \E i \in 1..Len(box) : box[i].id = gui.sw.id
      BY <1>18 DEF Rollback
    <3>2. box # <<>>
      BY <3>1
    <3> QED BY <3>1, <3>2
  <2>2. gui.profile = gui.sw.profile /\ Head(toGui).kind # "channel"
    BY <1>8, <1>14, <1>18, <2>1 DEF ShowsSwitch
  <2>3. IsStatus(Head(toGui)) => ~Head(toGui).st.err
    BY <1>1, <1>2, <1>8, <2>1, HeardIs DEF NoError, Undone
  <2>4. gui.sw.age \in Nat /\ ConfirmWithin \in Nat
    BY <1>1, <2>1, SwitchIs, LimitsAssumption DEF CalmTypes
  <2>5. IsStatus(Head(toGui)) => ~GivesUp(gui, Head(toGui).st)
    BY <2>1, <2>3, <2>4 DEF GivesUp
  <2> QED BY <1>2, <2>1, <2>2, <2>5 DEF Heard
<1>19. StaysOnline'
  <2>1. up' # "down" /\ behind' = 0 /\ Len(toGui') <= NetCap
    BY <1>2, <1>6, <1>8, LimitsAssumption DEF StaysOnline
  <2>2. \A i \in 1..Len(toGui') : toGui'[i].kind = "stream" => toGui'[i].new /\ sub'
    <3> SUFFICES ASSUME NEW i \in 1..Len(toGui'), toGui'[i].kind = "stream"
                 PROVE  toGui'[i].new /\ sub'
      OBVIOUS
    <3>1. i + 1 \in 1..Len(toGui) /\ toGui'[i] = toGui[i + 1]
      BY <1>6
    <3> QED BY <1>2, <1>8, <3>1 DEF StaysOnline
  <2>3. CASE Head(toGui).kind = "stream"
    <3>1. Head(toGui).new /\ sub
      BY <1>6, <1>8, <2>3 DEF StaysOnline
    <3>2. gui'.online /\ gui'.silent = 0
      BY <1>2, <2>3, <3>1 DEF Heard
    <3>3. Cardinality(Streams') \in Nat
      BY <1>4, StreamsAreFinite DEF Streams, StreamsIn
    <3>4. gui'.silent <= Cardinality(Streams') + (IF due' THEN 1 ELSE 0)
      BY <3>2, <3>3
    <3> QED BY <1>2, <2>1, <2>2, <3>1, <3>2, <3>4 DEF StaysOnline
  <2>4. CASE Head(toGui).kind # "stream"
    <3>1. gui'.online = gui.online /\ gui'.silent = gui.silent
      BY <1>2, <2>4 DEF Heard
    <3>2. Cardinality(Streams') = Cardinality(Streams)
      BY <1>1, <1>2, <2>4, StreamsHeard DEF Streams, StreamsIn
    <3>3. ASSUME gui.online, NEW j \in 1..Len(toServer'), Subscribes(toServer'[j])
          PROVE  gui'.silent = 0
      <4>1. PICK more \in Seq(Request) : /\ toServer' = toServer \o more
                                       /\ \A i \in 1..Len(more) : Kind(more[i]) = "status"
        BY <1>1, HearMoves
      <4>2. /\ Len(more) \in Nat /\ Len(toServer') = Len(toServer) + Len(more)
            /\ \A i \in 1..Len(toServer) : toServer'[i] = toServer[i]
            /\ \A i \in 1..Len(more) : toServer'[Len(toServer) + i] = more[i]
        BY <1>1, <4>1, ConcatProperties, LenProperties
      <4>3. CASE j \in 1..Len(toServer)
        BY <1>8, <3>1, <3>3, <4>2, <4>3 DEF StaysOnline, Subscribes
      <4>4. CASE j \notin 1..Len(toServer)
        <5>1. j - Len(toServer) \in 1..Len(more) /\ Len(toServer) + (j - Len(toServer)) = j
          BY <1>6, <3>3, <4>2, <4>4
        <5>2. Kind(toServer'[j]) = "status"
          BY <4>1, <4>2, <5>1
        <5> QED BY <3>3, <5>2 DEF Kind, Subscribes
      <4> QED BY <4>3, <4>4
    <3>4. gui.online =>
            sub' /\ gui'.silent <= Cardinality(Streams') + (IF due' THEN 1 ELSE 0)
      BY <1>2, <1>8, <3>1, <3>2 DEF StaysOnline
    <3>5. (~gui.online => gui'.silent > StaleAfter) /\ (asked' = 1 => gui.online)
      BY <1>2, <1>8, <3>1 DEF StaysOnline
    <3> QED BY <2>1, <2>2, <3>1, <3>3, <3>4, <3>5 DEF StaysOnline, Subscribes
  <2> QED BY <2>3, <2>4
<1> QED BY <1>12, <1>13, <1>17, <1>18, <1>19

-----------------------------------------------------------------------------
(* The screen's other steps *)

\* Between two packets of the stream there is room in what the screen tolerates.
ReadsInTime == NetCap < StaleAfter

LEMMA OnlineStays ==
  ASSUME ReadsInTime, StaysOnline, toGui \in Seq(Datagram), gui.silent \in Nat, gui.online
  PROVE  ~(gui.silent > StaleAfter)
<1>1. /\ gui.silent <= Cardinality(Streams) + (IF due THEN 1 ELSE 0)
      /\ Len(toGui) <= NetCap
  BY DEF StaysOnline
<1>2. Cardinality(Streams) \in Nat /\ Cardinality(Streams) <= Len(toGui) /\ Len(toGui) \in Nat
  BY StreamsAreFinite, LenProperties DEF Streams
<1>3. gui.silent <= Cardinality(Streams) + 1
  BY <1>1, <1>2
<1> QED BY <1>1, <1>2, <1>3, LimitsAssumption DEF ReadsInTime

LEMMA LineRests ==
  ASSUME UNCHANGED <<toGui, toServer>>
  PROVE  /\ Places' = Places /\ Streams' = Streams /\ UnderWay' = UnderWay
         /\ \A i : ToBeHeard(i)' = ToBeHeard(i)
         /\ \A j : Subscribes(toServer[j])' = Subscribes(toServer[j])
  BY DEF Places, Streams, StreamsIn, UnderWay, IsStatus, ToBeHeard, Kind, Subscribes

LEMMA TurnIs ==
  ASSUME VerdictInv, CalmTypes, Turn
  PROVE  /\ IsSwitch(gui'.sw) /\ gui'.profile = gui.profile /\ gui'.silent = gui.silent
         /\ gui'.online = ~(gui.silent > StaleAfter)
         /\ gui'.sw = gui.sw \/ gui'.sw = NoSwitch
         /\ \E more \in {Queries(InitialQueries), <<>>} :
              /\ toServer' = toServer \o more
              /\ more # <<>> => ~gui'.online
<1> DEFINE a == ExpireSwitch(Fresh)
           b == ExpireForwarding(a)
           c == NoteSilence(b)
<1>1. IsScreen(Fresh) /\ Quiet(gui, Fresh)
  BY InvIs, FreshQuiet
<1>2. Quiet(gui, a)
  <2>1. Quiet(Fresh, a)
    BY <1>1 DEF ExpireSwitch, Quiet, IsScreen, Shown
  <2> QED BY <1>1, <2>1 DEF Quiet
<1> HIDE DEF a
<1>3. Quiet(gui, b)
  <2>1. Quiet(a, b)
    BY <1>2, NoWait DEF ExpireForwarding, Quiet, IsScreen, Shown
  <2> QED BY <1>2, <2>1 DEF Quiet
<1> HIDE DEF b
<1>4. /\ IsScreen(c) /\ c.profile = gui.profile /\ c.silent = gui.silent
      /\ c.online = ~(gui.silent > StaleAfter) /\ (c.sw = gui.sw \/ c.sw = NoSwitch)
  <2> DEFINE stale == gui.silent > StaleAfter
             known == b.known /\ ~(stale /\ b.online)
  <2>1. c = [b EXCEPT !.online = ~stale, !.known = known]
    BY <1>3 DEF NoteSilence, Quiet
  <2>2. known \in BOOLEAN /\ (~stale) \in BOOLEAN
    OBVIOUS
  <2> HIDE DEF known, c
  <2>3. IsScreen(c) /\ c.online = ~stale
    BY <1>3, <2>1, <2>2 DEF Quiet, IsScreen, Shown
  <2>4. c.profile = b.profile /\ c.silent = b.silent /\ c.sw = b.sw
    BY <1>3, <2>1 DEF Quiet, IsScreen, Shown
  <2> QED BY <1>3, <2>3, <2>4 DEF Quiet
<1>5. gui' = Reconnect(c) /\ SendAlso(IF Reconnects(c) THEN Queries(InitialQueries) ELSE <<>>)
  BY DEF Turn, a, b
<1> HIDE DEF c
<1>6. /\ gui'.profile = c.profile /\ gui'.silent = c.silent /\ gui'.online = c.online
      /\ gui'.sw = c.sw
  BY <1>4, <1>5 DEF Reconnect, IsScreen, Shown
<1>7. IsSwitch(gui'.sw)
  BY <1>4, <1>6, NoSwitchIs DEF CalmTypes
<1>8. \E more \in {Queries(InitialQueries), <<>>} :
         toServer' = toServer \o more /\ (more # <<>> => ~gui'.online)
  <2>1. CASE Reconnects(c) /\ up # "down"
    BY <1>5, <1>6, <2>1 DEF SendAlso, Delivered, Reconnects
  <2>2. CASE ~(Reconnects(c) /\ up # "down")
    BY <1>5, <2>2 DEF SendAlso, Delivered
  <2> QED BY <2>1, <2>2
<1> QED BY <1>4, <1>6, <1>7, <1>8

LEMMA TurnCalm ==
  ASSUME ReadsInTime, CalmInv, Turn
  PROVE  CalmInv' /\ gui'.profile = gui.profile
<1>1. /\ VerdictInv /\ CalmTypes /\ toServer \in Seq(Request) /\ toGui \in Seq(Datagram)
      /\ asked \in Nat /\ gui.silent \in Nat /\ gui.online \in BOOLEAN
  BY InvIs DEF CalmInv, CalmTypes
<1>2. /\ IsSwitch(gui'.sw) /\ gui'.profile = gui.profile /\ gui'.silent = gui.silent
      /\ gui'.online = ~(gui.silent > StaleAfter)
      /\ gui'.sw = gui.sw \/ gui'.sw = NoSwitch
  BY <1>1, TurnIs
<1>3. PICK more \in {Queries(InitialQueries), <<>>} :
        toServer' = toServer \o more /\ (more # <<>> => ~gui'.online)
  BY <1>1, TurnIs
<1>4. UNCHANGED <<toGui, st, radio, up, box, sub, due, behind, asked, mishaps>>
  BY DEF Turn, ownerVars, serverVars, boundVars
<1>5. VerdictInv'
  BY <1>1, TurnStep
<1>6. CalmTypes'
  BY <1>1, <1>2, <1>4 DEF CalmTypes
<1> SUFFICES ASSUME Calm PROVE StaysOnline' /\ OneReply' /\ NoError' /\ ShowsSwitch'
  BY <1>2, <1>4, <1>5, <1>6 DEF CalmInv, Calm
<1>7. StaysOnline /\ OneReply /\ NoError /\ ShowsSwitch
  BY DEF CalmInv
<1>8. gui'.online = gui.online
  BY <1>1, <1>2, <1>7, OnlineStays DEF StaysOnline
<1>9. asked = 1 => more = <<>>
  BY <1>3, <1>7, <1>8 DEF StaysOnline
<1>10. /\ more \in Seq(Request)
       /\ \A i \in 1..Len(more) : Kind(more[i]) \in {"status", "channel", "other"}
  <2>1. \A i \in 1..Len(<<>>) : FALSE
    BY EmptySeq
  <2>2. \A i \in 1..Len(Queries(InitialQueries)) :
          Kind(Queries(InitialQueries)[i]) \in {"status", "channel", "other"}
    BY DEF Queries, InitialQueries, Query, Kind
  <2> QED BY <2>1, <2>2, QueriesAre, EmptySeq
<1> DEFINE added == IF asked = 1 THEN {} ELSE {"status", "channel", "other"}
<1>11. LineFrom(0, added)
  <2>1. \A i \in 1..Len(more) : Kind(more[i]) \in added
    BY <1>9, <1>10, EmptySeq
  <2> HIDE DEF added
  <2>2. /\ 0 \in {0, 1} /\ (0 = 1 => toGui # <<>>)
        /\ toGui' = (IF 0 = 1 THEN Tail(toGui) ELSE toGui)
    BY <1>4
  <2>3. toServer' = toServer \o more /\ more \in Seq(Request)
    BY <1>3, <1>10
  <2> QED BY <1>1, <2>1, <2>2, <2>3, ScreenLine
<1>12. /\ toServer' \in Seq(Request) /\ toGui' \in Seq(Datagram)
       /\ Len(toGui') \in Nat /\ Len(toServer') \in Nat
  BY <1>5, LenProperties DEF VerdictInv, ConsoleTypes
<1>13. "reply" \notin added /\ (asked = 1 => "channel" \notin added)
  OBVIOUS
<1> HIDE DEF added
<1>14. /\ asked = 0 => \A i \in Places' : ToBeHeard(i)' # "reply"
       /\ \A i, j \in Places' : ToBeHeard(i)' = "reply" /\ ToBeHeard(j)' = "reply" => i = j
       /\ asked = 1 => \A i \in Places' :
            ToBeHeard(i)' = "channel" => \E j \in Places' : j > i /\ ToBeHeard(j)' = "reply"
       /\ \A i \in Places' : ToBeHeard(i)' = "reply" =>
            i + 0 \in Places /\ ToBeHeard(i + 0) = "reply"
  BY <1>1, <1>7, <1>11, <1>12, <1>13, LineKept
<1>15. \A i \in Places' : i + 0 = i
  BY <1>12 DEF Places
<1>16. OneReply'
  <2>1. (\E i \in Places' : ToBeHeard(i)' = "reply") => gui'.sw.phase # "accepted"
    BY <1>2, <1>7, <1>14, NoSwitchIs DEF OneReply
  <2>2. Len(box') <= 1 /\ (asked' = 0 => box' = <<>> /\ gui'.sw.phase = "none")
    BY <1>2, <1>4, <1>7, NoSwitchIs DEF OneReply
  <2>3. box' # <<>> => \A i \in Places' : ToBeHeard(i)' = "reply" => i <= Len(toGui')
    BY <1>4, <1>7, <1>14, <1>15 DEF OneReply
  <2> QED BY <1>4, <1>14, <2>1, <2>2, <2>3 DEF OneReply
<1>17. NoError'
  <2>1. Undone' => Undone
    BY <1>4, <1>14, <1>15 DEF Undone
  <2>2. UnderWay' = UnderWay
    BY <1>4 DEF UnderWay, IsStatus
  <2> QED BY <1>4, <1>7, <2>1, <2>2, NoErrorKept
<1>18. ShowsSwitch'
  BY <1>2, <1>4, <1>7, NoSwitchIs DEF ShowsSwitch
<1>19. StaysOnline'
  <2>1. Streams' = Streams
    BY <1>4 DEF Streams, StreamsIn
  <2>2. gui.online => /\ sub' /\ gui'.silent <= Cardinality(Streams') + (IF due' THEN 1 ELSE 0)
                      /\ \A j \in 1..Len(toServer') : Subscribes(toServer'[j]) => gui'.silent = 0
    <3> SUFFICES ASSUME gui.online
                 PROVE  /\ sub' /\ gui'.silent <= Cardinality(Streams') + (IF due' THEN 1 ELSE 0)
                        /\ \A j \in 1..Len(toServer') : Subscribes(toServer'[j]) => gui'.silent = 0
      OBVIOUS
    <3>1. toServer' = toServer
      BY <1>1, <1>3, <1>8, ConcatEmptySeq
    <3> QED BY <1>2, <1>4, <1>7, <2>1, <3>1 DEF StaysOnline, Subscribes
  <2>3. (~gui.online => gui'.silent > StaleAfter) /\ (asked' = 1 => gui.online)
    BY <1>2, <1>4, <1>7 DEF StaysOnline
  <2>4. /\ up' # "down" /\ behind' = 0 /\ Len(toGui') <= NetCap
        /\ \A i \in 1..Len(toGui') : toGui'[i].kind = "stream" => toGui'[i].new /\ sub'
    BY <1>4, <1>7 DEF StaysOnline
  <2> QED BY <1>8, <2>2, <2>3, <2>4 DEF StaysOnline, Subscribes
<1> QED BY <1>2, <1>16, <1>17, <1>18, <1>19

LEMMA TickCalm ==
  ASSUME CalmInv, Tick
  PROVE  CalmInv' /\ gui'.profile = gui.profile
<1>1. /\ VerdictInv /\ CalmTypes /\ IsScreen(gui)
      /\ IsSwitch(gui.sw) /\ gui.silent \in Nat /\ gui.online \in BOOLEAN
      /\ toGui \in Seq(Datagram)
  BY InvIs DEF CalmInv, CalmTypes
<1>2. /\ toServer = <<>> /\ ~(due /\ sub) /\ due' = sub
      /\ UNCHANGED <<toServer, toGui, st, radio, up, box, sub, behind, asked, mishaps>>
      /\ gui' = [gui EXCEPT
                   !.silent = IF @ > StaleAfter THEN @ ELSE @ + 1,
                   !.retry = IF @ >= RetryAfter THEN @ ELSE @ + 1,
                   !.sw = Older(@), !.fw = Older(@)]
  BY DEF Tick, netVars, ownerVars, boundVars
<1>3. /\ gui'.profile = gui.profile /\ gui'.online = gui.online /\ gui'.sw = Older(gui.sw)
      /\ gui'.silent = IF gui.silent > StaleAfter THEN gui.silent ELSE gui.silent + 1
  BY <1>1, <1>2 DEF IsScreen, Shown
<1>4. /\ IsSwitch(gui'.sw) /\ gui'.sw.phase = gui.sw.phase
      /\ gui'.sw.phase = "accepted" => gui'.sw.profile = gui.sw.profile
  <2>1. CASE gui.sw.phase = "none" \/ gui.sw.age > ConfirmWithin
    BY <1>1, <1>3, <2>1 DEF Older
  <2>2. CASE ~(gui.sw.phase = "none" \/ gui.sw.age > ConfirmWithin)
    <3>1. /\ gui.sw = [phase |-> gui.sw.phase, id |-> gui.sw.id, profile |-> gui.sw.profile,
                       confirmed |-> gui.sw.confirmed, age |-> gui.sw.age]
          /\ gui.sw.age \in Nat /\ gui.sw.phase \in {"sent", "accepted"}
      BY <1>1, <2>2, SwitchIs
    <3>2. gui'.sw = [gui.sw EXCEPT !.age = gui.sw.age + 1]
      BY <1>3, <2>2 DEF Older
    <3>3. gui'.sw = [phase |-> gui.sw.phase, id |-> gui.sw.id, profile |-> gui.sw.profile,
                     confirmed |-> gui.sw.confirmed, age |-> gui.sw.age + 1]
      BY <3>1, <3>2
    <3> QED BY <3>1, <3>3 DEF IsSwitch
  <2> QED BY <2>1, <2>2
<1>5. gui'.silent \in Nat
  BY <1>1, <1>3
<1>6. VerdictInv' /\ CalmTypes'
  BY <1>1, <1>2, <1>3, <1>4, <1>5, TickStep DEF CalmTypes
<1> SUFFICES ASSUME Calm PROVE StaysOnline' /\ OneReply' /\ NoError' /\ ShowsSwitch'
  BY <1>2, <1>3, <1>6 DEF CalmInv, Calm
<1>7. StaysOnline /\ OneReply /\ NoError /\ ShowsSwitch
  BY DEF CalmInv
<1>8. /\ Places' = Places /\ Streams' = Streams /\ UnderWay' = UnderWay
      /\ \A i : ToBeHeard(i)' = ToBeHeard(i)
  BY <1>2, LineRests
<1>9. OneReply'
  BY <1>2, <1>4, <1>7, <1>8 DEF OneReply
<1>10. NoError'
  BY <1>2, <1>7, <1>8 DEF NoError, Undone
<1>11. ShowsSwitch'
  BY <1>2, <1>3, <1>4, <1>7 DEF ShowsSwitch
<1>12. StaysOnline'
  <2>1. /\ up' # "down" /\ behind' = 0 /\ Len(toGui') <= NetCap
        /\ \A i \in 1..Len(toGui') : toGui'[i].kind = "stream" => toGui'[i].new /\ sub'
        /\ asked' = 1 => gui'.online
    BY <1>2, <1>3, <1>7 DEF StaysOnline
  <2>2. ~gui'.online => gui'.silent > StaleAfter
    BY <1>3, <1>7 DEF StaysOnline
  <2>3. \A j \in 1..Len(toServer') : FALSE
    BY <1>2, EmptySeq
  <2>4. ASSUME gui'.online
        PROVE  sub' /\ gui'.silent <= Cardinality(Streams') + (IF due' THEN 1 ELSE 0)
    <3>1. sub /\ ~due /\ due' /\ gui.silent <= Cardinality(Streams) + (IF due THEN 1 ELSE 0)
      BY <1>2, <1>3, <1>7, <2>4 DEF StaysOnline
    <3>2. Cardinality(Streams) \in Nat
      BY <1>1, StreamsAreFinite DEF Streams
    <3>3. gui'.silent <= Cardinality(Streams) + 1
      BY <1>1, <1>3, <3>1, <3>2
    <3> QED BY <1>2, <1>8, <3>1, <3>3
  <2> QED BY <2>1, <2>2, <2>3, <2>4 DEF StaysOnline
<1> QED BY <1>3, <1>9, <1>10, <1>11, <1>12

\* A command given is the last to be answered.
LEMMA TouchCalm ==
  ASSUME CalmInv, VerdictInv', NEW q \in Request, q.op \in {"start", "stop", "switch"},
         gui.online, asked' = asked + 1, SendAlso(<<q>>),
         UNCHANGED <<toGui, st, radio, up, box, sub, due, behind, mishaps>>,
         gui'.online = gui.online, gui'.silent = gui.silent,
         IsSwitch(gui'.sw), gui'.sw = gui.sw \/ gui'.sw.phase = "sent"
  PROVE  CalmInv'
<1>1. /\ VerdictInv /\ CalmTypes /\ toServer \in Seq(Request) /\ toGui \in Seq(Datagram)
      /\ asked \in Nat /\ gui.silent \in Nat /\ gui.online \in BOOLEAN
  BY InvIs DEF CalmInv, CalmTypes
<1>2. CalmTypes'
  BY <1>1 DEF CalmTypes
<1> SUFFICES ASSUME Calm' PROVE StaysOnline' /\ OneReply' /\ NoError' /\ ShowsSwitch'
  BY <1>2 DEF CalmInv
<1>3. asked = 0 /\ asked' = 1 /\ Calm
  BY <1>1 DEF Calm
<1>4. StaysOnline /\ OneReply /\ NoError
  BY <1>3 DEF CalmInv
<1>5. toServer' = toServer \o <<q>>
  BY <1>4 DEF SendAlso, Delivered, StaysOnline
<1>6. <<q>> \in Seq(Request) /\ Len(<<q>>) = 1 /\ <<q>>[1] = q
  OBVIOUS
<1>7. Kind(q) = "reply" /\ ~Subscribes(q)
  BY AnswerIs
<1>8. LineFrom(0, {"reply"})
  <2>1. /\ 0 \in {0, 1} /\ (0 = 1 => toGui # <<>>)
        /\ toGui' = (IF 0 = 1 THEN Tail(toGui) ELSE toGui)
    OBVIOUS
  <2>2. \A i \in 1..Len(<<q>>) : Kind(<<q>>[i]) \in {"reply"}
    BY <1>6, <1>7
  <2> QED BY <1>1, <1>5, <1>6, <2>1, <2>2, ScreenLine
<1>9. /\ Len(toGui) \in Nat /\ Len(toServer) \in Nat /\ Len(toServer') = Len(toServer) + 1
      /\ \A j \in 1..Len(toServer) : toServer'[j] = toServer[j]
      /\ toServer'[Len(toServer) + 1] = q
  BY <1>1, <1>5, <1>6, ConcatProperties, LenProperties
<1> DEFINE last == Len(toGui) + Len(toServer) + 1
<1>10. /\ last \in Places' /\ last \notin Places
       /\ \A i \in Places' : i + 0 = i /\ (i \in Places \/ i = last)
       /\ \A i \in Places : last > i
  <2>1. Places = 1..(Len(toGui) + Len(toServer))
    BY DEF Places
  <2>2. Places' = 1..(Len(toGui) + (Len(toServer) + 1))
    BY <1>9 DEF Places
  <2> QED BY <1>9, <2>1, <2>2
<1> HIDE DEF last
<1>11. \A i \in Places : ToBeHeard(i) # "reply"
  BY <1>3, <1>4 DEF OneReply
<1>12. /\ \A i \in Places' : i \in Places => ToBeHeard(i)' = ToBeHeard(i)
       /\ \A i \in Places' : i \notin Places => ToBeHeard(i)' = "reply"
  BY <1>8, <1>10 DEF LineFrom
<1>13. box' = <<>> /\ gui'.sw.phase # "accepted"
  BY <1>3, <1>4 DEF OneReply
<1>14. OneReply'
  <2>1. \A i, j \in Places' : ToBeHeard(i)' = "reply" /\ ToBeHeard(j)' = "reply" => i = j
    BY <1>10, <1>11, <1>12
  <2>2. \A i \in Places' :
          ToBeHeard(i)' = "channel" => \E j \in Places' : j > i /\ ToBeHeard(j)' = "reply"
    BY <1>10, <1>11, <1>12
  <2>3. Len(box') <= 1
    BY <1>13, EmptySeq
  <2> QED BY <1>3, <1>13, <2>1, <2>2, <2>3 DEF OneReply
<1>15. NoError'
  <2>1. UnderWay' = UnderWay
    BY DEF UnderWay, IsStatus
  <2> QED BY <1>3, <1>4, <2>1 DEF NoError, Undone
<1>16. ShowsSwitch'
  BY <1>13 DEF ShowsSwitch
<1>17. StaysOnline'
  <2>1. Streams' = Streams
    BY DEF Streams, StreamsIn
  <2>2. ASSUME NEW j \in 1..Len(toServer'), Subscribes(toServer'[j]) PROVE gui'.silent = 0
    <3>1. j \in 1..Len(toServer) \/ j = Len(toServer) + 1
      BY <1>9
    <3>2. j # Len(toServer) + 1
      BY <1>7, <1>9, <2>2
    <3> QED BY <1>4, <1>9, <2>2, <3>1, <3>2 DEF StaysOnline
  <2>3. /\ up' # "down" /\ behind' = 0 /\ Len(toGui') <= NetCap
        /\ \A i \in 1..Len(toGui') : toGui'[i].kind = "stream" => toGui'[i].new /\ sub'
        /\ sub' /\ gui'.silent <= Cardinality(Streams') + (IF due' THEN 1 ELSE 0)
    BY <1>4, <2>1 DEF StaysOnline
  <2> QED BY <2>2, <2>3 DEF StaysOnline, Subscribes
<1> QED BY <1>14, <1>15, <1>16, <1>17

LEMMA TouchForwardingCalm ==
  ASSUME CalmInv, TouchForwarding
  PROVE  CalmInv' /\ gui'.profile = gui.profile
<1>1. VerdictInv /\ CalmTypes /\ IsScreen(gui) /\ asked \in Nat
  BY InvIs DEF CalmInv
<1>2. VerdictInv'
  BY <1>1, TouchForwardingStep
<1>3. PICK op \in {"start", "stop"} : Give(op, NoProfile)
  BY DEF TouchForwarding
<1>4. PICK w : gui' = [Fresh EXCEPT !.fw = w]
  BY DEF TouchForwarding
<1>5. /\ gui'.online = gui.online /\ gui'.silent = gui.silent /\ gui'.sw = gui.sw
      /\ gui'.profile = gui.profile
  BY <1>1, <1>4 DEF Fresh, IsScreen, Shown
<1> DEFINE q == [op |-> op, id |-> asked + 1, profile |-> NoProfile]
<1>6. q \in Request /\ q.op \in {"start", "stop", "switch"}
  BY <1>1 DEF Request, Command
<1>7. /\ gui.online /\ asked' = asked + 1 /\ SendAlso(<<q>>)
      /\ UNCHANGED <<toGui, st, radio, up, box, sub, due, behind, mishaps>>
  BY <1>3 DEF Give, ControlsEnabled, ownerVars, serverVars
<1> HIDE DEF q
<1> QED BY <1>1, <1>2, <1>5, <1>6, <1>7, TouchCalm DEF CalmTypes

LEMMA TouchChannelCalm ==
  ASSUME CalmInv, NEW p \in Profiles, TouchChannel(p)
  PROVE  CalmInv' /\ gui'.profile = gui.profile
<1>1. VerdictInv /\ CalmTypes /\ IsScreen(gui) /\ asked \in Nat
  BY InvIs DEF CalmInv
<1>2. VerdictInv'
  BY <1>1, TouchChannelStep
<1> DEFINE w == [phase |-> "sent", id |-> asked', profile |-> p, confirmed |-> FALSE, age |-> 0]
<1>3. Give("switch", p) /\ gui' = [Fresh EXCEPT !.sw = w]
  BY DEF TouchChannel
<1>4. IsSwitch(w) /\ w.phase = "sent"
  BY DEF IsSwitch
<1> HIDE DEF w
<1>5. /\ gui'.online = gui.online /\ gui'.silent = gui.silent /\ gui'.sw = w
      /\ gui'.profile = gui.profile
  BY <1>1, <1>3 DEF Fresh, IsScreen, Shown
<1> DEFINE q == [op |-> "switch", id |-> asked + 1, profile |-> p]
<1>6. q \in Request /\ q.op \in {"start", "stop", "switch"}
  BY <1>1 DEF Request, Command
<1>7. /\ gui.online /\ asked' = asked + 1 /\ SendAlso(<<q>>)
      /\ UNCHANGED <<toGui, st, radio, up, box, sub, due, behind, mishaps>>
  BY <1>3 DEF Give, ControlsEnabled, ownerVars, serverVars
<1> HIDE DEF q
<1> QED BY <1>1, <1>2, <1>4, <1>5, <1>6, <1>7, TouchCalm

-----------------------------------------------------------------------------
(* The repeater's steps, and the world's *)

\* A command served is in the mailbox and its reply the last under way.
LEMMA ServeReply ==
  ASSUME CalmInv, VerdictInv', Calm, Serve
  PROVE  OneReply' /\ NoError' /\ ShowsSwitch'
<1> DEFINE q == Head(toServer)
<1>1. /\ VerdictInv /\ toServer \in Seq(Request) /\ toGui \in Seq(Datagram)
      /\ box \in Seq(Command) /\ asked \in Nat
      /\ OneReply /\ NoError /\ ShowsSwitch
  BY InvIs DEF CalmInv
<1>2. /\ toServer # <<>> /\ toGui' = Append(toGui, Answer(q)) /\ toServer' = Tail(toServer)
      /\ box' = box \o Commands(q) /\ UNCHANGED <<gui, st, radio, asked, mishaps>>
  BY DEF Serve, ownerVars, boundVars
<1>3. q \in Request /\ q = toServer[1]
  BY <1>1, <1>2, SeqFacts
<1>4. /\ Answer(q) \in Datagram /\ Answer(q).kind = Kind(q)
      /\ IsStatus(Answer(q)) => Answer(q).st = st
      /\ Kind(q) = "reply" <=> q.op \in {"start", "stop", "switch"}
  BY <1>1, <1>3, AnswerIs, AnswerIsDatagram
<1>5. LineFrom(0, {})
  BY <1>1, <1>2, <1>4, ServeLine
<1>6. /\ toServer' \in Seq(Request) /\ toGui' \in Seq(Datagram)
      /\ Len(toGui') \in Nat /\ Len(toServer') \in Nat
  BY LenProperties DEF VerdictInv, ConsoleTypes
<1>7. /\ asked = 0 => \A i \in Places' : ToBeHeard(i)' # "reply"
      /\ \A i, j \in Places' : ToBeHeard(i)' = "reply" /\ ToBeHeard(j)' = "reply" => i = j
      /\ asked = 1 => \A i \in Places' :
           ToBeHeard(i)' = "channel" => \E j \in Places' : j > i /\ ToBeHeard(j)' = "reply"
      /\ \A i \in Places' : ToBeHeard(i)' = "reply" =>
           i + 0 \in Places /\ ToBeHeard(i + 0) = "reply"
  <2>1. /\ 0 \in {0, 1} /\ "reply" \notin {} /\ (asked = 1 => "channel" \notin {})
    OBVIOUS
  <2> QED BY <1>1, <1>5, <1>6, <2>1, LineKept
<1> DEFINE here == Len(toGui) + 1
<1>8. /\ Len(toGui) \in Nat /\ Len(toGui') = here /\ here > Len(toGui)
      /\ here \in Places /\ ToBeHeard(here) = Kind(q)
      /\ \A i \in Places \cup Places' : i \in Nat /\ i + 0 = i
  <2>1. /\ Len(toGui) \in Nat /\ Len(toServer) \in Nat /\ Len(toServer) > 0
        /\ Len(toGui') = here
    BY <1>1, <1>2, <1>4, SeqFacts, AppendProperties
  <2>2. here \in Places /\ ~(here <= Len(toGui)) /\ here - Len(toGui) = 1
    BY <2>1 DEF Places
  <2>3. ToBeHeard(here) = Kind(q)
    <3> HIDE DEF here, q
    <3> QED BY <1>3, <2>2 DEF ToBeHeard
  <2> QED BY <1>6, <2>1, <2>2, <2>3 DEF Places
<1> HIDE DEF here
<1>9. /\ Kind(q) # "reply" => Commands(q) = <<>> /\ box' = box
      /\ Kind(q) = "reply" => box = <<>> /\ box' = <<q>>
  <2>1. Kind(q) # "reply" => Commands(q) = <<>> /\ box' = box
    <3> HIDE DEF q
    <3> QED BY <1>1, <1>2, <1>4, ConcatEmptySeq DEF Commands
  <2>2. Kind(q) = "reply" => box = <<>>
    BY <1>1, <1>8 DEF OneReply
  <2>3. Kind(q) = "reply" => Commands(q) = <<q>> /\ q \in Command
    <3> HIDE DEF q
    <3> QED BY <1>3, <1>4, RequestIs DEF Commands
  <2>4. Kind(q) = "reply" => <<>> \o <<q>> = <<q>>
    <3> HIDE DEF q
    <3>1. <<q>> \in Seq({q})
      OBVIOUS
    <3> QED BY <3>1, ConcatEmptySeq
  <2> QED BY <1>2, <2>1, <2>2, <2>3, <2>4
<1>10. \A i \in Places' : ToBeHeard(i)' = "reply" => i \in Places /\ ToBeHeard(i) = "reply"
  BY <1>7, <1>8
<1>11. Kind(q) = "reply" => gui.sw.phase # "accepted" /\ asked # 0
  BY <1>1, <1>8 DEF OneReply
<1> HIDE DEF q
<1>12. OneReply'
  <2>1. (\E i \in Places' : ToBeHeard(i)' = "reply") => gui'.sw.phase # "accepted"
    BY <1>1, <1>2, <1>10 DEF OneReply
  <2>2. Len(box') <= 1
    <3>1. box' = box => Len(box') <= 1
      BY <1>1 DEF OneReply
    <3>2. box' = <<q>> => Len(box') <= 1
      OBVIOUS
    <3> QED BY <1>9, <3>1, <3>2, Zenon
  <2>3. asked' = 0 => box' = <<>> /\ gui'.sw.phase = "none"
    BY <1>1, <1>2, <1>9, <1>11 DEF OneReply
  <2>4. ASSUME box' # <<>>, NEW i \in Places', ToBeHeard(i)' = "reply" PROVE i <= Len(toGui')
    <3>1. CASE Kind(q) = "reply"
      <4>1. i = here
        BY <1>1, <1>8, <1>10, <2>4, <3>1 DEF OneReply
      <4> QED BY <1>8, <4>1
    <3>2. CASE Kind(q) # "reply"
      <4>1. i <= Len(toGui) /\ i \in Nat
        BY <1>1, <1>8, <1>9, <1>10, <2>4, <3>2 DEF OneReply
      <4> QED BY <1>8, <4>1, <1>6
    <3> QED BY <3>1, <3>2
  <2> QED BY <1>2, <1>7, <2>1, <2>2, <2>3, <2>4 DEF OneReply
<1>13. NoError'
  <2>1. Undone' => Undone
    <3>1. CASE asked' = 0 \/ box' # <<>>
      BY <1>2, <1>8, <1>9, <3>1 DEF Undone
    <3>2. ASSUME NEW i \in Places', i > Len(toGui'), ToBeHeard(i)' = "reply" PROVE Undone
      <4>1. i > Len(toGui)
        BY <1>8, <3>2
      <4> QED BY <1>10, <3>2, <4>1 DEF Undone
    <3> QED BY <3>1, <3>2 DEF Undone
  <2>2. \A s \in UnderWay' : s \in UnderWay \/ s = st
    BY <1>1, <1>2, <1>4, SentIs
  <2> QED BY <1>1, <1>2, <2>1, <2>2, NoErrorKept
<1>14. ShowsSwitch'
  BY <1>1, <1>2, <1>9, <1>11 DEF ShowsSwitch
<1> QED BY <1>12, <1>13, <1>14

LEMMA ServeCalm ==
  ASSUME CalmInv, Serve
  PROVE  CalmInv' /\ gui'.profile = gui.profile
<1> DEFINE q == Head(toServer)
<1>1. /\ VerdictInv /\ CalmTypes /\ toServer \in Seq(Request) /\ toGui \in Seq(Datagram)
      /\ gui.silent \in Nat
  BY InvIs DEF CalmInv, CalmTypes
<1>2. /\ toServer # <<>> /\ toGui' = Append(toGui, Answer(q)) /\ toServer' = Tail(toServer)
      /\ Room /\ UNCHANGED <<gui, up, behind, asked, mishaps>>
      /\ sub' = (sub \/ Subscribes(q)) /\ due' = (due /\ ~Subscribes(q))
  BY DEF Serve, boundVars
<1>3. VerdictInv'
  BY <1>1, ServeStep
<1>4. CalmTypes'
  <2>1. sub' \in BOOLEAN /\ due' \in BOOLEAN
    BY <1>2
  <2> QED BY <1>1, <1>2, <2>1 DEF CalmTypes
<1> SUFFICES ASSUME Calm PROVE StaysOnline'
  BY <1>2, <1>3, <1>4, ServeReply DEF CalmInv, Calm
<1>5. StaysOnline
  BY DEF CalmInv
<1>6. q \in Request /\ q = toServer[1] /\ 1 \in 1..Len(toServer)
  BY <1>1, <1>2, SeqFacts
<1>7. Answer(q) \in Datagram /\ Answer(q).kind # "stream"
  BY <1>1, <1>6, AnswerIs, AnswerIsDatagram
<1> HIDE DEF q
<1>8. /\ Len(toGui) \in Nat /\ Len(toGui') = Len(toGui) + 1
      /\ \A i \in 1..Len(toGui) : toGui'[i] = toGui[i]
      /\ toGui'[Len(toGui) + 1] = Answer(q)
      /\ Len(toServer) \in Nat /\ Len(toServer') = Len(toServer) - 1
      /\ \A j \in 1..(Len(toServer) - 1) : toServer'[j] = toServer[j + 1]
  BY <1>1, <1>2, <1>7, SeqFacts, AppendProperties
<1>9. Cardinality(Streams') = Cardinality(Streams) /\ Cardinality(Streams) \in Nat
  <2>1. Cardinality(StreamsIn(Append(toGui, Answer(q)))) = Cardinality(StreamsIn(toGui)) + 0
    BY <1>1, <1>7, StreamsSent
  <2>2. Cardinality(StreamsIn(toGui)) \in Nat
    BY <1>1, StreamsAreFinite
  <2>3. Streams' = StreamsIn(toGui') /\ Streams = StreamsIn(toGui)
    BY DEF Streams, StreamsIn
  <2> QED BY <1>2, <2>1, <2>2, <2>3
<1>10. up' # "down" /\ behind' = 0 /\ Len(toGui') <= NetCap
  BY <1>2, <1>5, <1>8, LimitsAssumption DEF StaysOnline, Room
<1>11. \A i \in 1..Len(toGui') : toGui'[i].kind = "stream" => toGui'[i].new /\ sub'
  <2> SUFFICES ASSUME NEW i \in 1..Len(toGui'), toGui'[i].kind = "stream"
               PROVE  toGui'[i].new /\ sub'
    OBVIOUS
  <2>1. i \in 1..Len(toGui)
    BY <1>7, <1>8
  <2>2. toGui[i].kind = "stream" /\ toGui'[i] = toGui[i]
    BY <1>8, <2>1
  <2> QED BY <1>2, <1>5, <2>1, <2>2 DEF StaysOnline
<1>12. ASSUME gui.online
       PROVE  /\ sub' /\ gui'.silent <= Cardinality(Streams') + (IF due' THEN 1 ELSE 0)
              /\ \A j \in 1..Len(toServer') : Subscribes(toServer'[j]) => gui'.silent = 0
  <2>1. /\ sub /\ gui.silent <= Cardinality(Streams) + (IF due THEN 1 ELSE 0)
        /\ \A j \in 1..Len(toServer) : Subscribes(toServer[j]) => gui.silent = 0
    BY <1>5, <1>12 DEF StaysOnline
  <2>2. sub'
    BY <1>2, <2>1
  <2>3. CASE Subscribes(q)
    <3>1. gui.silent = 0
      BY <1>6, <2>1, <2>3
    <3> QED BY <1>2, <1>9, <2>2, <3>1
  <2>4. CASE ~Subscribes(q)
    <3>1. due' = due
      BY <1>2, <1>4, <2>4, <1>1 DEF CalmTypes
    <3>2. gui'.silent <= Cardinality(Streams') + (IF due' THEN 1 ELSE 0)
      BY <1>2, <1>9, <2>1, <3>1
    <3>3. ASSUME NEW j \in 1..Len(toServer'), Subscribes(toServer'[j]) PROVE gui'.silent = 0
      <4>1. j + 1 \in 1..Len(toServer) /\ toServer'[j] = toServer[j + 1]
        BY <1>8
      <4> QED BY <1>2, <2>1, <3>3, <4>1
    <3> QED BY <2>2, <3>2, <3>3
  <2> QED BY <2>3, <2>4
<1>13. (~gui'.online => gui'.silent > StaleAfter) /\ (asked' = 1 => gui'.online)
  BY <1>2, <1>5 DEF StaysOnline
<1> QED BY <1>2, <1>10, <1>11, <1>12, <1>13 DEF StaysOnline, Subscribes

LEMMA SendStatusCalm ==
  ASSUME CalmInv, SendStatus
  PROVE  CalmInv' /\ gui'.profile = gui.profile
<1>1. /\ VerdictInv /\ CalmTypes /\ toServer \in Seq(Request) /\ toGui \in Seq(Datagram)
      /\ gui.silent \in Nat
  BY InvIs DEF CalmInv, CalmTypes
<1>2. /\ sub /\ due /\ due' = FALSE /\ toServer = <<>> /\ Room
      /\ toGui' = Append(toGui, [kind |-> "stream", new |-> Numbered, st |-> st])
      /\ behind' = IF behind = 0 THEN 0 ELSE behind - 1
      /\ UNCHANGED <<gui, toServer, st, radio, up, box, sub, asked, mishaps>>
  BY DEF SendStatus, ownerVars, boundVars
<1>3. VerdictInv'
  BY <1>1, SendStatusStep
<1>4. CalmTypes'
  <2>1. behind' \in Nat
    BY <1>1, <1>2 DEF CalmTypes
  <2> QED BY <1>1, <1>2, <2>1 DEF CalmTypes
<1> SUFFICES ASSUME Calm PROVE StaysOnline' /\ OneReply' /\ NoError' /\ ShowsSwitch'
  BY <1>2, <1>3, <1>4 DEF CalmInv, Calm
<1>5. StaysOnline /\ OneReply /\ NoError /\ ShowsSwitch
  BY DEF CalmInv
<1>6. PICK d \in Datagram : /\ toGui' = Append(toGui, d) /\ d.kind = "stream"
                            /\ d.new /\ d.st = st
  <2> DEFINE d == [kind |-> "stream", new |-> TRUE, st |-> st]
  <2>1. d \in Datagram /\ d.kind = "stream" /\ d.new /\ d.st = st
    BY <1>1, InvIs DEF Datagram
  <2>2. Numbered = TRUE
    BY <1>5 DEF Numbered, StaysOnline
  <2>3. toGui' = Append(toGui, d)
    BY <1>2, <2>2
  <2> HIDE DEF d
  <2> QED BY <2>1, <2>3
<1>7. LineFrom(0, {"stream"})
  BY <1>1, <1>2, <1>6, StreamLine
<1>8. /\ Len(toGui) \in Nat /\ Len(toGui') = Len(toGui) + 1
      /\ \A i \in 1..Len(toGui) : toGui'[i] = toGui[i]
      /\ toGui'[Len(toGui) + 1] = d
      /\ Len(toServer') \in Nat /\ Len(toGui') \in Nat
  BY <1>1, <1>2, <1>6, SeqFacts, AppendProperties
<1>9. /\ asked = 0 => \A i \in Places' : ToBeHeard(i)' # "reply"
      /\ \A i, j \in Places' : ToBeHeard(i)' = "reply" /\ ToBeHeard(j)' = "reply" => i = j
      /\ asked = 1 => \A i \in Places' :
           ToBeHeard(i)' = "channel" => \E j \in Places' : j > i /\ ToBeHeard(j)' = "reply"
      /\ \A i \in Places' : ToBeHeard(i)' = "reply" =>
           i + 0 \in Places /\ ToBeHeard(i + 0) = "reply"
  <2>1. /\ 0 \in {0, 1} /\ "reply" \notin {"stream"} /\ (asked = 1 => "channel" \notin {"stream"})
    OBVIOUS
  <2> QED BY <1>1, <1>5, <1>7, <1>8, <2>1, LineKept
<1>10. \A i \in Places' : i \in Nat /\ i + 0 = i
  BY <1>8 DEF Places
<1>11. OneReply'
  <2>1. (\E i \in Places' : ToBeHeard(i)' = "reply") => gui'.sw.phase # "accepted"
    BY <1>2, <1>5, <1>9 DEF OneReply
  <2>2. ASSUME box' # <<>>, NEW i \in Places', ToBeHeard(i)' = "reply" PROVE i <= Len(toGui')
    <3>1. i <= Len(toGui)
      BY <1>2, <1>5, <1>9, <1>10, <2>2 DEF OneReply
    <3> QED BY <1>8, <1>10, <3>1
  <2>3. Len(box') <= 1 /\ (asked' = 0 => box' = <<>> /\ gui'.sw.phase = "none")
    BY <1>2, <1>5 DEF OneReply
  <2> QED BY <1>2, <1>9, <2>1, <2>2, <2>3 DEF OneReply
<1>12. NoError'
  <2>1. Undone' => Undone
    <3>1. ASSUME NEW i \in Places', i > Len(toGui'), ToBeHeard(i)' = "reply" PROVE Undone
      <4>1. i > Len(toGui) /\ i \in Places /\ ToBeHeard(i) = "reply"
        BY <1>8, <1>9, <1>10, <3>1
      <4> QED BY <4>1 DEF Undone
    <3> QED BY <1>2, <3>1 DEF Undone
  <2>2. \A s \in UnderWay' : s \in UnderWay \/ s = st
    BY <1>1, <1>6, SentIs
  <2> QED BY <1>2, <1>5, <2>1, <2>2, NoErrorKept
<1>13. ShowsSwitch'
  BY <1>2, <1>5 DEF ShowsSwitch
<1>14. StaysOnline'
  <2>1. Cardinality(Streams') = Cardinality(Streams) + 1 /\ Cardinality(Streams) \in Nat
    <3>1. Cardinality(StreamsIn(Append(toGui, d))) = Cardinality(StreamsIn(toGui)) + 1
      BY <1>1, <1>6, StreamsSent
    <3>2. Streams' = StreamsIn(toGui') /\ Streams = StreamsIn(toGui)
      BY DEF Streams, StreamsIn
    <3> QED BY <1>1, <1>6, <3>1, <3>2, StreamsAreFinite
  <2>2. up' # "down" /\ behind' = 0 /\ Len(toGui') <= NetCap
    BY <1>2, <1>5, <1>8, LimitsAssumption DEF StaysOnline, Room
  <2>3. \A i \in 1..Len(toGui') : toGui'[i].kind = "stream" => toGui'[i].new /\ sub'
    <3> SUFFICES ASSUME NEW i \in 1..Len(toGui'), toGui'[i].kind = "stream"
                 PROVE  toGui'[i].new /\ sub'
      OBVIOUS
    <3>1. i \in 1..Len(toGui) \/ toGui'[i] = d
      BY <1>8
    <3> QED BY <1>2, <1>5, <1>6, <1>8, <3>1 DEF StaysOnline
  <2>4. \A j \in 1..Len(toServer') : FALSE
    BY <1>2, EmptySeq
  <2>5. gui'.online => sub' /\ gui'.silent <= Cardinality(Streams') + (IF due' THEN 1 ELSE 0)
    <3>1. gui.online => gui.silent <= Cardinality(Streams) + 1
      BY <1>2, <1>5 DEF StaysOnline
    <3> QED BY <1>2, <2>1, <3>1
  <2>6. (~gui'.online => gui'.silent > StaleAfter) /\ (asked' = 1 => gui'.online)
    BY <1>2, <1>5 DEF StaysOnline
  <2> QED BY <2>2, <2>3, <2>4, <2>5, <2>6 DEF StaysOnline
<1> QED BY <1>2, <1>11, <1>12, <1>13, <1>14

\* The main loop tells of no failure, and of what it carries out nothing waits.
LEMMA OwnerCalm ==
  ASSUME CalmInv, Owner
  PROVE  CalmInv' /\ gui'.profile = gui.profile
<1>1. VerdictInv /\ CalmTypes /\ box \in Seq(Command) /\ mishaps \in Nat
  BY InvIs DEF CalmInv, CalmTypes
<1>2. UNCHANGED <<gui, toServer, toGui, sub, due, behind, asked>>
  BY DEF Owner, Boot, DoStart, DoStop, DoSwitch, Doing, netVars, Works, Fails, boundVars
<1>3. VerdictInv'
  BY <1>1, OwnerStep
<1>4. mishaps' = mishaps \/ mishaps' = mishaps + 1
  BY DEF Owner, Boot, DoStart, DoStop, DoSwitch, Works, Fails, Mishap, boundVars
<1>5. CalmTypes'
  BY <1>1, <1>2, <1>4 DEF CalmTypes
<1> SUFFICES ASSUME Calm' PROVE StaysOnline' /\ OneReply' /\ NoError' /\ ShowsSwitch'
  BY <1>2, <1>3, <1>5 DEF CalmInv
<1>6. mishaps' = 0 /\ mishaps = 0 /\ Calm
  BY <1>1, <1>2, <1>4 DEF Calm
<1>7. StaysOnline /\ OneReply /\ NoError /\ ShowsSwitch
  BY <1>6 DEF CalmInv
<1>8. /\ Places' = Places /\ Streams' = Streams /\ UnderWay' = UnderWay
      /\ \A i : ToBeHeard(i)' = ToBeHeard(i)
  BY <1>2, LineRests
<1>9. up' # "down"
  BY <1>7 DEF Owner, Boot, DoStart, DoStop, DoSwitch, Doing, StaysOnline
<1>10. StaysOnline'
  BY <1>2, <1>7, <1>8, <1>9 DEF StaysOnline, Subscribes
<1>11. CASE Boot
  <2>1. box' = box
    BY <1>11 DEF Boot
  <2>2. ~st'.err
    <3>1. st' = [st EXCEPT !.running = TRUE, !.fault = FALSE, !.err = FALSE]
      BY <1>6, <1>11 DEF Boot, Fails, Mishap
    <3> QED BY <1>1, <3>1, InvIs DEF Status
  <2>3. OneReply'
    BY <1>2, <1>7, <1>8, <2>1 DEF OneReply
  <2>4. NoError'
    BY <1>2, <1>7, <1>8, <2>1, <2>2 DEF NoError, Undone
  <2>5. ShowsSwitch'
    BY <1>2, <1>7, <2>1 DEF ShowsSwitch
  <2> QED BY <1>10, <2>3, <2>4, <2>5
<1>12. CASE DoStart \/ DoStop \/ DoSwitch
  <2>1. box # <<>> /\ box' = Tail(box)
    BY <1>12 DEF DoStart, DoStop, DoSwitch, Doing
  <2>2. box' = <<>>
    <3>1. Len(box) <= 1 /\ Len(box) \in Nat /\ Len(box) > 0
      BY <1>1, <1>7, <2>1, EmptySeq, LenProperties DEF OneReply
    <3>2. Tail(box) \in Seq(Command) /\ Len(Tail(box)) = Len(box) - 1
      BY <1>1, <2>1, HeadTailProperties, EmptySeq
    <3>3. Len(Tail(box)) = 0
      BY <3>1, <3>2
    <3> QED BY <2>1, <3>2, <3>3, EmptySeq
  <2>3. OneReply'
    <3>1. Len(box') <= 1
      BY <2>2, EmptySeq
    <3> QED BY <1>2, <1>7, <1>8, <2>2, <3>1 DEF OneReply
  <2>4. ~Undone'
    <3>1. asked' # 0
      BY <1>2, <1>7, <2>1 DEF OneReply
    <3>2. \A i \in Places : ToBeHeard(i) = "reply" => i <= Len(toGui)
      BY <1>7, <2>1 DEF OneReply
    <3>3. \A i \in Places : i \in Nat /\ Len(toGui) \in Nat
      BY <1>1, InvIs, LenProperties DEF Places
    <3> QED BY <1>2, <1>8, <2>2, <3>1, <3>2, <3>3 DEF Undone
  <2>5. NoError' /\ ShowsSwitch'
    BY <2>2, <2>4 DEF NoError, ShowsSwitch
  <2> QED BY <1>10, <2>3, <2>5
<1> QED BY <1>11, <1>12 DEF Owner

\* The rest is a mishap, or the return from one.
LEMMA WorldCalm ==
  ASSUME CalmInv, HealthFails \/ Crash \/ Restart \/ Lose
  PROVE  CalmInv' /\ gui'.profile = gui.profile
<1>1. VerdictInv /\ CalmTypes /\ mishaps \in Nat
  BY DEF CalmInv, CalmTypes
<1>2. UNCHANGED <<gui, asked>>
  BY DEF HealthFails, Crash, Restart, Lose, Fails, boundVars
<1>3. VerdictInv'
  BY <1>1, OwnerStep, CrashStep, RestartStep, LoseStep
<1>4. CASE HealthFails \/ Crash \/ Lose
  <2>1. mishaps' = mishaps + 1 /\ behind' = behind
    BY <1>4 DEF HealthFails, Crash, Lose, Fails, Mishap, serverVars
  <2>2. sub' \in BOOLEAN /\ due' \in BOOLEAN
    BY <1>1, <1>4 DEF HealthFails, Crash, Lose, serverVars, CalmTypes
  <2>3. mishaps' \in Nat /\ mishaps' # 0
    BY <1>1, <2>1
  <2>4. CalmTypes'
    BY <1>1, <1>2, <2>1, <2>2, <2>3 DEF CalmTypes
  <2> QED BY <1>2, <1>3, <2>3, <2>4 DEF CalmInv, Calm
<1>5. CASE Restart
  <2>1. up = "down" /\ behind' \in 0..MaxBehind /\ UNCHANGED <<sub, due, asked, mishaps>>
    BY <1>5 DEF Restart, boundVars
  <2>2. ~Calm
    BY <2>1 DEF CalmInv, StaysOnline
  <2>3. behind' \in Nat
    BY <2>1, BoundsAssumption
  <2>4. CalmTypes'
    BY <1>1, <1>2, <2>1, <2>3 DEF CalmTypes
  <2> QED BY <1>2, <1>3, <2>1, <2>2, <2>4 DEF CalmInv, Calm
<1> QED BY <1>4, <1>5

LEMMA CalmInit == Init => CalmInv
<1> SUFFICES ASSUME Init PROVE CalmInv
  OBVIOUS
<1>1. /\ gui = [profile |-> NoProfile, fwd |-> FALSE, running |-> FALSE,
                fault |-> FALSE, err |-> FALSE, known |-> FALSE, online |-> FALSE,
                silent |-> StaleAfter + 1, retry |-> 0,
                sw |-> NoSwitch, fw |-> NoForwarding, done |-> FALSE]
      /\ toServer = Queries(InitialQueries) /\ toGui = <<>> /\ st = Booting(FirstProfile)
      /\ up = "boot" /\ behind = 0 /\ sub = FALSE /\ due = FALSE
      /\ box = <<>> /\ asked = 0 /\ mishaps = 0
  BY DEF Init
<1>2. VerdictInv
  BY VerdictInit
<1>3. gui.online = FALSE /\ gui.silent = StaleAfter + 1 /\ gui.sw = NoSwitch
  BY <1>1
<1>4. CalmTypes
  <2>1. gui.silent \in Nat /\ mishaps \in Nat /\ behind \in Nat
    BY <1>1, <1>3, LimitsAssumption
  <2>2. gui.online \in BOOLEAN /\ sub \in BOOLEAN /\ due \in BOOLEAN
    BY <1>1, <1>3
  <2> QED BY <1>3, <2>1, <2>2, NoSwitchIs DEF CalmTypes
<1>5. Len(toGui) = 0 /\ Len(box) = 0 /\ (\A i \in 1..Len(toGui) : FALSE)
  BY <1>1, EmptySeq
<1>6. StaysOnline
  BY <1>1, <1>3, <1>5, LimitsAssumption DEF StaysOnline
<1>7. \A i \in Places : ToBeHeard(i) # "reply"
  <2>1. /\ Len(toServer) = 3
        /\ \A i \in 1..3 : Kind(toServer[i]) \in {"status", "channel", "other"}
    BY <1>1 DEF Queries, InitialQueries, Query, Kind
  <2>2. ASSUME NEW i \in Places PROVE ToBeHeard(i) = Kind(toServer[i]) /\ i \in 1..3
    BY <1>5, <2>1 DEF Places, ToBeHeard
  <2> QED BY <2>1, <2>2
<1>8. OneReply
  BY <1>1, <1>3, <1>5, <1>7, NoSwitchIs DEF OneReply
<1>9. NoError
  <2>1. UnderWay = {}
    BY <1>1 DEF UnderWay
  <2>2. ~st.err
    BY <1>1 DEF Booting
  <2> QED BY <2>1, <2>2 DEF NoError
<1>10. ShowsSwitch
  BY <1>1 DEF ShowsSwitch
<1> QED BY <1>2, <1>4, <1>6, <1>8, <1>9, <1>10 DEF CalmInv

LEMMA CalmStep ==
  ASSUME ReadsInTime, CalmInv, [Next]_vars
  PROVE  CalmInv' /\ (mishaps = 0 /\ asked = 1 => ~Rollback)
<1>1. gui'.profile = gui.profile => ~Rollback
  BY DEF Rollback
<1>2. CASE Listen
  <2>1. mishaps = 0 /\ asked = 1 => Calm
    BY DEF Calm
  <2> QED BY <1>2, <2>1, HearCalm
<1>3. CASE Next /\ ~Listen
  <2>1. CalmInv' /\ gui'.profile = gui.profile
    BY <1>3, TurnCalm, TickCalm, TouchForwardingCalm, TouchChannelCalm, ServeCalm,
       SendStatusCalm, OwnerCalm, WorldCalm DEF Next, Network
  <2> QED BY <1>1, <2>1
<1>4. CASE UNCHANGED vars
  <2>1. UNCHANGED <<gui, toServer, toGui, st, up, box, sub, due, behind, asked, mishaps>>
    BY <1>4 DEF vars, netVars, ownerVars, serverVars, boundVars
  <2>2. VerdictInv'
    BY <1>4, VerdictStep DEF CalmInv
  <2>3. /\ Places' = Places /\ Streams' = Streams /\ UnderWay' = UnderWay
        /\ \A i : ToBeHeard(i)' = ToBeHeard(i)
    BY <2>1, LineRests
  <2>4. CalmTypes' /\ (Calm' <=> Calm) /\ (CalmTypes <=> CalmTypes')
    BY <2>1 DEF CalmInv, CalmTypes, Calm
  <2>5. StaysOnline => StaysOnline'
    BY <2>1, <2>3 DEF StaysOnline, Subscribes
  <2>6. OneReply => OneReply'
    BY <2>1, <2>3 DEF OneReply
  <2>7. NoError => NoError'
    BY <2>1, <2>3 DEF NoError, Undone
  <2>8. ShowsSwitch => ShowsSwitch'
    BY <2>1 DEF ShowsSwitch
  <2> QED BY <1>1, <2>1, <2>2, <2>4, <2>5, <2>6, <2>7, <2>8 DEF CalmInv
<1> QED BY <1>2, <1>3, <1>4

\* A screen that never lets the stream fall behind by as long as it tolerates
\* silence keeps the channel of a switch it was told was queued until that has been
\* carried out: with no other command and no mishap, no older status takes it back.
THEOREM SwitchIsNotTakenBack ==
  ASSUME ReadsInTime
  PROVE  Spec => NoRollbackUndisturbed
<1>1. CalmInv /\ [Next]_vars => CalmInv'
  BY CalmStep
<1>2. CalmInv /\ [Next]_vars => [mishaps = 0 /\ asked = 1 => ~Rollback]_vars
  BY CalmStep
<1> QED BY <1>1, <1>2, CalmInit, PTL DEF Spec, NoRollbackUndisturbed

=============================================================================
