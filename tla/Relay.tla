------------------------------- MODULE Relay -------------------------------
(***************************************************************************)
(* The relay block of the repeater, DirectRelayBurstSource in              *)
(* rpt/src/hardware_runtime.cpp: it admits DMR voice calls heard on the    *)
(* receive side, queues their bursts for retransmission, falls back to an  *)
(* FM-to-DMR session when an FM tone is heard and no DMR is, cuts calls    *)
(* that talk too long or go silent, and drives PTT, the recording and the  *)
(* status a client sees.                                                   *)
(*                                                                         *)
(* Three threads step the block.  The GNU Radio thread runs the message    *)
(* handlers (RawBurst, Header, Terminator, DataFrame) and the work passes  *)
(* (RelayBurst, IdlePass, FmHeader, FmVoice, FmUnderflow, FmTerminator)    *)
(* one after the other, so each is one step; the "bursts" and "frames"     *)
(* ports are drained in either order, so the order of the handlers is      *)
(* free.  The CTCSS thread reports the tone under the mutex                *)
(* (SetCtcssState).  The control threads set the forwarding flag.          *)
(* The receive and transmit indicators the block reports to after each     *)
(* change are left out.                                                    *)
(*                                                                         *)
(* Time is counted in ticks, each timer holds the ticks it has left (or,   *)
(* for a guard on a minimum age, its age up to that minimum), so that time *)
(* is unbounded and the state is not.                                      *)
(***************************************************************************)
EXTENDS Integers, Sequences, FiniteSets

CONSTANTS
  Sources,          \* DMR radio ids that may call
  NoSource,         \* the source of no call
  MaxCalls,         \* bound: calls admitted in a behaviour
  QueueCap,         \* kMaximumQueuedBursts
  PreCap,           \* kMaximumPreAdmissionBursts
  CandidateHold,    \* kMaximumRelayStartLatencyMs, in ticks
  DupHold,          \* the 200 ms duplicate window, in ticks
  Inactivity,       \* receive_inactivity_timeout_ms, in ticks
  TalkLimit,        \* maximum_continuous_seconds, in ticks
  Cooldown,         \* source_cooldown_seconds, in ticks
  AfmEnabled,       \* analog_fm_fallback.enabled
  IdleGuard,        \* dmr_idle_guard_ms, in ticks
  AmbePerBurst,     \* kAmbeFramesPerDmrBurst
  AmbeCap,          \* kMaximumQueuedAmbeFrames
  HeaderBursts,     \* kAfmHeaderBursts
  TerminatorBursts, \* kAfmTerminatorBursts
  UnderflowLimit,   \* work passes without speech before a session ends
  RawKinds          \* the raw bursts the receiver hears, among BurstKinds

\* A raw burst, seen from the block: a voice-sync burst, a burst with no
\* sync of its own, the very bits of the header that opened the call, the
\* very bits of the call's terminator, a burst of a data service.
BurstKinds == {"voice", "plain", "header", "terminator", "data"}

ASSUME SourcesAssumption == NoSource \notin Sources
ASSUME CapsAssumption ==
  /\ MaxCalls \in Nat /\ QueueCap \in Nat \ {0} /\ PreCap \in Nat \ {0}
  /\ AmbePerBurst \in Nat \ {0} /\ AmbeCap \in Nat /\ AmbeCap >= AmbePerBurst
ASSUME TimersAssumption ==
  /\ CandidateHold \in Nat \ {0} /\ DupHold \in Nat /\ Inactivity \in Nat \ {0}
  /\ TalkLimit \in Nat \ {0} /\ Cooldown \in Nat \ {0} /\ IdleGuard \in Nat
ASSUME StagesAssumption ==
  /\ HeaderBursts \in Nat \ {0} /\ TerminatorBursts \in Nat \ {0}
  /\ UnderflowLimit \in Nat \ {0}
ASSUME InputsAssumption == AfmEnabled \in BOOLEAN /\ RawKinds \subseteq BurstKinds

VARIABLES
  call,     \* active_call_: id (0 for none), source, ticks left, ticks silent
  queue,    \* queue_: bursts waiting for air; "of" (their call) is history
  pre,      \* pre_admission_bursts_: bursts heard before the header, with age
  cand,     \* dmr_candidate_until_ms_: -1 unset, else ticks until it expires
  idleFor,  \* dmr_idle_since_ms_: -1 when DMR is heard, else its age
  dup,      \* fallback_raw_burst_ with its deadline: ticks it stays, 0 none
  lastTerm, \* last_raw_burst_ is the terminator: ticks it counts, 0 no
  tx,       \* tx_asserted_
  tone,     \* afm_ctcss_qualified_ with its age, -1 when not qualified
  rearm,    \* afm_rearm_required_
  ambe,     \* size of afm_ambe_queue_
  afm,      \* afm_session_: stage, bursts in stage, underflows, ticks left
  cool,     \* cooldowns_: ticks each source stays refused
  seq,      \* correlation_sequence_
  fwd,      \* forwarding_enabled_, shared with the control threads
  shown,    \* relay the UDP status names: call id, FM, or 0
  rec,      \* recording left open: call id, FM, or 0
  cut,      \* history: calls ended by the duration limit
  stale     \* history: DMR was heard since the tone was last seen absent

dmrVars == <<call, queue, pre, dup, cool, seq, cut>>
afmVars == <<tone, rearm, ambe, afm, stale>>
outVars == <<tx, shown, rec>>
vars == <<dmrVars, cand, idleFor, lastTerm, afmVars, outVars, fwd>>

FM == -1
NoCall    == [id |-> 0, src |-> NoSource, left |-> 0, quiet |-> 0]
NoSession == [stage |-> "none", count |-> 0, under |-> 0, left |-> 0]

Least(a, b) == IF a <= b THEN a ELSE b
Down(n) == IF n > 0 THEN n - 1 ELSE n
Up(n, cap) == IF n >= 0 /\ n < cap THEN n + 1 ELSE n

Active    == call.id # 0
Candidate == cand > 0
Busy      == Active \/ Candidate
Qualified == tone >= 0
InSession == afm.stage # "none"
OnAir     == afm.stage \in {"header", "voice"}

Call == [id : 0..MaxCalls, src : Sources \cup {NoSource},
         left : 0..TalkLimit, quiet : 0..Inactivity]
QueuedBurst == [of : 1..MaxCalls, start : BOOLEAN, data : BOOLEAN]
PreBurst == [data : BOOLEAN, age : 0..CandidateHold + 1]
Session == [stage : {"none", "header", "voice", "terminator"},
            count : 0..HeaderBursts + TerminatorBursts,
            under : 0..UnderflowLimit, left : 0..TalkLimit]

Init ==
  /\ call = NoCall /\ queue = <<>> /\ pre = <<>>
  /\ cand = -1 /\ idleFor = 0 /\ dup = 0 /\ lastTerm = 0
  /\ tone = -1 /\ rearm = FALSE /\ ambe = 0 /\ afm = NoSession
  /\ cool = [s \in Sources |-> 0] /\ seq = 0 /\ fwd = TRUE
  /\ tx = FALSE /\ shown = 0 /\ rec = 0
  /\ cut = {} /\ stale = FALSE

-----------------------------------------------------------------------------
(* What refresh_dmr_idle_locked, enforce_duration_limit_locked and         *)
(* enforce_inactivity_timeout_locked, called in this order, leave behind.  *)
(* A call cut by the duration limit takes the whole queue with it; a call  *)
(* that went silent leaves its bursts to be sent.  Both publish "ended"    *)
(* and close the recording; only the open one closes.                      *)

ExpiredWhenQuiet == Active /\ call.left = 0 /\ call.quiet > 0
QueueKept == queue

Expired == Active /\ call.left = 0
Over    == Expired \/ (Active /\ call.quiet >= Inactivity)

\* record_duration_limit
Cooled(s) == [cool EXCEPT ![s] = Cooldown]

CandNow  == IF cand = 0 THEN -1 ELSE cand
IdleNow  == IF Over \/ (cand = 0 /\ ~Active) THEN 0 ELSE idleFor
CallNow  == IF Over THEN NoCall ELSE call
QueueNow == IF Expired THEN <<>> ELSE queue
DupNow   == IF Over THEN 0 ELSE dup
CoolNow  == IF Expired THEN Cooled(call.src) ELSE cool
CutNow   == IF Expired THEN cut \cup {call.id} ELSE cut
RecNow   == IF Over /\ rec = call.id THEN 0 ELSE rec
ShownNow == IF Over /\ shown = call.id THEN 0 ELSE shown

\* enqueue_locked accepts n more bursts after q.
HasRoomPlusOne(q, n) == Len(q) + n <= QueueCap + 1
HasRoom(q, n) == Len(q) + n <= QueueCap

\* purge_pre_admission_locked: the oldest are in front.
Purge(bursts) ==
  LET fresh == Cardinality({i \in 1..Len(bursts) : bursts[i].age <= CandidateHold})
  IN  SubSeq(bursts, Len(bursts) - fresh + 1, Len(bursts))

-----------------------------------------------------------------------------
(* Message handlers *)

\* The session is told to send its terminator (only once).
Stopping(s) == IF s.stage \in {"header", "voice"}
               THEN [s EXCEPT !.stage = "terminator", !.count = 0] ELSE s
StopSession == /\ afm' = Stopping(afm)
               /\ ambe' = IF OnAir THEN 0 ELSE ambe

\* handle_raw_burst: every burst the sampler cut out of the signal.
RawBurst(kind) ==
  LET synced == kind # "plain"
      heard  == Purge(pre)
  IN
  /\ \/ /\ synced
        /\ cand' = CandidateHold /\ idleFor' = -1
        /\ rearm' = TRUE /\ stale' = TRUE /\ tone' = -1
        /\ StopSession
     \/ /\ ~synced
        /\ cand' = CandNow
        /\ idleFor' = IF cand = 0 /\ ~Active THEN 0 ELSE idleFor
        /\ UNCHANGED afmVars
  /\ lastTerm' = IF kind = "terminator" THEN DupHold + 1 ELSE 0
  /\ \/ /\ Active /\ kind = "header" /\ dup > 0
        /\ dup' = 0 /\ pre' = heard
        /\ UNCHANGED <<call, queue>>
     \/ /\ Active /\ ~(kind = "header" /\ dup > 0) /\ HasRoom(queue, 1)
        /\ queue' = Append(queue, [of |-> call.id, start |-> FALSE,
                                   data |-> kind = "data"])
        /\ call' = [call EXCEPT !.quiet = 0]
        /\ pre' = heard
        /\ UNCHANGED dup
     \/ /\ Active /\ ~(kind = "header" /\ dup > 0) /\ ~HasRoom(queue, 1)
        /\ pre' = heard
        /\ UNCHANGED <<call, queue, dup>>
     \/ /\ ~Active /\ (synced \/ CandNow > 0)
        /\ pre' = Append(IF Len(heard) >= PreCap THEN Tail(heard) ELSE heard,
                         [data |-> kind = "data", age |-> 0])
        /\ UNCHANGED <<call, queue, dup>>
     \/ /\ ~Active /\ ~synced /\ CandNow <= 0
        /\ pre' = heard
        /\ UNCHANGED <<call, queue, dup>>
  /\ UNCHANGED <<cool, seq, cut, outVars, fwd>>

\* What an admission puts in the queue: the bursts heard while the call was
\* a candidate or, when none is left, the header itself.  The first carries
\* the call, for the pass that sends it to report the relay started.
AdmittedAllStarts(id) ==
  LET heard == Purge(pre) IN
  IF heard # <<>>
  THEN [i \in 1..Len(heard) |-> [of |-> id, start |-> TRUE, data |-> heard[i].data]]
  ELSE <<[of |-> id, start |-> TRUE, data |-> FALSE]>>
Admitted(id) ==
  LET heard == Purge(pre) IN
  IF heard # <<>>
  THEN [i \in 1..Len(heard) |-> [of |-> id, start |-> i = 1, data |-> heard[i].data]]
  ELSE <<[of |-> id, start |-> TRUE, data |-> FALSE]>>

\* The housekeeping Header does before it looks at the call; it stands even
\* when the header is then refused.
Housekeeping ==
  /\ cand' = CandNow /\ cool' = CoolNow /\ cut' = CutNow

\* route_dmr_event: of the router's conditions only the source's cooldown
\* changes over time.
Cooling(s) == cool[s] # 0
Routed(s) == ~Cooling(s)

\* AutomaticTransmitGate::evaluate grants a call its talk time.
Granted == TalkLimit

\* handle_header, a valid header of source s: admission, once forwarding is
\* on and the cooldown (looked up before the lock) lets s through.
BeginCall(s) ==
  LET id == seq + 1 IN
  /\ fwd /\ Routed(s) /\ seq < MaxCalls
  /\ CallNow.id = 0
  /\ HasRoom(QueueNow, Len(Admitted(id)))
  /\ Housekeeping
  /\ seq' = id
  /\ call' = [id |-> id, src |-> s, left |-> Granted, quiet |-> 0]
  /\ queue' = QueueNow \o Admitted(id)
  /\ dup' = IF Purge(pre) = <<>> THEN DupHold + 1 ELSE DupNow
  /\ pre' = <<>> /\ idleFor' = -1
  /\ tone' = -1 /\ rearm' = TRUE /\ stale' = TRUE
  /\ rec' = id /\ shown' = ShownNow
  /\ UNCHANGED <<lastTerm, ambe, afm, tx, fwd>>

\* The bursts do not fit: the queue is rolled back, the call dropped.
BeginFails(s) ==
  LET id == seq + 1 IN
  /\ fwd /\ Routed(s) /\ seq < MaxCalls
  /\ CallNow.id = 0
  /\ ~HasRoom(QueueNow, Len(Admitted(id)))
  /\ Housekeeping
  /\ seq' = id
  /\ call' = NoCall /\ queue' = QueueNow /\ dup' = DupNow
  /\ pre' = <<>> /\ idleFor' = 0
  /\ tone' = -1 /\ rearm' = TRUE /\ stale' = TRUE
  /\ rec' = RecNow /\ shown' = ShownNow
  /\ UNCHANGED <<lastTerm, ambe, afm, tx, fwd>>

\* A header while a call is up: its own keeps it alive, another is refused.
RepeatHeader(s) ==
  /\ fwd /\ Routed(s)
  /\ CallNow.id # 0
  /\ Housekeeping
  /\ idleFor' = IdleNow
  /\ call' = IF call.src = s THEN [call EXCEPT !.quiet = 0] ELSE call
  /\ pre' = Purge(pre)
  /\ UNCHANGED <<queue, dup, seq, lastTerm, afmVars, outVars, fwd>>

Header(s) == BeginCall(s) \/ BeginFails(s) \/ RepeatHeader(s)

\* handle_terminator: the terminator of the active call ends it.  It is
\* queued unless the burst itself was the last one received; when the queue
\* is full the call stays.
Terminator(s) ==
  /\ Active /\ call.src = s
  /\ \/ lastTerm > 0 /\ queue' = queue
     \/ /\ lastTerm = 0 /\ HasRoom(queue, 1)
        /\ queue' = Append(queue, [of |-> call.id, start |-> FALSE, data |-> FALSE])
  /\ call' = NoCall /\ dup' = 0 /\ idleFor' = 0
  /\ rec' = IF rec = call.id THEN 0 ELSE rec
  /\ shown' = IF shown = call.id THEN 0 ELSE shown
  /\ UNCHANGED <<pre, cool, seq, cut, cand, lastTerm, afmVars, tx, fwd>>

\* handle_frame, a CSBK, data header or rate 1/2 data frame.
DataFrame ==
  /\ pre # <<>> /\ pre' = <<>>
  /\ UNCHANGED <<call, queue, dup, cool, seq, cut, cand, idleFor, lastTerm,
                 afmVars, outVars, fwd>>

-----------------------------------------------------------------------------
(* A work pass, general_work: one output frame, k speech frames in.        *)

AmbeNow(k) == IF AfmEnabled /\ (Qualified \/ InSession)
              THEN Least(AmbeCap, ambe + k) ELSE ambe
DmrNow == CallNow.id # 0 \/ CandNow > 0

\* finish_afm_locked("dmr_activity"): DMR ends a session at once.
SessionNow == IF DmrNow THEN NoSession ELSE afm
SpeechKept(k) == AmbeNow(k)
SpeechNow(k) == IF InSession /\ DmrNow THEN 0 ELSE AmbeNow(k)

\* start_afm_locked
FmMayStart(k) ==
  /\ fwd /\ AfmEnabled /\ ~InSession /\ ~DmrNow /\ QueueNow = <<>>
  /\ Qualified /\ ~rearm /\ AmbeNow(k) >= AmbePerBurst
  /\ tone >= IdleGuard /\ IdleNow >= IdleGuard

\* What every pass does first, with the queue it leaves and the report it
\* makes after the unlock: an ended FM session is reported last.
Pass(k, left, reported) ==
  /\ Housekeeping
  /\ call' = CallNow /\ queue' = left /\ dup' = DupNow /\ idleFor' = IdleNow
  /\ pre' = IF cand = 0 THEN Purge(pre) ELSE pre
  /\ shown' = reported
  /\ UNCHANGED <<seq, lastTerm, fwd, tone, stale>>
FmEndedAny(report) == 0
FmEnded(report) == IF report = FM THEN 0 ELSE report
FmDropped(report) == IF InSession /\ DmrNow THEN FmEnded(report) ELSE report

\* PTT is released when no call, no burst and no session is left.
PttAfterQueueOnly(asserted, left, s) == asserted /\ (left # <<>> \/ s.stage # "none")
PttAfter(asserted, left, s) ==
  asserted /\ (CallNow.id # 0 \/ left # <<>> \/ s.stage # "none")

RelayBurst(k) ==
  /\ QueueNow # <<>>
  /\ LET next == Head(QueueNow) IN
     Pass(k, Tail(QueueNow), FmDropped(IF next.start THEN next.of ELSE ShownNow))
  /\ afm' = SessionNow /\ ambe' = SpeechNow(k)
  /\ rec' = FmDropped(RecNow)
  /\ tx' = PttAfter(TRUE, Tail(QueueNow), SessionNow)
  /\ UNCHANGED rearm

IdlePass(k) ==
  /\ QueueNow = <<>>
  /\ CallNow.id # 0 \/ (SessionNow.stage = "none" /\ ~FmMayStart(k))
  /\ Pass(k, <<>>, FmDropped(ShownNow))
  /\ afm' = SessionNow /\ ambe' = SpeechNow(k)
  /\ rec' = FmDropped(RecNow)
  /\ tx' = PttAfter(tx, <<>>, SessionNow)
  /\ UNCHANGED rearm

\* produce_afm_locked, one action per stage.  A session on the air stops
\* when the tone is gone or its time is up.
FmRuns == QueueNow = <<>> /\ ~DmrNow
FmStopsOnTone == OnAir /\ ~Qualified
FmStops == OnAir /\ (~Qualified \/ afm.left = 0)

FmHeader(k) ==
  /\ FmRuns
  /\ \/ FmMayStart(k)
     \/ afm.stage = "header" /\ ~FmStops
  /\ LET starts == ~InSession
         s == IF starts THEN [NoSession EXCEPT !.stage = "header", !.left = TalkLimit]
              ELSE afm
     IN
     /\ afm' = IF s.count + 1 >= HeaderBursts
               THEN [s EXCEPT !.stage = "voice", !.count = 0]
               ELSE [s EXCEPT !.count = @ + 1]
     /\ rec' = IF starts THEN FM ELSE RecNow
     /\ Pass(k, <<>>, IF starts THEN FM ELSE ShownNow)
  /\ ambe' = AmbeNow(k) /\ tx' = TRUE
  /\ UNCHANGED rearm

FmVoice(k) ==
  /\ FmRuns /\ afm.stage = "voice" /\ ~FmStops /\ AmbeNow(k) >= AmbePerBurst
  /\ afm' = [afm EXCEPT !.under = 0]
  /\ ambe' = AmbeNow(k) - AmbePerBurst /\ tx' = TRUE
  /\ Pass(k, <<>>, ShownNow) /\ rec' = RecNow
  /\ UNCHANGED rearm

FmUnderflow(k) ==
  /\ FmRuns /\ afm.stage = "voice" /\ ~FmStops /\ AmbeNow(k) < AmbePerBurst
  /\ \/ /\ afm.under + 1 >= UnderflowLimit
        /\ afm' = [afm EXCEPT !.under = @ + 1, !.stage = "terminator", !.count = 0]
        /\ rearm' = TRUE
     \/ /\ afm.under + 1 < UnderflowLimit
        /\ afm' = [afm EXCEPT !.under = @ + 1]
        /\ UNCHANGED rearm
  /\ ambe' = AmbeNow(k)
  /\ Pass(k, <<>>, ShownNow) /\ rec' = RecNow
  /\ UNCHANGED tx

FmTerminator(k) ==
  /\ FmRuns /\ (FmStops \/ afm.stage = "terminator")
  /\ rearm' = (rearm \/ (FmStops /\ Qualified))
  /\ \/ /\ Stopping(afm).count + 1 < TerminatorBursts
        /\ afm' = [Stopping(afm) EXCEPT !.count = @ + 1]
        /\ ambe' = IF FmStops THEN 0 ELSE AmbeNow(k)
        /\ tx' = TRUE
        /\ Pass(k, <<>>, ShownNow) /\ rec' = RecNow
     \/ /\ Stopping(afm).count + 1 >= TerminatorBursts
        /\ afm' = NoSession /\ ambe' = 0 /\ tx' = FALSE
        /\ Pass(k, <<>>, FmEnded(ShownNow)) /\ rec' = FmEnded(RecNow)

GeneralWork(k) ==
  \/ RelayBurst(k) \/ IdlePass(k)
  \/ FmHeader(k) \/ FmVoice(k) \/ FmUnderflow(k) \/ FmTerminator(k)

-----------------------------------------------------------------------------
(* The other threads, and time *)

\* set_afm_ctcss_state under the mutex: the detector sees the tone (q) or not.
\* A tone seen while DMR is heard has to drop before it may open a session.
MustRearmOnce(q) == rearm
MustRearm(q) == rearm \/ (q /\ Busy)

SetCtcssState(q) ==
  LET must == MustRearm(q)
      eff  == q /\ ~must /\ ~Busy
  IN
  /\ AfmEnabled
  /\ tone' = IF ~eff THEN -1 ELSE IF Qualified THEN tone ELSE 0
  /\ rearm' = (must /\ q)
  /\ stale' = (q /\ (stale \/ Busy))
  /\ IF eff THEN UNCHANGED <<afm, ambe>> ELSE StopSession
  /\ UNCHANGED <<dmrVars, cand, idleFor, lastTerm, outVars, fwd>>

SetForwarding ==
  /\ fwd' = ~fwd
  /\ UNCHANGED <<dmrVars, cand, idleFor, lastTerm, afmVars, outVars>>

Tick ==
  /\ call' = IF Active THEN [call EXCEPT !.left = Down(@), !.quiet = Up(@, Inactivity)]
             ELSE call
  /\ pre' = [i \in 1..Len(pre) |-> [pre[i] EXCEPT !.age = Up(@, CandidateHold + 1)]]
  /\ cand' = Down(cand) /\ idleFor' = Up(idleFor, IdleGuard)
  /\ dup' = Down(dup) /\ lastTerm' = Down(lastTerm)
  /\ tone' = Up(tone, IdleGuard)
  /\ afm' = [afm EXCEPT !.left = Down(@)]
  /\ cool' = [s \in Sources |-> Down(cool[s])]
  /\ UNCHANGED <<queue, seq, cut, rearm, ambe, stale, outVars, fwd>>

Next ==
  \/ \E kind \in RawKinds : RawBurst(kind)
  \/ \E s \in Sources : Header(s) \/ Terminator(s)
  \/ DataFrame
  \/ \E k \in {0, AmbePerBurst} : GeneralWork(k)
  \/ \E q \in BOOLEAN : SetCtcssState(q)
  \/ SetForwarding \/ Tick

Spec == Init /\ [][Next]_vars

\* The clock runs and the flowgraph keeps calling the block while it runs.
Work == \E k \in {0, AmbePerBurst} : GeneralWork(k)
FairSpec == Spec /\ WF_vars(Work) /\ WF_vars(Tick)
-----------------------------------------------------------------------------
(* Properties *)

\* Every variable stays in its range, and the two queues within their limit.
TypeOK ==
  /\ call \in Call /\ queue \in Seq(QueuedBurst) /\ pre \in Seq(PreBurst)
  /\ cand \in -1..CandidateHold /\ idleFor \in -1..IdleGuard
  /\ dup \in 0..DupHold + 1 /\ lastTerm \in 0..DupHold + 1
  /\ tone \in -1..IdleGuard /\ rearm \in BOOLEAN /\ stale \in BOOLEAN
  /\ ambe \in 0..AmbeCap /\ afm \in Session
  /\ cool \in [Sources -> 0..Cooldown] /\ seq \in 0..MaxCalls
  /\ tx \in BOOLEAN /\ shown \in FM..MaxCalls /\ rec \in FM..MaxCalls
  /\ fwd \in BOOLEAN
  /\ cut \subseteq 1..MaxCalls
  /\ Len(queue) <= QueueCap /\ Len(pre) <= PreCap

\* The active call is on the air: the burst that carries its start was sent.
Started == Active /\ \A i \in 1..Len(queue) : ~(queue[i].start /\ queue[i].of = call.id)

\* Once the duration limit has cut a call, none of its bursts is sent any
\* more: not those queued when it was cut, nor those that arrive later.
CutCallSilenced == \A i \in 1..Len(queue) : queue[i].of \notin cut

\* Calls leave in the order they were admitted, their bursts together, and
\* only the first burst of a call carries its start, so that "started" is
\* reported once, before anything else of the call is sent.
QueueInCallOrder ==
  \A i, j \in 1..Len(queue) : i < j =>
    /\ queue[i].of <= queue[j].of
    /\ queue[j].start => queue[i].of # queue[j].of

\* While a DMR call is up the recording left open is its own, however an FM
\* session the call interrupted ends; with no call up, only an FM session
\* still open may have one.
RecordingFollowsCall ==
  IF Active THEN rec = call.id
  ELSE rec = 0 \/ (rec = FM /\ InSession)

\* While a call is on the air, the status names it: the late end of an FM
\* session or of an earlier call does not wipe it.
StatusNamesCallOnAir == Started => shown = call.id

\* PTT is never released under a call on the air or an open FM session.
PttHeld == (Started \/ InSession) => tx

\* An FM session starts only on a tone that was seen absent since DMR was
\* last heard: the tone a DMR station also sends, or one held through the
\* DMR traffic, never opens the fallback.
FmNeedsFreshTone == [][~InSession /\ InSession' => ~stale]_vars

\* Speech heard before a session is on does not leak from one session into
\* the next: a session that ends leaves no AMBE frame behind.
FmLeavesNoSpeech == [][InSession /\ ~InSession' => ambe' = 0]_vars

\* Every call ends: talking without a pause, silence and lost terminators
\* all lead to an end.
EveryCallEnds == \A c \in 1..MaxCalls : call.id = c ~> call.id # c

\* PTT is not held for ever, so with PttHeld every FM session ends, whatever tone,
\* speech and DMR do.
PttDrops == tx ~> ~tx

\* A source in its cooldown has no call up.
CooldownHolds == Active => cool[call.src] = 0

=============================================================================
