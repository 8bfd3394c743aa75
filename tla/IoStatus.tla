----------------------------- MODULE IoStatus -----------------------------
(***************************************************************************)
(* The GPIO side of a running radio session: B210IoStatusController and    *)
(* B210FrontendStageController of rpt/src/io_status.cpp behind the mutex   *)
(* of RuntimeIo (rpt/src/hardware_runtime.cpp), and the start, poll,       *)
(* health check and stop of the session that owns them.                    *)
(*                                                                         *)
(* Output pins are low-active and follow the activity of a channel (a      *)
(* receiver or a transmitter): low at once, high again a delay after the   *)
(* activity ended.  The relay's threads report activity, the main loop     *)
(* polls.  A call works through its pins in order, one step each; the      *)
(* mutex keeps other calls out until it is done.  Any GPIO access may      *)
(* fail.  Two pins may follow the same channel.                            *)
(***************************************************************************)
EXTENDS Integers, FiniteSets

CONSTANTS
  Pins,       \* the outputs, numbered in the order of the configuration
  Channels,   \* receivers and transmitters with an indicator
  ChannelOf,  \* the channel a pin follows
  Delay,      \* rx/tx_release_delay_ms, in ticks
  Repeats,    \* channels that report an activity again while it lasts
  GpioFails,  \* writes may fail
  InputFails  \* front-end reads may fail

ASSUME PinsAssumption == Pins \subseteq Nat /\ IsFiniteSet(Pins)
ASSUME ChannelsAssumption ==
  ChannelOf \in [Pins -> Channels] /\ Repeats \subseteq Channels
ASSUME DelayAssumption == Delay \in Nat
ASSUME FailuresAssumption == GpioFails \in BOOLEAN /\ InputFails \in BOOLEAN

VARIABLES
  up,       \* the session runs
  healthy,  \* state_.gpio_healthy of the outputs
  pin,      \* per pin: level the controller believes, asserted, release due
  line,     \* per pin: level on the wire
  job,      \* the call that holds the mutex and the pins it has left
  want,     \* history: activity last reported per channel
  front     \* state_.gpio_healthy of the front-end inputs

vars == <<up, healthy, pin, line, job, want, front>>

None == -1
Idle == [level |-> "high", asserted |-> FALSE, due |-> None]
NoJob == [do |-> "nothing", left |-> {}]
Jobs == {"nothing", "assert", "release", "poll"}
Free == job = NoJob

AllIdle == [p \in Pins |-> Idle]
First(ps) == CHOOSE p \in ps : \A q \in ps : p <= q

Init ==
  /\ up = FALSE /\ healthy = FALSE /\ front = FALSE
  /\ pin = AllIdle /\ line = [p \in Pins |-> "high"]
  /\ job = NoJob /\ want = [c \in Channels |-> FALSE]

\* initialize of both controllers, when the session starts: every output is
\* driven high; the first that cannot be is a fault.  The session does not
\* start when the front-end inputs cannot be read.
Start ==
  /\ ~up /\ Free
  /\ want' = [c \in Channels |-> FALSE] /\ pin' = AllIdle /\ UNCHANGED job
  /\ \/ healthy' = TRUE /\ line' = [p \in Pins |-> "high"]
     \/ /\ GpioFails /\ healthy' = FALSE
        /\ \E written \in SUBSET Pins :
             line' = [p \in Pins |-> IF p \in written THEN "high" ELSE line[p]]
  /\ \/ up' = TRUE /\ front' = TRUE
     \/ InputFails /\ up' = FALSE /\ front' = FALSE

\* release_all_high, when the session stops.
Released ==
  /\ up /\ Free
  /\ up' = FALSE /\ pin' = AllIdle
  /\ \E stuck \in SUBSET Pins :
       /\ stuck # {} => GpioFails
       /\ line' = [p \in Pins |-> IF p \in stuck THEN line[p] ELSE "high"]
       /\ healthy' = (healthy /\ stuck = {})
  /\ UNCHANGED <<job, want, front>>

Stop == Released

\* The health check stops a session whose front-end inputs were last not
\* readable; the outputs may be faulty for as long as it runs.
UnhealthyOutputs == ~healthy
Unhealthy == ~front
HealthCheck == Unhealthy /\ Released

\* on_rx_activity and on_tx_ptt.  The relay reports changes; only the FM
\* receiver may be reported idle again (each DMR admission does).
Report(c, on) ==
  /\ up /\ Free
  /\ want[c] # on \/ c \in Repeats
  /\ want' = [want EXCEPT ![c] = on]
  /\ LET pins == {p \in Pins : ChannelOf[p] = c} IN
     job' = IF healthy /\ pins # {}
            THEN [do |-> IF on THEN "assert" ELSE "release", left |-> pins]
            ELSE NoJob
  /\ UNCHANGED <<up, healthy, pin, line, front>>

\* poll of both controllers; the front-end reads whatever the outputs do.
Poll ==
  /\ up /\ Free
  /\ job' = IF healthy /\ Pins # {} THEN [do |-> "poll", left |-> Pins] ELSE NoJob
  /\ \/ front' = TRUE
     \/ InputFails /\ front' = FALSE
  /\ UNCHANGED <<up, healthy, pin, line, want>>

\* fault: every pin is taken for idle, and written high as far as it goes.
Fault(stuck) ==
  /\ healthy' = FALSE
  /\ line' = [p \in Pins |-> IF p \in stuck THEN line[p] ELSE "high"]

\* assert_pin marks its pin asserted even then.
AfterFaultOnePin(p, new) == [pin EXCEPT ![p] = [Idle EXCEPT !.asserted = new.asserted]]
AfterFault(p, new) == [AllIdle EXCEPT ![p].asserted = new.asserted]

\* The next pin of a call: what becomes of it when its write succeeds; a
\* failed write is a fault for all pins, and the call goes on.
Settled(p, new) ==
  \/ /\ line' = [line EXCEPT ![p] = new.level]
     /\ pin' = [pin EXCEPT ![p] = new]
     /\ UNCHANGED healthy
  \/ /\ GpioFails
     /\ \E stuck \in SUBSET Pins : Fault(stuck)
     /\ pin' = AfterFault(p, new)

AssertedDueKept(p) == [level |-> "low", asserted |-> TRUE, due |-> pin[p].due]
Asserted(p) == [level |-> "low", asserted |-> TRUE, due |-> None]
DueNever(p) == pin[p].due
Due(p) == IF pin[p].asserted THEN Delay ELSE pin[p].due

Advance == job' = IF job.left = {First(job.left)} THEN NoJob
                  ELSE [job EXCEPT !.left = @ \ {First(job.left)}]

AssertPin ==
  /\ job.do = "assert" /\ job.left # {}
  /\ Settled(First(job.left), Asserted(First(job.left)))
  /\ Advance /\ UNCHANGED <<up, want, front>>

ScheduleRelease ==
  /\ job.do = "release" /\ job.left # {}
  /\ pin' = [pin EXCEPT ![First(job.left)].due = Due(First(job.left))]
  /\ Advance /\ UNCHANGED <<up, healthy, line, want, front>>

ReleasePin ==
  /\ job.do = "poll" /\ job.left # {}
  /\ IF pin[First(job.left)].due = 0
     THEN Settled(First(job.left), Idle)
     ELSE UNCHANGED <<pin, line, healthy>>
  /\ Advance /\ UNCHANGED <<up, want, front>>

Tick ==
  /\ pin' = [p \in Pins |-> [pin[p] EXCEPT !.due = IF @ > 0 THEN @ - 1 ELSE @]]
  /\ UNCHANGED <<up, healthy, line, job, want, front>>

Working == AssertPin \/ ScheduleRelease \/ ReleasePin

Next ==
  \/ Start \/ Stop \/ HealthCheck \/ Poll \/ Tick \/ Working
  \/ \E c \in Channels, on \in BOOLEAN : Report(c, on)

Spec == Init /\ [][Next]_vars

\* A call finishes, the clock runs, and the main loop, which polls every
\* 50 ms and checks every second, gets the mutex between two calls.
FairSpec == /\ Spec /\ WF_vars(Working) /\ WF_vars(Tick)
            /\ SF_vars(Poll) /\ SF_vars(HealthCheck)

-----------------------------------------------------------------------------
(* Properties *)

\* An output whose channel is active is low, whatever release was due from
\* an activity that ended before.
ActivePinIsLow ==
  up /\ healthy /\ Free => \A p \in Pins : want[ChannelOf[p]] => line[p] = "low"

\* Once the outputs are faulty the controller holds none of them active.
FaultIsSafe == up /\ ~healthy /\ Free => \A p \in Pins : pin[p].level = "high"

\* An output of an idle channel goes high in the end, unless its idle report
\* may be repeated: each report starts the delay again.
IdlePinIsReleased ==
  \A p \in {q \in Pins : ChannelOf[q] \notin Repeats} : up /\ healthy /\ ~want[ChannelOf[p]] ~>
    ~healthy \/ ~up \/ want[ChannelOf[p]] \/ line[p] = "high"

\* A front-end fault that lasts stops the session, whatever state the outputs
\* are in; one a later read clears before the check need not.
FrontendFaultStops == up /\ ~front ~> ~up \/ front

=============================================================================
