--------------------------- MODULE IoStatusProofs ---------------------------
(***************************************************************************)
(* The outputs of a session, for any number of pins, channels and wirings, *)
(* any delay and any failures: an active channel drives its pins, and a    *)
(* faulty controller holds none of them active.                            *)
(***************************************************************************)
EXTENDS IoStatus, TLAPS, WellFoundedInduction

PinState == [level : {"high", "low"}, asserted : BOOLEAN, due : Int]

IoTypes ==
  /\ up \in BOOLEAN /\ healthy \in BOOLEAN
  /\ pin \in [Pins -> PinState] /\ line \in [Pins -> {"high", "low"}]
  /\ job \in [do : Jobs, left : SUBSET Pins]
  /\ want \in [Channels -> BOOLEAN]

\* A pin that follows an active channel: driven, and with no release due.
Driven(p) == pin[p].level = "low" /\ pin[p].due = None /\ line[p] = "low"

\* The pins of an active channel are driven, but for those a report of activity
\* is about to drive; a report that the channel is idle works on others.
ActiveInv ==
  up /\ healthy => \A p \in Pins : want[ChannelOf[p]] =>
    /\ Driven(p) \/ (job.do = "assert" /\ p \in job.left)
    /\ ~(job.do = "release" /\ p \in job.left)

\* Each channel has one output, as in the configuration shipped with the program.
OneOutputEach == \A p, q \in Pins : ChannelOf[p] = ChannelOf[q] => p = q

\* A report works on one pin; after a fault nothing is active or due, and only a
\* poll may still be under way.
FaultInv ==
  /\ job.do = "assert" => \E p \in Pins : job.left = {p}
  /\ ~healthy => /\ \A p \in Pins : pin[p].level = "high" /\ pin[p].due = None
                 /\ job.do \in {"nothing", "poll"}

-----------------------------------------------------------------------------
(* A call takes one of the pins it has left. *)
LEMMA FirstIsLeft ==
  ASSUME NEW ps \in SUBSET Pins, ps # {}
  PROVE  First(ps) \in ps
<1>1. ps \subseteq Nat
  BY PinsAssumption
<1>2. PICK p \in ps : \A q \in ps : ~(<<q, p>> \in OpToRel(<, Nat))
  BY <1>1, NatLessThanWellFounded, WFMin
<1>3. ASSUME NEW q \in ps PROVE p <= q
  <2>1. <<q, p>> \in Nat \X Nat /\ <<q, p>>[1] = q /\ <<q, p>>[2] = p
    BY <1>1
  <2>2. q < p => <<q, p>> \in OpToRel(<, Nat)
    BY <2>1, Zenon DEF OpToRel
  <2>3. ~(q < p)
    BY <1>2, <2>2, Zenon
  <2> QED BY <1>1, <2>3
<1> QED BY <1>3 DEF First

LEMMA PinStatesAre ==
  /\ Idle \in PinState /\ Idle.level = "high" /\ Idle.due = None
  /\ \A p \in Pins : Asserted(p) = [level |-> "low", asserted |-> TRUE, due |-> None]
                     /\ Asserted(p) \in PinState
  /\ AllIdle \in [Pins -> PinState] /\ \A p \in Pins : AllIdle[p] = Idle
  BY DEF Idle, PinState, None, Asserted, AllIdle

\* After a fault every pin is taken for idle, whatever else is kept of it.
LEMMA AfterFaultIs ==
  ASSUME NEW p \in Pins, NEW new \in PinState
  PROVE  /\ AfterFault(p, new) \in [Pins -> PinState]
         /\ \A q \in Pins : /\ AfterFault(p, new)[q].level = "high"
                            /\ AfterFault(p, new)[q].due = None
<1>1. new.asserted \in BOOLEAN
  BY DEF PinState
<1> DEFINE f == AfterFault(p, new)
<1>2. f = [q \in Pins |-> IF q = p THEN [Idle EXCEPT !.asserted = new.asserted] ELSE Idle]
  BY DEF AfterFault, AllIdle
<1>3. /\ [Idle EXCEPT !.asserted = new.asserted] \in PinState
      /\ [Idle EXCEPT !.asserted = new.asserted].level = "high"
      /\ [Idle EXCEPT !.asserted = new.asserted].due = None
  BY <1>1 DEF Idle, PinState, None
<1> QED BY <1>2, <1>3, PinStatesAre

-----------------------------------------------------------------------------
(* Types *)

LEMMA InitIo == Init => IoTypes /\ ActiveInv /\ FaultInv
<1> SUFFICES ASSUME Init PROVE IoTypes /\ ActiveInv /\ FaultInv
  OBVIOUS
<1>1. /\ up = FALSE /\ healthy = FALSE /\ pin = AllIdle /\ job = NoJob
      /\ line = [p \in Pins |-> "high"] /\ want = [c \in Channels |-> FALSE]
  BY DEF Init
<1>2. IoTypes
  BY <1>1, PinStatesAre DEF IoTypes, NoJob, Jobs
<1>3. ActiveInv
  BY <1>1 DEF ActiveInv
<1>4. FaultInv
  BY <1>1, PinStatesAre DEF FaultInv, NoJob
<1> QED BY <1>2, <1>3, <1>4

\* The pins a call has left.
LEMMA AdvanceIs ==
  ASSUME IoTypes, job.left # {}, Advance
  PROVE  /\ job' \in [do : Jobs, left : SUBSET Pins]
         /\ First(job.left) \in job.left /\ First(job.left) \in Pins
         /\ \/ job' = NoJob /\ job.left = {First(job.left)}
            \/ /\ job.left # {First(job.left)}
               /\ job'.do = job.do /\ job'.left = job.left \ {First(job.left)}
<1>1. job.left \in SUBSET Pins
  BY DEF IoTypes
<1>2. First(job.left) \in job.left
  BY <1>1, FirstIsLeft
<1>3. CASE job.left = {First(job.left)}
  <2>1. job' = NoJob
    BY <1>3 DEF Advance
  <2>2. NoJob \in [do : Jobs, left : SUBSET Pins]
    BY DEF NoJob, Jobs
  <2> QED BY <1>1, <1>2, <1>3, <2>1, <2>2
<1>4. CASE job.left # {First(job.left)}
  <2>1. job' = [job EXCEPT !.left = @ \ {First(job.left)}]
    BY <1>4 DEF Advance
  <2>2. job'.do = job.do /\ job'.left = job.left \ {First(job.left)}
    BY <2>1 DEF IoTypes
  <2>3. job' \in [do : Jobs, left : SUBSET Pins]
    BY <2>1 DEF IoTypes
  <2> QED BY <1>1, <1>2, <1>4, <2>2, <2>3
<1> QED BY <1>3, <1>4

\* What becomes of the pins when one is written.
LEMMA SettledIs ==
  ASSUME IoTypes, NEW p \in Pins, NEW new \in PinState, Settled(p, new)
  PROVE  /\ pin' \in [Pins -> PinState] /\ line' \in [Pins -> {"high", "low"}]
         /\ \/ /\ healthy' = healthy
               /\ pin' = [pin EXCEPT ![p] = new] /\ line' = [line EXCEPT ![p] = new.level]
            \/ healthy' = FALSE /\ pin' = AfterFault(p, new)
<1>1. CASE /\ line' = [line EXCEPT ![p] = new.level]
           /\ pin' = [pin EXCEPT ![p] = new] /\ UNCHANGED healthy
  BY <1>1 DEF IoTypes, PinState
<1>2. CASE (\E stuck \in SUBSET Pins : Fault(stuck)) /\ pin' = AfterFault(p, new)
  <2>1. line' \in [Pins -> {"high", "low"}] /\ healthy' = FALSE
    BY <1>2 DEF Fault, IoTypes
  <2> QED BY <1>2, <2>1, AfterFaultIs
<1> QED BY <1>1, <1>2 DEF Settled

\* A release that is scheduled changes nothing but when it is due.
LEMMA ScheduledIs ==
  ASSUME IoTypes, NEW p \in Pins
  PROVE  LET scheduled == [pin EXCEPT ![p].due = Due(p)] IN
         /\ scheduled \in [Pins -> PinState]
         /\ \A q \in Pins : /\ scheduled[q].level = pin[q].level
                            /\ q # p => scheduled[q] = pin[q]
<1>1. Due(p) \in Int
  BY DelayAssumption DEF IoTypes, PinState, Due
<1> QED BY <1>1 DEF IoTypes, PinState

LEMMA TypesStep == IoTypes /\ [Next]_vars => IoTypes'
<1> SUFFICES ASSUME IoTypes, [Next]_vars PROVE IoTypes'
  OBVIOUS
<1> USE DEF IoTypes
<1>1. CASE Start
  <2>1. line' \in [Pins -> {"high", "low"}] /\ healthy' \in BOOLEAN
    BY <1>1 DEF Start
  <2> QED BY <1>1, <2>1, PinStatesAre DEF Start
<1>2. CASE Released
  <2>1. line' \in [Pins -> {"high", "low"}] /\ healthy' \in BOOLEAN
    BY <1>2 DEF Released
  <2> QED BY <1>2, <2>1, PinStatesAre DEF Released
<1>3. ASSUME NEW c \in Channels, NEW on \in BOOLEAN, Report(c, on) PROVE IoTypes'
  <2>1. job' \in [do : Jobs, left : SUBSET Pins]
    BY <1>3 DEF Report, NoJob, Jobs
  <2> QED BY <1>3, <2>1 DEF Report
<1>4. CASE Poll
  BY <1>4 DEF Poll, NoJob, Jobs
<1>5. CASE AssertPin
  BY <1>5, AdvanceIs, SettledIs, PinStatesAre DEF AssertPin
<1>6. CASE ScheduleRelease
  BY <1>6, AdvanceIs, ScheduledIs DEF ScheduleRelease
<1>7. CASE ReleasePin
  BY <1>7, AdvanceIs, SettledIs, PinStatesAre DEF ReleasePin
<1>8. CASE Tick
  BY <1>8 DEF Tick, PinState
<1>9. CASE UNCHANGED vars
  BY <1>9 DEF vars
<1> QED BY <1>1, <1>2, <1>3, <1>4, <1>5, <1>6, <1>7, <1>8, <1>9
        DEF Next, Stop, HealthCheck, Working

LEMMA TypesHold == Spec => []IoTypes
<1>1. Init => IoTypes
  BY InitIo
<1> QED BY <1>1, TypesStep, PTL DEF Spec

-----------------------------------------------------------------------------
(* An active channel drives its pins *)

LEMMA ActiveStep ==
  ASSUME IoTypes, ActiveInv, [Next]_vars
  PROVE  ActiveInv'
<1> SUFFICES ASSUME up', healthy', NEW p \in Pins, want'[ChannelOf[p]]
             PROVE  /\ Driven(p)' \/ (job'.do = "assert" /\ p \in job'.left)
                    /\ ~(job'.do = "release" /\ p \in job'.left)
  BY DEF ActiveInv
<1> DEFINE Goal == /\ Driven(p)' \/ (job'.do = "assert" /\ p \in job'.left)
                   /\ ~(job'.do = "release" /\ p \in job'.left)
<1>0. ChannelOf[p] \in Channels
  BY ChannelsAssumption
<1>1. CASE Start
  BY <1>0, <1>1 DEF Start
<1>2. CASE Released
  BY <1>2 DEF Released
<1>3. ASSUME NEW c \in Channels, NEW on \in BOOLEAN, Report(c, on) PROVE Goal
  <2>1. /\ up /\ healthy /\ job.left = {} /\ UNCHANGED <<pin, line>>
        /\ want' = [want EXCEPT ![c] = on]
        /\ ChannelOf[p] = c => job' = [do |-> IF on THEN "assert" ELSE "release",
                                       left |-> {q \in Pins : ChannelOf[q] = c}]
        /\ job'.left = {} \/ job'.left = {q \in Pins : ChannelOf[q] = c}
    BY <1>3 DEF Report, Free, NoJob
  <2>2. CASE ChannelOf[p] = c
    <3>1. on
      BY <1>0, <2>1, <2>2 DEF IoTypes
    <3> QED BY <2>1, <2>2, <3>1
  <2>3. CASE ChannelOf[p] # c
    <3>1. want[ChannelOf[p]] /\ p \notin job'.left
      BY <1>0, <2>1, <2>3 DEF IoTypes
    <3> QED BY <2>1, <3>1 DEF ActiveInv, Driven
  <2> QED BY <2>2, <2>3
<1>4. CASE Poll
  BY <1>4 DEF Poll, Free, NoJob, ActiveInv, Driven
<1>5. CASE AssertPin
  <2> DEFINE f == First(job.left)
  <2>1. f \in Pins /\ Asserted(f) \in PinState /\ Settled(f, Asserted(f)) /\ Advance
        /\ UNCHANGED <<up, want>> /\ job.do = "assert" /\ job.left # {}
    BY <1>5, AdvanceIs, PinStatesAre DEF AssertPin
  <2>2. /\ healthy /\ up
        /\ pin' = [pin EXCEPT ![f] = Asserted(f)] /\ line' = [line EXCEPT ![f] = "low"]
    <3>1. /\ healthy' = healthy
          /\ pin' = [pin EXCEPT ![f] = Asserted(f)]
          /\ line' = [line EXCEPT ![f] = Asserted(f).level]
      BY <2>1, SettledIs
    <3>2. Asserted(f).level = "low"
      BY <2>1, PinStatesAre
    <3>3. up' = up
      BY <2>1
    <3> QED BY <3>1, <3>2, <3>3
  <2>3. job'.do # "release" /\ (p \in job.left => p = f \/ (job'.do = "assert" /\ p \in job'.left))
    BY <2>1, AdvanceIs DEF NoJob
  <2>4. CASE p = f
    BY <2>1, <2>2, <2>3, <2>4, PinStatesAre DEF Driven, IoTypes
  <2>5. CASE p # f
    BY <2>1, <2>2, <2>3, <2>5 DEF Driven, IoTypes, ActiveInv
  <2> QED BY <2>4, <2>5
<1>6. CASE ScheduleRelease
  <2> DEFINE f == First(job.left)
  <2>1. f \in job.left /\ job'.left \subseteq job.left /\ job'.do # "assert"
        /\ up /\ healthy /\ want[ChannelOf[p]] /\ job.do = "release"
    BY <1>6, AdvanceIs DEF ScheduleRelease, NoJob
  <2>2. p \notin job.left /\ Driven(p)
    BY <2>1 DEF ActiveInv
  <2>3. pin'[p] = pin[p] /\ line' = line
    BY <1>6, <2>1, <2>2, ScheduledIs DEF ScheduleRelease, IoTypes
  <2> QED BY <2>1, <2>2, <2>3 DEF Driven
<1>7. CASE ReleasePin
  <2> DEFINE f == First(job.left)
  <2>1. /\ f \in Pins /\ job.do = "poll" /\ job'.do # "release" /\ want[ChannelOf[p]] /\ up
    BY <1>7, AdvanceIs DEF ReleasePin, NoJob
  <2>2. CASE pin[f].due = 0
    <3>1. /\ healthy
          /\ pin' = [pin EXCEPT ![f] = Idle] /\ line' = [line EXCEPT ![f] = Idle.level]
      BY <1>7, <2>1, <2>2, SettledIs, PinStatesAre DEF ReleasePin
    <3>2. p # f /\ Driven(p)
      BY <2>1, <2>2, <3>1 DEF ActiveInv, Driven, None
    <3> QED BY <2>1, <3>1, <3>2 DEF Driven, IoTypes
  <2>3. CASE pin[f].due # 0
    BY <1>7, <2>1, <2>3 DEF ReleasePin, ActiveInv, Driven
  <2> QED BY <2>2, <2>3
<1>8. CASE Tick
  BY <1>8 DEF Tick, ActiveInv, Driven, IoTypes, PinState, None
<1>9. CASE UNCHANGED vars
  BY <1>9 DEF vars, ActiveInv, Driven
<1> QED BY <1>1, <1>2, <1>3, <1>4, <1>5, <1>6, <1>7, <1>8, <1>9
        DEF Next, Stop, HealthCheck, Working

\* However reports, polls and failures interleave, and however channels share
\* outputs, an active channel's outputs are low when no call is under way: a
\* release due from before never takes one of them (assert_pin, poll).
THEOREM ActivePinsAreLow == Spec => []ActivePinIsLow
<1>1. Init => ActiveInv
  BY InitIo
<1>2. IoTypes /\ ActiveInv /\ [Next]_vars => ActiveInv'
  BY ActiveStep
<1>3. ActiveInv => ActivePinIsLow
  BY DEF ActiveInv, ActivePinIsLow, Driven, Free, NoJob
<1> QED BY <1>1, <1>2, <1>3, TypesHold, PTL DEF Spec

-----------------------------------------------------------------------------
(* A fault releases everything *)

LEMMA FaultStep ==
  ASSUME OneOutputEach, IoTypes, FaultInv, [Next]_vars
  PROVE  FaultInv'
<1> DEFINE Quiet == \A p \in Pins : pin[p].level = "high" /\ pin[p].due = None
<1>1. CASE Start \/ Released
  BY <1>1, PinStatesAre DEF Start, Released, Free, NoJob, FaultInv
<1>2. ASSUME NEW c \in Channels, NEW on \in BOOLEAN, Report(c, on) PROVE FaultInv'
  <2>1. UNCHANGED <<pin, healthy>> /\ (~healthy => job' = NoJob)
        /\ (job' # NoJob => \E p \in Pins : ChannelOf[p] = c /\ job'.left = {q \in Pins : ChannelOf[q] = c})
    BY <1>2 DEF Report
  <2>2. job'.do = "assert" => \E p \in Pins : job'.left = {p}
    BY <2>1 DEF NoJob, OneOutputEach
  <2> QED BY <2>1, <2>2 DEF FaultInv, NoJob
<1>3. CASE Poll
  BY <1>3 DEF Poll, FaultInv, NoJob
<1>4. CASE AssertPin
  <2>1. job' = NoJob
    BY <1>4, AdvanceIs DEF AssertPin, FaultInv
  <2>2. First(job.left) \in Pins /\ healthy
    BY <1>4, AdvanceIs DEF AssertPin, FaultInv
  <2>3. CASE healthy'
    BY <2>1, <2>3 DEF FaultInv, NoJob
  <2>4. CASE ~healthy'
    <3>1. Asserted(First(job.left)) \in PinState
      BY <2>2, PinStatesAre
    <3>2. pin' = AfterFault(First(job.left), Asserted(First(job.left)))
      BY <1>4, <2>2, <2>4, <3>1, SettledIs DEF AssertPin
    <3>3. Quiet'
      BY <2>2, <3>1, <3>2, AfterFaultIs
    <3> QED BY <2>1, <3>3 DEF FaultInv, NoJob
  <2> QED BY <2>3, <2>4
<1>5. CASE ScheduleRelease
  <2>1. healthy' = healthy /\ healthy /\ job'.do # "assert"
    BY <1>5, AdvanceIs DEF ScheduleRelease, FaultInv, NoJob
  <2>2. healthy = TRUE
    BY <2>1 DEF IoTypes
  <2> QED BY <2>1, <2>2 DEF FaultInv
<1>6. CASE ReleasePin
  <2>1. First(job.left) \in Pins /\ job'.do \in {"nothing", "poll"}
    BY <1>6, AdvanceIs DEF ReleasePin, NoJob
  <2>2. CASE healthy
    <3>1. CASE healthy'
      BY <2>1, <3>1 DEF FaultInv
    <3>2. CASE ~healthy'
      <4>1. Settled(First(job.left), Idle)
        BY <1>6, <2>2, <3>2 DEF ReleasePin
      <4>2. pin' = AfterFault(First(job.left), Idle)
        BY <2>1, <2>2, <3>2, <4>1, SettledIs, PinStatesAre
      <4>3. Quiet'
        BY <2>1, <4>2, PinStatesAre, AfterFaultIs
      <4> QED BY <2>1, <4>3 DEF FaultInv
    <3> QED BY <3>1, <3>2
  <2>3. CASE ~healthy
    BY <1>6, <2>1, <2>3 DEF ReleasePin, FaultInv, None
  <2> QED BY <2>2, <2>3
<1>7. CASE Tick
  BY <1>7 DEF Tick, FaultInv, IoTypes, PinState, None
<1>8. CASE UNCHANGED vars
  BY <1>8 DEF vars, FaultInv
<1> QED BY <1>1, <1>2, <1>3, <1>4, <1>5, <1>6, <1>7, <1>8
        DEF Next, Stop, HealthCheck, Working

\* Where each channel has one output, a write that failed leaves no output taken
\* for active, though the call it failed in goes on (fault, assert_pin).
THEOREM FaultsAreSafe ==
  ASSUME OneOutputEach
  PROVE  Spec => []FaultIsSafe
<1>1. Init => FaultInv
  BY InitIo
<1>2. IoTypes /\ FaultInv /\ [Next]_vars => FaultInv'
  BY FaultStep
<1>3. FaultInv => FaultIsSafe
  BY DEF FaultInv, FaultIsSafe
<1> QED BY <1>1, <1>2, <1>3, TypesHold, PTL DEF Spec

=============================================================================
