----------------------------- MODULE Calibration -----------------------------
(* Calibration of the receive level (receive_signal_metrics.h,               *)
(* rx_signal_calibration.cpp and the commands of main.cpp that use them):    *)
(* the monitor measures the signal window by window and reports the level it *)
(* shows, the runtime keeps the last ten reports, a step of a session waits  *)
(* and takes a level that has been steady, and the points of a whole session *)
(* become the curve that readings are made with.  The main loop carries out  *)
(* one command at a time; reports go on while it waits, whenever the         *)
(* flowgraph and the relay make them.  Levels are in tenths of a decibel,    *)
(* times in hundredths of a second.  Supervisor has the session's effect on  *)
(* the relay; the generator, the radio and the flowgraph are external.       *)
EXTENDS Integers, Sequences, FiniteSets, SequencesExt, FiniteSetsExt

CONSTANTS
  Inputs,          \* of each band a curve can be made for: the levels, in order
  BandGain,        \* of each band: the gain the client calibrates it at
  ConfiguredGain,  \* the gain the radio is opened with
  Heard,           \* of each gain and level: what a window measures
  Squelch,         \* activity_threshold_dbfs_
  Holds,           \* signal_release_hold_ms_ of the receivers
  Wait,            \* the wait of a step
  MaxAge,          \* oldest report a step takes
  MaxSpan,         \* how far apart the reports it takes may be
  Passes,          \* how long it may be until something happens next
  Works,           \* how many windows a work call measures
  Patient,         \* bound: the generator and the client wait for a settled level,
                   \* and all but the flowgraph for the end of a work call
  MaxSteps         \* bound: sessions, reports of the relay and times that pass
                   \* outside the waits, together

Samples == 10
Bands == DOMAIN Inputs
Levels == UNION {Range(Inputs[b]) : b \in Bands}
Gains == {BandGain[b] : b \in Bands} \cup {ConfiguredGain}

ASSUME BandsAssumption ==
  /\ Inputs \in Seq(Seq(Int)) /\ \A b \in Bands : Len(Inputs[b]) > 1
  /\ BandGain \in [Bands -> Int] /\ ConfiguredGain \in Int
  /\ Heard \in [Gains -> [Levels -> Int]] /\ Squelch \in Int

\* The inputs are 5 dB apart, the reports of a step within 0.8 dB.
ASSUME RangesAreOrdered ==
  \A b \in Bands : \A i, j \in 1..Len(Inputs[b]) : i < j => Inputs[b][j] - Inputs[b][i] >= 45
ASSUME SpanAssumption == MaxSpan \in 0..8

\* At the gain a band is calibrated at, the receiver does not compress its inputs
\* by more than a fifth.  Nothing is assumed of how gains add to levels.
ASSUME ReceiverRises ==
  \A b \in Bands : \A i, j \in 1..Len(Inputs[b]) : i < j =>
    5 * (Heard[BandGain[b]][Inputs[b][j]] - Heard[BandGain[b]][Inputs[b][i]])
      >= 4 * (Inputs[b][j] - Inputs[b][i])
ASSUME TimeAssumption ==
  /\ Wait \in Nat \ {0} /\ MaxAge \in Nat /\ Wait <= MaxAge
  /\ Passes \subseteq Nat /\ Holds \subseteq Nat /\ Works \subseteq Nat \ {0}

VARIABLES
  level,     \* what the generator feeds the receiver
  gain,      \* the receive gain of the radio
  hold,      \* signal_release_hold_ms_
  raw,       \* signal_dbfs_: the last window
  active,    \* active_signal_dbfs_: the level smoothed over active windows
  quiet,     \* how long ago the last active window was, hold at most
  left,      \* windows a work call has still to measure
  history,   \* observations_: the last reports and their age
  session,   \* calibration_session
  wait,      \* what is left of a step's wait, none if there is none
  curves,    \* config_: the points of each band's curve, none before a commit
  steps      \* history: what MaxSteps bounds

monitor == <<hold, raw, active, quiet, left>>
vars == <<level, gain, monitor, history, session, wait, curves, steps>>

NoSession == [open |-> FALSE]
NoWait == -1
Band == session.band
Received == Heard[gain][level]

\* The monitor has measured a window; before the first active one none is held.
Init ==
  /\ level \in Levels /\ gain = ConfiguredGain
  /\ hold \in Holds /\ raw = Received /\ active = Received /\ quiet = hold /\ left = 0
  /\ history = <<>> /\ session = NoSession /\ wait = NoWait
  /\ curves = [b \in Bands |-> <<>>]
  /\ steps = 0

-----------------------------------------------------------------------------
(* The monitor.                                                              *)

\* After an active window: a fifth of the way, or anew when the hold was over.
Smoothed ==
  IF quiet >= hold THEN Received ELSE active + (Received - active) \div 5

\* snapshot: the smoothed level while it is held, the last window otherwise.
Shown == IF quiet < hold THEN active ELSE raw

Older(reports, time) == [i \in DOMAIN reports |->
  [reports[i] EXCEPT !.age = Min({@ + time, MaxAge + 1})]]

\* observe: the eleventh report back is dropped.
Kept(reports) ==
  IF Len(reports) > Samples THEN Tail(reports) ELSE reports

Report(dbfs, window) == [gain |-> gain, dbfs |-> dbfs, age |-> 0, window |-> window]

\* A window, or what is left of one at the end of a work call, is measured and
\* reported.
Observe ==
  /\ raw' = Received /\ hold' = hold
  /\ IF left > 0 THEN left' = left - 1 ELSE \E n \in Works : left' = n - 1
  /\ IF Received >= Squelch
     THEN active' = Smoothed /\ quiet' = 0
     ELSE UNCHANGED <<active, quiet>>
  /\ history' = Kept(history \o <<Report(Shown', TRUE)>>)
  /\ UNCHANGED <<level, gain, session, wait, curves, steps>>

Between == Patient => left = 0
Counts == steps < MaxSteps /\ steps' = steps + 1

\* The relay reports the start or end of a call, with no window measured.
RelayReports ==
  /\ Between /\ Counts
  /\ history' = Kept(history \o <<Report(Shown, FALSE)>>)
  /\ UNCHANGED <<level, gain, monitor, session, wait, curves>>

\* Time passes, in or outside a wait, however many windows there were in it: a
\* work call measures several at once, or the flowgraph stands still.
TimePasses ==
  /\ Between
  /\ IF wait > 0 THEN steps' = steps ELSE Counts
  /\ \E time \in Passes :
       /\ history' = Older(history, time)
       /\ quiet' = Min({quiet + time, hold})
       /\ wait' = IF wait > time THEN wait - time ELSE IF wait > 0 THEN 0 ELSE wait
  /\ UNCHANGED <<level, gain, hold, raw, active, left, session, curves>>

\* The reports are all of what another window would show.
Settled ==
  /\ raw = Received /\ (Received >= Squelch => Smoothed = active)
  /\ \A i \in DOMAIN history : history[i].dbfs = Shown

\* The generator is changed between commands.
GeneratorMoves ==
  /\ Between /\ wait = NoWait /\ (Patient => Settled \/ history = <<>>)
  /\ level' \in Levels \ {level}
  /\ UNCHANGED <<gain, monitor, history, session, wait, curves, steps>>

-----------------------------------------------------------------------------
(* The session.                                                              *)

\* rx_calibration_begin: the gain to give back is that of the last report.
Begin(b) ==
  /\ Between /\ ~session.open /\ history # <<>> /\ (Patient => Settled)
  /\ Counts
  /\ gain' = BandGain[b]
  /\ session' = [open |-> TRUE, band |-> b, before |-> Last(history).gain, points |-> <<>>]
  /\ history' = <<>>
  /\ UNCHANGED <<level, monitor, wait, curves>>

NextInput == Len(session.points) + 1

\* rx_calibration_step, up to its wait: the client names the next input and
\* feeds it.
StepBegins ==
  /\ Between /\ session.open /\ wait = NoWait /\ NextInput <= Len(Inputs[Band])
  /\ level = Inputs[Band][NextInput]
  /\ gain' = BandGain[Band] /\ wait' = Wait
  /\ UNCHANGED <<level, monitor, history, session, curves, steps>>

\* stable_observation
Fresh(reports) == \A i \in DOMAIN reports : reports[i].age <= MaxAge
Steady(reports) ==
  \A i, j \in DOMAIN reports : reports[i].dbfs - reports[j].dbfs <= MaxSpan
StableCount(reports) == Len(reports) = Samples /\ Fresh(reports)
Stable(reports) ==
  Len(reports) = Samples /\ Fresh(reports) /\ Steady(reports)

\* History: ten windows were measured in the part of the wait in which nothing
\* from before it is held any more.
Attended == \A i \in DOMAIN history : history[i].window /\ history[i].age < Wait - hold

\* ... and after it: the point is taken, or the signal is called unstable, for
\* its reports or for the noise it was received in.
StepEnds ==
  /\ Between /\ wait = 0 /\ wait' = NoWait
  /\ \E clear \in BOOLEAN :
     session' = IF Stable(history) /\ clear
                THEN [session EXCEPT !.points =
                        Append(@, [dbfs |-> Last(history).dbfs, attended |-> Attended])]
                ELSE session
  /\ UNCHANGED <<level, gain, monitor, history, curves, steps>>

\* rx_calibration_curve_complete: every input, each measured above the last.
Complete(points, b) ==
  /\ Len(points) = Len(Inputs[b])
  /\ \A i \in 1..(Len(points) - 1) : points[i].dbfs < points[i + 1].dbfs

\* The session is over: its gain is given back.
Closes == session' = NoSession /\ gain' = session.before

Commit ==
  /\ Between /\ session.open /\ wait = NoWait /\ Complete(session.points, Band)
  /\ curves' = [curves EXCEPT ![Band] = session.points]
  /\ Closes
  /\ UNCHANGED <<level, monitor, history, wait, steps>>

Cancel ==
  /\ Between /\ session.open /\ wait = NoWait /\ Closes
  /\ UNCHANGED <<level, monitor, history, wait, curves, steps>>

Next ==
  \/ Observe \/ RelayReports \/ TimePasses \/ GeneratorMoves
  \/ (\E b \in Bands : Begin(b))
  \/ StepBegins \/ StepEnds \/ Commit \/ Cancel

Spec == Init /\ [][Next]_vars

-----------------------------------------------------------------------------
(* The readings made with the curves.                                        *)

Distance(a, b) == IF a > b THEN a - b ELSE b - a

\* interpolate: between the two points around it, nothing outside all.
Interpolated(b, dbfs) ==
  LET at(i) == curves[b][i].dbfs
      in == Inputs[b]
      around == {i \in 2..Len(curves[b]) : at(i - 1) <= dbfs /\ dbfs <= at(i)}
      i == Min(around)
  IN IF around = {} THEN {}
     ELSE {in[i - 1] + ((dbfs - at(i - 1)) * (in[i] - in[i - 1])) \div (at(i) - at(i - 1))}

\* The level is compensated for the gain the band's curve was made at.
Corrected(b, at, dbfs) == dbfs + BandGain[b] - at

\* The curve made at the nearest gain, the first of several.
NearestFirst(at, reach) == {b \in reach : \A c \in reach : b <= c}
NearestOf(at, reach) ==
  LET off(b) == Distance(BandGain[b], at)
  IN {b \in reach : \A c \in reach : off(b) < off(c) \/ (off(b) = off(c) /\ b <= c)}

\* rx_calibration_reading: of the curves that reach the compensated level.
Reading(at, dbfs) ==
  LET reading(b) == Interpolated(b, Corrected(b, at, dbfs))
  IN UNION {reading(b) : b \in NearestOf(at, {b \in Bands : reading(b) # {}})}

-----------------------------------------------------------------------------
(* Properties.                                                               *)

Tolerance == 5

\* A point taken from ten windows that were measured late enough in its wait is
\* the level of its own input at the session's gain, for either receiver, on
\* either side of the squelch and whatever was smoothed or held before: the
\* span of a step leaves no room for a level still on its way.
PointsAreTheirLevels ==
  session.open => \A i \in DOMAIN session.points : session.points[i].attended =>
    Distance(session.points[i].dbfs, Heard[BandGain[Band]][Inputs[Band][i]]) <= Tolerance

\* Between the two ends of a curve, at its own gain.
Covers(b, dbfs) ==
  /\ curves[b] # <<>>
  /\ curves[b][1].dbfs <= dbfs /\ dbfs <= curves[b][Len(curves[b])].dbfs

\* A level heard at the gain of a curve, within it, is read as what it is, if its
\* points are such points and no other curve was made at that gain: whatever else
\* has been calibrated, in whatever order and how often, rx_calibration_reading
\* prefers no other curve.
ReadingsAreLevels ==
  \A b \in Bands : \A i \in DOMAIN curves[b] :
    LET at == BandGain[b]
        dbfs == Heard[at][Inputs[b][i]]
    IN /\ \A j \in DOMAIN curves[b] : curves[b][j].attended
       /\ \A c \in Bands \ {b} : BandGain[c] # at
       /\ Covers(b, dbfs)
       => /\ Reading(at, dbfs) # {}
          /\ \A dbm \in Reading(at, dbfs) : Distance(dbm, Inputs[b][i]) <= Tolerance
============================================================================
