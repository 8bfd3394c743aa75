# B210-DMR-Repeater: TLA+ models, checks and proofs

This directory holds a verification development of the repeater in
`rpt/` and of its touch screen in `gui/`: TLA+ modules translated from the C++
sources, TLC runs that check
them on small instances, and TLAPS proofs of what matters most for every
instance. It models the decisions the repeater takes over time (what is
admitted, queued, sent, cut, recorded, reported, opened and closed, by which
thread, in which order, and what happens when a step fails). Signal
processing, coding, formatting and drawing are left out.

## 1. The system

A process, `dmr-rpt`, drives a USRP B210; a touch screen, `gui/`, talks to it
over UDP on the loopback. The repeater hears DMR on one receiver and
retransmits voice calls burst by burst; when an FM signal with the right CTCSS
tone is heard and no DMR is, it encodes the FM speech and sends it as a DMR
group call. Around this relay there are a network control service, a recording
branch, GPIO indicators and a loop that owns the radio.

### Components, their state and their operations

| Component (source) | State | Operations | What makes it correct |
|---|---|---|---|
| Relay block, `DirectRelayBurstSource` (`rpt/src/hardware_runtime.cpp`) | active call, burst queue, bursts heard before a header, DMR candidate and idle times, FM session, tone, AMBE queue, cooldowns, PTT | message handlers (`handle_raw_burst`, `handle_header`, `handle_terminator`, `handle_frame`), work pass (`general_work`), tone report (`set_afm_ctcss_state`) | calls leave whole and in order, a cut call is silent at once, DMR always wins over FM, every call and session ends, PTT, recording and status follow what is on the air |
| RF owner (`rpt/src/main.cpp` `run_session`, `rpt/src/rf_session.cpp`) | current radio, validated and fall-back configuration, calibration session, mailbox, status | the commands start, stop, set/switch channel, save, calibration begin/step/commit/cancel; poll; health check; exit | a stop is never lost, a fault shuts the relay, the radio runs what a failed change falls back to, calibration is quiet and keeps its gain |
| GPIO outputs and front-end inputs (`rpt/src/io_status.cpp`, `RuntimeIo`) | believed level, release time and health per output; health of the inputs | initialize, on_rx_activity, on_tx_ptt, poll, fault, release | outputs follow the activity, release in the end, are safe after a fault; a lasting input fault ends the session |
| Recording runtime (`rpt/src/audio_recording_runtime.cpp`, `rpt/src/remote_voice.cpp`) | bounded queue, producer's call, worker's open recording, AMBE writer | start_call, submit_dmr_burst, submit_pcm, finish_call, stop; the worker's open, write, close, abort, upload | one result per call, a completed recording is whole, stop terminates |
| Router, gate, interlock, cooldown store (`router.cpp`, `interlock.cpp`) | cooldown table | decide, record_duration_limit | a source that talked too long waits |
| UDP status and control, TCP stream (`network_protocol.cpp`) | subscription, receiver statuses, active relay, outbound events, clients | command dispatch, status stream; accept, flush, send; start, stop | a status names no call whose carrier is gone, clients get the events in order, a stop ends both threads |
| Touch screen (`gui/main.cpp`) | what it shows, whether the stream is current, requests without a reply, the switch and the start or stop it waits for | user's touches, replies, status packets, limits, reconnection | it ends up showing the repeater's state, says nothing untrue of a command, waits for nothing for ever |
| Receive calibration (`rx_signal_calibration.cpp`, `main.cpp`) | the monitor's level, last ten reports, session and its points, curves | measure, report, begin, step, commit, cancel, read | a point is the level of its own input, a reading at a curve's gain is what is received |
| Burst sampler (`dmr_burst_symbol_sampler.h`) | capture, scheduled window, alignment, misses, pending burst | per-sample work, hand-over | never waits for a window that is over, finds steady bursts again |
| Frame decoder and slot assembly (`gr_dmr_frame_decoder_impl.cc`, `gr-dmr/`) | symbol counts, superframe position, slot, colour code | per-burst decoding, silence reset | an intact header is decoded once |
| Short messages (`short_message.cpp`) | none: pure functions, which nothing in the repository calls | build, parse, decode, recover, in two formats | what is decoded is what was sent, and text |
| Framers, configuration, events and audit, vectors | | | see `PROJECT.json`, components |

### How they interact

* The flowgraph's thread runs the relay's message handlers and work passes one
  after the other. The sampler posts each burst twice: raw on one message port,
  decoded on another; the two ports are drained independently.
* The CTCSS detector's thread reports the tone through a callback that takes
  the relay's mutex. The FM audio thread feeds the AMBE encoder and the
  recording.
* The sampler hands the symbols of a burst, with as many of padding, to the
  decoder through a buffer, and takes no input while one waits for room.
* The relay calls, after it has released its mutex, the recording runtime
  (`start_call`, `submit_dmr_burst`, `finish_call`), the network service
  (`publish_relay_event`) and the GPIO outputs (activity, PTT).
* Network threads put commands in a mailbox; the main loop takes them between
  two polls. The forwarding flag is one atomic shared by network threads, main
  loop and relay.
* `RuntimeIo` holds one mutex around both GPIO controllers; the main loop polls
  them and checks their health.
* The recording worker, the TCP publisher's worker and the UDP server are
  threads of their own; at its exit the main loop closes the radio and then
  stops the server and the publisher, joining each.
* The screen is one loop of its own process: touches, then every datagram that
  has arrived, then its limits. A command is answered when it is queued; what
  became of it shows in the status stream only.

### Which behaviours are hard

Interleaving of ports, passes and threads around one mutex; timers that expire
between two handlers (talk limit, inactivity, candidate, duplicate window,
cooldown, release delay); queues at their limit; roll-back of a half-done
admission or configuration change; commands carried out in a state other than
the one they were accepted in; files, GPIO and radio calls that fail at any
step; and what must happen in the end: calls end, PTT drops, a stop closes, a
recording gets its result. `PROJECT.json` lists each hazard at its line with
the properties that cover it.

## 2. Modules

| Module | Models | Kind |
|---|---|---|
| `Relay` | the relay block | component |
| `RelayProofs` | types of `Relay`; cut calls, FM sessions, recording, PTT; order of the queue, status | proofs |
| `Supervisor` | `run_session`, the mailbox, the reinitialization controller | component |
| `SupervisorProofs` | faults, stops, calibration gain, the radio's configuration | proofs |
| `IoStatus`, `MCIoStatus` | GPIO outputs and inputs; the constants of its run | component |
| `IoStatusProofs` | active outputs, faults | proofs |
| `Recorder` | the recording runtime and the AMBE writer | component |
| `Console` | the touch screen, the UDP server and what the main loop publishes | composition across the network |
| `ConsoleProofs` | what the screen says of a start or stop, the channel it shows | proofs |
| `Recordings` | what the recording runtime promises | abstract specification |
| `RecorderProofs` | whole recordings, the refinement of `Recordings` | proofs |
| `Sampler` | the burst sampler | component |
| `FrameDecoder` | the frame decoder and slot assembly | component |
| `Receiver`, `MCReceiver` | both with the buffer between them; the air of its run | composition |
| `ReceiverProofs` | the sampler's capture clock; headers from the air to the relay | proofs |
| `EventStream` | the TCP publisher and its clients | component |
| `StatusServer` | the UDP status stream, the receivers' monitors and reports | component |
| `Network`, `MCNetwork` | the service that starts, feeds and stops both; the worlds of its run | composition |
| `NetworkProofs` | the order of the events a client receives | proofs |
| `ShortText` | the text conversions of short messages | operators |
| `Messages`, `MCMessages` | short messages from request to outcome, over the air; the texts of its run | component |
| `Calibration`, `MCCalibration` | the monitor's windows, reports, calibration sessions, curves and readings; the bands and the radio of its runs | component |
| `CalibrationProofs` | points and readings | proofs |

### Relay

Every handler and every kind of work pass is an action; each runs under the
block's mutex or, for the reads before the lock and the calls after the unlock,
on the one thread that runs all of them, so it is one step. The exceptions the
code has are kept: the cooldown is looked up before the housekeeping that may
record it (`BeginCall` reads `cool`, not `CoolNow`), and "started" is reported
by the pass that sends the first burst. `Expired`, `Over` and the operators
`CallNow`, `QueueNow`, ... say what `refresh_dmr_idle_locked`,
`enforce_duration_limit_locked` and `enforce_inactivity_timeout_locked` leave
behind; every handler that calls them builds on these. A work pass is one of
`RelayBurst` (a burst from the queue), `IdlePass`, `FmHeader`, `FmVoice`,
`FmUnderflow`, `FmTerminator`, told apart by the conditions of
`general_work` and `produce_afm_locked`.

A burst is reduced to whether it carries a sync, is the very header or
terminator of the call, or belongs to a data service. Times are timers in
ticks: each timer holds what it has left, so the clock is unbounded. `of` in a
queued burst, `cut` and `stale` are history variables: no action reads them.
`Routed` is what of `route_dmr_event` depends on state over time, the
source's cooldown; `Granted` the talk time of the transmit gate's grant. The
other rejections depend on the configuration alone. The indicators the block
reports to are left out.

### Supervisor

The network threads' `Accept` and the main loop's turn: `Take` empties the
mailbox, `Do...` carries out one command, `Poll` ends the turn. A start is two
steps (`StartOpens`, `StartEnables`): the radio is opened, seconds later the
flag is set, and a stop may be accepted in between. Every open, gain change and
file write may fail; `Reinitialize` is the controller with its roll-back.

### IoStatus

A call on the controllers under `RuntimeIo`'s mutex walks its pins one step
each (`AssertPin`, `ScheduleRelease`, `ReleasePin`); any access may fail and
then `AfterFault` is what `fault()` leaves. `line` is the wire, `pin` what the
controller believes.

### Recorder and Recordings

Each producer call is one step under the queue's mutex; the worker's take is
one step, carrying the item out another. `Closings` is every outcome of
`close_session`, `Finishings` every outcome of the AMBE writer's `finish` with
the upload after it. Of audio only its call and number are kept, which is
enough to tell what a file holds. The callers are constrained as `Relay`
constrains them: one DMR call at a time, which may start before the FM session
it interrupted is finished. `Recordings` is the promise (one recording at a
time, one final result, frames of its own call in order); `IsRecordings` is the
refinement, with `result` and `saved` mapped to themselves. `uploads` holds,
of each AMBE file uploaded, whose file it is, what its header counts and what
it contains.

### Console

`gui` is the screen: the fields of `RuntimeState` it shows, `known` for the two
`..._known_` flags, `silent` and `retry` for the ages of the last status and of
the last attempt to connect, `sw` and `fw` for the switch and the start or stop
it waits for, each "none", "sent" or "accepted" with its age. `Hear...` is
`handle_network` taking one datagram, `Turn` what it does once it has taken
all; `toServer` and `toGui` are the sockets' buffers. `Serve` and `SendStatus`
are the server's thread, `Do...` the main loop reduced to what
`NetworkRuntimeState` tells of it; `Supervisor` has the whole of it. Six
queries go out at a connection; the reads of version, gain and calibration are
answered as the subscription is (a state without the runtime's fields, which
clears `last_error`), so three remain. `radio` tells whether the radio is open,
which the status can get wrong. `met` and `gui.done` are history: no action
reads them. `gui.done` is that the screen has just said of a start or stop that
it took effect; `met` that what was asked for has been so since it was asked,
or that the repeater, the screen or a status on its way told so already.

The other controls, the reads of single channels after a switch, the
calibration page and the announcement at startup are left out. A lost
datagram, a crash and a failure of the radio are one kind of mishap.

### Sampler, FrameDecoder, Receiver

Every length the sampler compares with is a multiple of 40 input samples (four
symbols, 0.83 ms), so time is counted in these units, and a step takes a run of
units that the code treats alike. The air is a sequence of transmissions, each
loud for a while: bursts with a sync pattern (`header`, `voice`, and `weak`,
whose other bits are damaged), `plain` ones without, and noise. `buf` keeps of
a capture its length, its loud units and where bursts start in it; `Found` is
what the search for a sync pattern can meet there, and `Content` what the 132
symbols handed on are: a burst, or `garbage` when they are not one from its
first symbol on. `centre` is the distance to the first symbol of the scheduled
window, `Miss` what a window without a sync pattern leaves.

One step of `FrameDecoder` decodes one block of 264 symbols: the voice frame
due in it, its sync pattern, and what the payload's checks make of it. Every
check on damaged bits may go either way. Two facts of the code shape the
module. The embedded signalling of a voice burst is read from the 132 symbols
before the place where a frame is due, which is never the end of a burst of the
sampler (94, 110, 126, 142 and 158 symbols into a block whose burst ends at
132), so it never decodes; `LoadSlot` keeps what noise can do to the colour
code. And with 264 symbols a burst the distance of two sync
patterns is never in the range that toggles the slot (`SlotNow`).

### EventStream, StatusServer, Network

`Publishes` is a relay thread under the publisher's mutex; the worker polls
(`Accepts`, `Flushes`) or sends one frame to one client at a time (`Sends`,
`SendFails`, or `SendsInVain` to a socket whose peer has just gone). A peer may
stop reading, which blocks the worker, go on reading, or hang up. `Leaves` is
the flag looked at on top of the worker's loop only. `StatusServer` has each
receiver's monitor, whose reports know of a carrier but not of a call and so
keep the last report's call (`Observed`), the relay block's reports of calls,
and what a status packet names. A report is of the last second or older.
`Network` starts and stops both as the service does: publisher first, server
second, and in the same order down (the server, then the publisher); a server
that cannot bind its socket takes the publisher down again. The main loop
closes the radio before it stops the service.

### ShortText, Messages

Text is a sequence of octets and of UTF-16 units; `ToUtf16` and `FromUtf16` are
the code's own conversions, with every refusal. `Messages` is one message:
`Ask`, `Build` or `Refuse`, `Air` (a block lost, doubled or swapped with its neighbour,
octets hurt), `Receive` with the parse, decode and recovery of its format. The
CRC is abstracted to the data it was computed over, so any other data is told
from it; octets of a check sum that are read as data are `SumOctet`. As
nothing else in the repository calls these functions, the caller and the air
are external. Facts of the code the module keeps: bits of the block count are
read two places too high, a parse looks at no header CRC, an 828S header's
padding is not covered by the check sum, and a trailing U+0000 is lost.

### Calibration

`ReceiveSignalMonitor` measures a window of 10 ms, and what is left of one at
the end of a work call, and has each reported (`Observe`): a work call measures
several at once (`Works`, `left`), so ten reports may be of one instant. The
relay's receive-status callback reports the monitor's snapshot without measuring
(`RelayReports`). `raw`, `active` and `quiet` are the monitor's
`signal_dbfs_`, `active_signal_dbfs_` and the time since its last active window,
up to the hold: `Smoothed` takes a fifth of the way for a window above the
squelch while the hold lasts and starts anew otherwise, `Shown` is the snapshot,
the held level during the hold and the last window after it. DMR holds for
200 ms, FM not at all (`Holds`).

`TimePasses` lets any of `Passes` go by with no window measured, also the whole
wait of a step; how many windows are measured in a wait, and when, is open.
`StepBegins` and `StepEnds` are a step before and after its wait of 650 ms;
`Stable` is `stable_observation`, and the limit of the signal-to-noise ratio is a
choice. `Commit` replaces the band's curve; `Reading` is
`rx_calibration_reading`, with the compensation for a gain other than the
curve's and the curve of the nearest gain. What a window measures is `Heard`, any
function of gain and level: gains need not add to levels. Failed gain settings
and a failed write are in `Supervisor`.

A point carries, as history, whether it is `attended`: made from ten windows
that were measured in the part of the wait in which nothing from before it is
held. Other points may be of the input before (section 3).

Idealised are the following. Levels are integers in tenths of a decibel, the code
computes in floating point: hence the half decibel of `Tolerance`. What is fed is
measured at once, and a window is of one level; in the program the flowgraph
buffers samples, and the generator may move within a window. A snapshot and its
report are one step. The noise the generator is heard in is part of its level. The
module assumes of its inputs what the code's tables have (`kLowInputs` and the
others): they rise, by 5 dB; and of the receiver (`ReceiverRises`) that at the gain
a band is calibrated at it does not compress the band's inputs by more than a
fifth, which a linear one does not.

## 3. Runs

| Run | Checks | Bounds, and why they are enough |
|---|---|---|
| `relay_dmr` | `TypeOK`, `CutCallSilenced`, `QueueInCallOrder` | two sources, three calls, queue of 4, two bursts before a header: two calls can share the queue, be cut, overflow it and be admitted behind each other; FM off |
| `relay_fm` | recording, status, PTT and speech properties, and that calls, sessions and PTT end | one source, two calls, queue of 2, an FM session with a header, voice, underflow and terminator of two bursts: DMR can interrupt a session in every stage, end, and come again |
| `supervisor_control` | `FaultIsOff`, `StopHolds`, `RadioRunsActive`, `StopCloses`, `CommandsAreTaken` | two configurations, four commands among start, stop, set, switch, save, every failure possible |
| `supervisor_calibration` | `CalibrationLocksGain` | four commands among the calibration's, stop and save, one point; starts and changes of configuration would break it (below) |
| `io_outputs` | outputs and inputs, safety and release | two outputs, a receiver that repeats its reports and a transmitter, delay of two ticks, failing writes and reads |
| `recorder` | completeness of recordings and uploads, refinement, results, stop | three calls, the first FM, two frames each, queue of two frames: overflow across calls, an interrupted session, all failures, a stop at any point |
| `console` | what the screen says and shows, and that it settles | two channels, two commands among start, stop and switch, one mishap at any point: a lost query, reply or packet, a crash, a failed start, switch or radio; a status is stale after 2 ticks, a confirmation late after 1 |
| `receiver` | `WindowNotExpired`, `HeadersAreDecoded`, `Reacquires` | header, voice, plain and weak bursts of 33 loud units in 72, quiet for a period, noise of 36 units, in any order; one block fits the buffer, so the sampler has to wait for the decoder |
| `network` | `EventsInOrder`, `EventsArrive`, `StopsInTheEnd`, `CallsFade` | three worlds: the stream alone with two events and three clients for two places, of which deliveries to one are followed; the status alone with two receivers, one call and one peer; both, started and stopped |
| `messages` | `OnlyTextIsSent`, `UnhurtArrives`, `DecodedIsSent`, `RecoveredIsPrefix` | both formats; texts of every length around the borders of 1, 2, 15 and 16 blocks, of 1 to 4 octets a character, malformed ones; two faults of the air, octets hurt in messages of up to four blocks |
| `calibration` | `PointsAreTheirLevels`, `ReadingsAreLevels` | two bands of two inputs that share one, at gains 4 dB apart; two sessions, or one and a report of the relay or a time outside a wait; a receiver with hold and one without; levels on either side of the squelch and both above it; work calls of five windows, 180 ms between them or none at all. A point can be made of windows still on their way to the level, of a held level, of old ones or of mixtures, and a curve can reach the other's levels. Reports are too old after 750 ms, which still admits those of before a step |

In `console` a tick is a period of the status stream. It passes once its packet
is sent and every request is answered; whether the screen has heard any of it
is open, so replies and confirmations may always come too late. The limits keep
the order of the program's (reply 1.5 s, confirmation 8 s, silence 1 s, retry 1 s)
only in that a confirmation outlasts a reply; nothing else is assumed of them.
One datagram fits the screen's buffer (`NetCap`) and one packet of the new run
may be taken for an old one after a restart (`MaxBehind`). In the program that
number is the length of the previous run in periods: `ScreenSettles` says that
the screen settles, not how soon, and a screen that is not restarted with the
repeater stays offline as long as the previous run lasted.
`ForwardingVerdictIsTrue` takes for true also what a status told that was on its
way when the command was given. The screen has nothing to tell such a status
from a later one by: after a stop, a start and a fault of the radio, a second
start is confirmed by its reply and the status of the first, though it was never
carried out. What the property excludes is a verdict nobody ever had reason
for. `NoRollbackUndisturbed` holds for
the command given first. Two things break it beyond that: when as many datagrams
wait as make up the silence the screen tolerates (`NetCap >= StaleAfter`), it
reconnects although the stream has arrived, and the answer to its `get_channel`,
which is older than the switch, takes it back; and when two switches are queued,
the error of the first is taken for the verdict on the second.


`MaxCalls` (Relay, Recorder), `MaxCommands` (Supervisor, Console), `MaxMishaps`,
`MaxBehind`, `NetCap` (Console), `MaxAudio` (Recorder), `MaxEvents`
(EventStream), `MaxFaults` and `MaxHurt` (Messages) and
`MaxSteps` (Calibration) are the only bounds on behaviour; all other
constants are the program's own limits, made small. `Sampler` keeps the
program's own numbers. In `Calibration` time passes
in steps of one length, so that ages stay few, and `Patient` is a bound too: the
generator moves and a session begins only once the reports have settled, and all
wait for the end of a work call. The proofs take neither. The 63 blocks a defined
message may have are not reached: texts stay below 100 units. `CHECK_DEADLOCK FALSE` stands where the system really stops:
`Supervisor` after its exit, `Recorder` and `Network` after their stop.

In `receiver` the decoder's reset after silence (`SilenceBlocks`) never meets a
header because the sampler gives up after three bursts without a sync pattern:
that is what `HeadersAreDecoded` is about, and it takes both modules. The limit
of three also has a price. A superframe has five bursts without a sync
pattern; its last two are only sent on when the search, which has started over
meanwhile, holds an old alignment.

One run expects a violation of something the repository says of itself
(`PROJECT.json`, findings, quotes the lines): `relay_cooldown`, a header that
itself cuts the call that talked too long is admitted again at once, cooldown
or not.

### Known disagreements not carried as runs

Each of these follows from a module as it stands; no run checks it.

* A data burst drained after its frame is admitted with the next voice call
  (`RawBurst` after `DataFrame` in `Relay`), against the comment at
  `hardware_runtime.cpp:1498`.
* A call that ends before its first burst is sent is reported ended before
  started, and the status names it from then on (`shown` in `Relay`).
* Cancelling a calibration after a stop hands back the forwarding flag as it
  was before the stop (`RestoreForwarding` in `Supervisor`), against the comment
  at `main.cpp:1359`. Changes of configuration during a calibration reopen the
  radio with its configured gain.
* The header of the second AMBE file counts the first file's frames too
  (`ambe.header` in `Recorder`); an AMBE file left open by a failed recording is
  uploaded with the next FM recording (`of` of an upload).
* A burst whose sync pattern is found but which fades before its last symbol
  leaves the alignment held with no window scheduled (`SelectFree` in
  `Sampler`), so later noise is handed on as bursts, although the decoder
  (`gr_dmr_frame_decoder_impl.cc:239`) relies on aligned ones.
* A defined short message of 16 blocks and more is built, but its header
  announces another number of blocks and its decoding is refused; texts that
  leave more than eight octets of padding (3 to 5 letters, for example) are
  refused by the builder.
* A step of a calibration asks for "ten fresh samples" (`main.cpp:922`), and
  `INTERNAL_THREE_RANGE_RSSI_CALIBRATION_PLAN.md` (line 46) for a wait of a second
  and windows that cover two more. `stable_observation` takes reports of up to
  2.5 s of age, from before the step as well: when the monitor stands still for
  the 650 ms, ten reports of the input before are the point of the new one
  (`TimePasses` and `StepEnds` in `Calibration`). TLC finds this trace when
  `attended` is dropped from `PointsAreTheirLevels`.
* The same plan (lines 53 and 55) rules out compensating a level for the gain and
  wants nothing read without a curve or outside it. `Corrected` and `Reading` in
  `Calibration` compensate, as the code does and its tests require
  (`repeater_contract_tests.cpp:662`): a level received at a gain no curve was
  made at is read with the curve nearest in gain, and that reading is right only
  as far as gains add to levels. `ReadingsAreLevels` therefore speaks of a curve's
  own gain only.
* A calibration begun right after a cancelled one takes that one's gain for the
  one to give back (`Begin` in `Calibration`): it is that of the last report.
* Any trusted peer can end or take over the one subscription of the status
  stream. Events published while the stream is not configured are kept for
  ever; those not yet flushed at a stop are lost.
* The FM indicator can lag against the tone state; a start sets the flag again
  that a stop accepted meanwhile had cleared, until the stop is carried out; a
  failed change whose roll-back fails leaves a status that says it runs; a
  report that met a GPIO fault drives the second output of its channel
  afterwards.

## 4. Fairness

* `Relay`: weak fairness of the work pass and of the clock. GNU Radio calls the
  block as long as the flowgraph runs, since `forecast` asks for no input, and
  the timers read a monotonic clock. No fairness of the handlers: headers and
  terminators may be lost for ever, which is what the inactivity limit is for.
* `Supervisor`: weak fairness of the main loop, which sleeps 50 ms a turn and
  never waits for a client. No fairness of the network threads.
* `IoStatus`: weak fairness of a call in progress and of the clock; strong
  fairness of the main loop's poll and health check, because each needs the
  mutex, which the relay's threads take and release between two of them.
* `Recorder`: weak fairness of the worker, a thread that blocks only on its
  queue. None of the producers.
* `Console`: weak fairness of the screen's two kinds of step, of the server's
  thread and of the main loop, each of which waits with a limit and never for
  the other, and of the clock. `Restart` is fair too: the README names systemd
  as what manages the service, whose unit is not part of the repository;
  without it nothing settles after a crash. Touches, mishaps and failures
  are not fair.

* `Receiver`: weak fairness of the flowgraph as a whole. GNU Radio runs some
  block while one has input and room for its output, and samples keep coming.
* `Network`: strong fairness of the publisher's worker and of its flush (a
  round accepts at most one client before it looks at the clock, and a blocked
  send is made when the client reads, however often it stops again); weak
  fairness of the server, of `stop`, of the monitors and of time. A client that
  stopped reading reads on or hangs up one day: this is an assumption about
  the environment, without which a blocked send holds up `stop` for ever.
* `Messages` and `Calibration` state no liveness.

## 5. Proofs

TLAPS checks the theorems below for every value of the constants that
satisfies the assumptions of the module (`ASSUME`): names stand apart from the
value for none (`NoSource`, `NoConfig`, `NoProfile`, `NoCall`), limits are natural
numbers, positive where the code divides its behaviour on it, and the relay's
AMBE queue holds at least one burst. Six theorems have a hypothesis besides,
named where they are listed; without it the property is false, as section 3
says. The bounds of the runs are constants like the others, so the theorems
hold for any number of calls, commands, mishaps and frames.

* `RelayProofs`: `TypeCorrect == Spec => []TypeOK`. `TypeOK` is not inductive:
  the underflow counter of a session on the air stays below its limit only
  because the pass that reaches the limit leaves the voice stage. The inductive
  invariant is `TypeInv == TypeOK /\ UnderflowBelow`. One lemma per group of
  actions; `HousekeepingType` and the other lemmas about the `...Now` operators
  are shared by all handlers.
  `CutCallsAreSilenced` from `CutInv` (a cut call is not
  active, and no queued burst is of a cut call; ids grow);
  `FmToneIsFresh` from `FreshInv` (a stale tone has to be seen absent before it
  counts: `stale => rearm`); `FmSpeechIsOwn`, an action property that follows
  step by step; `RecordingIsTheCalls`; `PttIsHeld`.

  `CallsLeaveInOrder` and `StatusFollowsAir` from
  `OrderInv`: the queue is ordered by call with at most one start of a call, in
  front; the active call is the last admitted; and the status names the active
  call once its start has left the queue. The order of the queue is what makes
  the status right: a later start cannot be sent before an earlier one.

* `ReceiverProofs`: `WindowsAreAhead == Spec => []WindowNotExpired`, for any set of
  transmissions, from `ClockInv`: what the clock is computed from are numbers,
  a scheduled window's distance is at least that of its own last unit, and an
  alignment is held. `AheadLiesAhead` shows that the next period not begun lies
  ahead, however late a burst is looked at; one lemma for each of the outcomes
  of a capture (`AcquireKeepsClock`, `SelectFreeKeepsClock`, `MissKeepsClock`)
  is used by the steps that have it.

  `HeadersComeThrough == Spec => []HeadersAreDecoded` relates both modules. Its
  hypotheses are `WholeBursts` (a burst with a sync pattern does not fade before
  its last symbol; one that does leaves an alignment held with no window
  scheduled, see above, and garbage may follow without limit) and
  `MissLimit < SilenceBlocks` (three windows against the two seconds of
  `SILENCE_RESET_SECONDS`, 36 blocks). `HeaderInv` has what a capture holds
  (`CaptureInv`: bursts with all of their symbols so far), that an alignment is
  held only to wait for its window (`LockInv`), and the argument itself:
  `RunsAreShort` says that blocks without a sync pattern come in runs no longer
  than windows are missed in a row, a run at the end of what has been handed on
  no longer than `lock.missed`, counting those the decoder has already taken
  (`sinceSync`). So the reset after silence never meets a header, and every
  header in `stream` and `pending` is one of those owed (`CountInv`).

* `SupervisorProofs`, all on top of `LoopInv` (types of the loop's state; a
  command that spans several steps is the head of the batch and the one the
  loop is busy with; a faulty radio is closed):
  `FaultCloses == Spec => []FaultIsClosed`, with any commands.
  `FaultKeepsShut == Spec => []FaultIsOff` and
  `StopKeepsShut == Spec => []StopHolds` assume `NoSessions` (no client begins a
  calibration), since a cancelled session hands back the flag of before.
  `StopInv` says where an accepted stop is: still in the mailbox, in the batch
  with no start behind it, or carried out with the relay shut; failures of any
  step keep it. `CalibrationHoldsGain == Spec => []CalibrationLocksGain` assumes
  `Undisturbed` (no start and no change of configuration), since these open the
  relay or reopen the radio during a session. `RadioRunsFallback ==
  Spec => RadioRunsActive` needs only that commands are what clients send.
* `IoStatusProofs`: `ActivePinsAreLow == Spec => []ActivePinIsLow`, for any wiring
  of outputs to channels. `ActiveInv` follows a call from pin to pin: a pin of
  an active channel is driven, or still to be driven by the report under way,
  and never to be released by it. `FaultsAreSafe == Spec => []FaultIsSafe` assumes
  `OneOutputEach`: a report that fails at one output of its channel drives the
  channel's next one after the fault. `FaultInv` is that no report has more than
  one pin to go and that after a fault only a poll is under way.
* `RecorderProofs`: `CompletedRecordingsAreWhole == Spec => []CompletedIsWhole` and
  `RuntimeKeepsPromise == Spec => IsRecordings`, the refinement. Both rest on
  `RecInv`. Its core is `QueueInv`: what is queued, behind the item in the
  worker's hand, is in the order the producers made it (`Follows`: a call's
  start before its audio, audio in its order, all before its finish), and the
  audio in it is counted, so that the queue drops audio and never a start or a
  finish. `ItemInv` says what each such item tells of its call, `CallInv` what
  has become of a call's frames (saved, dropped, in hand or queued), `AmbeInv`
  whose AMBE file is open. The lemmas about taking, appending and dropping
  (`InOrder`, `Elems`, `AudioOf`) are stated once for all actions. For the
  refinement each step of the producers and the worker is a step of
  `Recordings` or leaves `result` and `saved` alone.
* `ConsoleProofs`: `VerdictsAreTrue == Spec => []ForwardingVerdictIsTrue`. The
  inductive invariant adds `NotTold`: while a start or stop is waited for and has
  not been so, neither the repeater, nor the screen, nor any status on its way
  tells of it. Every action that makes, delivers, loses or forgets a status is
  a step of its own, as is a crash, after which the repeater tells less.

  `SwitchIsNotTakenBack` is `Spec => NoRollbackUndisturbed`. Its hypothesis
  `ReadsInTime` (`NetCap < StaleAfter`) says that fewer datagrams wait for the
  screen than the periods of silence it tolerates. The code has no such limit
  (a socket's buffer is larger); it is what `handle_network` makes of it, which
  reads all that waits in each turn of a loop that turns many times a period.
  `CalmInv` says of the time before the second command and the first mishap:
  each period of silence has a packet of the stream under way or due, so the
  screen stays online and asks nothing again (`StaysOnline`, which counts those
  packets); the reply to the command is the last answer about the channel to be
  heard (`OneReply`); while the command is not carried out nothing tells an error
  (`NoError`); and what is shown of an accepted switch is its channel
  (`ShowsSwitch`). Only a status then can end the showing, by an error or too
  late. `LineFrom` relates what is to be heard before and after a step, datagrams
  and the answers to requests alike, and `LineKept` what that keeps.
* `NetworkProofs`: `EventsComeInOrder == Spec => []EventsInOrder`, for any clients,
  places and events, started and stopped at any time. Events are numbered.
  `StreamInv` says that the queue ends with the last event published and begins
  after the last one taken (`QueueInOrder`), that the frames of a flush are the
  last ones taken with the line behind them (`FramesInOrder`), and that a
  client has all events since its accept but those of the frames it has not
  been sent (`GotInOrder`, with `Lacks`). `GoesOnFrames` is what a client dealt
  with leaves of a flush, whether it was sent the frame or dropped.
* `CalibrationProofs`: `PointsAreRight == Spec => []PointsAreTheirLevels` and
  `ReadingsAreRight == Spec => []ReadingsAreLevels`, for any bands, gains,
  receivers, squelch, holds, waits and ways time passes, with no patience of
  anybody. Both speak of attended points only, as they must; the second speaks of
  a curve's own gain and rests on `ReceiverRises`. `CalInv` calls a report late
  when its window was measured in a wait, after what was held before it: its
  `LateChain` says that such reports follow one another a fifth of the way to
  what is received, or are it. Ten of them within the span a step allows have
  arrived (`SteadyHasArrived`). For the squelch it takes that below it nothing
  is held longer in a wait than the hold, and above it the last late report is
  what the next is smoothed from (`WaitInv`). `Lags` is how far attended points
  stay behind their levels, in tenths of a decibel. At its own gain, then, an
  input lies between its own point and the next, and no other curve is as near.


Only model-checked:

* every liveness property (`EveryCallEnds`, `StopCloses`, `FinishedCallsEnd`,
  `ScreenSettles`, `Reacquires`, `EventsArrive` and the others), and
  `IdlePinIsReleased` and `FrontendFaultStops`, since TLAPS proves no liveness
  under fairness;
* the properties of `Messages`, whose conversions walk the text octet by octet (a
  recursive function): what they compute for every text takes induction over data.

## 6. Not modelled

* Framers and the frame builders (bit layout and FEC of a burst), SHA-256,
  vectors, recording names: sequential functions without state over time.
* Software AGC, admission tracker, CTCSS bins, filters, AMBE, MP3: floating
  point; what depends on them enters as a choice.
* `config.cpp`: field-by-field checks and rewriting of the YAML text;
  `Supervisor` takes its verdict and its failures as choices.
* Events, audit log and console output; the screen's drawing, its channel
  pages and its calibration page.
* GNU Radio and UHD, which appear as nondeterministic steps and failures.

Component by component with reasons: `PROJECT.json`.

## 7. Plan

The modules above are done, and their safety invariants proved but for those of
`Messages`. Left:

1. `Relay` and `Supervisor` composed, so that cooldowns meet reopenings of the
   radio.
2. The conversions of `ShortText` as theorems: that what is accepted is well
   formed and comes back as it was, once an induction over a text can be stated.
