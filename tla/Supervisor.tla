---------------------------- MODULE Supervisor ----------------------------
(***************************************************************************)
(* The owner of the radio: run_session in rpt/src/main.cpp, the control    *)
(* callback of the network threads, the mailbox between them, and the      *)
(* RfReinitializationController of rpt/src/rf_session.cpp.                 *)
(*                                                                         *)
(* A network thread accepts a command: it queues it and, for a stop, first *)
(* clears the forwarding flag the relay block reads.  The main loop takes  *)
(* all queued commands, carries them out one by one, polls the radio,      *)
(* checks its health and starts over.  Each command is one step, except a  *)
(* start: opening the radio takes seconds, and only then is the flag set.  *)
(*                                                                         *)
(* A configuration is a member of Configs; validate_config may refuse a    *)
(* candidate.  Opening a radio, setting a gain and writing the             *)
(* configuration file may each fail.                                       *)
(***************************************************************************)
EXTENDS Integers, Sequences

CONSTANTS
  Configs,      \* configurations a client may ask for
  NoConfig,     \* the configuration of no radio
  Operations,   \* operations the clients use, among AllOperations
  MaxCommands,  \* bound: commands accepted in a behaviour
  Points,       \* calibration points a curve needs
  Frontend,     \* the front-end stage inputs are enabled
  PersistFails  \* the configuration file may fail to be written

AllOperations == {"start", "stop", "set", "switch", "save",
                  "begin", "step", "commit", "cancel"}
Calibrating == {"begin", "step", "commit", "cancel"}

ASSUME ConfigsAssumption == Configs # {} /\ NoConfig \notin Configs
ASSUME OperationsAssumption == Operations \subseteq AllOperations
ASSUME BoundsAssumption == MaxCommands \in Nat /\ Points \in Nat
ASSUME FaultsAssumption == Frontend \in BOOLEAN /\ PersistFails \in BOOLEAN

VARIABLES
  fwd,       \* forwarding_enabled, the flag the relay block reads
  mbox,      \* NetworkCommandMailbox
  batch,     \* commands the main loop has taken and not carried out yet
  pc,        \* where the main loop is
  radio,     \* configuration current_ runs with, NoConfig when there is none
  gain,      \* its receive gain: as configured, or held for a calibration
  validated, \* validated: what the next candidate starts from
  active,    \* active_validated: what a failed candidate falls back to
  cal,       \* calibration_session: forwarding before it, points taken
  st,        \* NetworkRuntimeState: forwarding, running, fault
  sent,      \* number of commands accepted
  last       \* history: the last start or stop accepted

loopVars == <<batch, pc>>
radioVars == <<radio, gain>>
configVars == <<validated, active>>
clientVars == <<mbox, sent, last>>
vars == <<fwd, clientVars, loopVars, radioVars, configVars, cal, st>>

Command == [op : Operations, cfg : Configs]
NoCalibration == [on |-> FALSE, was |-> FALSE, points |-> 0]
Calibration == [on : BOOLEAN, was : BOOLEAN, points : 0..Points]
State == [fwd : BOOLEAN, running : BOOLEAN, fault : BOOLEAN]

\* run_session up to its loop: the first start of the radio may fail.
Init ==
  /\ mbox = <<>> /\ batch = <<>> /\ pc = "take"
  /\ gain = "configured" /\ cal = NoCalibration
  /\ validated \in Configs /\ active = validated
  /\ \/ /\ radio = validated /\ fwd = TRUE
        /\ st = [fwd |-> TRUE, running |-> TRUE, fault |-> FALSE]
     \/ /\ radio = NoConfig /\ fwd = FALSE
        /\ st = [fwd |-> FALSE, running |-> FALSE, fault |-> TRUE]
  /\ sent = 0 /\ last = "none"

-----------------------------------------------------------------------------
(* Network threads *)

\* A stop clears the flag at once; every command is left for the main loop.
FlagAfterAccepting(c) == IF c.op = "stop" THEN FALSE ELSE fwd

Accept(c) ==
  /\ sent < MaxCommands
  /\ sent' = sent + 1
  /\ mbox' = Append(mbox, c)
  /\ fwd' = FlagAfterAccepting(c)
  /\ last' = IF c.op \in {"start", "stop"} THEN c.op ELSE last
  /\ UNCHANGED <<loopVars, radioVars, configVars, cal, st>>

-----------------------------------------------------------------------------
(* The main loop: one action per command *)

Running == radio # NoConfig

Doing(op) == pc = "commands" /\ batch # <<>> /\ Head(batch).op = op
Done == batch' = Tail(batch) /\ pc' = pc

\* take() empties the mailbox.
LeftBehindAll == mbox
LeftBehind == <<>>

Take ==
  /\ pc = "take"
  /\ batch' = mbox /\ mbox' = LeftBehind /\ pc' = "commands"
  /\ UNCHANGED <<fwd, sent, last, radioVars, configVars, cal, st>>

\* The state a start that failed, or a radio found faulty, leaves behind.
Faulted == [fwd |-> FALSE, running |-> FALSE, fault |-> TRUE]

RadioAfterStopKept == radio
RadioAfterStop == NoConfig

DoStop ==
  /\ Doing("stop") /\ Done
  /\ fwd' = FALSE /\ radio' = RadioAfterStop
  /\ st' = [fwd |-> FALSE, running |-> FALSE, fault |-> FALSE]
  /\ UNCHANGED <<gain, configVars, clientVars, cal>>

\* start_initial opens a radio when there is none ...
StartOpens ==
  /\ Doing("start")
  /\ fwd' = FALSE
  /\ \/ /\ Running /\ pc' = "starting"
        /\ UNCHANGED <<radioVars, configVars, batch, st>>
     \/ /\ ~Running /\ pc' = "starting"
        /\ radio' = validated /\ gain' = "configured" /\ active' = validated
        /\ UNCHANGED <<validated, batch, st>>
     \/ /\ ~Running /\ Done
        /\ st' = Faulted
        /\ UNCHANGED <<radioVars, configVars>>
  /\ UNCHANGED <<clientVars, cal>>

\* ... and only then is forwarding on.
StartEnables ==
  /\ pc = "starting"
  /\ pc' = "commands" /\ batch' = Tail(batch)
  /\ fwd' = TRUE
  /\ st' = [fwd |-> TRUE, running |-> TRUE, fault |-> FALSE]
  /\ UNCHANGED <<radioVars, configVars, clientVars, cal>>

\* RfReinitializationController::reinitialize: the old radio is gone before
\* the candidate is opened; when that fails the previous configuration is
\* opened instead, and when that fails too there is no radio.
Reinitialize(candidate, previous) == {candidate, previous, NoConfig}

\* The configuration a radio runs with is the one to fall back to.
AdoptedValidatedOnly(r) == validated' = r /\ UNCHANGED active
Adopted(r) == validated' = r /\ active' = r

\* set_channel and set_gain_mode, and switch_channel without persistence.
DoSet ==
  /\ Doing("set") /\ Done
  /\ \/ ~Running /\ UNCHANGED <<radioVars, configVars>>
     \/ Running /\ UNCHANGED <<radioVars, configVars>>       \* validate_config refuses
     \/ /\ Running
        /\ \E r \in Reinitialize(Head(batch).cfg, active) :
             /\ radio' = r /\ gain' = "configured"
             /\ IF r = Head(batch).cfg THEN Adopted(r) ELSE UNCHANGED configVars
  /\ UNCHANGED <<fwd, clientVars, cal, st>>

\* switch_channel with persist_active_profile: a file that cannot be
\* written takes the radio back to the previous configuration.
DoSwitch ==
  /\ Doing("switch") /\ Done
  /\ LET c == Head(batch).cfg IN
     \/ UNCHANGED <<radioVars, configVars>>                  \* stopped, or refused
     \/ /\ Running
        /\ radio' \in Reinitialize(c, active) \ {c} /\ gain' = "configured"
        /\ UNCHANGED configVars
     \/ /\ Running
        /\ radio' = c /\ gain' = "configured"
        /\ Adopted(c)
     \/ /\ Running /\ PersistFails
        /\ radio' \in Reinitialize(active, c) /\ gain' = "configured"
        /\ UNCHANGED configVars
  /\ UNCHANGED <<fwd, clientVars, cal, st>>

\* save_channel writes a profile and leaves the radio alone.
DoSave ==
  /\ Doing("save") /\ Done
  /\ \/ UNCHANGED validated
     \/ validated' = Head(batch).cfg
  /\ UNCHANGED <<active, fwd, radioVars, clientVars, cal, st>>

\* set_rx_gain: it fails without a radio; it may fail with one, before the
\* gain is applied or, when the front-end inputs are read, after.
GainFailsToConfigured(g) ==
  \/ UNCHANGED radioVars
  \/ Running /\ Frontend /\ gain' = "configured" /\ UNCHANGED radio
GainFails(g) ==
  \/ UNCHANGED radioVars
  \/ Running /\ Frontend /\ gain' = g /\ UNCHANGED radio
GainSet(g) == Running /\ gain' = g /\ UNCHANGED radio

FlagDuringCalibration == FALSE

DoBegin ==
  /\ Doing("begin") /\ Done
  /\ \/ /\ cal.on \/ ~Running
        /\ UNCHANGED <<radioVars, fwd, cal, st>>
     \/ /\ ~cal.on /\ Running /\ GainFails("calibration")    \* or no telemetry yet
        /\ UNCHANGED <<fwd, cal, st>>
     \/ /\ ~cal.on /\ GainSet("calibration")
        /\ cal' = [on |-> TRUE, was |-> fwd, points |-> 0]
        /\ fwd' = FlagDuringCalibration
        /\ st' = [st EXCEPT !.fwd = FALSE]
  /\ UNCHANGED <<configVars, clientVars>>

\* Any other calibration command without a session only changes a message.
NotCalibrating(op) ==
  /\ Doing(op) /\ Done /\ ~cal.on
  /\ UNCHANGED <<fwd, radioVars, configVars, clientVars, cal, st>>

\* Points are taken in their order, and no more than a curve has.
NextPoint == cal.points < Points

DoStep ==
  /\ Doing("step") /\ Done /\ cal.on
  /\ \/ /\ GainFails("calibration") /\ UNCHANGED cal         \* or out of order
     \/ /\ GainSet("calibration") /\ UNCHANGED cal           \* signal unstable
     \/ /\ NextPoint /\ GainSet("calibration")
        /\ cal' = [cal EXCEPT !.points = @ + 1]
  /\ UNCHANGED <<fwd, configVars, clientVars, st>>

\* restore_forwarding: the gain, if it can be set, and the flag, anyway.
StatusRestored == [st EXCEPT !.fwd = cal.was]
RestoreForwarding ==
  /\ GainFails("configured") \/ GainSet("configured")
  /\ fwd' = cal.was /\ st' = StatusRestored

DoCancel ==
  /\ Doing("cancel") /\ Done /\ cal.on
  /\ RestoreForwarding /\ cal' = NoCalibration
  /\ UNCHANGED <<configVars, clientVars>>

DoCommit ==
  /\ Doing("commit") /\ Done /\ cal.on
  /\ \/ /\ cal.points < Points \/ PersistFails
        /\ UNCHANGED <<fwd, radioVars, configVars, cal, st>>
     \/ /\ cal.points = Points
        /\ RestoreForwarding /\ cal' = NoCalibration
        /\ active' = validated /\ UNCHANGED validated
  /\ UNCHANGED clientVars

\* rf.poll changes nothing here; the health check, once a second, may find
\* the radio faulty.
FlagOnFaultKept == fwd
FlagOnFault == FALSE

Poll ==
  /\ pc = "commands" /\ batch = <<>> /\ pc' = "take"
  /\ \/ UNCHANGED <<fwd, radio, st>>
     \/ Running /\ fwd' = FlagOnFault /\ radio' = NoConfig /\ st' = Faulted
  /\ UNCHANGED <<batch, gain, configVars, clientVars, cal>>

\* A signal ends the loop where it is tested.
Exit ==
  /\ pc = "take" /\ pc' = "exited"
  /\ radio' = NoConfig /\ st' = [st EXCEPT !.running = FALSE]
  /\ UNCHANGED <<fwd, gain, batch, configVars, clientVars, cal>>

MainLoop ==
  \/ Take \/ DoStop \/ StartOpens \/ StartEnables
  \/ DoSet \/ DoSwitch \/ DoSave
  \/ DoBegin \/ DoStep \/ DoCancel \/ DoCommit
  \/ (\E op \in {"step", "cancel", "commit"} : NotCalibrating(op))
  \/ Poll

Next == (\E c \in Command : pc # "exited" /\ Accept(c)) \/ MainLoop \/ Exit

Spec == Init /\ [][Next]_vars

\* The main loop never blocks for ever, and sleeps 50 ms a turn.
FairSpec == Spec /\ WF_vars(MainLoop)

-----------------------------------------------------------------------------
(* Properties *)

Queued(op) == \E i \in 1..Len(batch \o mbox) : (batch \o mbox)[i].op = op

\* A radio is only ever opened with the configuration a failed change would
\* fall back to; the exception is a switch whose profile cannot be written
\* and whose way back fails.
RadioRunsActive ==
  [][radio' \notin {radio, NoConfig, active'} =>
       PersistFails /\ Doing("switch") /\ radio' = Head(batch).cfg]_vars

\* A radio fault keeps the relay shut: no radio, no admission, until a start
\* succeeds.
FaultIsOff == st.fault /\ pc # "starting" => ~fwd /\ ~Running

\* When every command is carried out and the last start or stop accepted was
\* a stop, the relay admits nothing and the radio is closed.
StopHolds == mbox = <<>> /\ batch = <<>> /\ last = "stop" => ~fwd /\ ~Running

\* A stop is never lost: the radio is closed some time after it is accepted.
StopCloses == Queued("stop") ~> ~Running

\* No command waits for ever.
CommandsAreTaken == mbox # <<>> ~> mbox = <<>> \/ pc = "exited"

\* While a calibration session is open the relay admits nothing, and the gain
\* of an open radio is the one being measured.
CalibrationLocksGain == cal.on => ~fwd /\ (Running => gain = "calibration")

=============================================================================
