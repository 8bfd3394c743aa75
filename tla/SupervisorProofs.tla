-------------------------- MODULE SupervisorProofs --------------------------
(***************************************************************************)
(* The owner of the radio, for any configurations, any number of commands  *)
(* and any failures: a fault and a stop shut the relay and stay in force,  *)
(* a calibration holds the gain, and a radio runs what a failed change     *)
(* would fall back to.                                                     *)
(*                                                                         *)
(* Some of it is lost when calibration commands are mixed with others (the *)
(* end of a session hands the forwarding flag back as it was before, and   *)
(* changes of configuration reopen the radio with its own gain), so those  *)
(* theorems name the commands they leave out.                              *)
(***************************************************************************)
EXTENDS Supervisor, TLAPS, SequenceTheorems

\* What the loop's steps are computed from.
OwnerTypes ==
  /\ mbox \in Seq(Command) /\ batch \in Seq(Command)
  /\ pc \in {"take", "commands", "starting", "exited"}
  /\ fwd \in BOOLEAN /\ cal \in Calibration
  /\ st \in State /\ validated \in Configs /\ active \in Configs

\* Commands are carried out one by one between two polls; a start is at the
\* head of the batch until the radio is open.
OneByOne ==
  /\ pc \in {"take", "exited"} => batch = <<>>
  /\ pc = "starting" => batch # <<>> /\ Head(batch).op = "start"

\* A faulty radio is gone.
FaultIsClosed == st.fault /\ pc # "starting" => ~Running

LoopInv == OwnerTypes /\ OneByOne /\ FaultIsClosed

\* Without a session there is nothing to hand back.
NoSessions == "begin" \notin Operations
FaultInv == ~cal.on /\ FaultIsOff

\* The commands s close the relay in the end, or leave it closed.
NoStart(s) == \A i \in 1..Len(s) : s[i].op # "start"
EndsInStop(s) ==
  \E i \in 1..Len(s) : s[i].op = "stop" /\ \A j \in (i + 1)..Len(s) : s[j].op # "start"

Shut == ~fwd /\ ~Running

\* A stop accepted after the last start is on its way, or has been carried out.
StopInv ==
  last = "stop" => \/ EndsInStop(mbox)
                   \/ NoStart(mbox) /\ EndsInStop(batch)
                   \/ NoStart(mbox) /\ NoStart(batch) /\ Shut

\* Nothing but the session's own commands touches its gain and the flag.
Undisturbed == Operations \cap {"start", "set", "switch"} = {}

-----------------------------------------------------------------------------
(* Commands *)

LEMMA CommandsAre ==
  ASSUME NEW c \in Command
  PROVE  /\ c.op \in Operations /\ c.cfg \in Configs
         /\ c.op \in AllOperations
  BY OperationsAssumption DEF Command

\* The command carried out, and those left.
LEMMA BatchIs ==
  ASSUME batch \in Seq(Command), batch # <<>>
  PROVE  /\ Head(batch) \in Command /\ Head(batch) = batch[1]
         /\ Tail(batch) \in Seq(Command)
         /\ Len(batch) \in Nat \ {0} /\ Len(Tail(batch)) = Len(batch) - 1
         /\ \A i \in 1..Len(Tail(batch)) : Tail(batch)[i] = batch[i + 1]
<1>1. /\ Head(batch) \in Command /\ Tail(batch) \in Seq(Command)
      /\ Len(Tail(batch)) = Len(batch) - 1
      /\ \A i \in 1..Len(Tail(batch)) : Tail(batch)[i] = batch[i + 1]
  BY HeadTailProperties
<1>2. Len(batch) \in Nat \ {0}
  BY EmptySeq
<1>3. Head(batch) = batch[1]
  OBVIOUS
<1> QED BY <1>1, <1>2, <1>3

-----------------------------------------------------------------------------
(* Types and faults *)

LEMMA StatesAre ==
  /\ Faulted \in State /\ Faulted.fault = TRUE
  /\ [fwd |-> TRUE, running |-> TRUE, fault |-> FALSE] \in State
  /\ \A s \in State, on \in BOOLEAN :
       /\ [s EXCEPT !.fwd = on] \in State
       /\ [s EXCEPT !.fwd = on].fault = s.fault
  /\ \A s \in State : [s EXCEPT !.running = FALSE] \in State
  BY DEF State, Faulted

LEMMA SessionsAre ==
  /\ NoCalibration \in Calibration
  /\ \A on \in BOOLEAN : [on |-> TRUE, was |-> on, points |-> 0] \in Calibration
  BY BoundsAssumption DEF NoCalibration, Calibration

LEMMA InitLoop == Init => LoopInv
<1> SUFFICES ASSUME Init PROVE LoopInv
  OBVIOUS
<1>1. /\ mbox = <<>> /\ batch = <<>> /\ pc = "take" /\ cal = NoCalibration /\ fwd \in BOOLEAN
      /\ validated \in Configs /\ active = validated
      /\ \/ st = [fwd |-> TRUE, running |-> TRUE, fault |-> FALSE]
         \/ radio = NoConfig /\ st = [fwd |-> FALSE, running |-> FALSE, fault |-> TRUE]
  BY DEF Init
<1>2. st \in State
  BY <1>1, StatesAre DEF Faulted
<1>3. OwnerTypes
  BY <1>1, <1>2, EmptySeq, SessionsAre DEF OwnerTypes
<1>4. OneByOne /\ FaultIsClosed
  BY <1>1 DEF OneByOne, FaultIsClosed, Running
<1> QED BY <1>3, <1>4 DEF LoopInv

\* A command carried out leaves the loop as it should be.
LEMMA DoneKeepsLoop ==
  ASSUME LoopInv, pc = "commands", batch # <<>>, Done
  PROVE  /\ batch' \in Seq(Command) /\ pc' = "commands"
         /\ OneByOne'
  BY BatchIs DEF LoopInv, OwnerTypes, Done, OneByOne

LEMMA LoopStep == LoopInv /\ [Next]_vars => LoopInv'
<1> SUFFICES ASSUME LoopInv, [Next]_vars PROVE LoopInv'
  OBVIOUS
<1> USE DEF LoopInv, OwnerTypes, OneByOne, FaultIsClosed, Running
<1>1. ASSUME NEW c \in Command, Accept(c) PROVE LoopInv'
  <2>1. fwd' \in BOOLEAN
    BY <1>1 DEF Accept, FlagAfterAccepting
  <2> QED BY <1>1, <2>1 DEF Accept, loopVars, radioVars, configVars
<1>2. CASE Take
  BY <1>2, EmptySeq DEF Take, LeftBehind, radioVars, configVars
<1>3. CASE DoStop
  BY <1>3, DoneKeepsLoop, BatchIs DEF DoStop, Doing, configVars, clientVars, RadioAfterStop, State
<1>4. CASE StartOpens
  BY <1>4, DoneKeepsLoop, BatchIs, StatesAre DEF StartOpens, Doing, Done, radioVars, configVars, clientVars
<1>5. CASE StartEnables
  BY <1>5, BatchIs DEF StartEnables, radioVars, configVars, clientVars, State
<1>6. CASE DoSet
  BY <1>6, DoneKeepsLoop, BatchIs, CommandsAre DEF DoSet, Doing, Done, radioVars, configVars, clientVars, Adopted
<1>7. CASE DoSwitch
  BY <1>7, DoneKeepsLoop, BatchIs, CommandsAre DEF DoSwitch, Doing, Done, radioVars, configVars, clientVars, Adopted
<1>8. CASE DoSave
  BY <1>8, DoneKeepsLoop, BatchIs, CommandsAre DEF DoSave, Doing, Done, radioVars, clientVars
<1>9. CASE DoBegin
  <2>1. /\ batch' \in Seq(Command) /\ pc' = "commands" /\ OneByOne'
        /\ UNCHANGED <<mbox, validated, active>>
    BY <1>9, DoneKeepsLoop DEF DoBegin, Doing, configVars, clientVars
  <2>2. radio' = radio
    BY <1>9 DEF DoBegin, radioVars, GainFails, GainSet
  <2>3. fwd' \in BOOLEAN /\ cal' \in Calibration
    BY <1>9, SessionsAre DEF DoBegin, FlagDuringCalibration
  <2>4. st' \in State /\ st'.fault = st.fault
    BY <1>9, StatesAre DEF DoBegin
  <2> QED BY <2>1, <2>2, <2>3, <2>4, <1>9 DEF DoBegin, Doing
<1>10. CASE DoStep
  BY <1>10, DoneKeepsLoop, BatchIs, BoundsAssumption DEF DoStep, Doing, Done, radioVars, configVars, clientVars, GainFails, GainSet, Calibration, NextPoint
<1>11. CASE DoCancel
  <2>1. st' \in State /\ st'.fault = st.fault
    BY <1>11, StatesAre DEF DoCancel, RestoreForwarding, StatusRestored, Calibration
  <2>2. radio' = radio
    BY <1>11 DEF DoCancel, RestoreForwarding, radioVars, GainFails, GainSet
  <2>3. fwd' \in BOOLEAN
    BY <1>11 DEF DoCancel, RestoreForwarding, Calibration
  <2> QED BY <1>11, <2>1, <2>2, <2>3, SessionsAre, DoneKeepsLoop
          DEF DoCancel, Doing, configVars, clientVars
<1>12. CASE DoCommit
  <2>1. st' \in State /\ st'.fault = st.fault
    <3>1. st' = st \/ st' = [st EXCEPT !.fwd = cal.was]
      BY <1>12 DEF DoCommit, RestoreForwarding, StatusRestored
    <3>2. st \in State /\ cal.was \in BOOLEAN
      BY DEF LoopInv, OwnerTypes, Calibration
    <3> QED BY <3>1, <3>2, StatesAre
  <2>2. radio' = radio
    BY <1>12 DEF DoCommit, RestoreForwarding, radioVars, GainFails, GainSet
  <2>3. validated' \in Configs /\ active' \in Configs /\ cal' \in Calibration
    BY <1>12, SessionsAre DEF DoCommit, configVars
  <2>4. fwd' \in BOOLEAN
    BY <1>12 DEF DoCommit, RestoreForwarding, Calibration
  <2> QED BY <1>12, <2>1, <2>2, <2>3, <2>4, DoneKeepsLoop DEF DoCommit, Doing, clientVars
<1>13. ASSUME NEW op, NotCalibrating(op) PROVE LoopInv'
  BY <1>13, DoneKeepsLoop, BatchIs DEF NotCalibrating, Doing, Done, radioVars, configVars, clientVars
<1>14. CASE Poll
  <2>1. fwd' \in BOOLEAN
    BY <1>14 DEF Poll, FlagOnFault
  <2> QED BY <1>14, <2>1, StatesAre DEF Poll, configVars, clientVars
<1>15. CASE Exit
  BY <1>15 DEF Exit, configVars, clientVars, State
<1>16. CASE UNCHANGED vars
  BY <1>16 DEF vars, loopVars, radioVars, configVars, clientVars
<1> QED BY <1>1, <1>2, <1>3, <1>4, <1>5, <1>6, <1>7, <1>8, <1>9, <1>10, <1>11, <1>12,
           <1>13, <1>14, <1>15, <1>16 DEF Next, MainLoop

LEMMA LoopHolds == Spec => []LoopInv
  BY InitLoop, LoopStep, PTL DEF Spec

\* The command the loop carries out is one a client may give.
LEMMA Carried ==
  ASSUME LoopInv, NEW op, Doing(op)
  PROVE  op \in Operations
  BY BatchIs, CommandsAre DEF LoopInv, OwnerTypes, Doing

-----------------------------------------------------------------------------
(* A fault shuts the relay *)

\* Without sessions no step of one is taken; the loop's other steps either
\* open the relay with a start that clears the fault, or leave it shut.
LEMMA FaultStep ==
  ASSUME NoSessions, LoopInv, LoopInv', FaultInv, [Next]_vars
  PROVE  FaultInv'
<1> USE DEF FaultInv, FaultIsOff, Running
<1>1. ASSUME NEW c \in Command, Accept(c) PROVE FaultInv'
  BY <1>1 DEF Accept, FlagAfterAccepting, loopVars, radioVars, configVars
<1>2. CASE Take
  BY <1>2 DEF Take, radioVars
<1>3. CASE DoStop
  BY <1>3 DEF DoStop
<1>4. CASE StartOpens
  BY <1>4 DEF StartOpens, Done, Doing, radioVars
<1>5. CASE StartEnables
  BY <1>5 DEF StartEnables, radioVars
<1>6. CASE DoSet \/ DoSwitch
  BY <1>6 DEF DoSet, DoSwitch, Doing, Done, radioVars
<1>7. CASE DoSave
  BY <1>7 DEF DoSave, Doing, Done, radioVars
<1>8. ~DoBegin
  BY Carried DEF NoSessions, DoBegin
<1>9. ~DoStep /\ ~DoCancel /\ ~DoCommit
  BY DEF DoStep, DoCancel, DoCommit
<1>10. ASSUME NEW op, NotCalibrating(op) PROVE FaultInv'
  BY <1>10 DEF NotCalibrating, Doing, Done, radioVars
<1>11. CASE Poll
  BY <1>11 DEF Poll, FlagOnFault
<1>12. CASE Exit
  BY <1>12 DEF Exit
<1>13. CASE UNCHANGED vars
  BY <1>13 DEF vars, loopVars, radioVars
<1> QED BY <1>1, <1>2, <1>3, <1>4, <1>5, <1>6, <1>7, <1>8, <1>9, <1>10, <1>11, <1>12,
           <1>13 DEF Next, MainLoop

LEMMA InitFault == Init => FaultInv
  BY DEF Init, FaultInv, FaultIsOff, Running, NoCalibration

\* A radio found faulty, or not opened, leaves the relay shut until a start
\* succeeds, whatever commands come meanwhile (run_session's health check and
\* start_initial).
THEOREM FaultKeepsShut ==
  ASSUME NoSessions
  PROVE  Spec => []FaultIsOff
<1>1. LoopInv /\ LoopInv' /\ FaultInv /\ [Next]_vars => FaultInv'
  BY FaultStep
<1>2. FaultInv => FaultIsOff
  BY DEF FaultInv
<1> QED BY <1>1, <1>2, InitFault, LoopHolds, PTL DEF Spec

\* No failure leaves a faulty radio open, also with sessions.
THEOREM FaultCloses == Spec => []FaultIsClosed
<1>1. LoopInv => FaultIsClosed
  BY DEF LoopInv
<1> QED BY <1>1, LoopHolds, PTL

-----------------------------------------------------------------------------
(* A stop stays in force *)

\* What a command accepted makes of those queued.
LEMMA StopAppended ==
  ASSUME NEW s \in Seq(Command), NEW c \in Command
  PROVE  /\ c.op = "stop" => EndsInStop(Append(s, c))
         /\ c.op # "start" /\ EndsInStop(s) => EndsInStop(Append(s, c))
         /\ c.op # "start" /\ NoStart(s) => NoStart(Append(s, c))
<1>1. /\ Len(s) \in Nat /\ Len(Append(s, c)) = Len(s) + 1
      /\ \A i \in 1..Len(s) : Append(s, c)[i] = s[i]
      /\ Append(s, c)[Len(s) + 1] = c
  BY AppendProperties
<1>2. ASSUME c.op = "stop" PROVE EndsInStop(Append(s, c))
  BY <1>1, <1>2 DEF EndsInStop
<1>3. ASSUME c.op # "start", EndsInStop(s) PROVE EndsInStop(Append(s, c))
  <2>1. PICK i \in 1..Len(s) :
          s[i].op = "stop" /\ \A j \in (i + 1)..Len(s) : s[j].op # "start"
    BY <1>3 DEF EndsInStop
  <2>2. Append(s, c)[i].op = "stop"
    BY <1>1, <2>1
  <2>3. \A j \in (i + 1)..Len(Append(s, c)) : Append(s, c)[j].op # "start"
    BY <1>1, <1>3, <2>1
  <2>4. i \in 1..Len(Append(s, c))
    BY <1>1
  <2> QED BY <2>2, <2>3, <2>4 DEF EndsInStop
<1>4. ASSUME c.op # "start", NoStart(s) PROVE NoStart(Append(s, c))
  BY <1>1, <1>4 DEF NoStart
<1> QED BY <1>2, <1>3, <1>4

\* What carrying out the command at the head leaves: the stop may be that one.
LEMMA StopTaken ==
  ASSUME batch \in Seq(Command), batch # <<>>
  PROVE  /\ NoStart(batch) => NoStart(Tail(batch)) /\ Head(batch).op # "start"
         /\ EndsInStop(batch) => \/ EndsInStop(Tail(batch))
                                 \/ Head(batch).op = "stop" /\ NoStart(Tail(batch))
<1>1. /\ Len(batch) \in Nat \ {0} /\ Len(Tail(batch)) = Len(batch) - 1
      /\ Head(batch) = batch[1]
      /\ \A i \in 1..Len(Tail(batch)) : Tail(batch)[i] = batch[i + 1]
  BY BatchIs
<1>2. ASSUME NoStart(batch) PROVE NoStart(Tail(batch)) /\ Head(batch).op # "start"
  BY <1>1, <1>2 DEF NoStart
<1>3. ASSUME EndsInStop(batch)
      PROVE  \/ EndsInStop(Tail(batch))
             \/ Head(batch).op = "stop" /\ NoStart(Tail(batch))
  <2>1. PICK i \in 1..Len(batch) :
          batch[i].op = "stop" /\ \A j \in (i + 1)..Len(batch) : batch[j].op # "start"
    BY <1>3 DEF EndsInStop
  <2>2. CASE i = 1
    BY <1>1, <2>1, <2>2 DEF NoStart
  <2>3. CASE i # 1
    <3>1. i - 1 \in 1..Len(Tail(batch)) /\ Tail(batch)[i - 1].op = "stop"
      BY <1>1, <2>1, <2>3
    <3>2. \A j \in ((i - 1) + 1)..Len(Tail(batch)) : Tail(batch)[j].op # "start"
      BY <1>1, <2>1
    <3> QED BY <3>1, <3>2 DEF EndsInStop
  <2> QED BY <2>2, <2>3
<1> QED BY <1>2, <1>3

LEMMA EmptyEndsInNothing == NoStart(<<>>) /\ ~EndsInStop(<<>>)
  BY DEF NoStart, EndsInStop

\* A command other than a start that leaves a shut relay shut.
LEMMA StopOutlivesCommand ==
  ASSUME LoopInv, StopInv, pc = "commands", batch # <<>>, Done,
         UNCHANGED <<mbox, last>>,
         Head(batch).op # "start",
         Head(batch).op = "stop" => Shut',
         Shut => Shut'
  PROVE  StopInv'
<1>1. mbox \in Seq(Command) /\ batch \in Seq(Command) /\ batch' = Tail(batch)
  BY DEF LoopInv, OwnerTypes, Done
<1> QED BY <1>1, StopTaken DEF StopInv

LEMMA StopStep ==
  ASSUME NoSessions, LoopInv, FaultInv, StopInv, [Next]_vars
  PROVE  StopInv'
<1>1. mbox \in Seq(Command) /\ batch \in Seq(Command) /\ ~cal.on
  BY DEF LoopInv, OwnerTypes, FaultInv
<1>2. ASSUME NEW c \in Command, Accept(c) PROVE StopInv'
  <2>1. /\ mbox' = Append(mbox, c) /\ batch' = batch
        /\ last' = IF c.op \in {"start", "stop"} THEN c.op ELSE last
        /\ Shut => Shut'
    BY <1>2 DEF Accept, FlagAfterAccepting, loopVars, radioVars, Shut, Running
  <2> QED BY <1>1, <2>1, StopAppended DEF StopInv
<1>3. CASE Take
  <2>1. batch = <<>> /\ mbox' = <<>> /\ batch' = mbox /\ UNCHANGED <<last, fwd, radio>>
    BY <1>3 DEF Take, LeftBehind, LoopInv, OneByOne, radioVars
  <2> QED BY <2>1, EmptyEndsInNothing DEF StopInv, Shut, Running
<1>4. CASE DoStop
  BY <1>4, StopOutlivesCommand
  DEF DoStop, Doing, clientVars, RadioAfterStop, Shut, Running
<1>5. CASE StartOpens \/ StartEnables
  <2>1. /\ batch # <<>> /\ Head(batch).op = "start"
        /\ (batch' = batch \/ batch' = Tail(batch)) /\ UNCHANGED <<mbox, last>>
    BY <1>5 DEF StartOpens, StartEnables, Doing, Done, clientVars, LoopInv, OneByOne
  <2>2. ~NoStart(batch) /\ (EndsInStop(batch) => EndsInStop(Tail(batch)))
    BY <1>1, <2>1, StopTaken
  <2> QED BY <2>1, <2>2 DEF StopInv
<1>6. CASE DoSet
  BY <1>6, StopOutlivesCommand
  DEF DoSet, Doing, Done, clientVars, radioVars, Shut, Running
<1>7. CASE DoSwitch
  BY <1>7, StopOutlivesCommand
  DEF DoSwitch, Doing, Done, clientVars, radioVars, Shut, Running
<1>8. CASE DoSave
  BY <1>8, StopOutlivesCommand
  DEF DoSave, Doing, Done, clientVars, radioVars, Shut, Running
<1>9. ~DoBegin
  BY Carried DEF NoSessions, DoBegin
<1>10. ~DoStep /\ ~DoCancel /\ ~DoCommit
  BY <1>1 DEF DoStep, DoCancel, DoCommit
<1>11. ASSUME NEW op \in {"step", "cancel", "commit"}, NotCalibrating(op) PROVE StopInv'
  BY <1>11, StopOutlivesCommand
  DEF NotCalibrating, Doing, Done, clientVars, radioVars, Shut, Running
<1>12. CASE Poll \/ Exit
  <2>1. UNCHANGED <<batch, mbox, last>> /\ (Shut => Shut')
    BY <1>12 DEF Poll, Exit, FlagOnFault, clientVars, Shut, Running
  <2> QED BY <2>1 DEF StopInv
<1>13. CASE UNCHANGED vars
  BY <1>13 DEF vars, loopVars, radioVars, clientVars, StopInv, Shut, Running
<1> QED BY <1>2, <1>3, <1>4, <1>5, <1>6, <1>7, <1>8, <1>9, <1>10, <1>11, <1>12, <1>13
        DEF Next, MainLoop

\* A stop that is the last start or stop accepted is in force once every command
\* is carried out: changes of configuration, saves, failures and commands that
\* came with it do not open the relay again (the mailbox and run_session).
THEOREM StopKeepsShut ==
  ASSUME NoSessions
  PROVE  Spec => []StopHolds
<1>1. Init => StopInv
  BY DEF Init, StopInv
<1>2. LoopInv /\ FaultInv /\ StopInv /\ [Next]_vars => StopInv'
  BY StopStep
<1>3. LoopInv /\ LoopInv' /\ FaultInv /\ [Next]_vars => FaultInv'
  BY FaultStep
<1>4. StopInv => StopHolds
  BY EmptyEndsInNothing DEF StopInv, StopHolds, Shut
<1> QED BY <1>1, <1>2, <1>3, <1>4, InitFault, LoopHolds, PTL DEF Spec

-----------------------------------------------------------------------------
(* A calibration holds the gain *)

\* While nobody gives another kind of command, only the session sets its gain.
LEMMA GainStep ==
  ASSUME Undisturbed, LoopInv, CalibrationLocksGain, [Next]_vars
  PROVE  CalibrationLocksGain'
<1> USE DEF CalibrationLocksGain, Running
<1>1. ASSUME NEW c \in Command, Accept(c) PROVE CalibrationLocksGain'
  BY <1>1 DEF Accept, FlagAfterAccepting, radioVars
<1>2. CASE Take
  BY <1>2 DEF Take, radioVars
<1>3. CASE DoStop
  BY <1>3 DEF DoStop, RadioAfterStop
<1>4. ~StartOpens /\ ~DoSet /\ ~DoSwitch
  BY Carried DEF Undisturbed, StartOpens, DoSet, DoSwitch
<1>5. ~StartEnables
  <2>1. pc = "starting" => Doing("start") \/ (Head(batch).op = "start" /\ batch # <<>>)
    BY DEF LoopInv, OneByOne
  <2>2. pc = "starting" => Head(batch).op \in Operations
    BY <2>1, BatchIs, CommandsAre DEF LoopInv, OwnerTypes, OneByOne
  <2> QED BY <2>1, <2>2 DEF StartEnables, Undisturbed, Doing
<1>6. CASE DoSave
  BY <1>6 DEF DoSave, radioVars
<1>7. CASE DoBegin
  BY <1>7 DEF DoBegin, GainFails, GainSet, radioVars, FlagDuringCalibration
<1>8. CASE DoStep
  BY <1>8 DEF DoStep, GainFails, GainSet, radioVars
<1>9. CASE DoCancel \/ DoCommit
  BY <1>9 DEF DoCancel, DoCommit, NoCalibration, radioVars
<1>10. ASSUME NEW op, NotCalibrating(op) PROVE CalibrationLocksGain'
  BY <1>10 DEF NotCalibrating
<1>11. CASE Poll \/ Exit
  BY <1>11 DEF Poll, Exit, FlagOnFault
<1>12. CASE UNCHANGED vars
  BY <1>12 DEF vars, radioVars
<1> QED BY <1>1, <1>2, <1>3, <1>4, <1>5, <1>6, <1>7, <1>8, <1>9, <1>10, <1>11, <1>12
        DEF Next, MainLoop

\* However its steps fail, an open session keeps the relay shut and the gain of
\* an open radio at the one being measured, unless a start or a change of
\* configuration comes between (the calibration commands of run_session).
THEOREM CalibrationHoldsGain ==
  ASSUME Undisturbed
  PROVE  Spec => []CalibrationLocksGain
<1>1. Init => CalibrationLocksGain
  BY DEF Init, CalibrationLocksGain, NoCalibration
<1>2. LoopInv /\ CalibrationLocksGain /\ [Next]_vars => CalibrationLocksGain'
  BY GainStep
<1> QED BY <1>1, <1>2, LoopHolds, PTL DEF Spec

-----------------------------------------------------------------------------
(* What a radio runs *)

\* Whatever opens a radio, and whatever failed before it did, the radio runs the
\* configuration a failed change falls back to, but for a switch that cannot be
\* written and cannot be undone (RfReinitializationController::reinitialize).
THEOREM RadioRunsFallback == Spec => RadioRunsActive
<1> DEFINE Runs == radio' \notin {radio, NoConfig, active'} =>
                     PersistFails /\ Doing("switch") /\ radio' = Head(batch).cfg
<1>1. [Next]_vars => [Runs]_vars
  <2> SUFFICES ASSUME [Next]_vars, ~UNCHANGED vars PROVE Runs
    OBVIOUS
  <2>1. ASSUME NEW c \in Command, Accept(c) PROVE Runs
    BY <2>1 DEF Accept, radioVars
  <2>2. CASE \/ Take \/ StartEnables \/ DoSave
             \/ \E op \in {"step", "cancel", "commit"} : NotCalibrating(op)
    BY <2>2 DEF Take, StartEnables, DoSave, NotCalibrating, radioVars
  <2>3. CASE DoStop \/ Poll \/ Exit
    BY <2>3 DEF DoStop, RadioAfterStop, Poll, Exit
  <2>4. CASE StartOpens
    BY <2>4 DEF StartOpens, radioVars
  <2>5. CASE DoSet
    BY <2>5 DEF DoSet, Reinitialize, Adopted, radioVars, configVars
  <2>6. CASE DoSwitch
    BY <2>6 DEF DoSwitch, Reinitialize, Adopted, radioVars, configVars
  <2>7. CASE DoBegin \/ DoStep \/ DoCancel \/ DoCommit
    BY <2>7 DEF DoBegin, DoStep, DoCancel, DoCommit, RestoreForwarding, GainFails,
                GainSet, radioVars
  <2> QED BY <2>1, <2>2, <2>3, <2>4, <2>5, <2>6, <2>7 DEF Next, MainLoop
<1> QED BY <1>1, PTL DEF Spec, RadioRunsActive

=============================================================================
