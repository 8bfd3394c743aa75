------------------------------ MODULE Recorder ------------------------------
(***************************************************************************)
(* The recording runtime, AudioRecordingRuntime in                         *)
(* rpt/src/audio_recording_runtime.cpp with the AMBE file writer of        *)
(* rpt/src/remote_voice.cpp.                                               *)
(*                                                                         *)
(* Threads of the flowgraph start, feed and finish calls, and the main     *)
(* loop stops the runtime: each call is one step under the mutex that puts *)
(* an item in the queue.  One worker takes an item under the mutex and     *)
(* carries it out without it; files may fail at any point.  Of audio only  *)
(* its call and its number in the call are kept.  The starts and finishes  *)
(* come as the relay block makes them: one DMR call at a time, which may   *)
(* begin while an FM session it interrupts has not been finished.          *)
(***************************************************************************)
EXTENDS Integers, SequencesExt

CONSTANTS
  MaxCalls,     \* bound: calls started in a behaviour
  FmCalls,      \* the calls recorded from PCM, the others from DMR bursts
  MaxAudio,     \* bound: audio frames heard of a call
  MaxFrames,    \* maximum_queued_frames
  Remote,       \* remote_voice.enabled: DMR calls are kept as AMBE too
  AmbePerBurst  \* AMBE frames of a burst

Calls == 1..MaxCalls
NoCall == 0

ASSUME CallsAssumption == MaxCalls \in Nat /\ FmCalls \subseteq Calls
ASSUME FramesAssumption ==
  MaxAudio \in Nat /\ MaxFrames \in Nat \ {0} /\ AmbePerBurst \in Nat \ {0}
ASSUME RemoteAssumption == Remote \in BOOLEAN

VARIABLES
  queue,     \* queue
  frames,    \* queued_audio_frames
  stopping,  \* stopping
  producer,  \* producer_session: the call whose audio is taken
  hand,      \* the item the worker carries out, Nothing when it waits
  exited,    \* the worker's thread has returned
  active,    \* active_session: the call being recorded
  ambe,      \* ambe_writer: state, call of its file, frames the header
             \* counts, frames the file holds
  last,      \* history: the last call started
  up,        \* history: calls started and not finished
  heard,     \* history: audio frames submitted per call
  kept,      \* history: those the queue took and did not drop
  saved,     \* history: those written to the call's file
  result,    \* history: the last notice about the call
  uploads    \* history: AMBE files uploaded

producing == <<last, up, heard>>
working == <<active, ambe, saved, result, uploads, exited>>
vars == <<queue, frames, stopping, producer, hand, kept, producing, working>>

Item == [type : {"start", "audio", "finish", "shutdown"},
         call : Calls \cup {NoCall}, n : 0..MaxAudio]
Nothing == [type |-> "nothing", call |-> NoCall, n |-> 0]
Control(type, c) == [type |-> type, call |-> c, n |-> 0]
IsAudio(item) == item.type = "audio"

Final == {"completed", "failed"}
IsDmr(c) == c \notin FmCalls
NoAmbe == [state |-> "off", of |-> NoCall, header |-> 0, payload |-> 0]

Init ==
  /\ queue = <<>> /\ frames = 0 /\ stopping = FALSE /\ producer = NoCall
  /\ hand = Nothing /\ exited = FALSE /\ active = NoCall /\ ambe = NoAmbe
  /\ last = 0 /\ up = {} /\ heard = [c \in Calls |-> 0]
  /\ kept = [c \in Calls |-> {}] /\ saved = [c \in Calls |-> {}]
  /\ result = [c \in Calls |-> "none"] /\ uploads = {}

-----------------------------------------------------------------------------
(* The producers; after stop() every call returns at once. *)

StartCall(c) ==
  /\ ~stopping /\ c = last + 1
  /\ \A d \in up : IsDmr(c) /\ ~IsDmr(d)
  /\ producer' = c /\ last' = c /\ up' = up \cup {c}
  /\ queue' = Append(queue, Control("start", c))
  /\ UNCHANGED <<frames, stopping, hand, heard, kept, working>>

\* A full queue drops its oldest audio, of whichever call.  (The frames it
\* counts are in it, so a full queue has one to drop.)
DroppedAny(q) == 1
Dropped(q) == SelectInSeq(q, IsAudio)

\* submit_dmr_burst, submit_pcm
Submit ==
  LET item == [type |-> "audio", call |-> producer, n |-> heard[producer] + 1]
      old  == queue[Dropped(queue)]
  IN
  /\ ~stopping /\ producer # NoCall /\ heard[producer] < MaxAudio
  /\ heard' = [heard EXCEPT ![producer] = @ + 1]
  /\ \/ /\ frames < MaxFrames
        /\ queue' = Append(queue, item) /\ frames' = frames + 1
        /\ kept' = [kept EXCEPT ![item.call] = @ \cup {item.n}]
     \/ /\ frames >= MaxFrames
        /\ queue' = Append(RemoveAt(queue, Dropped(queue)), item)
        /\ kept' = [c \in Calls |->
                      (kept[c] \ {n \in {old.n} : c = old.call})
                      \cup {n \in {item.n} : c = item.call}]
        /\ UNCHANGED frames
  /\ UNCHANGED <<stopping, producer, hand, last, up, working>>

FinishCall(c) ==
  /\ ~stopping /\ c \in up
  /\ up' = up \ {c}
  /\ producer' = IF producer = c THEN NoCall ELSE producer
  /\ queue' = Append(queue, Control("finish", c))
  /\ UNCHANGED <<frames, stopping, hand, last, heard, kept, working>>

Stop ==
  /\ ~stopping /\ stopping' = TRUE /\ producer' = NoCall
  /\ queue' = Append(queue, Control("shutdown", NoCall))
  /\ UNCHANGED <<frames, hand, kept, producing, working>>

-----------------------------------------------------------------------------
(* The worker *)

\* The wait of run(): there is an item.
ReadyOnAudio == frames > 0
Ready == queue # <<>>

FramesAfterTake(item) == IF IsAudio(item) THEN frames - 1 ELSE frames

Take ==
  /\ ~exited /\ hand = Nothing /\ Ready
  /\ hand' = Head(queue) /\ queue' = Tail(queue)
  /\ frames' = FramesAfterTake(Head(queue))
  /\ UNCHANGED <<stopping, producer, kept, producing, working>>

\* abort of the AMBE writer: what its header counts stays.
Aborted(a) == [a EXCEPT !.state = "off", !.of = NoCall]

\* finish of the AMBE writer and the upload after it.  A finish that fails
\* leaves the writer active with its file closed, and so does every later one.
Finishings(c, a) ==
  CASE a.state = "off"    -> {[ambe |-> a, up |-> {}]}
    [] a.state = "closed" -> {[ambe |-> a, up |-> {}]}
    [] a.state = "open"   ->
         {[ambe |-> [a EXCEPT !.state = "closed"], up |-> {}],
          [ambe |-> [a EXCEPT !.state = "off"], up |-> {}],
          [ambe |-> [a EXCEPT !.state = "off"],
           up |-> {[call |-> c, of |-> a.of, header |-> a.header,
                    payload |-> a.payload]}]}

\* What close_session leaves: nothing changes without a session; a file that
\* cannot be flushed or renamed fails the call, and the AMBE writer is left
\* as it is.
Closings ==
  IF active = NoCall THEN {[result |-> result, ambe |-> ambe, up |-> {}]}
  ELSE {[result |-> [result EXCEPT ![active] = "failed"], ambe |-> ambe, up |-> {}]}
       \cup {[result |-> [result EXCEPT ![active] = "completed"],
              ambe |-> f.ambe, up |-> f.up] : f \in Finishings(active, ambe)}

\* fail_active
ActiveAfterFailureKept == active
ActiveAfterFailure == NoCall

\* open_session closes a call that was not finished; then the MP3 file, the
\* encoder or the AMBE file may not open.
DoStart ==
  LET c == hand.call IN
  /\ hand.type = "start"
  /\ \E done \in Closings :
       /\ uploads' = uploads \cup done.up
       /\ \/ /\ result' = [done.result EXCEPT ![c] = "recording"] /\ active' = c
             /\ ambe' = IF IsDmr(c) /\ Remote
                        THEN [done.ambe EXCEPT !.state = "open", !.of = c, !.payload = 0]
                        ELSE done.ambe
          \/ /\ result' = [done.result EXCEPT ![c] = "failed"] /\ active' = NoCall
             /\ ambe' = Aborted(done.ambe)
  /\ UNCHANGED <<saved, exited>>

\* process_dmr_burst, process_pcm: audio of another call is passed over.  A
\* write that fails may come after some of the burst's AMBE frames.
DoAudio ==
  LET c == hand.call
      writes == IsDmr(c) /\ ambe.state = "open"
  IN
  /\ IsAudio(hand)
  /\ \/ /\ active # c /\ UNCHANGED <<active, ambe, saved, result>>
     \/ /\ active = c
        /\ saved' = [saved EXCEPT ![c] = @ \cup {hand.n}]
        /\ ambe' = IF writes
                   THEN [ambe EXCEPT !.header = @ + AmbePerBurst,
                                     !.payload = @ + AmbePerBurst]
                   ELSE ambe
        /\ UNCHANGED <<active, result>>
     \/ /\ active = c
        /\ result' = [result EXCEPT ![c] = "failed"]
        /\ active' = ActiveAfterFailure
        /\ \E k \in IF writes THEN 0..AmbePerBurst ELSE {0} :
             ambe' = Aborted([ambe EXCEPT !.header = @ + k])
        /\ UNCHANGED saved
  /\ UNCHANGED <<uploads, exited>>

Close ==
  /\ \E done \in Closings :
       result' = done.result /\ ambe' = done.ambe /\ uploads' = uploads \cup done.up
  /\ active' = NoCall
  /\ UNCHANGED saved

\* A finish that comes after its call was superseded closes nothing.
ClosesAny(c) == active # NoCall
Closes(c) == active = c

DoFinish ==
  /\ hand.type = "finish"
  /\ \/ Closes(hand.call) /\ Close
     \/ ~Closes(hand.call) /\ UNCHANGED <<active, ambe, saved, result, uploads>>
  /\ UNCHANGED exited

DoShutdown ==
  /\ hand.type = "shutdown"
  /\ Close /\ exited' = TRUE

Do ==
  /\ DoStart \/ DoAudio \/ DoFinish \/ DoShutdown
  /\ hand' = Nothing
  /\ UNCHANGED <<queue, frames, stopping, producer, kept, producing>>

Worker == Take \/ Do

Next ==
  \/ \E c \in Calls : StartCall(c) \/ FinishCall(c)
  \/ Submit \/ Stop
  \/ Worker

Spec == Init /\ [][Next]_vars

\* The worker is a thread of its own that blocks only on the queue.
FairSpec == Spec /\ WF_vars(Worker)
-----------------------------------------------------------------------------
(* Properties *)

\* A completed recording holds all the audio of its call that the queue did
\* not drop, and no other: no start, finish or stop of any call cuts it short.
\* An AMBE file uploaded holds the same bursts of its own call, whichever call
\* it was uploaded with, and its header (which also counts earlier files')
\* never tells fewer frames than the file has.
CompletedIsWhole ==
  /\ \A c \in Calls : result[c] = "completed" => saved[c] = kept[c]
  /\ \A u \in uploads : /\ u.payload = AmbePerBurst * Cardinality(saved[u.of])
                         /\ u.header >= u.payload

\* The worker implements what a recording promises, see module Recordings.
Promise == INSTANCE Recordings WITH Frames <- 1..MaxAudio
IsRecordings == Promise!Spec

\* A call that was finished gets its one result in the end, whatever fails.
FinishedCallsEnd ==
  \A c \in Calls : c <= last /\ c \notin up ~> result[c] \in Final

\* stop() returns (it joins the worker), with a result for every call started.
StopDrains ==
  stopping ~> exited /\ \A c \in Calls : c <= last => result[c] \in Final

=============================================================================
