------------------------------ MODULE Receiver ------------------------------
(***************************************************************************)
(* The DMR receiver: the burst sampler and the frame decoder as two blocks *)
(* of the flowgraph with a symbol buffer between them.  The sampler also   *)
(* hands each burst to the relay block (port "bursts"); the frames of the  *)
(* decoder reach it on another port.                                       *)
(***************************************************************************)
EXTENDS Sampler, FrameDecoder, FiniteSets

VARIABLE
  owed             \* intact headers given to the relay, less header frames (history)

vars == <<samplerVars, decoderVars, owed>>

Init == SamplerInit /\ DecoderInit /\ owed = 0

Hears ==
  /\ Sample
  /\ owed' = owed + (IF pending' = <<"header">> THEN 1 ELSE 0)
  /\ frames' = <<>>
  /\ UNCHANGED <<stream, voice, sinceSync, slot, sinceSlot, color>>

\* drain_pending: the symbols of the burst and their padding are handed on.
Drain ==
  /\ pending # <<>> /\ Len(stream) < StreamCap
  /\ stream' = stream \o pending
  /\ pending' = <<>>
  /\ frames' = <<>>
  /\ UNCHANGED <<tx, buf, inBurst, preRoll, scheduled, centre, lock,
                 voice, sinceSync, slot, sinceSlot, color, owed>>

Decodes ==
  /\ Decode
  /\ owed' = owed - (IF \E i \in DOMAIN frames' : frames'[i].type = "HEADER" /\ frames'[i].lc
                     THEN 1 ELSE 0)
  /\ UNCHANGED samplerVars

Next == Hears \/ Drain \/ Decodes

Spec == Init /\ [][Next]_vars

\* The flowgraph runs some block while one has input and room for output.
FairSpec == Spec /\ WF_vars(Next)

(***************************************************************************)
(* Properties.                                                             *)
(***************************************************************************)
\* The blocks handed on or about to be, and the headers among some.
Heard == stream \o pending
Headers(blocks) == {i \in 1..Len(blocks) : blocks[i] = "header"}

\* A scheduled window is never already over: the sampler, which waits for the
\* last sample of the window, cannot be pinned to an expired one.
WindowNotExpired == scheduled => centre >= WindowLast /\ lock.held

\* Every intact header the relay was given as a burst is published as a header
\* frame with its link control, exactly once and after the ones before it.
HeadersAreDecoded ==
  owed = Cardinality(Headers(Heard))

\* While only whole bursts with a sync pattern are on the air, the sampler keeps
\* handing them on, whatever it was doing before.
SteadyAir == tx.on.kind \in Synced /\ tx.on.total = Period /\ tx.on.loud >= BurstLen

Reacquires ==
  (<>[]SteadyAir) => []<>(pending # <<>> /\ pending[1] \in Synced)
=============================================================================
