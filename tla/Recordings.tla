----------------------------- MODULE Recordings -----------------------------
(***************************************************************************)
(* What the recording runtime promises, without its queue, its threads and *)
(* its files: one recording at a time, each of which ends once, as a       *)
(* completed or a failed one, and holds frames of its own call only, in    *)
(* the order they were heard.                                              *)
(***************************************************************************)
EXTENDS Naturals

CONSTANTS
  Calls,    \* the calls that may be recorded
  Frames    \* the numbers of the audio frames of a call

VARIABLES
  result,   \* per call: what became of its recording
  saved     \* per call: the frames its recording holds

vars == <<result, saved>>

Final == {"completed", "failed"}
Results == {"none", "recording"} \cup Final
Recording(c) == result[c] = "recording"

Init ==
  /\ result = [c \in Calls |-> "none"]
  /\ saved = [c \in Calls |-> {}]

\* A recording starts, or fails to; one still running ends first.
Begin(c) ==
  /\ result[c] = "none"
  /\ \E got \in {"recording", "failed"}, ended \in Final :
       result' = [d \in Calls |-> IF d = c THEN got
                                  ELSE IF Recording(d) THEN ended ELSE result[d]]
  /\ UNCHANGED saved

\* The running recording takes a frame later than all it has.
Save(c) ==
  /\ Recording(c)
  /\ \E n \in Frames : /\ \A m \in saved[c] : m < n
                       /\ saved' = [saved EXCEPT ![c] = @ \cup {n}]
  /\ UNCHANGED result

End(c) ==
  /\ Recording(c)
  /\ \E ended \in Final : result' = [result EXCEPT ![c] = ended]
  /\ UNCHANGED saved

Next == \E c \in Calls : Begin(c) \/ Save(c) \/ End(c)

Spec == Init /\ [][Next]_vars
=============================================================================
