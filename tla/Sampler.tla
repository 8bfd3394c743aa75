------------------------------ MODULE Sampler ------------------------------
(***************************************************************************)
(* The burst sampler of the DMR receiver (SharedDmrBurstSymbolSampler):    *)
(* free-running capture between quiet guards, the capture scheduled one    *)
(* TDMA period after a burst whose sync was found, and the hold-over of    *)
(* the alignment while bursts without a sync pattern pass.                 *)
(*                                                                         *)
(* Time is counted in units of 40 input samples (4 symbols); every length  *)
(* the code compares with is a multiple of it.  What is on the air is a    *)
(* sequence of transmissions chosen by the environment: a burst of 33      *)
(* loud units and its gap, noise, or quiet.  Levels, phases and dibits are *)
(* abstracted to what the search for a sync pattern can find.              *)
(***************************************************************************)
EXTENDS Integers, Sequences

CONSTANTS
  Transmissions    \* what the air may carry: [kind, loud, total] in units

Lead        == 2                      \* units captured before and after a scheduled burst
BurstLen    == 33                     \* 132 symbols
Period      == 72                     \* 60 ms, the distance of two bursts of a timeslot
WindowLen   == BurstLen + 2 * Lead
MinCapture  == 20                     \* a capture below 800 samples is dropped
MaxCapture  == 75                     \* a capture beyond 3000 samples is cut
SyncLen     == 20                     \* units up to the end of the sync field
SearchLast  == 4                      \* latest start a guarded capture is searched for
QuietUnits  == 2                      \* a window this loud at most counts as quiet
MissLimit   == 3
Synced      == {"header", "voice", "weak"}   \* kinds that carry a sync pattern

ASSUME TransmissionsAssumption ==
  \A t \in Transmissions : /\ t.kind \in Synced \cup {"plain", "none"}
                           /\ t.total \in Nat \ {0} /\ t.loud \in 0 .. t.total

VARIABLES
  tx,          \* the transmission on the air and the unit of it now heard
  buf,         \* burst_ or scheduled_samples_: length, loud units, starts of bursts in it
  inBurst,     \* in_burst_
  preRoll,     \* units of quiet kept ahead of a burst
  scheduled,   \* scheduled_
  centre,      \* units from now to scheduled_first_center_
  lock,        \* have_alignment_, alignment_start_, missed_scheduled_bursts_
  pending      \* pending_: the burst whose symbols are not yet handed on

samplerVars == <<tx, buf, inBurst, preRoll, scheduled, centre, lock, pending>>

Empty == [len |-> 0, loud |-> 0, marks |-> {}]

SamplerInit ==
  /\ tx \in [on : Transmissions, pos : {0}]
  /\ buf = Empty /\ inBurst = FALSE /\ preRoll = 0
  /\ scheduled = FALSE /\ centre = 0
  /\ lock = [held |-> FALSE, at |-> 0, missed |-> 0]
  /\ pending = <<>>

(***************************************************************************)
(* The air.                                                                *)
(***************************************************************************)
Loud  == tx.pos < tx.on.loud
Alike == (IF Loud THEN tx.on.loud ELSE tx.on.total) - tx.pos    \* units left like this one
Least(i, j) == IF i < j THEN i ELSE j

\* k units, all like the one now heard, go by.
AirMoves(k) ==
  IF tx.pos + k < tx.on.total
  THEN tx' = [tx EXCEPT !.pos = @ + k]
  ELSE tx' \in [on : Transmissions, pos : {0}]

\* The capture b with those units appended.
Grow(b, k) ==
  [len   |-> b.len + k,
   loud  |-> b.loud + (IF Loud THEN k ELSE 0),
   marks |-> IF tx.pos = 0 /\ tx.on.kind # "none"
             THEN b.marks \cup {[at |-> b.len, kind |-> tx.on.kind, loud |-> tx.on.loud]}
             ELSE b.marks]

(***************************************************************************)
(* select_symbols.                                                         *)
(***************************************************************************)
\* Bursts of the capture whose sync pattern the search meets.
Found(b, full) ==
  {m \in b.marks :
     /\ m.kind \in Synced
     /\ m.loud >= SyncLen
     /\ b.len >= MinCapture
     /\ IF full THEN m.at + BurstLen <= b.len
                ELSE m.at <= SearchLast /\ m.at + SyncLen <= b.len}

\* What the 132 symbols from unit at on are.
Content(b, at) ==
  IF \E m \in b.marks : m.at = at /\ m.loud >= BurstLen
  THEN (CHOOSE m \in b.marks : m.at = at).kind
  ELSE "garbage"

Publish(b, at) == pending' = <<Content(b, at)>>

\* arm_scheduled_capture for the first period that has not begun.
Ahead(c) == IF c < 1 THEN c + Period * ((Period - c) \div Period) ELSE c

Arm(c) == scheduled' = TRUE /\ centre' = c - 1
Disarm == scheduled' = FALSE /\ centre' = 0

\* A sync pattern is found and its burst is whole: publish it, follow it.
Acquire(b, begun, m) ==
  /\ m.at + BurstLen <= b.len
  /\ lock' = [held |-> TRUE, at |-> m.at, missed |-> 0]
  /\ Publish(b, m.at)
  /\ Arm(Ahead(begun + m.at + Period))

\* No sync pattern: the symbols at the held alignment, if they are there.
HoldOver(b) ==
  IF lock.held /\ b.len >= MinCapture /\ b.len >= BurstLen
  THEN Publish(b, IF lock.at + BurstLen > b.len THEN b.len - BurstLen ELSE lock.at)
  ELSE UNCHANGED pending

\* A free-running capture; begun is the distance of its first unit from now.
SelectFree(b, begun, full) ==
  \/ \E m \in Found(b, full) :
       \/ Acquire(b, begun, m)
       \/ /\ m.at + BurstLen > b.len
          /\ lock' = [lock EXCEPT !.held = TRUE, !.at = m.at]
          /\ Disarm
          /\ UNCHANGED pending
  \/ /\ Found(b, full) = {}
     /\ HoldOver(b)
     /\ Disarm
     /\ UNCHANGED lock

(***************************************************************************)
(* general_work: input is taken only when nothing is pending.  A step      *)
(* takes one unit, or a run of units the code treats alike.                *)
(***************************************************************************)
Listening == pending = <<>> /\ ~scheduled

Rest ==
  /\ Listening /\ ~inBurst /\ ~Loud
  /\ preRoll' = 1
  /\ AirMoves(Alike)
  /\ UNCHANGED <<buf, inBurst, scheduled, centre, lock, pending>>

BurstBegins ==
  /\ Listening /\ ~inBurst /\ Loud
  /\ inBurst' = TRUE
  /\ buf' = Grow([Empty EXCEPT !.len = preRoll], 1)
  /\ preRoll' = 0
  /\ AirMoves(1)
  /\ UNCHANGED <<scheduled, centre, lock, pending>>

BurstGoesOn ==
  /\ Listening /\ inBurst /\ Loud /\ buf.len + 1 < MaxCapture
  /\ LET k == Least(Alike, MaxCapture - 1 - buf.len) IN
       buf' = Grow(buf, k) /\ AirMoves(k)
  /\ UNCHANGED <<inBurst, preRoll, scheduled, centre, lock, pending>>

BurstEnds ==
  /\ Listening /\ inBurst /\ ~Loud
  /\ SelectFree(buf, 0 - buf.len, FALSE)
  /\ buf' = Empty /\ inBurst' = FALSE /\ preRoll' = 1
  /\ AirMoves(1)

BurstTooLong ==
  /\ Listening /\ inBurst /\ Loud /\ buf.len + 1 >= MaxCapture
  /\ SelectFree(Grow(buf, 1), 0 - buf.len, TRUE)
  /\ buf' = Empty /\ inBurst' = FALSE /\ preRoll' = 0
  /\ AirMoves(1)

WaitingEagerly == scheduled           \* mutant: input is taken while a burst is pending
Waiting == pending = <<>> /\ scheduled
WindowLast == Lead + 1 - WindowLen    \* centre at the last unit of the window

BeforeWindow ==
  /\ Waiting /\ centre > Lead
  /\ LET k == Least(Alike, centre - Lead) IN
       centre' = centre - k /\ AirMoves(k)
  /\ UNCHANGED <<buf, inBurst, preRoll, scheduled, lock, pending>>

InWindow ==
  /\ Waiting /\ centre <= Lead /\ centre > WindowLast
  /\ LET k == Least(Alike, centre - WindowLast) IN
       buf' = Grow(buf, k) /\ centre' = centre - k /\ AirMoves(k)
  /\ UNCHANGED <<inBurst, preRoll, scheduled, lock, pending>>

\* Mutants: a miss keeps the capture clock; misses are not counted.
MissPinned ==
  /\ lock' = [lock EXCEPT !.missed = @ + 1]
  /\ Arm(centre)
  /\ UNCHANGED <<inBurst, preRoll>>

MissUncounted ==
  /\ Arm(centre + Period)
  /\ UNCHANGED <<lock, inBurst, preRoll>>

\* A window without a sync burst: the next period, or back to searching.
Miss ==
  IF lock.missed + 1 >= MissLimit
  THEN /\ lock' = [lock EXCEPT !.held = FALSE, !.missed = MissLimit]
       /\ Disarm
       /\ inBurst' = FALSE /\ preRoll' = 0
  ELSE /\ lock' = [lock EXCEPT !.missed = @ + 1]
       /\ Arm(centre + Period)
       /\ UNCHANGED <<inBurst, preRoll>>

\* process_scheduled_burst.
WindowCloses ==
  /\ Waiting /\ centre = WindowLast
  /\ LET b == Grow(buf, 1) IN
       \/ /\ b.loud <= QuietUnits
          /\ Miss
          /\ UNCHANGED pending
       \/ /\ b.loud > QuietUnits
          /\ \E m \in Found(b, TRUE) : Acquire(b, centre - Lead, m)
          /\ UNCHANGED <<inBurst, preRoll>>
       \/ /\ b.loud > QuietUnits
          /\ Found(b, TRUE) = {}
          /\ HoldOver(b)
          /\ Miss
  /\ buf' = Empty
  /\ AirMoves(1)

Sample ==
  \/ Rest \/ BurstBegins \/ BurstGoesOn \/ BurstEnds \/ BurstTooLong
  \/ BeforeWindow \/ InWindow \/ WindowCloses
=============================================================================
