--------------------------- MODULE ReceiverProofs ---------------------------
(***************************************************************************)
(* The receiver, for any transmissions on the air.  A scheduled window is  *)
(* never over before it is looked at, so the sampler cannot be pinned to   *)
(* one; and while bursts with a sync pattern come whole, every header the  *)
(* sampler hands on is decoded.                                            *)
(***************************************************************************)
EXTENDS Receiver, TLAPS, SequenceTheorems, FiniteSetTheorems

Lock == [held : BOOLEAN, at : Int, missed : Int]

\* What is captured: its length and the starts of the bursts in it.
IsCapture(b) == b.len \in Int /\ \A m \in b.marks : m.at \in Int

AirInv == tx \in [on : Transmissions, pos : Int]

ClockType ==
  /\ IsCapture(buf) /\ preRoll \in Int
  /\ centre \in Int /\ scheduled \in BOOLEAN /\ lock \in Lock

\* The inductive invariant: WindowNotExpired with the types of what the clock is
\* computed from.
ClockInv == AirInv /\ ClockType /\ WindowNotExpired

\* What a step leaves of the clock.
ClockKept ==
  /\ centre' \in Int /\ scheduled' \in BOOLEAN /\ lock' \in Lock
  /\ scheduled' => centre' >= WindowLast' /\ lock'.held

-----------------------------------------------------------------------------
LEMMA WindowLastIs == WindowLast = -34 /\ WindowLast' = -34
  BY DEF WindowLast, Lead, WindowLen, BurstLen

\* The next period that has not begun lies ahead.
LEMMA AheadLiesAhead ==
  ASSUME NEW c \in Int
  PROVE  Ahead(c) \in Int /\ Ahead(c) >= 1
<1>1. CASE c < 1
  <2>1. PICK q \in Int : q = (Period - c) \div Period
    BY DEF Period
  <2>2. 72 * q > (72 - c) - 72
    BY <2>1, SMT DEF Period
  <2>3. Ahead(c) = c + 72 * q
    BY <1>1, <2>1 DEF Ahead, Period
  <2> QED BY <2>1, <2>2, <2>3
<1>2. CASE ~(c < 1)
  BY <1>2 DEF Ahead
<1> QED BY <1>1, <1>2

\* The run of units the air stays like it is.
LEMMA AlikeIsNumber ==
  ASSUME AirInv
  PROVE  Alike \in Int
<1>1. tx.on.loud \in Int /\ tx.on.total \in Int /\ tx.pos \in Int
  BY TransmissionsAssumption DEF AirInv
<1> QED BY <1>1 DEF Alike

\* The air goes on as one of its transmissions.
LEMMA AirGoesOn ==
  ASSUME AirInv, NEW k \in Int, AirMoves(k)
  PROVE  AirInv'
<1>1. CASE tx.pos + k < tx.on.total
  BY <1>1 DEF AirInv, AirMoves
<1>2. CASE ~(tx.pos + k < tx.on.total)
  BY <1>2 DEF AirInv, AirMoves
<1> QED BY <1>1, <1>2

\* A capture that grows is one.
LEMMA GrowIsCapture ==
  ASSUME NEW b, IsCapture(b), NEW k \in Int
  PROVE  IsCapture(Grow(b, k))
  BY DEF IsCapture, Grow

\* Without a window nothing is asked of the clock.
LEMMA DisarmKeepsClock ==
  ASSUME Disarm, lock' \in Lock
  PROVE  ClockKept
<1>1. scheduled' = FALSE /\ centre' = 0
  BY DEF Disarm
<1>2. centre' \in Int
  BY <1>1
<1> QED BY <1>1, <1>2, Zenon DEF ClockKept

LEMMA EmptyIsCapture == IsCapture(Empty)
  BY DEF IsCapture, Empty

\* A burst followed: its next window lies ahead and the alignment is held.
LEMMA AcquireKeepsClock ==
  ASSUME NEW b, IsCapture(b), NEW begun \in Int, NEW m \in b.marks,
         Acquire(b, begun, m)
  PROVE  ClockKept
<1>1. m.at \in Int
  BY DEF IsCapture
<1>2. begun + m.at + Period \in Int
  BY <1>1 DEF Period
<1>3. /\ Ahead(begun + m.at + Period) \in Int
      /\ Ahead(begun + m.at + Period) >= 1
  BY <1>2, AheadLiesAhead
<1>4. scheduled' = TRUE /\ centre' = Ahead(begun + m.at + Period) - 1
  BY DEF Acquire, Arm
<1>5. lock' \in Lock /\ lock'.held
  BY <1>1 DEF Acquire, Lock
<1> QED BY <1>3, <1>4, <1>5, WindowLastIs DEF ClockKept

\* A free-running capture schedules a window only by following a burst.
LEMMA SelectFreeKeepsClock ==
  ASSUME NEW b, IsCapture(b), NEW begun \in Int, NEW full \in BOOLEAN,
         lock \in Lock, SelectFree(b, begun, full)
  PROVE  ClockKept
<1>1. ASSUME NEW m \in Found(b, full), Acquire(b, begun, m)
      PROVE  ClockKept
  BY <1>1, AcquireKeepsClock DEF Found
<1>2. ASSUME NEW m \in Found(b, full), Disarm,
             lock' = [lock EXCEPT !.held = TRUE, !.at = m.at]
      PROVE  ClockKept
  <2>1. m.at \in Int
    BY DEF Found, IsCapture
  <2>2. [lock EXCEPT !.held = TRUE, !.at = m.at] \in Lock
    BY <2>1 DEF Lock
  <2> QED BY <1>2, <2>2, DisarmKeepsClock
<1>3. ASSUME Disarm, UNCHANGED lock
      PROVE  ClockKept
  BY <1>3, DisarmKeepsClock
<1> QED BY <1>1, <1>2, <1>3 DEF SelectFree

\* A missed window: the next one is a period on, or none is scheduled.
LEMMA MissKeepsClock ==
  ASSUME ClockType, WindowNotExpired, scheduled, Miss
  PROVE  ClockKept
<1>1. centre \in Int /\ centre >= WindowLast /\ lock.held /\ lock \in Lock
  BY DEF ClockType, WindowNotExpired
<1>2. CASE lock.missed + 1 >= MissLimit
  <2>1. lock' = [lock EXCEPT !.held = FALSE, !.missed = MissLimit] /\ Disarm
    BY <1>2 DEF Miss
  <2>2. MissLimit \in Int /\ FALSE \in BOOLEAN
    BY DEF MissLimit
  <2>3. lock' \in Lock
    BY <1>1, <2>1, <2>2 DEF Lock
  <2> QED BY <2>1, <2>3, DisarmKeepsClock
<1>3. CASE ~(lock.missed + 1 >= MissLimit)
  <2>1. lock' = [lock EXCEPT !.missed = @ + 1] /\ Arm(centre + Period)
    BY <1>3 DEF Miss
  <2>2. lock' \in Lock /\ lock'.held
    BY <1>1, <2>1 DEF Lock
  <2>3. scheduled' = TRUE /\ centre' = centre + Period - 1
    BY <1>1, <2>1 DEF Arm, Period
  <2> QED BY <1>1, <2>2, <2>3, WindowLastIs DEF ClockKept, Period
<1> QED BY <1>2, <1>3

-----------------------------------------------------------------------------
LEMMA InitClock == Init => ClockInv
<1> SUFFICES ASSUME Init PROVE ClockInv
  OBVIOUS
<1>1. AirInv
  BY DEF Init, SamplerInit, AirInv
<1>2. lock \in Lock /\ scheduled = FALSE /\ centre = 0 /\ preRoll = 0 /\ buf = Empty
  BY DEF Init, SamplerInit, Lock
<1>3. ClockType
  <2>1. centre \in Int /\ preRoll \in Int
    BY <1>2
  <2>2. IsCapture(buf)
    BY <1>2, EmptyIsCapture
  <2> QED BY <1>2, <2>1, <2>2, Zenon DEF ClockType
<1>4. WindowNotExpired
  BY <1>2 DEF WindowNotExpired
<1> QED BY <1>1, <1>3, <1>4 DEF ClockInv

\* What a step on the sampler's input has to leave, in parts.
LEMMA ClockInvFromParts ==
  ASSUME AirInv', IsCapture(buf'), preRoll' \in Int, ClockKept
  PROVE  ClockInv'
<1>1. ClockType'
  BY DEF ClockType, ClockKept, IsCapture
<1>2. WindowNotExpired'
  BY DEF WindowNotExpired, ClockKept
<1> QED BY <1>1, <1>2 DEF ClockInv

\* A step that does not touch clock or alignment.
LEMMA UntouchedClock ==
  ASSUME ClockInv, UNCHANGED <<scheduled, centre, lock>>
  PROVE  ClockKept
<1>1. centre' \in Int /\ scheduled' \in BOOLEAN /\ lock' \in Lock
  BY DEF ClockInv, ClockType
<1>2. scheduled' => centre' >= WindowLast' /\ lock'.held
  BY WindowLastIs DEF ClockInv, WindowNotExpired
<1> QED BY <1>1, <1>2 DEF ClockKept

\* The free-running steps.
LEMMA FreeSteps ==
  ASSUME ClockInv, Rest \/ BurstBegins \/ BurstGoesOn \/ BurstEnds \/ BurstTooLong
  PROVE  ClockInv'
<1>1. AirInv /\ IsCapture(buf) /\ preRoll \in Int /\ lock \in Lock /\ Alike \in Int
  BY AlikeIsNumber DEF ClockInv, ClockType
<1>2. buf.len \in Int /\ 0 - buf.len \in Int
  BY <1>1 DEF IsCapture
<1>3. CASE Rest
  <2>1. AirInv' /\ preRoll' \in Int /\ buf' = buf
    BY <1>1, <1>3, AirGoesOn DEF Rest
  <2>2. ClockKept
    BY <1>3, UntouchedClock DEF Rest
  <2> QED BY <1>1, <2>1, <2>2, ClockInvFromParts
<1>4. CASE BurstBegins
  <2>1. IsCapture([Empty EXCEPT !.len = preRoll])
    BY <1>1 DEF IsCapture, Empty
  <2>2. IsCapture(buf')
    BY <1>4, <2>1, GrowIsCapture DEF BurstBegins
  <2>3. AirInv' /\ preRoll' \in Int
    BY <1>1, <1>4, AirGoesOn DEF BurstBegins
  <2>4. ClockKept
    BY <1>4, UntouchedClock DEF BurstBegins
  <2> QED BY <2>2, <2>3, <2>4, ClockInvFromParts
<1>5. CASE BurstGoesOn
  <2>1. PICK k \in Int : buf' = Grow(buf, k) /\ AirMoves(k)
    <3>1. Least(Alike, MaxCapture - 1 - buf.len) \in Int
      BY <1>1, <1>2 DEF Least, MaxCapture
    <3> QED BY <1>5, <3>1 DEF BurstGoesOn
  <2>2. AirInv' /\ IsCapture(buf') /\ preRoll' \in Int
    BY <1>1, <1>5, <2>1, AirGoesOn, GrowIsCapture DEF BurstGoesOn
  <2>3. ClockKept
    BY <1>5, UntouchedClock DEF BurstGoesOn
  <2> QED BY <2>2, <2>3, ClockInvFromParts
<1>6. CASE BurstEnds
  <2>1. ClockKept
    BY <1>1, <1>2, <1>6, SelectFreeKeepsClock DEF BurstEnds
  <2>2. AirInv' /\ IsCapture(buf') /\ preRoll' \in Int
    BY <1>1, <1>6, AirGoesOn, EmptyIsCapture DEF BurstEnds
  <2> QED BY <2>1, <2>2, ClockInvFromParts
<1>7. CASE BurstTooLong
  <2>1. IsCapture(Grow(buf, 1))
    BY <1>1, GrowIsCapture
  <2>2. ClockKept
    BY <1>1, <1>2, <1>7, <2>1, SelectFreeKeepsClock DEF BurstTooLong
  <2>3. AirInv' /\ IsCapture(buf') /\ preRoll' \in Int
    BY <1>1, <1>7, AirGoesOn, EmptyIsCapture DEF BurstTooLong
  <2> QED BY <2>2, <2>3, ClockInvFromParts
<1> QED BY <1>3, <1>4, <1>5, <1>6, <1>7

\* The steps of a scheduled window.
LEMMA WindowSteps ==
  ASSUME ClockInv, BeforeWindow \/ InWindow \/ WindowCloses
  PROVE  ClockInv'
<1>1. /\ AirInv /\ IsCapture(buf) /\ preRoll \in Int /\ lock \in Lock /\ Alike \in Int
      /\ centre \in Int /\ scheduled = TRUE /\ lock.held /\ centre >= WindowLast
  BY AlikeIsNumber
  DEF ClockInv, ClockType, WindowNotExpired, BeforeWindow, InWindow, WindowCloses, Waiting
<1>2. CASE BeforeWindow
  <2>1. PICK k \in Int : k <= centre - Lead /\ centre' = centre - k /\ AirMoves(k)
    <3>1. /\ Least(Alike, centre - Lead) \in Int
          /\ Least(Alike, centre - Lead) <= centre - Lead
      BY <1>1 DEF Least, Lead
    <3> QED BY <1>2, <3>1 DEF BeforeWindow
  <2>2. UNCHANGED <<buf, preRoll, scheduled, lock>>
    BY <1>2 DEF BeforeWindow
  <2>3. centre' \in Int /\ centre' >= WindowLast'
    BY <1>1, <2>1, WindowLastIs DEF Lead
  <2>4. ClockKept
    BY <1>1, <2>2, <2>3 DEF ClockKept
  <2> QED BY <1>1, <2>1, <2>2, <2>4, AirGoesOn, ClockInvFromParts
<1>3. CASE InWindow
  <2>1. PICK k \in Int : /\ k <= centre - WindowLast /\ centre' = centre - k
                         /\ buf' = Grow(buf, k) /\ AirMoves(k)
    <3>1. /\ Least(Alike, centre - WindowLast) \in Int
          /\ Least(Alike, centre - WindowLast) <= centre - WindowLast
      BY <1>1, WindowLastIs DEF Least
    <3> QED BY <1>3, <3>1 DEF InWindow
  <2>2. UNCHANGED <<preRoll, scheduled, lock>>
    BY <1>3 DEF InWindow
  <2>3. centre' \in Int /\ centre' >= WindowLast'
    BY <1>1, <2>1, WindowLastIs
  <2>4. ClockKept
    BY <1>1, <2>2, <2>3 DEF ClockKept
  <2>5. IsCapture(buf')
    BY <1>1, <2>1, GrowIsCapture
  <2> QED BY <1>1, <2>1, <2>2, <2>4, <2>5, AirGoesOn, ClockInvFromParts
<1>4. CASE WindowCloses
  <2>1. IsCapture(Grow(buf, 1)) /\ centre - Lead \in Int
    BY <1>1, GrowIsCapture DEF Lead
  <2>2. AirInv' /\ IsCapture(buf')
    BY <1>1, <1>4, AirGoesOn, EmptyIsCapture DEF WindowCloses
  <2>3. ASSUME Miss PROVE ClockKept /\ preRoll' \in Int
    <3>1. ClockKept
      BY <1>1, <2>3, MissKeepsClock DEF ClockInv
    <3>2. preRoll' \in {0, preRoll}
      BY <2>3 DEF Miss
    <3> QED BY <1>1, <3>1, <3>2
  <2>4. ASSUME NEW m \in Found(Grow(buf, 1), TRUE),
               Acquire(Grow(buf, 1), centre - Lead, m), UNCHANGED preRoll
        PROVE  ClockKept /\ preRoll' \in Int
    <3>1. m \in Grow(buf, 1).marks
      BY DEF Found
    <3> QED BY <1>1, <2>1, <2>4, <3>1, AcquireKeepsClock
  <2>5. ClockKept /\ preRoll' \in Int
    BY <1>4, <2>3, <2>4 DEF WindowCloses
  <2> QED BY <2>2, <2>5, ClockInvFromParts
<1> QED BY <1>2, <1>3, <1>4

LEMMA ClockStep == ClockInv /\ [Next]_vars => ClockInv'
<1> SUFFICES ASSUME ClockInv, [Next]_vars PROVE ClockInv'
  OBVIOUS
<1>1. CASE Hears
  BY <1>1, FreeSteps, WindowSteps DEF Hears, Sample
<1>2. ASSUME UNCHANGED <<tx, buf, preRoll, scheduled, centre, lock>>
      PROVE  ClockInv'
  <2>1. AirInv' /\ IsCapture(buf') /\ preRoll' \in Int
    BY <1>2 DEF ClockInv, ClockType, AirInv, IsCapture
  <2> QED BY <1>2, <2>1, UntouchedClock, ClockInvFromParts
<1>3. CASE Drain
  BY <1>2, <1>3 DEF Drain
<1>4. CASE Decodes
  BY <1>2, <1>4 DEF Decodes, samplerVars
<1>5. CASE UNCHANGED vars
  BY <1>2, <1>5 DEF vars, samplerVars
<1> QED BY <1>1, <1>3, <1>4, <1>5 DEF Next

\* The window the sampler waits for is never over already, and is only scheduled
\* while an alignment is held, whatever is on the air (process_scheduled_burst,
\* arm_scheduled_capture).
THEOREM WindowsAreAhead == Spec => []WindowNotExpired
<1>1. Spec => []ClockInv
  BY InitClock, ClockStep, PTL DEF Spec
<1>2. ClockInv => WindowNotExpired
  BY DEF ClockInv
<1> QED BY <1>1, <1>2, PTL

-----------------------------------------------------------------------------
(***************************************************************************)
(* Headers.  The decoder loses one only by its reset after silence, and    *)
(* that takes more blocks in a row without a sync pattern than windows the *)
(* sampler misses before it lets go of an alignment.                       *)
(***************************************************************************)
Kinds == Synced \cup {"plain", "garbage"}

\* Bursts with a sync pattern do not fade before they end.
WholeBursts == \A t \in Transmissions : t.kind \in Synced => t.loud >= BurstLen

\* A capture of whole bursts: each has its start in it, no two the same.
HoldsBursts(b) ==
  /\ b.len \in Nat
  /\ \A m \in b.marks :
       /\ m.at \in Nat /\ m.at < b.len /\ m.loud \in Nat
       /\ m.kind \in Synced \cup {"plain"}
       /\ m.kind \in Synced => m.loud >= BurstLen
       /\ \A n \in b.marks : n.at = m.at => n = m

\* What a free-running capture holds of a burst: all of it, or all so far of the
\* one on the air.
Contained(m) ==
  \/ m.at + m.loud <= buf.len
  \/ tx.pos > 0 /\ m.at + tx.pos = buf.len /\ m.loud = tx.on.loud

AirIs == tx \in [on : Transmissions, pos : Nat] /\ tx.pos < tx.on.total

CaptureInv ==
  /\ AirIs /\ HoldsBursts(buf) /\ preRoll \in Nat
  /\ inBurst \in BOOLEAN /\ scheduled \in BOOLEAN
  /\ inBurst => ~scheduled /\ \A m \in buf.marks : Contained(m)

\* While bursts are whole an alignment is held only to wait for its window.
LockInv ==
  /\ lock \in [held : BOOLEAN, at : Int, missed : 0..MissLimit]
  /\ lock.held = scheduled
  /\ scheduled => lock.missed < MissLimit

\* No sync pattern is in the blocks from i to j; those before the first are the
\* ones already decoded.
Bare(blocks, i, j) == \A k \in i..j : k >= 1 => blocks[k] \notin Synced

\* Blocks without a sync pattern come in runs no longer than windows are missed in
\* a row.
RunsAreShort(blocks, since, missed) ==
  \A i, j \in (1 - since)..Len(blocks) :
    i <= j /\ Bare(blocks, i, j) =>
      (j - i) + 1 <= (IF j = Len(blocks) THEN missed ELSE MissLimit)

BlocksInv ==
  /\ stream \in Seq(Kinds)
  /\ pending = <<>> \/ \E c \in Kinds : pending = <<c>>
  /\ sinceSync \in Nat
  /\ RunsAreShort(Heard, sinceSync, lock.missed)

CountInv == owed = Cardinality(Headers(Heard))

HeaderInv == CaptureInv /\ LockInv /\ BlocksInv /\ CountInv

-----------------------------------------------------------------------------
(* Blocks *)

LEMMA BlockAppended ==
  ASSUME NEW s \in Seq(Kinds), NEW c \in Kinds
  PROVE  /\ s \o <<c>> \in Seq(Kinds) /\ Len(s) \in Nat /\ Len(s \o <<c>>) = Len(s) + 1
         /\ \A i \in 1..Len(s) : (s \o <<c>>)[i] = s[i]
         /\ (s \o <<c>>)[Len(s) + 1] = c
  OBVIOUS

LEMMA TailIs ==
  ASSUME NEW s \in Seq(Kinds), s # <<>>
  PROVE  /\ Tail(s) \in Seq(Kinds) /\ Len(s) \in Nat /\ Len(s) >= 1
         /\ Len(Tail(s)) = Len(s) - 1 /\ Head(s) = s[1] /\ s[1] \in Kinds
         /\ \A i \in 1..(Len(s) - 1) : Tail(s)[i] = s[i + 1]
<1>1. Len(s) \in Nat /\ Len(s) >= 1
  BY EmptySeq, LenProperties
<1>2. s[1] \in Kinds
  BY <1>1, ElementOfSeq
<1> QED BY <1>1, <1>2, HeadTailProperties

\* A block without a sync pattern makes the run at the end one longer.
LEMMA BareAppended ==
  ASSUME NEW s \in Seq(Kinds), NEW c \in Kinds, NEW since \in Nat,
         NEW missed \in 0..MissLimit, NEW more \in 0..MissLimit, more >= missed + 1,
         RunsAreShort(s, since, missed)
  PROVE  RunsAreShort(s \o <<c>>, since, more)
<1> DEFINE t == s \o <<c>>
<1>1. Len(s) \in Nat /\ Len(t) = Len(s) + 1 /\ \A i \in 1..Len(s) : t[i] = s[i]
  BY BlockAppended
<1> HIDE DEF t
<1> SUFFICES ASSUME NEW i \in (1 - since)..Len(t), NEW j \in (1 - since)..Len(t),
                    i <= j, Bare(t, i, j)
             PROVE  (j - i) + 1 <= (IF j = Len(t) THEN more ELSE MissLimit)
  BY DEF RunsAreShort, t
<1>2. /\ MissLimit \in Nat /\ missed \in Nat /\ more \in Nat /\ missed <= MissLimit
      /\ i \in Int /\ j \in Int /\ (j <= Len(s) \/ j = Len(s) + 1)
  BY <1>1 DEF MissLimit
<1>3. ASSUME NEW l \in i..j, l <= Len(s) PROVE Bare(s, i, l)
  <2> SUFFICES ASSUME NEW k \in i..l, k >= 1 PROVE s[k] \notin Synced
    BY DEF Bare
  <2>1. k \in i..j /\ k \in 1..Len(s)
    BY <1>1, <1>3
  <2> QED BY <1>1, <2>1 DEF Bare
<1>4. CASE j <= Len(s)
  <2>1. i \in (1 - since)..Len(s) /\ j \in (1 - since)..Len(s) /\ j \in i..j
    BY <1>1, <1>4
  <2>2. (j - i) + 1 <= (IF j = Len(s) THEN missed ELSE MissLimit)
    BY <1>3, <1>4, <2>1 DEF RunsAreShort
  <2>3. j # Len(t)
    BY <1>1, <1>4
  <2> QED BY <1>2, <2>2, <2>3
<1>5. CASE j = Len(s) + 1
  <2>1. CASE i = j
    BY <1>1, <1>2, <1>5, <2>1
  <2>2. CASE i < j
    <3>1. /\ i \in (1 - since)..Len(s) /\ Len(s) \in (1 - since)..Len(s)
          /\ i <= Len(s) /\ Len(s) \in i..j
      BY <1>1, <1>5, <2>2
    <3>2. Bare(s, i, Len(s))
      BY <1>3, <3>1
    <3>3. (Len(s) - i) + 1 <= (IF Len(s) = Len(s) THEN missed ELSE MissLimit)
      BY <3>1, <3>2, Zenon DEF RunsAreShort
    <3> QED BY <1>1, <1>2, <1>5, <3>3
  <2> QED BY <1>2, <2>1, <2>2
<1> QED BY <1>2, <1>4, <1>5

\* A block with a sync pattern ends every run.
LEMMA SyncedAppended ==
  ASSUME NEW s \in Seq(Kinds), NEW c \in Synced, NEW since \in Nat,
         NEW missed \in 0..MissLimit, RunsAreShort(s, since, missed)
  PROVE  RunsAreShort(s \o <<c>>, since, 0)
<1> DEFINE t == s \o <<c>>
<1>1. /\ Len(s) \in Nat /\ Len(t) = Len(s) + 1 /\ t[Len(s) + 1] = c
      /\ \A i \in 1..Len(s) : t[i] = s[i]
  BY BlockAppended DEF Kinds
<1> HIDE DEF t
<1> SUFFICES ASSUME NEW i \in (1 - since)..Len(t), NEW j \in (1 - since)..Len(t),
                    i <= j, Bare(t, i, j)
             PROVE  (j - i) + 1 <= (IF j = Len(t) THEN 0 ELSE MissLimit)
  BY DEF RunsAreShort, t
<1>2. j # Len(t)
  <2> SUFFICES ASSUME j = Len(t) PROVE FALSE
    OBVIOUS
  <2>1. j \in i..j /\ j >= 1 /\ t[j] = c
    BY <1>1
  <2> QED BY <2>1 DEF Bare
<1>3. j <= Len(s) /\ i \in (1 - since)..Len(s) /\ j \in (1 - since)..Len(s)
  BY <1>1, <1>2
<1>4. Bare(s, i, j)
  <2> SUFFICES ASSUME NEW k \in i..j, k >= 1 PROVE s[k] \notin Synced
    BY DEF Bare
  <2>1. k \in 1..Len(s)
    BY <1>1, <1>3
  <2> QED BY <1>1, <2>1 DEF Bare
<1>5. (j - i) + 1 <= (IF j = Len(s) THEN missed ELSE MissLimit)
  BY <1>3, <1>4 DEF RunsAreShort
<1> QED BY <1>2, <1>5 DEF MissLimit

\* More windows may be missed than blocks were handed on.
LEMMA MoreMissed ==
  ASSUME NEW s \in Seq(Kinds), NEW since \in Nat, NEW missed \in Nat, NEW more \in Nat,
         more >= missed, RunsAreShort(s, since, missed)
  PROVE  RunsAreShort(s, since, more)
<1> SUFFICES ASSUME NEW i \in (1 - since)..Len(s), NEW j \in (1 - since)..Len(s),
                    i <= j, Bare(s, i, j)
             PROVE  (j - i) + 1 <= (IF j = Len(s) THEN more ELSE MissLimit)
  BY DEF RunsAreShort
<1>1. (j - i) + 1 <= (IF j = Len(s) THEN missed ELSE MissLimit)
  BY DEF RunsAreShort
<1>2. i \in Int /\ j \in Int
  BY LenProperties
<1>3. CASE j = Len(s)
  BY <1>1, <1>2, <1>3
<1>4. CASE j # Len(s)
  BY <1>1, <1>4
<1> QED BY <1>3, <1>4

\* A block decoded, with its sync pattern or without.
LEMMA RunsDecoded ==
  ASSUME NEW s \in Seq(Kinds), s # <<>>, NEW since \in Nat, NEW missed \in Nat,
         RunsAreShort(s, since, missed), NEW after \in Nat,
         after = 0 \/ (after = since + 1 /\ s[1] \notin Synced)
  PROVE  RunsAreShort(Tail(s), after, missed)
<1> DEFINE t == Tail(s)
<1>1. /\ Len(s) \in Nat /\ Len(s) >= 1 /\ Len(t) = Len(s) - 1
      /\ \A i \in 1..(Len(s) - 1) : t[i] = s[i + 1]
  BY TailIs
<1> HIDE DEF t
<1> SUFFICES ASSUME NEW i \in (1 - after)..Len(t), NEW j \in (1 - after)..Len(t),
                    i <= j, Bare(t, i, j)
             PROVE  (j - i) + 1 <= (IF j = Len(t) THEN missed ELSE MissLimit)
  BY DEF RunsAreShort, t
<1>2. i + 1 \in (1 - since)..Len(s) /\ j + 1 \in (1 - since)..Len(s) /\ i + 1 <= j + 1
  BY <1>1
<1>3. Bare(s, i + 1, j + 1)
  <2> SUFFICES ASSUME NEW k \in (i + 1)..(j + 1), k >= 1 PROVE s[k] \notin Synced
    BY DEF Bare
  <2>1. CASE k = 1
    <3>1. i <= 0
      BY <2>1
    <3> QED BY <2>1, <3>1
  <2>2. CASE k > 1
    <3>1. k - 1 \in i..j /\ k - 1 >= 1 /\ k - 1 \in 1..(Len(s) - 1) /\ (k - 1) + 1 = k
      BY <1>1, <2>2
    <3>2. t[k - 1] = s[k]
      BY <1>1, <3>1
    <3> QED BY <3>1, <3>2 DEF Bare
  <2> QED BY <2>1, <2>2
<1>4. ((j + 1) - (i + 1)) + 1 <= (IF j + 1 = Len(s) THEN missed ELSE MissLimit)
  BY <1>2, <1>3 DEF RunsAreShort
<1>5. (j + 1 = Len(s)) <=> (j = Len(t))
  BY <1>1
<1>6. ((j + 1) - (i + 1)) + 1 = (j - i) + 1
  BY <1>1
<1> QED BY <1>4, <1>5, <1>6, Zenon

\* The blocks without a sync pattern before a block that waits are a run.
LEMMA DecodedRunIsShort ==
  ASSUME NEW s \in Seq(Kinds), s # <<>>, NEW since \in Nat, NEW missed,
         RunsAreShort(s, since, missed)
  PROVE  since <= MissLimit
<1>1. Len(s) \in Nat /\ Len(s) >= 1
  BY TailIs
<1>2. CASE since = 0
  BY <1>2 DEF MissLimit
<1>3. CASE since >= 1
  <2>1. /\ 1 - since \in (1 - since)..Len(s) /\ 0 \in (1 - since)..Len(s)
        /\ 1 - since <= 0 /\ 0 # Len(s)
    BY <1>1, <1>3
  <2>2. Bare(s, 1 - since, 0)
    BY DEF Bare
  <2>3. (0 - (1 - since)) + 1 <= MissLimit
    BY <2>1, <2>2 DEF RunsAreShort
  <2> QED BY <2>3 DEF MissLimit
<1> QED BY <1>2, <1>3

LEMMA HeadersAreFinite ==
  ASSUME NEW s \in Seq(Kinds)
  PROVE  IsFiniteSet(Headers(s)) /\ Cardinality(Headers(s)) \in Nat
<1>1. Len(s) \in Nat
  BY LenProperties
<1>2. IsFiniteSet(1..Len(s))
  BY <1>1, FS_Interval
<1>3. Headers(s) \in SUBSET (1..Len(s))
  BY DEF Headers
<1> QED BY <1>2, <1>3, FS_Subset, FS_CardinalityType

\* The count goes on with a block that is handed on ...
LEMMA HeadersAppended ==
  ASSUME NEW s \in Seq(Kinds), NEW c \in Kinds
  PROVE  Cardinality(Headers(s \o <<c>>)) =
           Cardinality(Headers(s)) + (IF c = "header" THEN 1 ELSE 0)
<1> DEFINE t == s \o <<c>>
           n == Len(s) + 1
<1>1. /\ Len(s) \in Nat /\ Len(t) = n /\ t[n] = c
      /\ \A i \in 1..Len(s) : t[i] = s[i]
  BY BlockAppended
<1> HIDE DEF t
<1>2. \A i : i \in 1..n <=> i \in 1..Len(s) \/ i = n
  BY <1>1
<1>3. Headers(t) = {i \in 1..Len(s) : s[i] = "header"} \cup (IF c = "header" THEN {n} ELSE {})
  BY <1>1, <1>2 DEF Headers
<1>4. Headers(t) = IF c = "header" THEN Headers(s) \cup {n} ELSE Headers(s)
  BY <1>3 DEF Headers
<1>5. n \notin Headers(s)
  BY <1>1 DEF Headers
<1>6. Cardinality(Headers(s) \cup {n}) = Cardinality(Headers(s)) + 1
  BY <1>5, HeadersAreFinite, FS_AddElement
<1>7. Cardinality(Headers(s)) \in Nat
  BY HeadersAreFinite
<1> QED BY <1>4, <1>6, <1>7 DEF t

\* ... and back with one that is decoded.
LEMMA HeadersDecoded ==
  ASSUME NEW s \in Seq(Kinds), s # <<>>
  PROVE  Cardinality(Headers(Tail(s))) =
           Cardinality(Headers(s)) - (IF s[1] = "header" THEN 1 ELSE 0)
<1> DEFINE t == Tail(s)
           H == Headers(s) \ {1}
           f == [i \in Headers(t) |-> i + 1]
<1>1. /\ t \in Seq(Kinds) /\ Len(s) \in Nat /\ Len(s) >= 1 /\ Len(t) = Len(s) - 1
      /\ \A i \in 1..(Len(s) - 1) : t[i] = s[i + 1]
  BY TailIs
<1> HIDE DEF t
<1>2. \A i \in Headers(t) : i \in Nat /\ i + 1 \in H
  <2> SUFFICES ASSUME NEW i \in Headers(t) PROVE i \in Nat /\ i + 1 \in H
    OBVIOUS
  <2>1. i \in 1..(Len(s) - 1) /\ t[i] = "header"
    BY <1>1 DEF Headers
  <2>2. i + 1 \in 1..Len(s) /\ s[i + 1] = "header" /\ i + 1 # 1
    BY <1>1, <2>1
  <2> QED BY <2>1, <2>2 DEF Headers
<1>3. \A h \in H : h - 1 \in Headers(t) /\ h = (h - 1) + 1
  <2> SUFFICES ASSUME NEW h \in H PROVE h - 1 \in Headers(t) /\ h = (h - 1) + 1
    OBVIOUS
  <2>1. h \in 1..Len(s) /\ s[h] = "header" /\ h # 1
    BY DEF Headers
  <2>2. h - 1 \in 1..(Len(s) - 1) /\ h = (h - 1) + 1
    BY <1>1, <2>1
  <2>3. t[h - 1] = s[h]
    BY <1>1, <2>2
  <2> QED BY <1>1, <2>1, <2>2, <2>3 DEF Headers
<1>4. f \in [Headers(t) -> H]
  BY <1>2
<1>5. \A i, j \in Headers(t) : f[i] = f[j] => i = j
  BY <1>2
<1>6. \A h \in H : \E i \in Headers(t) : f[i] = h
  BY <1>3
<1>7. f \in Bijection(Headers(t), H)
  BY <1>4, <1>5, <1>6 DEF Bijection, Injection, Surjection, IsInjective
<1>8. Cardinality(H) = Cardinality(Headers(t))
  BY <1>1, <1>7, HeadersAreFinite, FS_Bijection DEF ExistsBijection
<1>9. Cardinality(H) = IF 1 \in Headers(s) THEN Cardinality(Headers(s)) - 1
                                           ELSE Cardinality(Headers(s))
  BY HeadersAreFinite, FS_RemoveElement
<1>10. 1 \in Headers(s) <=> s[1] = "header"
  BY <1>1 DEF Headers
<1>11. Cardinality(Headers(s)) \in Nat
  BY HeadersAreFinite
<1> QED BY <1>8, <1>9, <1>10, <1>11 DEF t

-----------------------------------------------------------------------------
(* The air and the captures *)

LEMMA AirNumbers ==
  ASSUME AirIs
  PROVE  /\ tx.on \in Transmissions /\ tx.pos \in Nat
         /\ tx.on.loud \in Nat /\ tx.on.total \in Nat /\ tx.on.loud <= tx.on.total
         /\ tx.on.kind \in Synced \cup {"plain", "none"}
         /\ Alike \in Nat /\ Alike >= 1
         /\ Loud => tx.pos + Alike <= tx.on.loud
<1>1. tx.on \in Transmissions /\ tx.pos \in Nat /\ tx.pos < tx.on.total
  BY DEF AirIs
<1>2. tx.on.loud \in Nat /\ tx.on.total \in Nat /\ tx.on.loud <= tx.on.total
  BY <1>1, TransmissionsAssumption
<1>3. tx.on.kind \in Synced \cup {"plain", "none"}
  BY <1>1, TransmissionsAssumption
<1>4. CASE Loud
  <2>1. Alike = tx.on.loud - tx.pos /\ tx.pos < tx.on.loud
    BY <1>4 DEF Alike, Loud
  <2> QED BY <1>1, <1>2, <1>3, <2>1
<1>5. CASE ~Loud
  <2>1. Alike = tx.on.total - tx.pos
    BY <1>5 DEF Alike
  <2> QED BY <1>1, <1>2, <1>3, <1>5, <2>1
<1> QED BY <1>4, <1>5

LEMMA AirMovesOn ==
  ASSUME AirIs, NEW k \in Nat, AirMoves(k)
  PROVE  /\ AirIs'
         /\ tx.pos + k < tx.on.total => tx'.pos = tx.pos + k /\ tx'.on = tx.on
<1>1. tx \in [on : Transmissions, pos : Nat] /\ tx.pos + k \in Nat
  BY DEF AirIs
<1>2. CASE tx.pos + k < tx.on.total
  <2>1. tx' = [tx EXCEPT !.pos = tx.pos + k]
    BY <1>2 DEF AirMoves
  <2>2. tx' \in [on : Transmissions, pos : Nat] /\ tx'.pos = tx.pos + k /\ tx'.on = tx.on
    BY <1>1, <2>1
  <2> QED BY <1>2, <2>2 DEF AirIs
<1>3. CASE ~(tx.pos + k < tx.on.total)
  <2>1. tx' \in [on : Transmissions, pos : {0}]
    BY <1>3 DEF AirMoves
  <2>2. tx' \in [on : Transmissions, pos : Nat] /\ tx'.pos = 0 /\ tx'.on \in Transmissions
    BY <2>1
  <2>3. tx'.on.total \in Nat \ {0}
    BY <2>2, TransmissionsAssumption
  <2> QED BY <1>3, <2>2, <2>3 DEF AirIs
<1> QED BY <1>2, <1>3

\* What a capture gains.
LEMMA GrowIs ==
  ASSUME AirIs, NEW b, HoldsBursts(b), NEW k \in Nat \ {0}
  PROVE  /\ Grow(b, k).len = b.len + k
         /\ \A m \in Grow(b, k).marks :
              \/ m \in b.marks
              \/ /\ tx.pos = 0 /\ tx.on.kind # "none"
                 /\ m = [at |-> b.len, kind |-> tx.on.kind, loud |-> tx.on.loud]
  BY DEF Grow

LEMMA GrowHolds ==
  ASSUME WholeBursts, AirIs, NEW b, HoldsBursts(b), NEW k \in Nat \ {0}
  PROVE  HoldsBursts(Grow(b, k))
<1> DEFINE g == Grow(b, k)
           new == [at |-> b.len, kind |-> tx.on.kind, loud |-> tx.on.loud]
<1>1. /\ g.len = b.len + k
      /\ \A m \in g.marks : m \in b.marks \/ (tx.on.kind # "none" /\ m = new)
  BY GrowIs
<1>2. b.len \in Nat /\ g.len \in Nat
  BY <1>1 DEF HoldsBursts
<1>3. tx.on.kind # "none" => /\ new.at = b.len /\ new.loud \in Nat
                             /\ new.kind \in Synced \cup {"plain"}
                             /\ new.kind \in Synced => new.loud >= BurstLen
  BY AirNumbers DEF WholeBursts
<1> HIDE DEF g, new
<1> SUFFICES ASSUME NEW m \in g.marks
             PROVE  /\ m.at \in Nat /\ m.at < g.len /\ m.loud \in Nat
                    /\ m.kind \in Synced \cup {"plain"}
                    /\ m.kind \in Synced => m.loud >= BurstLen
                    /\ \A n \in g.marks : n.at = m.at => n = m
  BY <1>2 DEF HoldsBursts, g
<1>4. \A n \in b.marks : n.at \in Nat /\ n.at < b.len
  BY DEF HoldsBursts
<1>5. CASE m \in b.marks
  <2>1. /\ m.at \in Nat /\ m.at < b.len /\ m.loud \in Nat
        /\ m.kind \in Synced \cup {"plain"}
        /\ m.kind \in Synced => m.loud >= BurstLen
        /\ \A n \in b.marks : n.at = m.at => n = m
    BY <1>5 DEF HoldsBursts
  <2>2. m.at < g.len
    BY <1>1, <1>2, <2>1
  <2>3. m.at # b.len
    BY <1>2, <2>1
  <2> QED BY <1>1, <1>3, <2>1, <2>2, <2>3
<1>6. CASE tx.on.kind # "none" /\ m = new
  <2>1. m.at < g.len
    BY <1>1, <1>2, <1>3, <1>6
  <2>2. \A n \in b.marks : n.at # b.len
    BY <1>2, <1>4
  <2> QED BY <1>1, <1>2, <1>3, <1>6, <2>1, <2>2
<1> QED BY <1>1, <1>5, <1>6

\* What is handed on of a capture is a block; of a whole burst, that burst.
LEMMA ContentIsKind ==
  ASSUME NEW b, HoldsBursts(b), NEW at
  PROVE  Content(b, at) \in Kinds
<1>1. CASE \E m \in b.marks : m.at = at /\ m.loud >= BurstLen
  <2>1. PICK m \in b.marks : m.at = at
    BY <1>1
  <2>2. (CHOOSE n \in b.marks : n.at = at) \in b.marks
    BY <2>1
  <2> QED BY <1>1, <2>2 DEF Content, HoldsBursts, Kinds
<1>2. CASE ~\E m \in b.marks : m.at = at /\ m.loud >= BurstLen
  BY <1>2 DEF Content, Kinds
<1> QED BY <1>1, <1>2

LEMMA ContentIsBurst ==
  ASSUME NEW b, HoldsBursts(b), NEW m \in b.marks, m.kind \in Synced
  PROVE  Content(b, m.at) = m.kind
<1>1. m.loud >= BurstLen /\ \A n \in b.marks : n.at = m.at => n = m
  BY DEF HoldsBursts
<1>2. (CHOOSE n \in b.marks : n.at = m.at) = m
  BY <1>1
<1> QED BY <1>1, <1>2 DEF Content

-----------------------------------------------------------------------------
(* What a step of the sampler hands on *)

\* Nothing; a block without regard to its pattern, for a window missed; or a burst.
Handed ==
  \/ pending' = <<>> /\ lock'.missed >= lock.missed
  \/ \E c \in Kinds : pending' = <<c>> /\ lock'.missed >= lock.missed + 1
  \/ \E c \in Synced : pending' = <<c>> /\ lock'.missed = 0

LEMMA AcquireHands ==
  ASSUME NEW b, HoldsBursts(b), NEW begun, NEW m \in b.marks, m.kind \in Synced,
         Acquire(b, begun, m)
  PROVE  Handed /\ LockInv' /\ scheduled' = TRUE
<1>1. pending' = <<m.kind>>
  BY ContentIsBurst DEF Acquire, Publish
<1>2. lock' = [held |-> TRUE, at |-> m.at, missed |-> 0] /\ scheduled' = TRUE
  BY DEF Acquire, Arm
<1>3. m.at \in Int
  BY DEF HoldsBursts
<1>4. LockInv'
  BY <1>2, <1>3 DEF LockInv, MissLimit
<1> QED BY <1>1, <1>2, <1>4 DEF Handed

\* A free-running capture whose bursts are all in it: the first one whole is followed,
\* and without one nothing is handed on.
LEMMA SelectFreeHands ==
  ASSUME NEW b, HoldsBursts(b), NEW begun, NEW full, LockInv, scheduled = FALSE,
         pending = <<>>, \A m \in Found(b, full) : m.at + BurstLen <= b.len,
         SelectFree(b, begun, full)
  PROVE  Handed /\ LockInv' /\ scheduled' \in BOOLEAN
<1>1. ASSUME NEW m \in Found(b, full), Acquire(b, begun, m)
      PROVE  Handed /\ LockInv' /\ scheduled' \in BOOLEAN
  <2>1. m \in b.marks /\ m.kind \in Synced
    BY DEF Found
  <2> QED BY <1>1, <2>1, AcquireHands
<1>2. ASSUME NEW m \in Found(b, full), m.at + BurstLen > b.len
      PROVE  FALSE
  <2>1. m \in b.marks
    BY DEF Found
  <2>2. m.at \in Nat /\ b.len \in Nat
    BY <2>1 DEF HoldsBursts
  <2> QED BY <1>2, <2>2 DEF BurstLen
<1>3. ASSUME HoldOver(b), Disarm, UNCHANGED lock
      PROVE  Handed /\ LockInv' /\ scheduled' \in BOOLEAN
  <2>1. lock.held = FALSE /\ lock.missed \in Nat
    BY DEF LockInv, MissLimit
  <2>2. pending' = <<>>
    BY <1>3, <2>1 DEF HoldOver
  <2>3. scheduled' = FALSE /\ lock' = lock
    BY <1>3 DEF Disarm
  <2>4. LockInv'
    BY <2>1, <2>3 DEF LockInv
  <2>5. lock'.missed >= lock.missed
    BY <2>1, <2>3
  <2>6. Handed
    BY <2>2, <2>5 DEF Handed
  <2> QED BY <2>3, <2>4, <2>6
<1> QED BY <1>1, <1>2, <1>3 DEF SelectFree

\* A missed window is counted, and the third lets go of the alignment.
LEMMA MissCounts ==
  ASSUME LockInv, scheduled = TRUE, Miss
  PROVE  /\ LockInv' /\ lock'.missed >= lock.missed + 1 /\ scheduled' \in BOOLEAN
         /\ inBurst' \in {inBurst, FALSE} /\ preRoll' \in {preRoll, 0}
<1>1. /\ lock.missed \in 0..2 /\ lock.held = TRUE /\ lock.at \in Int
      /\ lock = [held |-> TRUE, at |-> lock.at, missed |-> lock.missed]
  <2>1. lock \in [held : BOOLEAN, at : Int, missed : 0..3] /\ lock.missed < 3
    BY DEF LockInv, MissLimit
  <2>2. lock.held = TRUE
    BY DEF LockInv
  <2> QED BY <2>1, <2>2
<1>2. CASE lock.missed + 1 >= MissLimit
  <2>1. /\ lock' = [lock EXCEPT !.held = FALSE, !.missed = MissLimit] /\ scheduled' = FALSE
        /\ inBurst' = FALSE /\ preRoll' = 0
    BY <1>2 DEF Miss, Disarm
  <2>2. lock' = [held |-> FALSE, at |-> lock.at, missed |-> 3]
    BY <1>1, <2>1 DEF MissLimit
  <2>3. lock'.missed = 3 /\ lock'.held = FALSE
    BY <2>2
  <2>4. lock' \in [held : BOOLEAN, at : Int, missed : 0..MissLimit]
    BY <1>1, <2>2 DEF MissLimit
  <2>5. LockInv'
    BY <2>1, <2>3, <2>4 DEF LockInv, MissLimit
  <2>6. lock'.missed >= lock.missed + 1
    BY <1>1, <2>3
  <2> QED BY <2>1, <2>5, <2>6
<1>3. CASE ~(lock.missed + 1 >= MissLimit)
  <2>1. /\ lock' = [lock EXCEPT !.missed = @ + 1] /\ scheduled' = TRUE
        /\ inBurst' = inBurst /\ preRoll' = preRoll
    BY <1>3 DEF Miss, Arm
  <2>2. lock.missed + 1 \in 0..2
    BY <1>1, <1>3 DEF MissLimit
  <2>3. lock' = [held |-> TRUE, at |-> lock.at, missed |-> lock.missed + 1]
    BY <1>1, <2>1
  <2>4. lock'.missed = lock.missed + 1 /\ lock'.held = TRUE
    BY <2>3
  <2>5. lock' \in [held : BOOLEAN, at : Int, missed : 0..MissLimit]
    BY <1>1, <2>2, <2>3 DEF MissLimit
  <2>6. lock'.missed < MissLimit
    BY <2>2, <2>4 DEF MissLimit
  <2>7. LockInv'
    BY <2>1, <2>4, <2>5, <2>6 DEF LockInv
  <2>8. lock'.missed >= lock.missed + 1
    BY <2>2, <2>4
  <2> QED BY <2>1, <2>7, <2>8
<1> QED BY <1>2, <1>3

LEMMA WindowHands ==
  ASSUME WholeBursts, CaptureInv, LockInv, WindowCloses
  PROVE  /\ Handed /\ LockInv' /\ scheduled' \in BOOLEAN /\ pending = <<>>
         /\ inBurst' \in {inBurst, FALSE} /\ preRoll' \in {preRoll, 0}
<1> DEFINE b == Grow(buf, 1)
<1>1. HoldsBursts(b) /\ scheduled = TRUE /\ pending = <<>>
  BY GrowHolds DEF CaptureInv, WindowCloses, Waiting
<1> HIDE DEF b
<1>2. ASSUME Miss, UNCHANGED pending
      PROVE  /\ Handed /\ LockInv' /\ scheduled' \in BOOLEAN
             /\ inBurst' \in {inBurst, FALSE} /\ preRoll' \in {preRoll, 0}
  <2>1. lock'.missed >= lock.missed
    <3>1. lock'.missed >= lock.missed + 1 /\ LockInv'
      BY <1>1, <1>2, MissCounts
    <3>2. lock.missed \in Int /\ lock'.missed \in Int
      BY <3>1 DEF LockInv
    <3> QED BY <3>1, <3>2
  <2> QED BY <1>1, <1>2, <2>1, MissCounts DEF Handed
<1>3. ASSUME NEW m \in Found(b, TRUE), Acquire(b, centre - Lead, m)
      PROVE  Handed /\ LockInv' /\ scheduled' \in BOOLEAN
  <2>1. m \in b.marks /\ m.kind \in Synced
    BY DEF Found
  <2> QED BY <1>1, <1>3, <2>1, AcquireHands
<1>4. ASSUME HoldOver(b), Miss
      PROVE  /\ Handed /\ LockInv' /\ scheduled' \in BOOLEAN
             /\ inBurst' \in {inBurst, FALSE} /\ preRoll' \in {preRoll, 0}
  <2>1. CASE UNCHANGED pending
    BY <1>2, <1>4, <2>1
  <2>2. CASE \E at : Publish(b, at)
    <3>1. \E c \in Kinds : pending' = <<c>>
      BY <1>1, <2>2, ContentIsKind DEF Publish
    <3> QED BY <1>1, <1>4, <3>1, MissCounts DEF Handed
  <2> QED BY <1>4, <2>1, <2>2 DEF HoldOver
<1> QED BY <1>1, <1>2, <1>3, <1>4 DEF WindowCloses, b

\* What a step of the sampler leaves, alignment and captures.
Sampled == CaptureInv' /\ LockInv' /\ Handed /\ pending = <<>>

\* A step that only captures.
LEMMA OnlyCaptures ==
  ASSUME LockInv, pending = <<>>, UNCHANGED <<scheduled, lock, pending>>
  PROVE  LockInv' /\ Handed
<1>1. LockInv'
  BY DEF LockInv
<1>2. lock'.missed >= lock.missed
  BY DEF LockInv, MissLimit
<1> QED BY <1>1, <1>2 DEF Handed

\* The units of a burst on the air go into the capture as they come.
LEMMA BurstIsContained ==
  ASSUME WholeBursts, AirIs, HoldsBursts(buf), \A m \in buf.marks : Contained(m), Loud,
         NEW k \in Nat \ {0}, k <= Alike, buf' = Grow(buf, k), AirMoves(k)
  PROVE  \A m \in buf'.marks : Contained(m)'
<1> SUFFICES ASSUME NEW m \in buf'.marks
             PROVE  \/ m.at + m.loud <= buf'.len
                    \/ tx'.pos > 0 /\ m.at + tx'.pos = buf'.len /\ m.loud = tx'.on.loud
  BY DEF Contained
<1>1. /\ tx.pos \in Nat /\ tx.on.loud \in Nat /\ tx.on.total \in Nat
      /\ tx.on.loud <= tx.on.total /\ tx.pos + k <= tx.on.loud
  BY AirNumbers
<1>2. buf.len \in Nat /\ buf'.len = buf.len + k
  BY GrowIs DEF HoldsBursts
<1>3. tx.pos + k < tx.on.total => tx'.pos = tx.pos + k /\ tx'.on = tx.on
  BY AirMovesOn
<1>4. m \in buf.marks => m.at \in Nat /\ m.loud \in Nat
  BY DEF HoldsBursts
<1>5. CASE m \in buf.marks /\ m.at + m.loud <= buf.len
  BY <1>2, <1>4, <1>5
<1>6. CASE m.at \in Nat /\ m.at + tx.pos = buf.len /\ m.loud = tx.on.loud
  <2>1. CASE tx.pos + k < tx.on.total
    <3>1. tx'.pos = tx.pos + k /\ m.loud = tx'.on.loud
      BY <1>3, <1>6, <2>1
    <3>2. tx'.pos > 0 /\ m.at + tx'.pos = buf'.len
      BY <1>1, <1>2, <1>6, <3>1
    <3> QED BY <3>1, <3>2
  <2>2. CASE ~(tx.pos + k < tx.on.total)
    <3>1. m.loud <= tx.pos + k
      BY <1>1, <1>6, <2>2
    <3> QED BY <1>1, <1>2, <1>6, <3>1
  <2> QED BY <2>1, <2>2
<1>7. \/ m \in buf.marks
      \/ tx.pos = 0 /\ m = [at |-> buf.len, kind |-> tx.on.kind, loud |-> tx.on.loud]
  BY GrowIs
<1>8. CASE m \in buf.marks
  BY <1>4, <1>5, <1>6, <1>8 DEF Contained
<1>9. CASE tx.pos = 0 /\ m = [at |-> buf.len, kind |-> tx.on.kind, loud |-> tx.on.loud]
  <2>1. m.at \in Nat /\ m.at + tx.pos = buf.len /\ m.loud = tx.on.loud
    BY <1>2, <1>9
  <2> QED BY <1>6, <2>1
<1> QED BY <1>7, <1>8, <1>9

LEMMA EmptyHolds == HoldsBursts(Empty)
  BY DEF HoldsBursts, Empty

LEMMA RestSampled ==
  ASSUME CaptureInv, LockInv, Rest
  PROVE  Sampled
<1>1. /\ pending = <<>> /\ inBurst = FALSE /\ preRoll' = 1 /\ AirMoves(Alike)
      /\ UNCHANGED <<buf, inBurst, scheduled, centre, lock, pending>>
  BY DEF Rest, Listening, CaptureInv
<1>2. AirIs'
  BY <1>1, AirNumbers, AirMovesOn DEF CaptureInv
<1>3. CaptureInv'
  BY <1>1, <1>2 DEF CaptureInv, HoldsBursts
<1> QED BY <1>1, <1>3, OnlyCaptures DEF Sampled

LEMMA BurstBeginsSampled ==
  ASSUME WholeBursts, CaptureInv, LockInv, BurstBegins
  PROVE  Sampled
<1> DEFINE b == [Empty EXCEPT !.len = preRoll]
<1>1. /\ pending = <<>> /\ scheduled = FALSE /\ Loud /\ inBurst' = TRUE /\ preRoll' = 0
      /\ buf' = Grow(b, 1) /\ AirMoves(1)
      /\ UNCHANGED <<scheduled, centre, lock, pending>>
  BY DEF BurstBegins, Listening, CaptureInv
<1>2. AirIs /\ preRoll \in Nat /\ HoldsBursts(buf)
  BY DEF CaptureInv
<1>3. HoldsBursts(b) /\ b.len = preRoll /\ b.marks = {}
  BY <1>2 DEF HoldsBursts, Empty
<1>4. HoldsBursts(buf')
  BY <1>1, <1>2, <1>3, GrowHolds
<1>5. AirIs' /\ (tx.pos + 1 < tx.on.total => tx'.pos = tx.pos + 1 /\ tx'.on = tx.on)
  BY <1>1, <1>2, AirMovesOn
<1>6. \A m \in buf'.marks : Contained(m)'
  <2> SUFFICES ASSUME NEW m \in buf'.marks
               PROVE  \/ m.at + m.loud <= buf'.len
                      \/ tx'.pos > 0 /\ m.at + tx'.pos = buf'.len /\ m.loud = tx'.on.loud
    BY DEF Contained
  <2>1. /\ tx.pos = 0 /\ m = [at |-> b.len, kind |-> tx.on.kind, loud |-> tx.on.loud]
        /\ buf'.len = preRoll + 1
    <3> HIDE DEF b
    <3>1. 1 \in Nat \ {0} /\ m \in Grow(b, 1).marks
      BY <1>1
    <3>2. m \notin b.marks
      BY <1>3
    <3> QED BY <1>1, <1>2, <1>3, <3>1, <3>2, GrowIs
  <2>2. m.at = preRoll /\ m.loud = tx.on.loud
    BY <1>3, <2>1
  <2>3. tx.on.loud \in Nat /\ tx.on.total \in Nat /\ tx.on.loud <= tx.on.total
    BY <1>2, AirNumbers
  <2>4. CASE 1 < tx.on.total
    <3>1. tx'.pos = 1 /\ tx'.on = tx.on
      BY <1>5, <2>1, <2>4
    <3> QED BY <1>2, <2>1, <2>2, <3>1
  <2>5. CASE ~(1 < tx.on.total)
    BY <1>2, <2>1, <2>2, <2>3, <2>5
  <2> QED BY <2>4, <2>5
<1>7. CaptureInv'
  BY <1>1, <1>4, <1>5, <1>6 DEF CaptureInv
<1> QED BY <1>1, <1>7, OnlyCaptures DEF Sampled

LEMMA BurstGoesOnSampled ==
  ASSUME WholeBursts, CaptureInv, LockInv, BurstGoesOn
  PROVE  Sampled
<1>1. /\ pending = <<>> /\ scheduled = FALSE /\ inBurst = TRUE /\ Loud
      /\ buf.len + 1 < MaxCapture
      /\ UNCHANGED <<inBurst, preRoll, scheduled, centre, lock, pending>>
  BY DEF BurstGoesOn, Listening, CaptureInv
<1>2. AirIs /\ HoldsBursts(buf) /\ \A m \in buf.marks : Contained(m)
  BY <1>1 DEF CaptureInv
<1>3. PICK k \in Nat \ {0} : k <= Alike /\ buf' = Grow(buf, k) /\ AirMoves(k)
  <2>1. Alike \in Nat /\ Alike >= 1 /\ buf.len \in Nat
    BY <1>2, AirNumbers DEF HoldsBursts
  <2>2. /\ Least(Alike, MaxCapture - 1 - buf.len) \in Nat \ {0}
        /\ Least(Alike, MaxCapture - 1 - buf.len) <= Alike
    BY <1>1, <2>1 DEF Least, MaxCapture
  <2> QED BY <2>2 DEF BurstGoesOn
<1>4. AirIs' /\ HoldsBursts(buf') /\ \A m \in buf'.marks : Contained(m)'
  BY <1>1, <1>2, <1>3, AirMovesOn, GrowHolds, BurstIsContained
<1>5. CaptureInv'
  BY <1>1, <1>4 DEF CaptureInv
<1> QED BY <1>1, <1>5, OnlyCaptures DEF Sampled

\* A capture the quiet ended holds its bursts whole.
LEMMA BurstEndsSampled ==
  ASSUME WholeBursts, CaptureInv, LockInv, BurstEnds
  PROVE  Sampled
<1>1. /\ pending = <<>> /\ scheduled = FALSE /\ inBurst = TRUE /\ ~Loud
      /\ SelectFree(buf, 0 - buf.len, FALSE)
      /\ buf' = Empty /\ inBurst' = FALSE /\ preRoll' = 1 /\ AirMoves(1)
  BY DEF BurstEnds, Listening, CaptureInv
<1>2. AirIs /\ HoldsBursts(buf) /\ \A m \in buf.marks : Contained(m)
  BY <1>1 DEF CaptureInv
<1>3. ASSUME NEW m \in Found(buf, FALSE) PROVE m.at + BurstLen <= buf.len
  <2>1. m \in buf.marks /\ m.kind \in Synced
    BY DEF Found
  <2>2. m.at \in Nat /\ m.loud \in Nat /\ m.loud >= BurstLen /\ buf.len \in Nat
    BY <1>2, <2>1 DEF HoldsBursts
  <2>3. tx.pos >= tx.on.loud /\ tx.pos \in Nat /\ tx.on.loud \in Nat
    BY <1>1, <1>2, AirNumbers DEF Loud
  <2>4. \/ m.at + m.loud <= buf.len
        \/ m.at + tx.pos = buf.len /\ m.loud = tx.on.loud
    BY <1>2, <2>1 DEF Contained
  <2> QED BY <2>2, <2>3, <2>4 DEF BurstLen
<1>4. Handed /\ LockInv' /\ scheduled' \in BOOLEAN
  BY <1>1, <1>2, <1>3, SelectFreeHands
<1>5. CaptureInv'
  BY <1>1, <1>2, <1>4, AirMovesOn, EmptyHolds DEF CaptureInv
<1> QED BY <1>1, <1>4, <1>5 DEF Sampled

LEMMA BurstTooLongSampled ==
  ASSUME WholeBursts, CaptureInv, LockInv, BurstTooLong
  PROVE  Sampled
<1> DEFINE b == Grow(buf, 1)
<1>1. /\ pending = <<>> /\ scheduled = FALSE /\ SelectFree(b, 0 - buf.len, TRUE)
      /\ buf' = Empty /\ inBurst' = FALSE /\ preRoll' = 0 /\ AirMoves(1)
  BY DEF BurstTooLong, Listening, CaptureInv
<1>2. AirIs /\ HoldsBursts(b)
  BY GrowHolds DEF CaptureInv
<1> HIDE DEF b
<1>3. \A m \in Found(b, TRUE) : m.at + BurstLen <= b.len
  BY DEF Found
<1>4. Handed /\ LockInv' /\ scheduled' \in BOOLEAN
  BY <1>1, <1>2, <1>3, SelectFreeHands
<1>5. CaptureInv'
  BY <1>1, <1>2, <1>4, AirMovesOn, EmptyHolds DEF CaptureInv
<1> QED BY <1>1, <1>4, <1>5 DEF Sampled

LEMMA BeforeWindowSampled ==
  ASSUME ClockInv, CaptureInv, LockInv, BeforeWindow
  PROVE  Sampled
<1>1. /\ pending = <<>> /\ scheduled = TRUE /\ centre > Lead
      /\ UNCHANGED <<buf, inBurst, preRoll, scheduled, lock, pending>>
  BY DEF BeforeWindow, Waiting, CaptureInv
<1>2. AirIs /\ inBurst = FALSE /\ centre \in Int
  BY <1>1 DEF CaptureInv, ClockInv, ClockType
<1>3. PICK k \in Nat : AirMoves(k)
  <2>1. Alike \in Nat
    BY <1>2, AirNumbers
  <2>2. Least(Alike, centre - Lead) \in Nat
    BY <1>1, <1>2, <2>1 DEF Least, Lead
  <2> QED BY <2>2 DEF BeforeWindow
<1>4. AirIs'
  BY <1>2, <1>3, AirMovesOn
<1>5. CaptureInv'
  BY <1>1, <1>2, <1>4 DEF CaptureInv, HoldsBursts
<1> QED BY <1>1, <1>5, OnlyCaptures DEF Sampled

LEMMA InWindowSampled ==
  ASSUME WholeBursts, ClockInv, CaptureInv, LockInv, InWindow
  PROVE  Sampled
<1>1. /\ pending = <<>> /\ scheduled = TRUE /\ centre > WindowLast
      /\ UNCHANGED <<inBurst, preRoll, scheduled, lock, pending>>
  BY DEF InWindow, Waiting, CaptureInv
<1>2. AirIs /\ HoldsBursts(buf) /\ inBurst = FALSE /\ centre \in Int
  BY <1>1 DEF CaptureInv, ClockInv, ClockType
<1>3. PICK k \in Nat \ {0} : buf' = Grow(buf, k) /\ AirMoves(k)
  <2>1. Alike \in Nat /\ Alike >= 1
    BY <1>2, AirNumbers
  <2>2. Least(Alike, centre - WindowLast) \in Nat \ {0}
    BY <1>1, <1>2, <2>1, WindowLastIs DEF Least
  <2> QED BY <2>2 DEF InWindow
<1>4. AirIs' /\ HoldsBursts(buf')
  BY <1>2, <1>3, AirMovesOn, GrowHolds
<1>5. CaptureInv'
  BY <1>1, <1>2, <1>4 DEF CaptureInv
<1> QED BY <1>1, <1>5, OnlyCaptures DEF Sampled

LEMMA WindowClosesSampled ==
  ASSUME WholeBursts, CaptureInv, LockInv, WindowCloses
  PROVE  Sampled
<1>1. AirIs /\ AirMoves(1) /\ buf' = Empty /\ scheduled = TRUE /\ preRoll \in Nat
  BY DEF WindowCloses, Waiting, CaptureInv
<1>2. /\ Handed /\ LockInv' /\ scheduled' \in BOOLEAN /\ pending = <<>>
      /\ inBurst' \in {inBurst, FALSE} /\ preRoll' \in {preRoll, 0}
  BY WindowHands
<1>3. inBurst' = FALSE /\ preRoll' \in Nat
  <2>1. inBurst = FALSE
    BY <1>1 DEF CaptureInv
  <2>2. inBurst' = FALSE
    BY <1>2, <2>1, Zenon
  <2>3. preRoll' \in Nat
    BY <1>1, <1>2
  <2> QED BY <2>2, <2>3
<1>4. AirIs' /\ HoldsBursts(buf')
  BY <1>1, AirMovesOn, EmptyHolds
<1>5. CaptureInv'
  BY <1>2, <1>3, <1>4 DEF CaptureInv
<1> QED BY <1>2, <1>5 DEF Sampled

LEMMA SampleSampled ==
  ASSUME WholeBursts, ClockInv, CaptureInv, LockInv, Sample
  PROVE  Sampled
  BY RestSampled, BurstBeginsSampled, BurstGoesOnSampled, BurstEndsSampled,
     BurstTooLongSampled, BeforeWindowSampled, InWindowSampled, WindowClosesSampled
  DEF Sample

-----------------------------------------------------------------------------
(* The blocks handed on *)

LEMMA HeardIs ==
  ASSUME BlocksInv
  PROVE  /\ pending \in Seq(Kinds) /\ Heard \in Seq(Kinds)
         /\ pending = <<>> => Heard = stream
<1>1. stream \in Seq(Kinds) /\ (pending = <<>> \/ \E c \in Kinds : pending = <<c>>)
  BY DEF BlocksInv
<1>2. pending \in Seq(Kinds)
  <2>1. CASE pending = <<>>
    BY <2>1
  <2>2. ASSUME NEW c \in Kinds, pending = <<c>> PROVE pending \in Seq(Kinds)
    BY <2>2
  <2> QED BY <1>1, <2>1, <2>2
<1> QED BY <1>1, <1>2, ConcatProperties, ConcatEmptySeq DEF Heard

LEMMA HearsHeaders ==
  ASSUME HeaderInv, Sampled, Hears
  PROVE  HeaderInv'
<1>1. /\ stream' = stream /\ sinceSync' = sinceSync /\ pending = <<>>
      /\ owed' = owed + (IF pending' = <<"header">> THEN 1 ELSE 0)
  BY DEF Hears, Sampled
<1>2. Heard = stream /\ stream \in Seq(Kinds) /\ sinceSync \in Nat
  BY <1>1, HeardIs DEF HeaderInv, BlocksInv
<1>3. RunsAreShort(stream, sinceSync, lock.missed) /\ owed = Cardinality(Headers(stream))
  BY <1>2 DEF HeaderInv, BlocksInv, CountInv
<1>4. lock.missed \in 0..MissLimit /\ lock'.missed \in 0..MissLimit
  BY DEF HeaderInv, Sampled, LockInv
<1>5. Cardinality(Headers(stream)) \in Nat
  BY <1>2, HeadersAreFinite
<1>6. CASE pending' = <<>> /\ lock'.missed >= lock.missed
  <2>1. Heard' = stream
    BY <1>1, <1>2, <1>6, ConcatEmptySeq DEF Heard
  <2>2. RunsAreShort(stream, sinceSync, lock'.missed)
    <3>1. lock.missed \in Nat /\ lock'.missed \in Nat
      BY <1>4 DEF MissLimit
    <3> QED BY <1>2, <1>3, <1>6, <3>1, MoreMissed
  <2>3. <<>> # <<"header">>
    OBVIOUS
  <2>4. owed' = owed
    BY <1>1, <1>3, <1>5, <1>6, <2>3
  <2>5. BlocksInv'
    BY <1>1, <1>2, <1>6, <2>1, <2>2 DEF BlocksInv
  <2>6. CountInv'
    BY <1>3, <2>1, <2>4 DEF CountInv
  <2> QED BY <2>5, <2>6 DEF HeaderInv, Sampled
<1>7. ASSUME NEW c \in Kinds, pending' = <<c>>,
             RunsAreShort(stream \o <<c>>, sinceSync, lock'.missed)
      PROVE  HeaderInv'
  <2>1. Heard' = stream \o <<c>>
    BY <1>1, <1>7 DEF Heard
  <2>2. <<c>> = <<"header">> <=> c = "header"
    OBVIOUS
  <2>3. owed' = owed + (IF c = "header" THEN 1 ELSE 0)
    BY <1>1, <1>7, <2>2, Zenon
  <2>4. BlocksInv'
    BY <1>1, <1>2, <1>7, <2>1 DEF BlocksInv
  <2>5. CountInv'
    BY <1>2, <1>3, <2>1, <2>3, HeadersAppended, Zenon DEF CountInv
  <2> QED BY <2>4, <2>5 DEF HeaderInv, Sampled
<1>8. ASSUME NEW c \in Kinds, pending' = <<c>>, lock'.missed >= lock.missed + 1
      PROVE  HeaderInv'
  <2>1. RunsAreShort(stream \o <<c>>, sinceSync, lock'.missed)
    BY <1>2, <1>3, <1>4, <1>8, BareAppended
  <2> QED BY <1>7, <1>8, <2>1
<1>9. ASSUME NEW c \in Synced, pending' = <<c>>, lock'.missed = 0
      PROVE  HeaderInv'
  <2>1. RunsAreShort(stream \o <<c>>, sinceSync, 0) /\ c \in Kinds
    BY <1>2, <1>3, <1>4, SyncedAppended DEF Kinds
  <2> QED BY <1>7, <1>9, <2>1
<1> QED BY <1>6, <1>8, <1>9 DEF Sampled, Handed

\* The alignment and the captures without a step of the sampler.
LEMMA SamplerRests ==
  ASSUME CaptureInv, LockInv,
         UNCHANGED <<tx, buf, inBurst, preRoll, scheduled, lock>>
  PROVE  CaptureInv' /\ LockInv'
<1>1. LockInv'
  BY DEF LockInv
<1>2. AirIs' /\ HoldsBursts(buf') /\ preRoll' \in Nat
  BY DEF CaptureInv, AirIs
<1>3. inBurst' \in BOOLEAN /\ scheduled' \in BOOLEAN
  BY DEF CaptureInv
<1>4. inBurst' => ~scheduled' /\ \A m \in buf'.marks : Contained(m)'
  BY DEF CaptureInv, Contained
<1> QED BY <1>1, <1>2, <1>3, <1>4 DEF CaptureInv

LEMMA DrainHeaders ==
  ASSUME HeaderInv, Drain
  PROVE  HeaderInv'
<1>1. /\ stream' = Heard /\ pending' = <<>>
      /\ UNCHANGED <<tx, buf, inBurst, preRoll, scheduled, lock, sinceSync, owed>>
  BY DEF Drain, Heard
<1>2. Heard \in Seq(Kinds)
  BY HeardIs DEF HeaderInv
<1>3. Heard' = Heard
  BY <1>1, <1>2, ConcatEmptySeq DEF Heard
<1>4. CaptureInv' /\ LockInv'
  BY <1>1, SamplerRests DEF HeaderInv
<1>5. BlocksInv'
  BY <1>1, <1>2, <1>3 DEF HeaderInv, BlocksInv
<1>6. CountInv'
  BY <1>1, <1>3 DEF HeaderInv, CountInv
<1> QED BY <1>4, <1>5, <1>6 DEF HeaderInv

-----------------------------------------------------------------------------
(* The blocks decoded *)

\* Whether frames tell of a header with its link control.
Tells(fs) == \E i \in DOMAIN fs : fs[i].type = "HEADER" /\ fs[i].lc

\* A voice frame due in a block tells of none, so what a block tells is its own.
LEMMA BlockTells ==
  ASSUME NEW to, NEW f
  PROVE  /\ ~Tells(Collected(to))
         /\ Tells(Append(Collected(to), f)) <=> (f.type = "HEADER" /\ f.lc)
<1>1. CASE Collected(to) = <<>>
  <2>1. Append(Collected(to), f) = <<f>>
    BY <1>1
  <2> QED BY <1>1, <2>1 DEF Tells
<1>2. CASE Collected(to) = <<Frame("VOICE", FALSE, FALSE, slot)>>
  <2> DEFINE v == Frame("VOICE", FALSE, FALSE, slot)
             t == Append(<<v>>, f)
  <2>1. v.type # "HEADER"
    BY DEF Frame
  <2>2. Collected(to) = <<v>>
    BY <1>2
  <2> HIDE DEF v
  <2>3. <<v>> \in Seq({v, f}) /\ Len(<<v>>) = 1 /\ <<v>>[1] = v
    OBVIOUS
  <2>4. t \in Seq({v, f}) /\ Len(t) = 2 /\ t[1] = v /\ t[2] = f
    BY <2>3, AppendProperties
  <2>5. DOMAIN t = 1..2
    BY <2>4, LenProperties
  <2> HIDE DEF t
  <2>6. Tells(t) <=> (f.type = "HEADER" /\ f.lc)
    <3>1. \A i : i \in 1..2 <=> i = 1 \/ i = 2
      OBVIOUS
    <3> QED BY <2>1, <2>4, <2>5, <3>1, Zenon DEF Tells
  <2>7. ~Tells(<<v>>)
    BY <2>1 DEF Tells
  <2> QED BY <2>2, <2>6, <2>7 DEF t
<1> QED BY <1>1, <1>2 DEF Collected

LEMMA PublishedIs ==
  ASSUME NEW type, NEW p
  PROVE  Published(type, p).type = type /\ Published(type, p).lc = p.lc
  BY DEF Published, Frame

\* Damaged bits are never taken for a header's link control.
LEMMA DamagedTellsNothing ==
  ASSUME NEW f \in Damaged
  PROVE  ~(f.type = "HEADER" /\ f.lc)
<1> DEFINE of(d) == Payload(d.type, d.bptc, FALSE, d.errors, d.addressed)
<1>1. PICK d \in Damages : f = Published(d.type, of(d))
  BY DEF Damaged
<1>2. d.type = "HEADER" => of(d).lc = FALSE
  BY DEF Payload
<1> HIDE DEF of
<1>3. f.type = d.type /\ f.lc = of(d).lc
  BY <1>1, PublishedIs, Zenon
<1> QED BY <1>2, <1>3

\* What a block leaves behind.
LEMMA DecodeEffect ==
  ASSUME HeaderInv, MissLimit < SilenceBlocks, Decode
  PROVE  /\ stream # <<>> /\ sinceSync' \in Nat
         /\ sinceSync' = 0 \/ (sinceSync' = sinceSync + 1 /\ stream[1] \notin Synced)
         /\ Tells(frames') <=> stream[1] = "header"
<1>1. stream # <<>> /\ stream \in Seq(Kinds) /\ sinceSync \in Nat
  BY DEF Decode, PlainBlock, VoiceBlock, HeaderBlock, DamagedBlock, NextBlock,
     HeaderInv, BlocksInv
<1>2. Head(stream) = stream[1]
  BY <1>1, TailIs
<1>3. ~Silent
  <2>1. Heard \in Seq(Kinds) /\ Heard # <<>>
    <3>1. pending \in Seq(Kinds) /\ Heard \in Seq(Kinds)
      BY HeardIs DEF HeaderInv
    <3> QED BY <1>1, <3>1, ConcatEqualIffEmpty DEF Heard
  <2>2. sinceSync <= MissLimit
    BY <1>1, <2>1, DecodedRunIsShort DEF HeaderInv, BlocksInv
  <2> QED BY <1>1, <2>2, DecoderAssumption DEF Silent, MissLimit
<1>4. CASE PlainBlock
  <2>1. stream[1] \in {"plain", "garbage"}
    BY <1>2, <1>3, <1>4 DEF PlainBlock, NextBlock
  <2>2. sinceSync' = sinceSync + 1
    BY <1>3, <1>4 DEF PlainBlock, Unsynchronised
  <2>3. stream[1] \notin Synced /\ stream[1] # "header"
    BY <2>1 DEF Synced
  <2>4. ~Tells(frames')
    BY <1>4, BlockTells DEF PlainBlock
  <2> QED BY <1>1, <2>2, <2>3, <2>4
<1>5. CASE VoiceBlock
  <2>1. stream[1] = "voice" /\ sinceSync' = 0
    BY <1>2, <1>5 DEF VoiceBlock, NextBlock, Synchronised
  <2>2. ~Tells(frames')
    <3>1. frames' = Append(Collected(SyncEnd), Frame("VOICE_A", FALSE, FALSE, SlotNow))
      BY <1>5 DEF VoiceBlock
    <3>2. Frame("VOICE_A", FALSE, FALSE, SlotNow).type # "HEADER"
      BY DEF Frame
    <3> QED BY <3>1, <3>2, BlockTells
  <2> QED BY <1>1, <2>1, <2>2
<1>6. CASE HeaderBlock
  <2>1. stream[1] = "header" /\ sinceSync' = 0
    BY <1>2, <1>6 DEF HeaderBlock, NextBlock, Synchronised
  <2>2. Tells(frames')
    <3> DEFINE p == Payload("HEADER", TRUE, TRUE, 0, FALSE)
    <3>1. frames' = Append(Collected(BlockSymbols), Published("HEADER", p))
      BY <1>6 DEF HeaderBlock
    <3>2. p.lc = TRUE
      BY DEF Payload
    <3> HIDE DEF p
    <3>3. Published("HEADER", p).type = "HEADER" /\ Published("HEADER", p).lc
      BY <3>2, PublishedIs
    <3> QED BY <3>1, <3>3, BlockTells
  <2> QED BY <1>1, <2>1, <2>2
<1>7. CASE DamagedBlock
  <2>1. stream[1] = "weak" /\ sinceSync' = 0
    BY <1>2, <1>3, <1>7 DEF DamagedBlock, NextBlock, Synchronised
  <2>2. ~Tells(frames')
    BY <1>7, BlockTells, DamagedTellsNothing DEF DamagedBlock
  <2> QED BY <1>1, <2>1, <2>2
<1> QED BY <1>4, <1>5, <1>6, <1>7 DEF Decode

LEMMA TailHeard ==
  ASSUME NEW s \in Seq(Kinds), s # <<>>, NEW p \in Seq(Kinds)
  PROVE  /\ s \o p \in Seq(Kinds) /\ s \o p # <<>>
         /\ (s \o p)[1] = s[1] /\ Tail(s \o p) = Tail(s) \o p
<1> DEFINE h == s \o p
           l == Tail(s) \o p
<1>1. /\ Len(s) \in Nat /\ Len(s) >= 1 /\ Len(p) \in Nat /\ Tail(s) \in Seq(Kinds)
      /\ Len(Tail(s)) = Len(s) - 1 /\ \A i \in 1..(Len(s) - 1) : Tail(s)[i] = s[i + 1]
  BY TailIs, LenProperties
<1>2. /\ h \in Seq(Kinds) /\ Len(h) = Len(s) + Len(p)
      /\ \A i \in 1..(Len(s) + Len(p)) : h[i] = IF i <= Len(s) THEN s[i] ELSE p[i - Len(s)]
  BY ConcatProperties
<1>3. /\ l \in Seq(Kinds) /\ Len(l) = (Len(s) - 1) + Len(p)
      /\ \A i \in 1..((Len(s) - 1) + Len(p)) :
           l[i] = IF i <= Len(s) - 1 THEN Tail(s)[i] ELSE p[i - (Len(s) - 1)]
  BY <1>1, ConcatProperties
<1> HIDE DEF h, l
<1>4. h # <<>>
  BY <1>1, <1>2
<1>5. h[1] = s[1]
  BY <1>1, <1>2
<1>6. /\ Tail(h) \in Seq(Kinds) /\ Len(Tail(h)) = Len(h) - 1
      /\ \A i \in 1..(Len(h) - 1) : Tail(h)[i] = h[i + 1]
  BY <1>2, <1>4, TailIs
<1>7. ASSUME NEW i \in 1..Len(l) PROVE Tail(h)[i] = l[i]
  <2>1. i \in 1..(Len(h) - 1) /\ i + 1 \in 1..(Len(s) + Len(p))
    BY <1>1, <1>2, <1>3
  <2>2. Tail(h)[i] = h[i + 1]
    BY <1>6, <2>1
  <2>3. CASE i <= Len(s) - 1
    <3>1. h[i + 1] = s[i + 1] /\ l[i] = Tail(s)[i] /\ i \in 1..(Len(s) - 1)
      BY <1>1, <1>2, <1>3, <2>1, <2>3
    <3> QED BY <1>1, <2>2, <3>1
  <2>4. CASE ~(i <= Len(s) - 1)
    <3>1. ~(i + 1 <= Len(s)) /\ (i + 1) - Len(s) = i - (Len(s) - 1)
      BY <1>1, <2>4
    <3>2. h[i + 1] = p[(i + 1) - Len(s)] /\ l[i] = p[i - (Len(s) - 1)]
      BY <1>1, <1>2, <1>3, <2>1, <2>4, <3>1
    <3> QED BY <2>2, <3>1, <3>2
  <2> QED BY <2>3, <2>4
<1>8. Len(Tail(h)) = Len(l)
  BY <1>1, <1>2, <1>3, <1>6
<1>9. Tail(h) = l
  BY <1>3, <1>6, <1>7, <1>8, SeqEqual
<1> QED BY <1>2, <1>4, <1>5, <1>9 DEF h, l

LEMMA DecodesHeaders ==
  ASSUME HeaderInv, MissLimit < SilenceBlocks, Decodes
  PROVE  HeaderInv'
<1>1. /\ Decode /\ stream' = Tail(stream)
      /\ UNCHANGED <<tx, buf, inBurst, preRoll, scheduled, lock, pending>>
      /\ owed' = owed - (IF Tells(frames') THEN 1 ELSE 0)
  BY DEF Decodes, Decode, samplerVars, Tells
<1>2. /\ stream # <<>> /\ sinceSync' \in Nat
      /\ sinceSync' = 0 \/ (sinceSync' = sinceSync + 1 /\ stream[1] \notin Synced)
      /\ Tells(frames') <=> stream[1] = "header"
  BY <1>1, DecodeEffect
<1>3. stream \in Seq(Kinds) /\ pending \in Seq(Kinds) /\ sinceSync \in Nat
  BY HeardIs DEF HeaderInv, BlocksInv
<1>4. /\ Heard \in Seq(Kinds) /\ Heard # <<>> /\ Heard[1] = stream[1]
      /\ Heard' = Tail(Heard)
  BY <1>1, <1>2, <1>3, TailHeard DEF Heard
<1>5. lock.missed \in Nat
  BY DEF HeaderInv, LockInv, MissLimit
<1>6. RunsAreShort(Heard', sinceSync', lock.missed)
  BY <1>2, <1>3, <1>4, <1>5, RunsDecoded DEF HeaderInv, BlocksInv
<1>7. stream' \in Seq(Kinds)
  BY <1>1, <1>2, <1>3, TailIs
<1>8. BlocksInv'
  BY <1>1, <1>2, <1>6, <1>7 DEF HeaderInv, BlocksInv
<1>9. CountInv'
  <2>1. Cardinality(Headers(Heard)') =
          Cardinality(Headers(Heard)) - (IF stream[1] = "header" THEN 1 ELSE 0)
    BY <1>4, HeadersDecoded DEF Headers
  <2> QED BY <1>1, <1>2, <2>1 DEF HeaderInv, CountInv
<1>10. CaptureInv' /\ LockInv'
  BY <1>1, SamplerRests DEF HeaderInv
<1> QED BY <1>8, <1>9, <1>10 DEF HeaderInv

-----------------------------------------------------------------------------
LEMMA InitHeaders == Init => HeaderInv
<1> SUFFICES ASSUME Init PROVE HeaderInv
  OBVIOUS
<1> USE DEF Init, SamplerInit, DecoderInit
<1>1. CaptureInv
  <2>1. tx \in [on : Transmissions, pos : Nat] /\ tx.pos = 0 /\ tx.on \in Transmissions
    OBVIOUS
  <2>2. tx.on.total \in Nat \ {0}
    BY <2>1, TransmissionsAssumption
  <2>3. AirIs
    BY <2>1, <2>2 DEF AirIs
  <2>4. preRoll \in Nat /\ inBurst = FALSE /\ scheduled = FALSE /\ HoldsBursts(buf)
    BY EmptyHolds
  <2> QED BY <2>3, <2>4, Zenon DEF CaptureInv
<1>2. LockInv
  <2>1. lock = [held |-> FALSE, at |-> 0, missed |-> 0] /\ scheduled = FALSE
    OBVIOUS
  <2>2. lock \in [held : BOOLEAN, at : Int, missed : 0..MissLimit]
    BY <2>1 DEF MissLimit
  <2>3. lock.held = FALSE
    BY <2>1
  <2> QED BY <2>1, <2>2, <2>3 DEF LockInv
<1>3. Heard = <<>>
  BY DEF Heard
<1>4. BlocksInv
  BY <1>3 DEF BlocksInv, RunsAreShort
<1>5. CountInv
  <2>1. Headers(Heard) = {}
    BY <1>3 DEF Headers
  <2> QED BY <2>1, FS_EmptySet DEF CountInv
<1> QED BY <1>1, <1>2, <1>4, <1>5 DEF HeaderInv

LEMMA HeaderStep ==
  ASSUME WholeBursts, MissLimit < SilenceBlocks, ClockInv, HeaderInv, [Next]_vars
  PROVE  HeaderInv'
<1>1. CASE Hears
  BY <1>1, SampleSampled, HearsHeaders DEF Hears, HeaderInv
<1>2. CASE Drain
  BY <1>2, DrainHeaders
<1>3. CASE Decodes
  BY <1>3, DecodesHeaders
<1>4. CASE UNCHANGED vars
  <2>1. UNCHANGED <<tx, buf, inBurst, preRoll, scheduled, lock, pending, stream,
                    sinceSync, owed>>
    BY <1>4 DEF vars, samplerVars, decoderVars
  <2>2. Heard' = Heard
    BY <2>1 DEF Heard
  <2> QED BY <2>1, <2>2, SamplerRests DEF HeaderInv, BlocksInv, CountInv
<1> QED BY <1>1, <1>2, <1>3, <1>4 DEF Next

\* While bursts with a sync pattern come whole, and the decoder is silent for more blocks
\* before its reset than the sampler misses windows before it lets go, every header the
\* relay was given as a burst is decoded, once (process_scheduled_burst, reset after silence
\* in frame_decoder_impl).
THEOREM HeadersComeThrough ==
  ASSUME WholeBursts, MissLimit < SilenceBlocks
  PROVE  Spec => []HeadersAreDecoded
<1>1. Init => HeaderInv /\ ClockInv
  BY InitHeaders, InitClock
<1>2. HeaderInv /\ ClockInv /\ [Next]_vars => HeaderInv' /\ ClockInv'
  BY HeaderStep, ClockStep
<1>3. HeaderInv => HeadersAreDecoded
  BY DEF HeaderInv, CountInv, HeadersAreDecoded
<1> QED BY <1>1, <1>2, <1>3, PTL DEF Spec
=============================================================================
