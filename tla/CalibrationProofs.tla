------------------------ MODULE CalibrationProofs ------------------------
(***************************************************************************)
(* Calibration, for any bands, gains, receivers, waits and ways time       *)
(* passes: a point taken from windows that were measured late enough is    *)
(* the level of its own input, and what is heard at a curve's own gain is  *)
(* read as what it is.                                                     *)
(*                                                                         *)
(* Late in a wait nothing from before it is held.  Above the squelch a     *)
(* report then follows the one before it a fifth of the way to what is     *)
(* received, or is what is received; below the squelch it always is.  Ten  *)
(* such reports within 0.8 dB have arrived.                                *)
(***************************************************************************)
EXTENDS Calibration, TLAPS, SequenceTheorems, WellFoundedInduction, NaturalsInduction

Reports == [gain : Gains, dbfs : Int, age : Nat, window : BOOLEAN]
Point == [dbfs : Int, attended : BOOLEAN]
Session == [open : {TRUE}, band : Bands, before : Gains, points : Seq(Point)]

\* The report after one of the level x, when t is received.
NextTo(t, x) == x + (t - x) \div 5
Follows(t, x, y) == y = NextTo(t, x) \/ y = t

\* Of a window measured in the last part, of the length part, of a wait.
Late(report, part) == report.window /\ report.age < part
LateChain(t, reports, part) ==
  \A i \in 1..(Len(reports) - 1) :
    Late(reports[i], part) /\ Late(reports[i + 1], part)
      => Follows(t, reports[i].dbfs, reports[i + 1].dbfs)

\* How much of a wait is over in which nothing from before it is held.
LatePart == Wait - wait - hold

Lag(b, points, i) == Heard[BandGain[b]][Inputs[b][i]] - points[i].dbfs

\* Attended points lag behind their levels by what a fifth of cannot be told.
Lags(points, b) ==
  /\ Len(points) <= Len(Inputs[b])
  /\ \A i \in 1..Len(points) : points[i].attended => Lag(b, points, i) \in 0..4

CalTypes ==
  /\ level \in Levels /\ gain \in Gains /\ hold \in Nat
  /\ raw \in Int /\ active \in Int /\ quiet \in 0..hold
  /\ history \in Seq(Reports) /\ Len(history) <= Samples
  /\ session \in {NoSession} \cup Session
  /\ wait \in (0..Wait) \cup {NoWait}
  /\ curves \in [Bands -> Seq(Point)]

\* Below the squelch nothing is held longer in a wait than the hold; late reports
\* follow one another, and above the squelch the next follows the last of them.
WaitInv == wait # NoWait =>
  /\ session.open /\ NextInput <= Len(Inputs[Band])
  /\ level = Inputs[Band][NextInput]
  /\ Received < Squelch => quiet >= hold \/ quiet + wait >= Wait
  /\ LateChain(Received, history, LatePart)
  /\ history # <<>> /\ Late(Last(history), LatePart) /\ Received >= Squelch =>
       Last(history).dbfs = active

SessionInv == session.open => gain = BandGain[Band] /\ Lags(session.points, Band)

CurvesInv == \A b \in Bands : Lags(curves[b], b) /\ Len(curves[b]) \in {0, Len(Inputs[b])}

CalInv == CalTypes /\ WaitInv /\ SessionInv /\ CurvesInv

-----------------------------------------------------------------------------
(* Numbers *)

LEMMA InputsAre ==
  ASSUME NEW b \in Bands
  PROVE  /\ Inputs[b] \in Seq(Int) /\ Len(Inputs[b]) \in Nat /\ Len(Inputs[b]) > 1
         /\ BandGain[b] \in Gains /\ BandGain[b] \in Int
<1>1. b \in 1..Len(Inputs)
  BY BandsAssumption, LenProperties DEF Bands
<1>2. Inputs[b] \in Seq(Int)
  BY <1>1, BandsAssumption, ElementOfSeq
<1> QED BY <1>2, BandsAssumption, LenProperties DEF Gains

LEMMA LevelsAre ==
  /\ \A b \in Bands : \A i \in 1..Len(Inputs[b]) : Inputs[b][i] \in Levels
  /\ Levels \subseteq Int
<1>1. ASSUME NEW b \in Bands, NEW i \in 1..Len(Inputs[b])
      PROVE  Inputs[b][i] \in Levels
  <2>1. i \in DOMAIN Inputs[b]
    BY BandsAssumption, LenProperties
  <2> QED BY <2>1 DEF Levels, Range
<1>2. ASSUME NEW l \in Levels PROVE l \in Int
  <2>1. PICK b \in Bands : l \in Range(Inputs[b])
    BY DEF Levels
  <2>2. PICK i \in DOMAIN Inputs[b] : l = Inputs[b][i]
    BY <2>1 DEF Range
  <2>3. Inputs[b] \in Seq(Int) /\ i \in 1..Len(Inputs[b])
    BY <2>2, InputsAre, LenProperties
  <2> QED BY <2>2, <2>3, ElementOfSeq
<1> QED BY <1>1, <1>2

LEMMA HeardIs ==
  /\ \A g \in Gains, l \in Levels : Heard[g][l] \in Int
  /\ CalTypes => Received \in Int
<1>1. \A g \in Gains, l \in Levels : Heard[g][l] \in Int
  BY BandsAssumption
<1> QED BY <1>1 DEF CalTypes, Received

\* The way to the target is a fifth shorter after each report.
LEMMA WayBack ==
  ASSUME NEW t \in Int, NEW x \in Int, NEW y \in Int, y = NextTo(t, x)
  PROVE  /\ t - y >= 5 => t - x >= 6 /\ y - x >= 1
         /\ t - y >= 9 => t - x >= 11 /\ y - x >= 2
         /\ t - y <= -1 => t - x <= -2 /\ x - y >= 1
         /\ t - y <= -5 => t - x <= -7 /\ x - y >= 2
         /\ t - y >= 37 => y - x >= 9
         /\ t - y <= -33 => x - y >= 9
<1>1. y - x = (t - x) \div 5
  BY DEF NextTo
<1>2. PICK e \in Int : e = t - x
  OBVIOUS
<1>3. t - y = e - (e \div 5) /\ y - x = e \div 5
  BY <1>1, <1>2
<1> QED BY <1>2, <1>3

\* More of the way back while the reports are close: one step further.
LEMMA FartherBack ==
  ASSUME NEW t \in Int, NEW x \in Int, NEW y \in Int, y = NextTo(t, x), NEW n \in Nat
  PROVE  /\ t - y >= 5 + n => t - x >= 6 + n
         /\ t - y <= -1 - n => t - x <= -2 - n
<1>1. PICK e \in Int : e = t - x
  OBVIOUS
<1>2. t - y = e - (e \div 5)
  BY <1>1 DEF NextTo
<1> QED BY <1>1, <1>2

\* Of eight reports in a row within the span, the last has arrived.
LEMMA EightHaveArrived ==
  ASSUME NEW t \in Int,
         NEW a \in Int, NEW b \in Int, NEW c \in Int, NEW d \in Int,
         NEW e \in Int, NEW f \in Int, NEW g \in Int, NEW z \in Int,
         b = NextTo(t, a), c = NextTo(t, b), d = NextTo(t, c), e = NextTo(t, d),
         f = NextTo(t, e), g = NextTo(t, f), z = NextTo(t, g),
         z - a <= 8, a - z <= 8
  PROVE  t - z \in 0..4
<1>1. ASSUME t - z >= 5 PROVE FALSE
  <2>1. t - g >= 6 /\ z - g >= 1
    BY <1>1, WayBack
  <2>2. t - f >= 7 /\ g - f >= 1
    BY <2>1, WayBack, FartherBack, 1 \in Nat
  <2>3. t - e >= 8 /\ f - e >= 1
    BY <2>2, WayBack, FartherBack, 2 \in Nat
  <2>4. t - d >= 9 /\ e - d >= 1
    BY <2>3, WayBack, FartherBack, 3 \in Nat
  <2>5. t - c >= 9 /\ d - c >= 2
    BY <2>4, WayBack
  <2>6. t - b >= 9 /\ c - b >= 2
    BY <2>5, WayBack
  <2>7. b - a >= 2
    BY <2>6, WayBack
  <2> QED BY <2>1, <2>2, <2>3, <2>4, <2>5, <2>6, <2>7
<1>2. ASSUME t - z <= -1 PROVE FALSE
  <2>1. t - g <= -2 /\ g - z >= 1
    BY <1>2, WayBack
  <2>2. t - f <= -3 /\ f - g >= 1
    BY <2>1, WayBack, FartherBack, 1 \in Nat
  <2>3. t - e <= -4 /\ e - f >= 1
    BY <2>2, WayBack, FartherBack, 2 \in Nat
  <2>4. t - d <= -5 /\ d - e >= 1
    BY <2>3, WayBack, FartherBack, 3 \in Nat
  <2>5. t - c <= -7 /\ c - d >= 2
    BY <2>4, WayBack
  <2>6. t - b <= -7 /\ b - c >= 2
    BY <2>5, WayBack
  <2>7. a - b >= 2
    BY <2>6, WayBack
  <2> QED BY <2>1, <2>2, <2>3, <2>4, <2>5, <2>6, <2>7
<1> QED BY <1>1, <1>2

\* A report that has arrived is followed by such reports.
LEMMA Stays ==
  ASSUME NEW t \in Int, NEW y, Follows(t, t, y)
  PROVE  y = t
<1>1. NextTo(t, t) = t
  <2>1. (t - t) \div 5 = 0
    OBVIOUS
  <2> QED BY <2>1 DEF NextTo
<1> QED BY <1>1 DEF Follows

\* Ten reports within the span of a step, each following the one before, have
\* arrived.
LEMMA SteadyHasArrived ==
  ASSUME NEW t \in Int, NEW h \in Seq(Reports), Len(h) = Samples, Steady(h),
         \A i \in 1..9 : Follows(t, h[i].dbfs, h[i + 1].dbfs)
  PROVE  t - h[Samples].dbfs \in 0..4
<1> DEFINE x(i) == h[i].dbfs
<1>1. \A i \in 1..10 : x(i) \in Int
  <2> SUFFICES ASSUME NEW i \in 1..10 PROVE h[i].dbfs \in Int
    OBVIOUS
  <2>1. h[i] \in Reports
    BY ElementOfSeq DEF Samples
  <2> QED BY <2>1 DEF Reports
<1>2. \A i, j \in 1..10 : x(i) - x(j) <= 8
  <2> SUFFICES ASSUME NEW i \in 1..10, NEW j \in 1..10 PROVE x(i) - x(j) <= 8
    OBVIOUS
  <2>1. DOMAIN h = 1..10
    BY LenProperties DEF Samples
  <2>2. x(i) - x(j) <= MaxSpan
    BY <2>1 DEF Steady
  <2>3. MaxSpan \in Int /\ MaxSpan <= 8
    BY SpanAssumption
  <2> HIDE DEF x
  <2>4. x(i) \in Int /\ x(j) \in Int
    BY <1>1
  <2> QED BY <2>2, <2>3, <2>4
<1>3. \A i \in 1..9 : Follows(t, x(i), x(i + 1))
  OBVIOUS
<1> SUFFICES t - x(10) \in 0..4
  BY DEF Samples
<1> HIDE DEF x
<1>4. /\ Follows(t, x(3), x(4)) /\ Follows(t, x(4), x(5)) /\ Follows(t, x(5), x(6))
      /\ Follows(t, x(6), x(7)) /\ Follows(t, x(7), x(8)) /\ Follows(t, x(8), x(9))
      /\ Follows(t, x(9), x(10))
  BY <1>3
<1>5. \/ x(10) = t
      \/ /\ x(4) = NextTo(t, x(3)) /\ x(5) = NextTo(t, x(4)) /\ x(6) = NextTo(t, x(5))
         /\ x(7) = NextTo(t, x(6)) /\ x(8) = NextTo(t, x(7)) /\ x(9) = NextTo(t, x(8))
         /\ x(10) = NextTo(t, x(9))
  <2>1. /\ x(4) = t => x(5) = t
        /\ x(5) = t => x(6) = t
        /\ x(6) = t => x(7) = t
        /\ x(7) = t => x(8) = t
        /\ x(8) = t => x(9) = t
        /\ x(9) = t => x(10) = t
    BY <1>4, Stays
  <2> QED BY <1>4, <2>1 DEF Follows
<1>6. /\ x(3) \in Int /\ x(4) \in Int /\ x(5) \in Int /\ x(6) \in Int
      /\ x(7) \in Int /\ x(8) \in Int /\ x(9) \in Int /\ x(10) \in Int
  BY <1>1
<1>7. x(10) - x(3) <= 8 /\ x(3) - x(10) <= 8
  BY <1>2
<1>8. CASE x(10) = t
  BY <1>6, <1>8
<1>9. CASE x(10) # t
  BY <1>5, <1>6, <1>7, <1>9, EightHaveArrived
<1> QED BY <1>8, <1>9

-----------------------------------------------------------------------------
(* The history *)

LEMMA MinOfTwo ==
  ASSUME NEW a \in Int, NEW b \in Int
  PROVE  Min({a, b}) = IF a <= b THEN a ELSE b
<1>1. \A x \in {a, b} : (\A y \in {a, b} : x <= y) => x = IF a <= b THEN a ELSE b
  OBVIOUS
<1>2. \E x \in {a, b} : \A y \in {a, b} : x <= y
  <2>1. CASE a <= b
    BY <2>1
  <2>2. CASE b <= a
    BY <2>2
  <2> QED BY <2>1, <2>2
<1> QED BY <1>1, <1>2 DEF Min

LEMMA LateInMore ==
  ASSUME NEW r \in Reports, NEW part \in Int, NEW more \in Int, part <= more, Late(r, part)
  PROVE  Late(r, more)
<1>1. r.age \in Nat
  BY DEF Reports
<1> QED BY <1>1 DEF Late

\* Reports only grow older: one that is late was late before.
LEMMA OlderIs ==
  ASSUME NEW h \in Seq(Reports), NEW time \in Nat
  PROVE  LET o == Older(h, time)
         IN /\ o \in Seq(Reports) /\ Len(o) = Len(h)
            /\ \A i \in 1..Len(h) : o[i].dbfs = h[i].dbfs
            /\ \A i \in 1..Len(h) : \A part \in Int : part <= Wait =>
                 (Late(o[i], part) => Late(h[i], part - time))
<1> DEFINE aged(i) == [h[i] EXCEPT !.age = Min({@ + time, MaxAge + 1})]
<1>1. Len(h) \in Nat /\ DOMAIN h = 1..Len(h)
  BY LenProperties
<1>2. ASSUME NEW i \in 1..Len(h)
      PROVE  /\ aged(i) \in Reports /\ aged(i).dbfs = h[i].dbfs
             /\ \A part \in Int : part <= Wait =>
                  (Late(aged(i), part) => Late(h[i], part - time))
  <2>1. h[i] \in Reports /\ h[i].age \in Nat
    <3>1. h[i] \in Reports
      BY ElementOfSeq
    <3> QED BY <3>1 DEF Reports
  <2>2. MaxAge + 1 \in Nat /\ h[i].age + time \in Nat
    BY <2>1, TimeAssumption
  <2>3. Min({h[i].age + time, MaxAge + 1}) =
          IF h[i].age + time <= MaxAge + 1 THEN h[i].age + time ELSE MaxAge + 1
    BY <2>2, MinOfTwo
  <2>4. /\ aged(i) \in Reports /\ aged(i).dbfs = h[i].dbfs /\ aged(i).window = h[i].window
        /\ aged(i).age = IF h[i].age + time <= MaxAge + 1 THEN h[i].age + time ELSE MaxAge + 1
    BY <2>1, <2>2, <2>3 DEF Reports
  <2> HIDE DEF aged
  <2>5. ASSUME NEW part \in Int, part <= Wait, Late(aged(i), part)
        PROVE  Late(h[i], part - time)
    <3>1. aged(i).age < part /\ Wait <= MaxAge /\ Wait \in Nat /\ MaxAge \in Nat
      BY <2>5, TimeAssumption DEF Late
    <3>2. h[i].age < part - time
      BY <2>1, <2>4, <2>5, <3>1
    <3> QED BY <2>4, <2>5, <3>2 DEF Late
  <2> QED BY <2>4, <2>5
<1>3. Older(h, time) = [i \in 1..Len(h) |-> aged(i)]
  BY <1>1 DEF Older
<1> HIDE DEF aged
<1>4. Older(h, time) \in [1..Len(h) -> Reports]
  BY <1>2, <1>3
<1>5. Older(h, time) \in Seq(Reports) /\ Len(Older(h, time)) = Len(h)
  BY <1>1, <1>4
<1>6. \A i \in 1..Len(h) : Older(h, time)[i] = aged(i)
  BY <1>3
<1> QED BY <1>2, <1>5, <1>6

LEMMA LateChainOlder ==
  ASSUME NEW t, NEW h \in Seq(Reports), NEW time \in Nat, NEW part \in Int, part <= Wait,
         NEW before \in Int, part - time <= before, LateChain(t, h, before)
  PROVE  LateChain(t, Older(h, time), part)
<1> DEFINE o == Older(h, time)
<1>1. Len(h) \in Nat
  BY LenProperties
<1>2. Len(o) = Len(h)
  BY OlderIs
<1> SUFFICES ASSUME NEW i \in 1..(Len(h) - 1), Late(o[i], part), Late(o[i + 1], part)
             PROVE  Follows(t, o[i].dbfs, o[i + 1].dbfs)
  BY <1>2 DEF LateChain
<1>3. i \in 1..Len(h) /\ i + 1 \in 1..Len(h)
  BY <1>1
<1>4. Late(h[i], before) /\ Late(h[i + 1], before)
  <2> SUFFICES ASSUME NEW j \in 1..Len(h), Late(o[j], part) PROVE Late(h[j], before)
    BY <1>3
  <2>1. Late(h[j], part - time)
    BY OlderIs
  <2>2. h[j] \in Reports
    BY ElementOfSeq
  <2> QED BY <2>1, <2>2, LateInMore
<1>5. Follows(t, h[i].dbfs, h[i + 1].dbfs)
  BY <1>4 DEF LateChain
<1> QED BY <1>3, <1>5, OlderIs

\* A report is put behind those kept, the tenth before it dropped.
LEMMA KeptIs ==
  ASSUME NEW h \in Seq(Reports), Len(h) <= Samples, NEW r \in Reports
  PROVE  LET k == Kept(h \o <<r>>)
         IN /\ k \in Seq(Reports) /\ Len(k) <= Samples /\ k # <<>> /\ k[Len(k)] = r
            /\ \A t, part :
                 /\ LateChain(t, h, part)
                 /\ h # <<>> /\ Late(h[Len(h)], part) /\ Late(r, part)
                      => Follows(t, h[Len(h)].dbfs, r.dbfs)
                 => LateChain(t, k, part)
<1> DEFINE a == h \o <<r>>
           k == Kept(a)
<1>1. /\ Len(h) \in Nat /\ a \in Seq(Reports) /\ Len(a) = Len(h) + 1
      /\ \A i \in 1..Len(h) : a[i] = h[i]
      /\ a[Len(h) + 1] = r
  BY ConcatProperties, LenProperties, <<r>> \in Seq(Reports)
<1>2. PICK d \in {0, 1} : /\ k \in Seq(Reports) /\ Len(k) = Len(a) - d /\ Len(k) <= Samples
                          /\ d = 1 => Len(h) >= 1
                          /\ \A i \in 1..Len(k) : k[i] = a[i + d]
  <2>1. CASE Len(a) > Samples
    <3>1. a # <<>>
      BY <1>1
    <3>2. k = Tail(a)
      BY <2>1 DEF Kept
    <3> HIDE DEF k, a
    <3>3. /\ k \in Seq(Reports) /\ Len(k) = Len(a) - 1
          /\ \A i \in 1..Len(k) : k[i] = a[i + 1]
      BY <1>1, <3>1, <3>2, HeadTailProperties
    <3>4. Len(h) \in Nat /\ Len(a) = Len(h) + 1 /\ Len(a) > 10 /\ Len(h) <= 10
      BY <1>1, <2>1 DEF Samples
    <3> QED BY <3>3, <3>4 DEF Samples
  <2>2. CASE ~(Len(a) > Samples)
    <3>1. k = a
      BY <2>2 DEF Kept
    <3> HIDE DEF k, a
    <3>2. /\ k \in Seq(Reports) /\ Len(k) = Len(a) - 0 /\ Len(k) <= Samples
          /\ \A i \in 1..Len(k) : k[i] = a[i + 0]
      BY <1>1, <2>2, <3>1 DEF Samples
    <3> QED BY <3>2
  <2> QED BY <2>1, <2>2
<1> HIDE DEF a, k
<1>3. Len(k) >= 1 /\ k[Len(k)] = r
  BY <1>1, <1>2 DEF Samples
<1>4. ASSUME NEW t, NEW part, LateChain(t, h, part),
             h # <<>> /\ Late(h[Len(h)], part) /\ Late(r, part)
               => Follows(t, h[Len(h)].dbfs, r.dbfs)
      PROVE  LateChain(t, k, part)
  <2> SUFFICES ASSUME NEW i \in 1..(Len(k) - 1), Late(k[i], part), Late(k[i + 1], part)
               PROVE  Follows(t, k[i].dbfs, k[i + 1].dbfs)
    BY DEF LateChain
  <2>1. k[i] = a[i + d] /\ k[i + 1] = a[i + d + 1] /\ i + d \in 1..Len(h)
    BY <1>1, <1>2
  <2>2. CASE i + d = Len(h)
    <3>1. k[i] = h[Len(h)] /\ k[i + 1] = r /\ h # <<>>
      BY <1>1, <2>1, <2>2
    <3> QED BY <1>4, <3>1
  <2>3. CASE i + d < Len(h)
    <3>1. k[i] = h[i + d] /\ k[i + 1] = h[i + d + 1] /\ i + d \in 1..(Len(h) - 1)
      BY <1>1, <2>1, <2>3
    <3> QED BY <1>4, <3>1 DEF LateChain
  <2> QED BY <1>1, <2>1, <2>2, <2>3
<1> QED BY <1>2, <1>3, <1>4 DEF k, a

-----------------------------------------------------------------------------
(* The steps *)

\* A session that is open has a band, its points and the gain to give back.
LEMMA OpenSession ==
  ASSUME CalInv, session.open
  PROVE  /\ session \in Session /\ Band \in Bands /\ session.before \in Gains
         /\ session.points \in Seq(Point)
<1>1. session # NoSession
  BY DEF NoSession
<1> QED BY <1>1 DEF CalInv, CalTypes, Session, Band

LEMMA LastReport ==
  ASSUME NEW h \in Seq(Reports), h # <<>>
  PROVE  /\ Last(h) \in Reports /\ Last(h) = h[Len(h)]
         /\ Len(h) \in Nat /\ Len(h) >= 1
<1>1. Len(h) \in Nat /\ Len(h) >= 1
  BY EmptySeq, LenProperties
<1>2. h[Len(h)] \in Reports
  BY <1>1, ElementOfSeq
<1> QED BY <1>1, <1>2 DEF Last

LEMMA InitCal == Init => CalInv
<1> SUFFICES ASSUME Init PROVE CalInv
  OBVIOUS
<1>1. CalTypes
  <2>1. gain \in Gains /\ level \in Levels
    BY DEF Init, Gains
  <2>2. Received \in Int
    BY <2>1, HeardIs DEF Received
  <2>3. hold \in Nat /\ quiet \in 0..hold
    BY TimeAssumption DEF Init
  <2>4. curves \in [Bands -> Seq(Point)]
    BY DEF Init
  <2>5. history \in Seq(Reports) /\ Len(history) <= Samples
    BY DEF Init, Samples
  <2> QED BY <2>1, <2>2, <2>3, <2>4, <2>5 DEF Init, CalTypes
<1>2. WaitInv
  BY DEF Init, WaitInv
<1>3. SessionInv
  BY DEF Init, SessionInv, NoSession
<1>4. CurvesInv
  <2> SUFFICES ASSUME NEW b \in Bands
               PROVE  Lags(curves[b], b) /\ Len(curves[b]) = 0
    BY DEF CurvesInv
  <2>1. curves[b] = <<>> /\ Len(Inputs[b]) \in Nat
    BY InputsAre DEF Init
  <2> QED BY <2>1 DEF Lags
<1> QED BY <1>1, <1>2, <1>3, <1>4 DEF CalInv

\* A report is late only if nothing from before its wait is held.
LEMMA LateIs ==
  ASSUME CalTypes
  PROVE  /\ wait # NoWait => LatePart \in Int /\ LatePart <= Wait /\ Wait - wait \in Nat
         /\ wait # NoWait /\ LatePart > 0 /\ (quiet >= hold \/ quiet + wait >= Wait)
              => quiet = hold
<1>1. /\ hold \in Nat /\ quiet \in 0..hold /\ Wait \in Nat
      /\ wait # NoWait => wait \in 0..Wait
  BY TimeAssumption DEF CalTypes
<1> QED BY <1>1 DEF LatePart

\* A window follows the one before it, or is what is received.
LEMMA ObserveCal == CalInv /\ Observe => CalInv'
<1> SUFFICES ASSUME CalInv, Observe PROVE CalInv'
  OBVIOUS
<1> DEFINE r == Report(Shown', TRUE)
<1>1. /\ history \in Seq(Reports) /\ Len(history) <= Samples /\ Received \in Int
      /\ gain \in Gains /\ active \in Int /\ raw \in Int /\ hold \in Nat /\ quiet \in 0..hold
  BY HeardIs DEF CalInv, CalTypes
<1>2. /\ raw' = Received /\ hold' = hold
      /\ UNCHANGED <<level, gain, session, wait, curves>>
      /\ history' = Kept(history \o <<r>>)
  BY DEF Observe
<1>3. \/ /\ Received >= Squelch /\ quiet' = 0
         /\ active' = Received \/ (hold > 0 /\ active' = NextTo(Received, active))
      \/ ~(Received >= Squelch) /\ active' = active /\ quiet' = quiet
  <2>1. Smoothed = Received \/ (hold > 0 /\ Smoothed = NextTo(Received, active))
    BY <1>1 DEF Smoothed, NextTo
  <2> QED BY <2>1 DEF Observe
<1>4. active' \in Int /\ quiet' \in 0..hold /\ Received' = Received
  <2>1. NextTo(Received, active) \in Int
    BY <1>1 DEF NextTo
  <2>2. Received' = Received
    BY <1>2 DEF Received
  <2> QED BY <1>1, <1>3, <2>1, <2>2
<1>5. Shown' = IF quiet' < hold THEN active' ELSE Received
  BY <1>2 DEF Shown
<1>6. r \in Reports /\ r.dbfs = Shown' /\ r.window /\ r.age = 0
  BY <1>1, <1>4, <1>5 DEF Report, Reports
<1> HIDE DEF r
<1>7. /\ history' \in Seq(Reports) /\ Len(history') <= Samples /\ history' # <<>>
      /\ history'[Len(history')] = r
      /\ \A t, part :
           /\ LateChain(t, history, part)
           /\ history # <<>> /\ Late(history[Len(history)], part) /\ Late(r, part)
                => Follows(t, history[Len(history)].dbfs, r.dbfs)
           => LateChain(t, history', part)
  BY <1>1, <1>2, <1>6, KeptIs
<1>8. CalTypes'
  BY <1>1, <1>2, <1>4, <1>7 DEF CalInv, CalTypes
<1>9. WaitInv'
  <2> SUFFICES ASSUME wait # NoWait
               PROVE  /\ session.open /\ NextInput <= Len(Inputs[Band])
                      /\ level = Inputs[Band][NextInput]
                      /\ Received < Squelch => quiet' >= hold \/ quiet' + wait >= Wait
                      /\ LateChain(Received, history', LatePart)
                      /\ Late(r, LatePart) /\ Received >= Squelch => r.dbfs = active'
    <3>1. LatePart' = LatePart /\ Last(history)' = r
      BY <1>2, <1>7 DEF LatePart, Last
    <3> QED BY <1>2, <1>4, <3>1 DEF WaitInv, Band, NextInput
  <2>1. /\ session.open /\ NextInput <= Len(Inputs[Band]) /\ level = Inputs[Band][NextInput]
        /\ Received < Squelch => quiet >= hold \/ quiet + wait >= Wait
        /\ LateChain(Received, history, LatePart)
        /\ history # <<>> /\ Late(Last(history), LatePart) /\ Received >= Squelch =>
             Last(history).dbfs = active
    BY DEF CalInv, WaitInv
  <2>2. Squelch \in Int
    BY BandsAssumption
  <2>3. Received < Squelch => quiet' >= hold \/ quiet' + wait >= Wait
    BY <1>1, <1>3, <2>1, <2>2
  <2>4. CASE Received >= Squelch
    <3>1. r.dbfs = active'
      BY <1>1, <1>3, <1>5, <1>6, <2>4
    <3>2. active' = Received \/ active' = NextTo(Received, active)
      BY <1>3, <2>4
    <3>3. history # <<>> /\ Late(history[Len(history)], LatePart) /\ Late(r, LatePart)
            => Follows(Received, history[Len(history)].dbfs, r.dbfs)
      BY <1>1, <2>1, <2>4, <3>1, <3>2, LastReport DEF Follows
    <3> QED BY <1>7, <2>1, <2>3, <3>1, <3>3
  <2>5. CASE ~(Received >= Squelch)
    <3>1. ASSUME Late(r, LatePart) PROVE r.dbfs = Received
      <4>1. LatePart > 0
        BY <1>6, <3>1, LateIs DEF Late, CalInv
      <4>2. quiet = hold
        BY <1>1, <2>1, <2>2, <2>5, <4>1, LateIs DEF CalInv
      <4> QED BY <1>1, <1>3, <1>5, <1>6, <2>5, <4>2
    <3>2. history # <<>> /\ Late(history[Len(history)], LatePart) /\ Late(r, LatePart)
            => Follows(Received, history[Len(history)].dbfs, r.dbfs)
      BY <3>1 DEF Follows
    <3> QED BY <1>7, <2>1, <2>3, <2>5, <3>2
  <2> QED BY <2>4, <2>5
<1>10. SessionInv' /\ CurvesInv'
  BY <1>2 DEF CalInv, SessionInv, CurvesInv, Band
<1> QED BY <1>8, <1>9, <1>10 DEF CalInv

\* A report of the relay is never late: it is of no window.
LEMMA RelayReportsCal == CalInv /\ RelayReports => CalInv'
<1> SUFFICES ASSUME CalInv, RelayReports PROVE CalInv'
  OBVIOUS
<1> DEFINE r == Report(Shown, FALSE)
<1>1. /\ history \in Seq(Reports) /\ Len(history) <= Samples
      /\ gain \in Gains /\ active \in Int /\ raw \in Int
  BY DEF CalInv, CalTypes
<1>2. /\ UNCHANGED <<level, gain, hold, raw, active, quiet, session, wait, curves>>
      /\ history' = Kept(history \o <<r>>)
  BY DEF RelayReports, monitor
<1>3. r \in Reports /\ ~r.window
  BY <1>1 DEF Report, Reports, Shown
<1> HIDE DEF r
<1>4. /\ history' \in Seq(Reports) /\ Len(history') <= Samples /\ history' # <<>>
      /\ history'[Len(history')] = r
      /\ \A t, part :
           /\ LateChain(t, history, part)
           /\ history # <<>> /\ Late(history[Len(history)], part) /\ Late(r, part)
                => Follows(t, history[Len(history)].dbfs, r.dbfs)
           => LateChain(t, history', part)
  BY <1>1, <1>2, <1>3, KeptIs
<1>5. CalTypes'
  BY <1>2, <1>4 DEF CalInv, CalTypes
<1>6. \A part : ~Late(r, part)
  BY <1>3 DEF Late
<1>7. LatePart' = LatePart /\ Received' = Received /\ Last(history)' = r
  BY <1>2, <1>4 DEF LatePart, Received, Last
<1>8. WaitInv'
  <2>1. LateChain(Received, history, LatePart) => LateChain(Received, history', LatePart)
    BY <1>4, <1>6
  <2> QED BY <1>2, <1>6, <1>7, <2>1 DEF CalInv, WaitInv, Band, NextInput
<1>9. SessionInv' /\ CurvesInv'
  BY <1>2 DEF CalInv, SessionInv, CurvesInv, Band
<1> QED BY <1>5, <1>8, <1>9 DEF CalInv

\* However long it is until something happens, what is late was late before.
LEMMA TimePassesCal == CalInv /\ TimePasses => CalInv'
<1> SUFFICES ASSUME CalInv, TimePasses PROVE CalInv'
  OBVIOUS
<1>1. PICK time \in Passes :
        /\ history' = Older(history, time)
        /\ quiet' = Min({quiet + time, hold})
        /\ wait' = IF wait > time THEN wait - time ELSE IF wait > 0 THEN 0 ELSE wait
  BY DEF TimePasses
<1>2. UNCHANGED <<level, gain, hold, raw, active, curves, session>>
  BY DEF TimePasses
<1>3. /\ time \in Nat /\ history \in Seq(Reports) /\ Len(history) <= Samples
      /\ hold \in Nat /\ quiet \in 0..hold /\ Wait \in Nat \ {0}
      /\ wait \in (0..Wait) \cup {-1}
  BY TimeAssumption DEF CalInv, CalTypes, NoWait
<1>4. /\ history' \in Seq(Reports) /\ Len(history') = Len(history)
      /\ \A i \in 1..Len(history) : history'[i].dbfs = history[i].dbfs
      /\ \A i \in 1..Len(history) : \A part \in Int : part <= Wait =>
           (Late(history'[i], part) => Late(history[i], part - time))
  BY <1>1, <1>3, OlderIs
<1>5. quiet' = IF quiet + time <= hold THEN quiet + time ELSE hold
  <2>1. quiet + time \in Int /\ hold \in Int
    BY <1>3
  <2> QED BY <1>1, <2>1, MinOfTwo
<1>6. wait' \in (0..Wait) \cup {-1} /\ (wait' = -1 <=> wait = -1)
  BY <1>1, <1>3
<1>7. CalTypes'
  <2>1. quiet' \in 0..hold
    BY <1>3, <1>5
  <2> QED BY <1>2, <1>3, <1>4, <1>6, <2>1 DEF CalInv, CalTypes, NoWait
<1>8. WaitInv'
  <2> SUFFICES ASSUME wait # -1
               PROVE  /\ session.open /\ NextInput <= Len(Inputs[Band])
                      /\ level = Inputs[Band][NextInput]
                      /\ Received < Squelch => quiet' >= hold \/ quiet' + wait' >= Wait
                      /\ LateChain(Received, history', LatePart')
                      /\ history' # <<>> /\ Late(Last(history'), LatePart')
                           /\ Received >= Squelch => Last(history').dbfs = active
    <3>1. Received' = Received
      BY <1>2 DEF Received
    <3> QED BY <1>2, <1>6, <3>1 DEF WaitInv, Band, NextInput, NoWait
  <2>1. /\ session.open /\ NextInput <= Len(Inputs[Band]) /\ level = Inputs[Band][NextInput]
        /\ Received < Squelch => quiet >= hold \/ quiet + wait >= Wait
        /\ LateChain(Received, history, LatePart)
        /\ history # <<>> /\ Late(Last(history), LatePart) /\ Received >= Squelch =>
             Last(history).dbfs = active
    BY DEF CalInv, WaitInv, NoWait
  <2>2. wait \in 0..Wait /\ wait' \in 0..Wait /\ wait <= wait' + time
    BY <1>1, <1>3
  <2>3. quiet \in Int /\ quiet' \in Int /\ quiet <= hold /\ Wait \in Nat
    BY <1>3, <1>5
  <2>4. /\ (quiet >= hold \/ quiet + wait >= Wait)
             => quiet' >= hold \/ quiet' + wait' >= Wait
        /\ LatePart \in Int /\ LatePart' \in Int /\ LatePart' <= Wait
        /\ LatePart' - time \in Int /\ LatePart' - time <= LatePart
    <3>1. PICK w \in Int : w = wait'
      BY <2>2
    <3>2. LatePart = Wait - wait - hold /\ LatePart' = Wait - w - hold
      <4>1. LatePart' = Wait - wait' - hold
        BY <1>2 DEF LatePart
      <4> QED BY <3>1, <4>1, Zenon DEF LatePart
    <3>3. w \in 0..Wait /\ wait <= w + time
      BY <2>2, <3>1
    <3>4. time \in Nat /\ hold \in Nat
      BY <1>3
    <3>5. /\ Wait - wait - hold \in Int /\ Wait - w - hold \in Int /\ Wait - w - hold <= Wait
          /\ (Wait - w - hold) - time \in Int
          /\ (Wait - w - hold) - time <= Wait - wait - hold
      BY <2>2, <2>3, <3>3, <3>4
    <3>6. (quiet >= hold \/ quiet + wait >= Wait) => quiet' >= hold \/ quiet' + wait' >= Wait
      <4>1. CASE quiet + time <= hold
        <5>1. quiet' = quiet + time
          BY <1>5, <4>1
        <5>2. quiet >= hold => quiet + time >= hold
          BY <2>3, <3>4
        <5>3. quiet + wait >= Wait => quiet + time + w >= Wait
          BY <2>2, <2>3, <3>3, <3>4
        <5> QED BY <3>1, <5>1, <5>2, <5>3, Zenon
      <4>2. CASE ~(quiet + time <= hold)
        BY <1>5, <3>4, <4>2
      <4> QED BY <4>1, <4>2
    <3> QED BY <3>2, <3>5, <3>6, Zenon
  <2>5. LateChain(Received, history', LatePart')
    BY <1>1, <1>3, <2>1, <2>4, LateChainOlder
  <2>6. ASSUME history' # <<>>, Late(Last(history'), LatePart')
        PROVE  /\ history # <<>> /\ Late(Last(history), LatePart)
               /\ Last(history').dbfs = Last(history).dbfs
    <3>1. Len(history) \in Nat /\ Len(history) >= 1 /\ Last(history') = history'[Len(history)]
      BY <1>4, <2>6, LastReport
    <3>2. history # <<>> /\ Last(history) = history[Len(history)]
      BY <3>1 DEF Last
    <3>3. Late(history[Len(history)], LatePart' - time)
      BY <1>4, <2>4, <2>6, <3>1
    <3>4. history[Len(history)] \in Reports
      BY <1>3, <3>2, LastReport
    <3>5. Late(history[Len(history)], LatePart)
      BY <2>4, <3>3, <3>4, LateInMore, Zenon
    <3> QED BY <1>4, <3>1, <3>2, <3>5
  <2> QED BY <2>1, <2>4, <2>5, <2>6
<1>9. SessionInv' /\ CurvesInv'
  BY <1>2 DEF CalInv, SessionInv, CurvesInv, Band
<1> QED BY <1>7, <1>8, <1>9 DEF CalInv

LEMMA GeneratorMovesCal == CalInv /\ GeneratorMoves => CalInv'
<1> SUFFICES ASSUME CalInv, GeneratorMoves PROVE CalInv'
  OBVIOUS
<1>1. /\ level' \in Levels /\ wait = NoWait
      /\ UNCHANGED <<gain, hold, raw, active, quiet, history, session, wait, curves>>
  BY DEF GeneratorMoves, monitor
<1>2. CalTypes'
  BY <1>1 DEF CalInv, CalTypes
<1>3. WaitInv' /\ SessionInv' /\ CurvesInv'
  BY <1>1 DEF CalInv, WaitInv, SessionInv, CurvesInv, Band
<1> QED BY <1>2, <1>3 DEF CalInv

LEMMA BeginCal == ASSUME NEW b \in Bands, CalInv, Begin(b) PROVE CalInv'
<1>1. /\ ~session.open /\ history # <<>> /\ gain' = BandGain[b] /\ history' = <<>>
      /\ session' = [open |-> TRUE, band |-> b, before |-> Last(history).gain,
                     points |-> <<>>]
      /\ UNCHANGED <<level, hold, raw, active, quiet, wait, curves>>
  BY DEF Begin, monitor
<1>2. Last(history).gain \in Gains /\ BandGain[b] \in Gains
  BY <1>1, LastReport, InputsAre DEF CalInv, CalTypes, Reports
<1>3. session' \in Session
  BY <1>1, <1>2 DEF Session
<1>4. wait = NoWait
  BY <1>1 DEF CalInv, WaitInv
<1>5. CalTypes'
  <2>1. history' \in Seq(Reports) /\ Len(history') <= Samples
    BY <1>1 DEF Samples
  <2> QED BY <1>1, <1>2, <1>3, <2>1 DEF CalInv, CalTypes
<1>6. WaitInv'
  BY <1>1, <1>4 DEF WaitInv
<1>7. SessionInv'
  <2>1. Lags(<<>>, b)
    BY InputsAre DEF Lags
  <2> QED BY <1>1, <2>1 DEF SessionInv, Band
<1>8. CurvesInv'
  BY <1>1 DEF CalInv, CurvesInv
<1> QED BY <1>5, <1>6, <1>7, <1>8 DEF CalInv

\* When a wait begins no report is late.
LEMMA StepBeginsCal == CalInv /\ StepBegins => CalInv'
<1> SUFFICES ASSUME CalInv, StepBegins PROVE CalInv'
  OBVIOUS
<1>1. /\ session.open /\ NextInput <= Len(Inputs[Band]) /\ level = Inputs[Band][NextInput]
      /\ wait' = Wait
      /\ UNCHANGED <<level, hold, raw, active, quiet, history, session, curves>>
  BY DEF StepBegins, monitor
<1>2. gain' = gain
  BY <1>1 DEF StepBegins, CalInv, SessionInv
<1>3. Wait \in Nat /\ hold \in Nat /\ quiet \in 0..hold /\ history \in Seq(Reports)
  BY TimeAssumption DEF CalInv, CalTypes
<1>4. CalTypes'
  BY <1>1, <1>2, <1>3 DEF CalInv, CalTypes
<1>5. WaitInv'
  <2>1. LatePart' \in Int /\ LatePart' <= 0
    <3>1. LatePart' = Wait - Wait - hold
      BY <1>1, Zenon DEF LatePart
    <3> QED BY <1>3, <3>1
  <2>2. quiet' >= hold' \/ quiet' + wait' >= Wait
    <3>1. quiet + Wait >= Wait
      BY <1>3
    <3> QED BY <1>1, <3>1, Zenon
  <2>3. \A i \in 1..Len(history) : ~Late(history[i], LatePart')
    <3> SUFFICES ASSUME NEW i \in 1..Len(history) PROVE ~Late(history[i], LatePart')
      OBVIOUS
    <3>1. history[i].age \in Nat
      <4>1. history[i] \in Reports
        BY <1>3, ElementOfSeq
      <4> QED BY <4>1 DEF Reports
    <3> QED BY <2>1, <3>1 DEF Late
  <2>4. LateChain(Received, history, LatePart')
    <3>1. Len(history) \in Nat
      BY <1>3, LenProperties
    <3>2. \A i \in 1..(Len(history) - 1) : i \in 1..Len(history)
      BY <3>1
    <3> QED BY <2>3, <3>2 DEF LateChain
  <2>5. ~(history # <<>> /\ Late(Last(history), LatePart'))
    <3> SUFFICES ASSUME history # <<>> PROVE ~Late(Last(history), LatePart')
      OBVIOUS
    <3>1. Last(history) = history[Len(history)] /\ Len(history) \in 1..Len(history)
      BY <1>3, LastReport
    <3> QED BY <2>3, <3>1
  <2>6. Received' = Received
    BY <1>1, <1>2 DEF Received
  <2> QED BY <1>1, <1>2, <2>4, <2>5, <2>6, <2>2 DEF WaitInv, Band, NextInput
<1>6. SessionInv' /\ CurvesInv'
  BY <1>1, <1>2 DEF CalInv, SessionInv, CurvesInv, Band
<1> QED BY <1>4, <1>5, <1>6 DEF CalInv

\* A point that is attended is a level that has arrived.
LEMMA StepEndsCal == CalInv /\ StepEnds => CalInv'
<1> SUFFICES ASSUME CalInv, StepEnds PROVE CalInv'
  OBVIOUS
<1>1. /\ wait = 0 /\ wait' = NoWait
      /\ UNCHANGED <<level, gain, hold, raw, active, quiet, history, curves>>
  BY DEF StepEnds, monitor
<1>2. /\ session.open /\ NextInput <= Len(Inputs[Band]) /\ level = Inputs[Band][NextInput]
      /\ LateChain(Received, history, LatePart)
      /\ gain = BandGain[Band] /\ Lags(session.points, Band)
  BY <1>1 DEF CalInv, WaitInv, SessionInv, NoWait
<1>3. WaitInv'
  BY <1>1 DEF WaitInv
<1>4. CurvesInv'
  BY <1>1 DEF CalInv, CurvesInv
<1>5. CASE session' = session
  <2>1. CalTypes'
    BY <1>1, <1>5 DEF CalInv, CalTypes
  <2>2. SessionInv'
    BY <1>1, <1>2, <1>5 DEF SessionInv, Band
  <2> QED BY <1>3, <1>4, <2>1, <2>2 DEF CalInv
<1>6. CASE /\ Stable(history)
           /\ session' = [session EXCEPT !.points =
                Append(@, [dbfs |-> Last(history).dbfs, attended |-> Attended])]
  <2> DEFINE p == session.points
             x == [dbfs |-> Last(history).dbfs, attended |-> Attended]
             q == Append(p, x)
  <2>1. /\ session \in Session /\ Band \in Bands /\ p \in Seq(Point)
        /\ history \in Seq(Reports) /\ Received \in Int
    BY <1>2, OpenSession, HeardIs DEF CalInv, CalTypes
  <2>2. Len(history) = Samples /\ Steady(history)
    BY <1>6 DEF Stable
  <2>3. Last(history) \in Reports /\ Last(history) = history[Samples]
    <3>1. history # <<>>
      BY <2>2 DEF Samples
    <3> QED BY <2>1, <2>2, <3>1, LastReport
  <2>4. x \in Point
    BY <2>3 DEF Point, Reports, Attended
  <2>5. Attended => Received - x.dbfs \in 0..4
    <3> SUFFICES ASSUME Attended PROVE Received - history[Samples].dbfs \in 0..4
      BY <2>3
    <3>1. DOMAIN history = 1..10
      BY <2>1, <2>2, LenProperties DEF Samples
    <3>2. LatePart = Wait - hold
      BY <1>1, TimeAssumption DEF LatePart, CalInv, CalTypes
    <3>3. \A i \in 1..10 : Late(history[i], LatePart)
      BY <3>1, <3>2 DEF Attended, Late
    <3>4. \A i \in 1..9 : Follows(Received, history[i].dbfs, history[i + 1].dbfs)
      <4> SUFFICES ASSUME NEW i \in 1..9
                   PROVE  Follows(Received, history[i].dbfs, history[i + 1].dbfs)
        OBVIOUS
      <4>1. i \in 1..(Len(history) - 1) /\ i \in 1..10 /\ i + 1 \in 1..10
        BY <2>2 DEF Samples
      <4> QED BY <1>2, <3>3, <4>1 DEF LateChain
    <3> QED BY <2>1, <2>2, <3>4, SteadyHasArrived
  <2>6. /\ q \in Seq(Point) /\ Len(q) = Len(p) + 1 /\ Len(p) \in Nat
        /\ (\A i \in 1..Len(p) : q[i] = p[i]) /\ q[Len(p) + 1] = x
    <3> HIDE DEF x, p
    <3> QED BY <2>1, <2>4
  <2>7. session' = [session EXCEPT !.points = q]
    BY <1>6
  <2>8. x.attended = Attended
    OBVIOUS
  <2> HIDE DEF q, x
  <2>9. session' \in Session /\ session'.open /\ session'.band = Band /\ session'.points = q
    BY <1>2, <2>1, <2>6, <2>7 DEF Session, Band
  <2>10. Lags(q, Band)
    <3>1. Len(q) <= Len(Inputs[Band])
      BY <1>2, <2>6 DEF NextInput
    <3>2. q[Len(p) + 1].attended => Lag(Band, q, Len(p) + 1) \in 0..4
      <4>1. Len(p) + 1 = NextInput
        BY DEF NextInput
      <4>2. Heard[BandGain[Band]][Inputs[Band][Len(p) + 1]] = Received
        BY <1>2, <4>1 DEF Received
      <4> QED BY <2>5, <2>6, <2>8, <4>2 DEF Lag
    <3>3. \A i \in 1..Len(p) : q[i].attended => Lag(Band, q, i) \in 0..4
      BY <1>2, <2>6 DEF Lags, Lag
    <3>4. \A i \in 1..Len(q) : i \in 1..Len(p) \/ i = Len(p) + 1
      BY <2>6
    <3> QED BY <3>1, <3>2, <3>3, <3>4 DEF Lags
  <2>11. CalTypes'
    BY <1>1, <2>9 DEF CalInv, CalTypes
  <2>12. SessionInv'
    BY <1>1, <1>2, <2>9, <2>10 DEF SessionInv, Band
  <2> QED BY <1>3, <1>4, <2>11, <2>12 DEF CalInv
<1> QED BY <1>5, <1>6 DEF StepEnds

\* What a session ends in, whichever way.
LEMMA ClosesCal ==
  ASSUME CalInv, session.open, wait = NoWait, Closes,
         UNCHANGED <<level, hold, raw, active, quiet, history, wait>>,
         curves' \in [Bands -> Seq(Point)], CurvesInv'
  PROVE  CalInv'
<1>1. session' = NoSession /\ gain' \in Gains
  BY OpenSession DEF Closes
<1>2. CalTypes'
  BY <1>1 DEF CalInv, CalTypes
<1>3. WaitInv' /\ SessionInv'
  BY <1>1 DEF WaitInv, SessionInv, NoSession
<1> QED BY <1>2, <1>3 DEF CalInv

LEMMA CommitCal == CalInv /\ Commit => CalInv'
<1> SUFFICES ASSUME CalInv, Commit PROVE CalInv'
  OBVIOUS
<1>1. /\ session.open /\ wait = NoWait /\ Complete(session.points, Band) /\ Closes
      /\ curves' = [curves EXCEPT ![Band] = session.points]
      /\ UNCHANGED <<level, hold, raw, active, quiet, history, wait>>
  BY DEF Commit, monitor
<1>2. Band \in Bands /\ session.points \in Seq(Point)
  BY <1>1, OpenSession
<1>3. curves' \in [Bands -> Seq(Point)]
  BY <1>1, <1>2 DEF CalInv, CalTypes
<1>4. Lags(session.points, Band) /\ Len(session.points) = Len(Inputs[Band])
  BY <1>1 DEF CalInv, SessionInv, Complete
<1>5. CurvesInv'
  <2> SUFFICES ASSUME NEW b \in Bands
               PROVE  Lags(curves'[b], b) /\ Len(curves'[b]) \in {0, Len(Inputs[b])}
    BY DEF CurvesInv
  <2>1. CASE b = Band
    <3>1. curves'[b] = session.points
      BY <1>1, <2>1 DEF CalInv, CalTypes
    <3> QED BY <1>4, <2>1, <3>1
  <2>2. CASE b # Band
    <3>1. curves'[b] = curves[b]
      BY <1>1, <2>2 DEF CalInv, CalTypes
    <3> QED BY <3>1 DEF CalInv, CurvesInv
  <2> QED BY <2>1, <2>2
<1> QED BY <1>1, <1>3, <1>5, ClosesCal

LEMMA CancelCal == CalInv /\ Cancel => CalInv'
<1> SUFFICES ASSUME CalInv, Cancel PROVE CalInv'
  OBVIOUS
<1>1. CurvesInv' /\ curves' \in [Bands -> Seq(Point)]
  BY DEF Cancel, CalInv, CurvesInv, CalTypes
<1>2. UNCHANGED <<level, hold, raw, active, quiet, history, wait>>
  BY DEF Cancel, monitor
<1> QED BY <1>1, <1>2, ClosesCal DEF Cancel

LEMMA StepCal == CalInv /\ [Next]_vars => CalInv'
<1> SUFFICES ASSUME CalInv, [Next]_vars PROVE CalInv'
  OBVIOUS
<1>1. CASE UNCHANGED vars
  <2>1. UNCHANGED <<level, gain, hold, raw, active, quiet, history, session, wait, curves>>
    BY <1>1 DEF vars, monitor
  <2> QED BY <2>1 DEF CalInv, CalTypes, WaitInv, SessionInv, CurvesInv, Band, NextInput,
             Received, LatePart, Last
<1> QED BY <1>1, ObserveCal, RelayReportsCal, TimePassesCal, GeneratorMovesCal, BeginCal,
           StepBeginsCal, StepEndsCal, CommitCal, CancelCal DEF Next

LEMMA Calibrates == Spec => []CalInv
  BY InitCal, StepCal, PTL DEF Spec

\* Whatever the bands, the receivers, the wait and how time passes in it, a point
\* taken from ten windows measured late enough in its wait is the level of its own
\* input at the session's gain.
THEOREM PointsAreRight == Spec => []PointsAreTheirLevels
<1>1. CalInv => PointsAreTheirLevels
  <2> SUFFICES ASSUME CalInv, session.open, NEW i \in DOMAIN session.points,
                      session.points[i].attended
               PROVE  Distance(session.points[i].dbfs, Heard[BandGain[Band]][Inputs[Band][i]])
                        <= Tolerance
    BY DEF PointsAreTheirLevels
  <2>1. Band \in Bands /\ session.points \in Seq(Point)
    BY OpenSession
  <2>2. i \in 1..Len(session.points)
    BY <2>1, LenProperties
  <2>3. session.points[i].dbfs \in Int
    <3>1. session.points[i] \in Point
      BY <2>1, <2>2, ElementOfSeq
    <3> QED BY <3>1 DEF Point
  <2>4. Lag(Band, session.points, i) \in 0..4 /\ i \in 1..Len(Inputs[Band])
    <3>1. Lags(session.points, Band)
      BY DEF CalInv, SessionInv
    <3>2. Len(session.points) \in Nat /\ Len(Inputs[Band]) \in Nat
      BY <2>1, InputsAre, LenProperties
    <3> QED BY <2>2, <3>1, <3>2 DEF Lags
  <2>5. Heard[BandGain[Band]][Inputs[Band][i]] \in Int
    BY <2>1, <2>4, LevelsAre, InputsAre, HeardIs
  <2> DEFINE l == Heard[BandGain[Band]][Inputs[Band][i]]
             x == session.points[i].dbfs
  <2>6. l \in Int /\ x \in Int /\ l - x \in 0..4
    BY <2>3, <2>4, <2>5 DEF Lag
  <2> HIDE DEF l, x
  <2>7. Distance(x, l) <= 5
    BY <2>6 DEF Distance
  <2> QED BY <2>7 DEF Tolerance, l, x
<1> QED BY <1>1, Calibrates, PTL

-----------------------------------------------------------------------------
(* The readings *)

LEMMA MinIsIn == ASSUME NEW S \in SUBSET Nat, S # {} PROVE Min(S) \in S
<1>1. PICK x \in S : \A y \in S : ~(<<y, x>> \in OpToRel(<, Nat))
  BY WFMin, NatLessThanWellFounded, Zenon
<1>2. ASSUME NEW y \in S PROVE x <= y
  <2>1. x \in Nat /\ y \in Nat
    OBVIOUS
  <2>2. y < x => <<y, x>> \in OpToRel(<, Nat)
    BY <2>1 DEF OpToRel
  <2>3. ~(y < x)
    BY <1>1, <2>2
  <2> QED BY <2>1, <2>3
<1> QED BY <1>2 DEF Min

LEMMA DivIs ==
  ASSUME NEW n \in Int, NEW d \in Int, d > 0
  PROVE  n \div d \in Int /\ (n \div d) * d <= n /\ n < (n \div d) * d + d
  OBVIOUS

\* Above a point that lags by u, of a span of d for inputs W apart: no more is
\* made of u than a fourth on top, and c lags from the point at the other end.
LEMMA ScaledIs ==
  ASSUME NEW u \in 0..4, NEW c \in 0..4, NEW W \in Int, NEW d \in Int,
         W >= 45, 5 * d >= 4 * W
  PROVE  (u * W) \div ((d + u) - c) \in 0..5
<1> DEFINE g == (d + u) - c
           q == (u * W) \div g
<1>1. g \in Int /\ g > 0 /\ u * W \in Int
  OBVIOUS
<1>2. q \in Int /\ q * g <= u * W /\ u * W < q * g + g
  BY <1>1, DivIs
<1>3. 0 <= u * W /\ u * W < 6 * g
  <2>1. u = 0 \/ u = 1 \/ u = 2 \/ u = 3 \/ u = 4
    OBVIOUS
  <2>2. d >= 36
    OBVIOUS
  <2>3. CASE u = 0
    BY <2>2, <2>3
  <2>4. CASE u = 1
    BY <2>2, <2>4
  <2>5. CASE u = 2
    BY <2>2, <2>5
  <2>6. CASE u = 3
    BY <2>2, <2>6
  <2>7. CASE u = 4
    BY <2>2, <2>7
  <2> QED BY <2>1, <2>3, <2>4, <2>5, <2>6, <2>7
<1> HIDE DEF g, q
<1>4. PICK z \in Int : z = u * W
  BY <1>1
<1>5. q * g <= z /\ z < q * g + g /\ 0 <= z /\ z < 6 * g
  BY <1>2, <1>3, <1>4, Zenon
<1>6. ASSUME q <= -1 PROVE FALSE
  <2>1. q * g <= (-1) * g
    BY <1>1, <1>2, <1>6
  <2> QED BY <1>1, <1>2, <1>5, <2>1
<1>7. ASSUME q >= 6 PROVE FALSE
  <2>1. q * g >= 6 * g
    BY <1>1, <1>2, <1>7
  <2> QED BY <1>1, <1>2, <1>5, <2>1
<1>8. q \in 0..5
  BY <1>2, <1>6, <1>7
<1> QED BY <1>8 DEF q, g

LEMMA WholeIs ==
  ASSUME NEW g \in Int, NEW W \in Int, g > 0
  PROVE  (g * W) \div g = W
<1>1. PICK q \in Int : q = (g * W) \div g
  OBVIOUS
<1>2. q * g <= g * W /\ g * W < q * g + g
  BY <1>1, DivIs, g * W \in Int
<1>3. ASSUME q <= W - 1 PROVE FALSE
  <2>1. q * g + g <= g * W
    BY <1>3
  <2> QED BY <1>2, <2>1
<1>4. ASSUME q >= W + 1 PROVE FALSE
  <2>1. q * g >= g * W + g
    BY <1>4
  <2> QED BY <1>2, <2>1
<1> QED BY <1>1, <1>3, <1>4

\* What a receiver makes of two inputs.
LEMMA InputsRise ==
  ASSUME NEW b \in Bands, NEW i \in 1..Len(Inputs[b]), NEW j \in 1..Len(Inputs[b]), i < j
  PROVE  LET W == Inputs[b][j] - Inputs[b][i]
             d == Heard[BandGain[b]][Inputs[b][j]] - Heard[BandGain[b]][Inputs[b][i]]
         IN W \in Int /\ d \in Int /\ W >= 45 /\ 5 * d >= 4 * W /\ d >= 36
<1> DEFINE W == Inputs[b][j] - Inputs[b][i]
           d == Heard[BandGain[b]][Inputs[b][j]] - Heard[BandGain[b]][Inputs[b][i]]
<1>1. /\ Inputs[b][i] \in Levels /\ Inputs[b][j] \in Levels /\ BandGain[b] \in Gains
      /\ Inputs[b][i] \in Int /\ Inputs[b][j] \in Int
  BY LevelsAre, InputsAre
<1>2. W \in Int /\ d \in Int
  <2>1. /\ Heard[BandGain[b]][Inputs[b][i]] \in Int
        /\ Heard[BandGain[b]][Inputs[b][j]] \in Int
    BY <1>1, HeardIs
  <2> QED BY <1>1, <2>1
<1>3. W >= 45 /\ 5 * d >= 4 * W
  BY RangesAreOrdered, ReceiverRises
<1> HIDE DEF W, d
<1>4. d >= 36
  BY <1>2, <1>3
<1> QED BY <1>2, <1>3, <1>4 DEF W, d

\* What a curve makes of one of its own inputs, at its own gain.
LEMMA InterpolatedIs ==
  ASSUME CalInv, NEW b \in Bands, NEW i \in DOMAIN curves[b],
         \A j \in DOMAIN curves[b] : curves[b][j].attended,
         Covers(b, Heard[BandGain[b]][Inputs[b][i]])
  PROVE  LET made == Interpolated(b, Heard[BandGain[b]][Inputs[b][i]])
         IN made # {} /\ \A dbm \in made : dbm \in Int /\ dbm - Inputs[b][i] \in 0..5
<1> DEFINE n == Len(curves[b])
           at(k) == curves[b][k].dbfs
           in == Inputs[b]
           heard(k) == Heard[BandGain[b]][in[k]]
           dbfs == heard(i)
           around == {k \in 2..n : at(k - 1) <= dbfs /\ dbfs <= at(k)}
           m == Min(around)
<1>1. curves[b] \in Seq(Point) /\ n \in Nat /\ DOMAIN curves[b] = 1..n
  BY LenProperties DEF CalInv, CalTypes
<1>2. n = Len(in) /\ n > 1 /\ i \in 1..n
  BY <1>1, InputsAre DEF CalInv, CurvesInv
<1>3. \A k \in 1..n : at(k) \in Int
  <2> SUFFICES ASSUME NEW k \in 1..n PROVE curves[b][k].dbfs \in Int
    OBVIOUS
  <2>1. curves[b][k] \in Point
    BY <1>1, ElementOfSeq
  <2> QED BY <2>1 DEF Point
<1>4. \A k \in 1..n : heard(k) - at(k) \in 0..4
  BY <1>1 DEF CalInv, CurvesInv, Lags, Lag
<1>5. \A k \in 1..n : heard(k) \in Int /\ in[k] \in Int
  BY <1>2, InputsAre, LevelsAre, HeardIs
<1>6. \A j, k \in 1..n : j < k => heard(k) - heard(j) >= 36
  BY <1>2, InputsRise
<1>7. at(1) <= dbfs /\ dbfs <= at(n)
  BY DEF Covers
<1>8. Interpolated(b, dbfs) =
        IF around = {} THEN {}
        ELSE {in[m - 1] + ((dbfs - at(m - 1)) * (in[m] - in[m - 1])) \div (at(m) - at(m - 1))}
  BY DEF Interpolated
<1>9. \A j, k \in 1..n : j < k => in[k] - in[j] >= 45
                                 /\ 5 * (heard(k) - heard(j)) >= 4 * (in[k] - in[j])
  BY <1>2, InputsRise
<1>10. i \in 1..n /\ dbfs = heard(i)
  BY <1>2
<1> HIDE DEF n, at, in, heard, dbfs
<1>11. around # {}
  <2>1. CASE i < n
    <3>1. i + 1 \in 2..n /\ (i + 1) - 1 = i /\ i + 1 \in 1..n
      BY <1>1, <1>2, <2>1
    <3>2. at(i) <= dbfs /\ dbfs <= at(i + 1)
      <4>1. heard(i + 1) - heard(i) >= 36
        BY <1>6, <1>10, <3>1, i < i + 1
      <4>2. /\ heard(i) - at(i) \in 0..4 /\ heard(i + 1) - at(i + 1) \in 0..4
            /\ heard(i) \in Int /\ heard(i + 1) \in Int /\ at(i) \in Int /\ at(i + 1) \in Int
        BY <1>3, <1>4, <1>5, <1>10, <3>1
      <4> QED BY <1>10, <4>1, <4>2
    <3>3. i + 1 \in around
      BY <3>1, <3>2
    <3> QED BY <3>3
  <2>2. CASE i = n
    <3>1. n \in 2..n /\ n - 1 \in 1..n /\ n - 1 < n
      BY <1>1, <1>2
    <3>2. at(n - 1) <= dbfs
      <4>1. heard(n) - heard(n - 1) >= 36
        BY <1>6, <1>10, <2>2, <3>1
      <4>2. /\ heard(n - 1) - at(n - 1) \in 0..4
            /\ heard(n) \in Int /\ heard(n - 1) \in Int /\ at(n - 1) \in Int
        BY <1>3, <1>4, <1>5, <1>10, <2>2, <3>1
      <4> QED BY <1>10, <2>2, <4>1, <4>2
    <3>3. n \in around
      BY <1>7, <3>1, <3>2
    <3> QED BY <3>3
  <2> QED BY <1>1, <1>2, <2>1, <2>2
<1>12. m \in around
  <2>1. around \in SUBSET Nat
    BY <1>1
  <2> QED BY <1>11, <2>1, MinIsIn
<1>13. m \in 2..n /\ at(m - 1) <= dbfs /\ dbfs <= at(m)
  BY <1>12
<1> HIDE DEF around, m
<1>14. m \in Int /\ m \in 1..n /\ m - 1 \in 1..n /\ m - 1 < m
  BY <1>1, <1>13
<1>15. /\ at(m - 1) \in Int /\ at(m) \in Int /\ in[m - 1] \in Int /\ in[m] \in Int
       /\ heard(m - 1) \in Int /\ heard(m) \in Int /\ dbfs \in Int
       /\ heard(m - 1) - at(m - 1) \in 0..4 /\ heard(m) - at(m) \in 0..4
  BY <1>3, <1>4, <1>5, <1>10, <1>14
<1>16. m = i \/ m - 1 = i
  <2>1. ASSUME m - 1 > i PROVE FALSE
    <3>1. heard(m - 1) - heard(i) >= 36
      BY <1>6, <1>10, <1>14, <2>1
    <3> QED BY <1>10, <1>13, <1>15, <3>1
  <2>2. ASSUME m < i PROVE FALSE
    <3>1. heard(i) - heard(m) >= 36
      BY <1>6, <1>10, <1>14, <2>2
    <3> QED BY <1>10, <1>13, <1>15, <3>1
  <2> QED BY <1>2, <1>14, <2>1, <2>2
<1>17. /\ in[m] - in[m - 1] >= 45 /\ heard(m) - heard(m - 1) >= 36
       /\ 5 * (heard(m) - heard(m - 1)) >= 4 * (in[m] - in[m - 1])
  BY <1>6, <1>9, <1>14
<1> DEFINE dbm == in[m - 1] + ((dbfs - at(m - 1)) * (in[m] - in[m - 1])) \div (at(m) - at(m - 1))
<1>18. dbm \in Int /\ dbm - in[i] \in 0..5
  <2>1. PICK W \in Int, g \in Int, u \in Int :
          W = in[m] - in[m - 1] /\ g = at(m) - at(m - 1) /\ u = dbfs - at(m - 1)
    BY <1>15
  <2>2. dbm = in[m - 1] + (u * W) \div g
    BY <2>1
  <2> HIDE DEF dbm
  <2>3. CASE m = i
    <3>1. u = g /\ g > 0
      BY <1>10, <1>13, <1>15, <1>17, <2>1, <2>3
    <3>2. (u * W) \div g = W
      BY <3>1, WholeIs
    <3>3. dbm = in[m]
      BY <1>15, <2>1, <2>2, <3>2
    <3> QED BY <1>15, <2>3, <3>3
  <2>4. CASE m - 1 = i
    <3>1. PICK c \in 0..4, d \in Int :
            c = heard(m) - at(m) /\ d = heard(m) - heard(m - 1)
      BY <1>15
    <3>2. u \in 0..4 /\ g = (d + u) - c /\ W >= 45 /\ 5 * d >= 4 * W
      BY <1>10, <1>15, <1>17, <2>1, <2>4, <3>1
    <3>3. (u * W) \div g \in 0..5
      BY <3>1, <3>2, ScaledIs
    <3> QED BY <1>15, <2>2, <2>4, <3>3
  <2> QED BY <1>16, <2>3, <2>4
<1>19. Interpolated(b, dbfs) = {dbm}
  BY <1>8, <1>11
<1> HIDE DEF dbm
<1> QED BY <1>18, <1>19 DEF in, heard, dbfs

\* Whatever else has been calibrated, what is heard at the gain of a curve of
\* attended points, within it, is read as what it is.
THEOREM ReadingsAreRight == Spec => []ReadingsAreLevels
<1>1. CalInv => ReadingsAreLevels
  <2> SUFFICES ASSUME CalInv, NEW b \in Bands, NEW i \in DOMAIN curves[b],
                      \A j \in DOMAIN curves[b] : curves[b][j].attended,
                      \A c \in Bands \ {b} : BandGain[c] # BandGain[b],
                      Covers(b, Heard[BandGain[b]][Inputs[b][i]])
               PROVE  LET made == Reading(BandGain[b], Heard[BandGain[b]][Inputs[b][i]])
                      IN made # {} /\ \A dbm \in made : Distance(dbm, Inputs[b][i]) <= Tolerance
    BY DEF ReadingsAreLevels
  <2> DEFINE at == BandGain[b]
             dbfs == Heard[at][Inputs[b][i]]
             reading(c) == Interpolated(c, Corrected(c, at, dbfs))
             reach == {c \in Bands : reading(c) # {}}
  <2>1. /\ Inputs[b][i] \in Int /\ Inputs[b][i] \in Levels /\ dbfs \in Int
    <3>1. i \in 1..Len(curves[b]) /\ Len(curves[b]) \in Nat
      BY LenProperties DEF CalInv, CalTypes
    <3>2. i \in 1..Len(Inputs[b])
      BY <3>1, InputsAre DEF CalInv, CurvesInv
    <3> QED BY <3>2, InputsAre, LevelsAre, HeardIs
  <2>2. Corrected(b, at, dbfs) = dbfs
    BY <2>1, InputsAre DEF Corrected
  <2>3. reading(b) # {} /\ \A dbm \in reading(b) : dbm \in Int /\ dbm - Inputs[b][i] \in 0..5
    BY <2>2, InterpolatedIs
  <2>4. Distance(at, at) = 0
    BY InputsAre DEF Distance
  <2>5. \A c \in Bands \ {b} : Distance(BandGain[c], at) > 0
    BY InputsAre DEF Distance
  <2>6. b \in Int
    BY BandsAssumption, LenProperties DEF Bands
  <2>7. NearestOf(at, reach) = {b}
    <3>1. b \in reach /\ reach \subseteq Bands
      BY <2>3
    <3> HIDE DEF reach
    <3>2. b \in NearestOf(at, reach)
      <4> SUFFICES ASSUME NEW c \in reach
                   PROVE  \/ Distance(BandGain[b], at) < Distance(BandGain[c], at)
                          \/ Distance(BandGain[b], at) = Distance(BandGain[c], at) /\ b <= c
        BY <3>1 DEF NearestOf
      <4>1. CASE c = b
        BY <2>6, <4>1
      <4>2. CASE c # b
        BY <2>4, <2>5, <3>1, <4>2
      <4> QED BY <4>1, <4>2
    <3>3. ASSUME NEW c \in NearestOf(at, reach) PROVE c = b
      <4>1. /\ c \in Bands
            /\ Distance(BandGain[c], at) < 0 \/ Distance(BandGain[c], at) = 0
        BY <2>4, <3>1 DEF NearestOf
      <4>2. ~(Distance(BandGain[c], at) > 0)
        <5>1. BandGain[c] \in Int /\ at \in Int
          BY <4>1, InputsAre
        <5>2. Distance(BandGain[c], at) \in Int
          BY <5>1 DEF Distance
        <5> QED BY <4>1, <5>2
      <4> QED BY <2>5, <4>1, <4>2
    <3> QED BY <3>2, <3>3
  <2>8. Reading(at, dbfs) = reading(b)
    <3>1. Reading(at, dbfs) = UNION {reading(c) : c \in NearestOf(at, reach)}
      BY DEF Reading
    <3> HIDE DEF reach, reading
    <3> QED BY <2>7, <3>1
  <2>9. ASSUME NEW dbm \in Int, dbm - Inputs[b][i] \in 0..5
        PROVE  Distance(dbm, Inputs[b][i]) <= Tolerance
    BY <2>1, <2>9 DEF Distance, Tolerance
  <2> HIDE DEF reading
  <2> QED BY <2>3, <2>8, <2>9
<1> QED BY <1>1, Calibrates, PTL
=============================================================================
