---------------------------- MODULE RelayProofs ----------------------------
(***************************************************************************)
(* Theorems about the relay block, for every value of the constants: its   *)
(* types; what the duration limit silences, when an FM session may start,  *)
(* whose recording is open and when PTT is held; the order in which calls  *)
(* leave and the relay the status names.                                   *)
(***************************************************************************)
EXTENDS Relay, FiniteSetTheorems, TLAPS

-----------------------------------------------------------------------------
(* Lemmas about the helpers *)

\* The last n elements of a sequence are a sequence of n of its elements.
LEMMA LastOnes ==
  ASSUME NEW S, NEW p \in Seq(S), NEW n \in Nat, n <= Len(p)
  PROVE  /\ SubSeq(p, Len(p) - n + 1, Len(p)) \in Seq(S)
         /\ Len(SubSeq(p, Len(p) - n + 1, Len(p))) = n
<1>1. CASE n = 0
  BY <1>1
<1>2. CASE n > 0
  BY <1>2
<1> QED BY <1>1, <1>2

\* No call is a value of the call variable.
LEMMA NoCallType == NoCall \in Call
<1>1. 0 \in 0..MaxCalls /\ 0 \in 0..TalkLimit /\ 0 \in 0..Inactivity
  BY CapsAssumption, TimersAssumption
<1> QED BY <1>1 DEF NoCall, Call

\* No session is a value of the session variable.
LEMMA NoSessionType == NoSession \in Session
<1>1. 0 \in 0..HeaderBursts + TerminatorBursts /\ 0 \in 0..UnderflowLimit
      /\ 0 \in 0..TalkLimit
  BY StagesAssumption, TimersAssumption
<1> QED BY <1>1 DEF NoSession, Session

\* The fields of a session and of a call.
LEMMA SessionFields ==
  ASSUME NEW s \in Session
  PROVE  /\ s.stage \in {"none", "header", "voice", "terminator"}
         /\ s.count \in 0..HeaderBursts + TerminatorBursts
         /\ s.under \in 0..UnderflowLimit /\ s.left \in 0..TalkLimit
  BY DEF Session

\* The fields of the active call have their types.
LEMMA CallFields ==
  ASSUME NEW c \in Call
  PROVE  /\ c.id \in 0..MaxCalls /\ c.src \in Sources \cup {NoSource}
         /\ c.left \in 0..TalkLimit /\ c.quiet \in 0..Inactivity
  BY DEF Call

\* Hearing a burst keeps the call in its type.
LEMMA CallStaysHeard ==
  ASSUME NEW c \in Call
  PROVE  [c EXCEPT !.quiet = 0] \in Call
<1>1. 0 \in 0..Inactivity
  BY TimersAssumption
<1> QED BY <1>1 DEF Call

\* Purging keeps some of the youngest bursts.
LEMMA PurgeType ==
  ASSUME NEW p \in Seq(PreBurst)
  PROVE  Purge(p) \in Seq(PreBurst) /\ Len(Purge(p)) <= Len(p)
<1> DEFINE fresh == {i \in 1..Len(p) : p[i].age <= CandidateHold}
<1>1. IsFiniteSet(1..Len(p)) /\ Cardinality(1..Len(p)) = Len(p)
  BY FS_Interval, Len(p) \in Nat, SMTT(30)
<1>2. IsFiniteSet(fresh) /\ Cardinality(fresh) <= Len(p)
  BY <1>1, FS_Subset, fresh \subseteq 1..Len(p)
<1>3. Cardinality(fresh) \in Nat
  BY <1>2, FS_CardinalityType
<1> HIDE DEF fresh
<1>4. Purge(p) = SubSeq(p, Len(p) - Cardinality(fresh) + 1, Len(p))
  BY DEF Purge, fresh
<1>5. PICK n \in Nat : n = Cardinality(fresh)
  BY <1>3
<1>6. n <= Len(p) /\ Purge(p) = SubSeq(p, Len(p) - n + 1, Len(p))
  BY <1>2, <1>4, <1>5
<1> QED BY <1>6, LastOnes

\* What the housekeeping of a pass leaves is well typed.
LEMMA NowType ==
  ASSUME TypeOK
  PROVE  /\ CandNow \in -1..CandidateHold /\ IdleNow \in -1..IdleGuard
         /\ CallNow \in Call /\ DupNow \in 0..DupHold + 1
         /\ QueueNow \in Seq(QueuedBurst) /\ Len(QueueNow) <= QueueCap
         /\ CoolNow \in [Sources -> 0..Cooldown]
         /\ CutNow \subseteq 1..MaxCalls
         /\ RecNow \in FM..MaxCalls /\ ShownNow \in FM..MaxCalls
<1>1. CandNow \in -1..CandidateHold /\ IdleNow \in -1..IdleGuard
  BY TimersAssumption DEF TypeOK, CandNow, IdleNow
<1>2. CallNow \in Call /\ DupNow \in 0..DupHold + 1
  BY NoCallType, TimersAssumption DEF TypeOK, CallNow, DupNow
<1>3. QueueNow \in Seq(QueuedBurst) /\ Len(QueueNow) <= QueueCap
  BY CapsAssumption DEF TypeOK, QueueNow
<1>4. CoolNow \in [Sources -> 0..Cooldown]
  <2>1. cool \in [Sources -> 0..Cooldown] /\ Cooldown \in 0..Cooldown
    BY TimersAssumption DEF TypeOK
  <2>2. [cool EXCEPT ![call.src] = Cooldown] \in [Sources -> 0..Cooldown]
    BY <2>1
  <2> QED BY <2>1, <2>2 DEF CoolNow, Cooled
<1>5. CutNow \subseteq 1..MaxCalls
  <2>1. call.id \in 0..MaxCalls /\ cut \subseteq 1..MaxCalls
    BY DEF TypeOK, Call
  <2>2. Expired => call.id \in 1..MaxCalls
    BY <2>1 DEF Expired, Active
  <2> QED BY <2>1, <2>2 DEF CutNow
<1>6. RecNow \in FM..MaxCalls /\ ShownNow \in FM..MaxCalls
  BY CapsAssumption DEF TypeOK, RecNow, ShownNow, FM
<1> QED BY <1>1, <1>2, <1>3, <1>4, <1>5, <1>6

\* So are the speech left and the session that survives DMR.
LEMMA SpeechType ==
  ASSUME TypeOK, NEW k \in {0, AmbePerBurst}
  PROVE  /\ AmbeNow(k) \in 0..AmbeCap /\ SpeechNow(k) \in 0..AmbeCap
         /\ SessionNow \in Session
<1>1. AmbeNow(k) \in 0..AmbeCap
  <2>1. k \in Nat
    BY CapsAssumption
  <2> QED BY <2>1, CapsAssumption DEF TypeOK, AmbeNow, Least
<1>2. SessionNow \in Session
  BY NoSessionType DEF TypeOK, SessionNow
<1>3. SpeechNow(k) \in {0, AmbeNow(k)}
  BY DEF SpeechNow
<1> QED BY <1>1, <1>2, <1>3, CapsAssumption

\* A pass keeps the variables it settles in their range.
LEMMA PassType ==
  ASSUME TypeOK, NEW k, NEW left \in Seq(QueuedBurst), Len(left) <= QueueCap,
         NEW reported \in FM..MaxCalls, Pass(k, left, reported)
  PROVE  /\ call' \in Call /\ queue' \in Seq(QueuedBurst) /\ pre' \in Seq(PreBurst)
         /\ cand' \in -1..CandidateHold /\ idleFor' \in -1..IdleGuard
         /\ dup' \in 0..DupHold + 1 /\ lastTerm' \in 0..DupHold + 1
         /\ tone' \in -1..IdleGuard /\ stale' \in BOOLEAN
         /\ cool' \in [Sources -> 0..Cooldown] /\ seq' \in 0..MaxCalls
         /\ shown' \in FM..MaxCalls /\ fwd' \in BOOLEAN
         /\ cut' \subseteq 1..MaxCalls
         /\ Len(queue') <= QueueCap /\ Len(pre') <= PreCap
<1>1. pre' \in Seq(PreBurst) /\ Len(pre') <= PreCap
  <2>1. Purge(pre) \in Seq(PreBurst) /\ Len(Purge(pre)) <= Len(pre)
    BY PurgeType DEF TypeOK
  <2>2. pre' \in {pre, Purge(pre)}
    BY DEF Pass
  <2> QED BY <2>1, <2>2, CapsAssumption DEF TypeOK
<1> QED BY <1>1, NowType DEF TypeOK, Pass, Housekeeping

\* The bursts of an admission are the call's; at most the first starts it.
LEMMA AdmittedType ==
  ASSUME NEW id \in 1..MaxCalls, pre \in Seq(PreBurst)
  PROVE  /\ Admitted(id) \in Seq(QueuedBurst)
         /\ \A i \in 1..Len(Admitted(id)) : Admitted(id)[i].of = id
<1>1. Purge(pre) \in Seq(PreBurst)
  BY PurgeType
<1>2. \A i \in 1..Len(Purge(pre)) : Purge(pre)[i].data \in BOOLEAN
  <2>1. \A p \in Seq(PreBurst) : \A i \in 1..Len(p) : p[i] \in PreBurst
    OBVIOUS
  <2>2. \A b \in PreBurst : b.data \in BOOLEAN
    BY DEF PreBurst
  <2> QED BY <1>1, <2>1, <2>2
<1>3. CASE Purge(pre) # <<>>
  <2> DEFINE burst(i) == [of |-> id, start |-> i = 1, data |-> Purge(pre)[i].data]
  <2>1. Admitted(id) = [i \in 1..Len(Purge(pre)) |-> burst(i)]
    BY <1>3 DEF Admitted
  <2>2. \A i \in 1..Len(Purge(pre)) : burst(i) \in QueuedBurst /\ burst(i).of = id
    BY <1>2 DEF QueuedBurst
  <2>3. Len(Purge(pre)) \in Nat
    BY <1>1
  <2> HIDE DEF burst
  <2> QED BY <2>1, <2>2, <2>3
<1>4. CASE Purge(pre) = <<>>
  BY <1>4 DEF Admitted, QueuedBurst
<1> QED BY <1>3, <1>4

-----------------------------------------------------------------------------
(* Type correctness *)

\* The underflow counter stops at its limit because the session that reaches
\* it leaves the voice stage in the same pass.
UnderflowBelow == afm.stage # "terminator" => afm.under < UnderflowLimit

TypeInv == TypeOK /\ UnderflowBelow

\* The block is made in its types.
LEMMA TypeInit == Init => TypeInv
<1> SUFFICES ASSUME Init PROVE TypeInv
  OBVIOUS
<1>1. call \in Call /\ afm \in Session
  BY NoCallType, NoSessionType DEF Init
<1>2. UnderflowBelow
  BY StagesAssumption DEF Init, NoSession, UnderflowBelow
<1>3. queue \in Seq(QueuedBurst) /\ Len(queue) <= QueueCap
  BY CapsAssumption DEF Init
<1>4. pre \in Seq(PreBurst) /\ Len(pre) <= PreCap
  BY CapsAssumption DEF Init
<1>5. /\ cand \in -1..CandidateHold /\ idleFor \in -1..IdleGuard
      /\ dup \in 0..DupHold + 1 /\ lastTerm \in 0..DupHold + 1
      /\ tone \in -1..IdleGuard
  BY TimersAssumption DEF Init
<1>6. cool \in [Sources -> 0..Cooldown]
  <2>1. 0 \in 0..Cooldown
    BY TimersAssumption
  <2> QED BY <2>1 DEF Init
<1>7. /\ ambe \in 0..AmbeCap /\ seq \in 0..MaxCalls
      /\ shown \in FM..MaxCalls /\ rec \in FM..MaxCalls
      /\ cut \subseteq 1..MaxCalls
  BY CapsAssumption DEF Init, FM
<1>8. /\ rearm \in BOOLEAN /\ stale \in BOOLEAN /\ tx \in BOOLEAN /\ fwd \in BOOLEAN
  BY DEF Init
<1> QED BY <1>1, <1>2, <1>3, <1>4, <1>5, <1>6, <1>7, <1>8 DEF TypeInv, TypeOK

\* A session told to stop is a session, and no longer counts underflows.
LEMMA StoppingType ==
  ASSUME TypeInv
  PROVE  /\ Stopping(afm) \in Session
         /\ Stopping(afm).stage # "terminator" =>
              Stopping(afm).under < UnderflowLimit
<1>1. afm \in Session /\ UnderflowBelow
  BY DEF TypeInv, TypeOK
<1> DEFINE s == [afm EXCEPT !.stage = "terminator", !.count = 0]
<1>2. s \in Session
  <2>1. 0 \in 0..HeaderBursts + TerminatorBursts
    BY StagesAssumption
  <2> QED BY <1>1, <2>1 DEF Session
<1>3. s.stage = "terminator"
  BY <1>1 DEF Session
<1>4. Stopping(afm) \in {s, afm}
  BY DEF Stopping
<1> HIDE DEF s
<1> QED BY <1>1, <1>2, <1>3, <1>4 DEF UnderflowBelow

\* handle_raw_burst keeps the types.
LEMMA RawBurstType ==
  ASSUME TypeInv, NEW kind \in RawKinds, RawBurst(kind)
  PROVE  TypeInv'
<1> DEFINE heard == Purge(pre)
<1>1. heard \in Seq(PreBurst) /\ Len(heard) <= PreCap
  BY PurgeType, CapsAssumption DEF TypeInv, TypeOK
<1>2. pre' \in Seq(PreBurst) /\ Len(pre') <= PreCap
  <2> DEFINE b == [data |-> kind = "data", age |-> 0]
  <2>1. b \in PreBurst
    BY TimersAssumption DEF PreBurst
  <2>2. pre' = heard \/ pre' = Append(IF Len(heard) >= PreCap THEN Tail(heard) ELSE heard, b)
    BY DEF RawBurst
  <2> HIDE DEF b, heard
  <2>3. CASE pre' = Append(Tail(heard), b) /\ Len(heard) >= PreCap
    <3>1. heard # <<>>
      BY <2>3, <1>1, CapsAssumption
    <3>2. Tail(heard) \in Seq(PreBurst) /\ Len(Tail(heard)) = Len(heard) - 1
      BY <1>1, <3>1
    <3> QED BY <2>3, <1>1, <2>1, <3>2, CapsAssumption
  <2>4. CASE pre' = Append(heard, b) /\ ~(Len(heard) >= PreCap)
    BY <2>4, <1>1, <2>1, CapsAssumption
  <2> QED BY <1>1, <2>2, <2>3, <2>4
<1>3. queue' \in Seq(QueuedBurst) /\ Len(queue') <= QueueCap
  <2> DEFINE b == [of |-> call.id, start |-> FALSE, data |-> kind = "data"]
  <2>1. Active => b \in QueuedBurst
    BY CallFields, CapsAssumption DEF TypeInv, TypeOK, Active, QueuedBurst
  <2>2. queue' = queue \/ (Active /\ HasRoom(queue, 1) /\ queue' = Append(queue, b))
    BY DEF RawBurst
  <2> HIDE DEF b
  <2>3. CASE Active /\ HasRoom(queue, 1) /\ queue' = Append(queue, b)
    BY <2>1, <2>3, CapsAssumption DEF TypeInv, TypeOK, HasRoom
  <2> QED BY <2>2, <2>3 DEF TypeInv, TypeOK
<1>4. call' \in Call
  BY CallStaysHeard DEF TypeInv, TypeOK, RawBurst
<1>5. dup' \in 0..DupHold + 1 /\ lastTerm' \in 0..DupHold + 1
  <2>1. dup' \in {0, dup} /\ lastTerm' \in {0, DupHold + 1}
    BY DEF RawBurst
  <2> QED BY <2>1, TimersAssumption DEF TypeInv, TypeOK
<1>6. /\ cand' \in -1..CandidateHold /\ idleFor' \in -1..IdleGuard
      /\ tone' \in -1..IdleGuard
  <2>1. /\ cand' \in {CandidateHold, -1, cand} /\ idleFor' \in {-1, 0, idleFor}
        /\ tone' \in {-1, tone}
    BY DEF RawBurst, CandNow, afmVars
  <2> QED BY <2>1, TimersAssumption DEF TypeInv, TypeOK
<1>7. rearm' \in BOOLEAN /\ stale' \in BOOLEAN
  BY DEF TypeInv, TypeOK, RawBurst, afmVars
<1>8. afm' \in Session /\ ambe' \in 0..AmbeCap /\ UnderflowBelow'
  <2>1. StopSession \/ UNCHANGED <<afm, ambe>>
    BY DEF RawBurst, afmVars
  <2>2. CASE StopSession
    <3>1. ambe' \in {0, ambe} /\ afm' = Stopping(afm)
      BY <2>2 DEF StopSession
    <3> QED BY <3>1, StoppingType, CapsAssumption DEF TypeInv, TypeOK, UnderflowBelow
  <2> QED BY <2>1, <2>2 DEF TypeInv, TypeOK, UnderflowBelow
<1>9. UNCHANGED <<cool, seq, cut, tx, shown, rec, fwd>>
  BY DEF RawBurst, outVars
<1> QED BY <1>2, <1>3, <1>4, <1>5, <1>6, <1>7, <1>8, <1>9 DEF TypeInv, TypeOK

\* handle_header keeps the types, admitted, rolled back or repeated.
LEMMA HeaderType ==
  ASSUME TypeInv, NEW s \in Sources, Header(s)
  PROVE  TypeInv'
<1>0. TypeOK
  BY DEF TypeInv
<1>1. CASE BeginCall(s)
  <2>1. seq' \in 1..MaxCalls
    BY <1>0, <1>1, CapsAssumption DEF BeginCall, TypeOK
  <2>2. call' \in Call
    <3>1. 0 \in 0..Inactivity /\ TalkLimit \in 0..TalkLimit
      BY TimersAssumption
    <3>2. seq' \in 0..MaxCalls
      BY <2>1, CapsAssumption
    <3> QED BY <1>1, <3>1, <3>2 DEF BeginCall, Granted, Call
  <2>3. queue' \in Seq(QueuedBurst) /\ Len(queue') <= QueueCap
    <3>1. Admitted(seq') \in Seq(QueuedBurst)
      BY <1>0, <2>1, AdmittedType DEF TypeOK
    <3>2. HasRoom(QueueNow, Len(Admitted(seq'))) /\ queue' = QueueNow \o Admitted(seq')
      BY <1>1 DEF BeginCall
    <3> QED BY <1>0, <3>1, <3>2, NowType, CapsAssumption DEF HasRoom
  <2>4. pre' \in Seq(PreBurst) /\ Len(pre') <= PreCap
    BY <1>1, CapsAssumption DEF BeginCall
  <2>5. /\ dup' \in 0..DupHold + 1 /\ idleFor' \in -1..IdleGuard
        /\ tone' \in -1..IdleGuard /\ rec' \in FM..MaxCalls
    <3>1. /\ dup' \in {DupHold + 1, DupNow} /\ idleFor' = -1 /\ tone' = -1
          /\ rec' = seq'
      BY <1>1 DEF BeginCall
    <3> QED BY <1>0, <2>1, <3>1, NowType, TimersAssumption, CapsAssumption, SMTT(30) DEF FM
  <2>6. /\ UNCHANGED <<lastTerm, ambe, afm, tx, fwd>>
        /\ rearm' = TRUE /\ stale' = TRUE
        /\ cand' = CandNow /\ cool' = CoolNow /\ cut' = CutNow /\ shown' = ShownNow
    BY <1>1 DEF BeginCall, Housekeeping
  <2>7. seq' \in 0..MaxCalls
    BY <2>1, CapsAssumption
  <2> QED BY <1>0, <2>2, <2>3, <2>4, <2>5, <2>6, <2>7, NowType
      DEF TypeInv, TypeOK, UnderflowBelow
<1>2. CASE BeginFails(s)
  <2>1. seq' \in 0..MaxCalls
    BY <1>0, <1>2, CapsAssumption DEF BeginFails, TypeOK
  <2>2. pre' \in Seq(PreBurst) /\ Len(pre') <= PreCap
    BY <1>2, CapsAssumption DEF BeginFails
  <2>3. idleFor' \in -1..IdleGuard /\ tone' \in -1..IdleGuard
    BY <1>2, TimersAssumption DEF BeginFails
  <2>4. /\ UNCHANGED <<lastTerm, ambe, afm, tx, fwd>>
        /\ rearm' = TRUE /\ stale' = TRUE
        /\ cand' = CandNow /\ cool' = CoolNow /\ cut' = CutNow
        /\ call' = NoCall /\ queue' = QueueNow /\ dup' = DupNow
        /\ rec' = RecNow /\ shown' = ShownNow
    BY <1>2 DEF BeginFails, Housekeeping
  <2> QED BY <1>0, <2>1, <2>2, <2>3, <2>4, NowType, NoCallType
      DEF TypeInv, TypeOK, UnderflowBelow
<1>3. CASE RepeatHeader(s)
  <2>1. call' \in Call
    BY <1>0, <1>3, CallStaysHeard DEF RepeatHeader, TypeOK
  <2>2. pre' \in Seq(PreBurst) /\ Len(pre') <= PreCap
    <3>1. pre' = Purge(pre)
      BY <1>3 DEF RepeatHeader
    <3> QED BY <1>0, <3>1, PurgeType, CapsAssumption DEF TypeOK
  <2>3. /\ UNCHANGED <<queue, dup, seq, lastTerm, tone, rearm, ambe, afm, stale,
                       tx, shown, rec, fwd>>
        /\ cand' = CandNow /\ cool' = CoolNow /\ cut' = CutNow /\ idleFor' = IdleNow
    BY <1>3 DEF RepeatHeader, Housekeeping, afmVars, outVars
  <2> QED BY <1>0, <2>1, <2>2, <2>3, NowType DEF TypeInv, TypeOK, UnderflowBelow
<1> QED BY <1>1, <1>2, <1>3 DEF Header

\* handle_terminator keeps the types.
LEMMA TerminatorType ==
  ASSUME TypeInv, NEW s \in Sources, Terminator(s)
  PROVE  TypeInv'
<1>1. call' \in Call
  BY NoCallType DEF Terminator
<1>2. queue' \in Seq(QueuedBurst) /\ Len(queue') <= QueueCap
  <2> DEFINE b == [of |-> call.id, start |-> FALSE, data |-> FALSE]
  <2>1. b \in QueuedBurst
    BY CallFields, CapsAssumption, SMTT(30) DEF TypeInv, TypeOK, Terminator, Active, QueuedBurst
  <2>2. queue' = queue \/ (HasRoom(queue, 1) /\ queue' = Append(queue, b))
    BY DEF Terminator
  <2> HIDE DEF b
  <2>3. CASE HasRoom(queue, 1) /\ queue' = Append(queue, b)
    BY <2>1, <2>3, CapsAssumption DEF TypeInv, TypeOK, HasRoom
  <2> QED BY <2>2, <2>3 DEF TypeInv, TypeOK
<1>3. /\ idleFor' \in -1..IdleGuard /\ dup' \in 0..DupHold + 1
  BY TimersAssumption DEF Terminator
<1>4. rec' \in FM..MaxCalls /\ shown' \in FM..MaxCalls
  <2>1. rec' \in {0, rec} /\ shown' \in {0, shown}
    BY DEF Terminator
  <2> QED BY <2>1, CapsAssumption, SMTT(30) DEF TypeInv, TypeOK, FM
<1>5. UNCHANGED <<pre, cool, seq, cut, cand, lastTerm, tone, rearm, ambe, afm, stale,
                  tx, fwd>>
  BY DEF Terminator, afmVars
<1> QED BY <1>1, <1>2, <1>3, <1>4, <1>5 DEF TypeInv, TypeOK, UnderflowBelow

\* A report stays a call, FM or nothing, whether an FM session ended or not.
LEMMA ReportType ==
  ASSUME NEW r \in FM..MaxCalls
  PROVE  FmEnded(r) \in FM..MaxCalls /\ FmDropped(r) \in FM..MaxCalls
<1>1. FmEnded(r) \in {0, r} /\ FmDropped(r) \in {0, r}
  BY DEF FmEnded, FmDropped
<1> QED BY <1>1, CapsAssumption DEF FM

\* A pass keeps the types when what it sends, reports and leaves of the FM
\* session does.
LEMMA PassKeepsType ==
  ASSUME TypeInv, NEW k, NEW left \in Seq(QueuedBurst), Len(left) <= QueueCap,
         NEW reported \in FM..MaxCalls, Pass(k, left, reported),
         afm' \in Session, UnderflowBelow', ambe' \in 0..AmbeCap,
         rec' \in FM..MaxCalls, tx' \in BOOLEAN, rearm' \in BOOLEAN
  PROVE  TypeInv'
<1>1. TypeOK
  BY DEF TypeInv
<1> QED BY <1>1, PassType DEF TypeInv, TypeOK

\* A session DMR has not ended stays below the underflow limit.
LEMMA SessionNowBelow ==
  ASSUME TypeInv
  PROVE  SessionNow.stage # "terminator" => SessionNow.under < UnderflowLimit
<1>1. NoSession.under = 0
  BY DEF NoSession
<1>2. SessionNow \in {NoSession, afm}
  BY DEF SessionNow
<1> QED BY <1>1, <1>2, StagesAssumption DEF TypeInv, UnderflowBelow

\* A pass that sends a queued burst keeps the types.
LEMMA RelayBurstType ==
  ASSUME TypeInv, NEW k \in {0, AmbePerBurst}, RelayBurst(k)
  PROVE  TypeInv'
<1> DEFINE next == Head(QueueNow)
           left == Tail(QueueNow)
           reported == FmDropped(IF next.start THEN next.of ELSE ShownNow)
<1>0. TypeOK
  BY DEF TypeInv
<1>1. /\ next \in QueuedBurst /\ left \in Seq(QueuedBurst)
      /\ Len(left) <= QueueCap
  <2>1. QueueNow # <<>> /\ QueueNow \in Seq(QueuedBurst) /\ Len(QueueNow) <= QueueCap
    BY <1>0, NowType DEF RelayBurst
  <2> QED BY <2>1, CapsAssumption
<1>2. reported \in FM..MaxCalls
  <2>1. next.of \in 1..MaxCalls
    BY <1>1 DEF QueuedBurst
  <2>2. next.of \in FM..MaxCalls /\ ShownNow \in FM..MaxCalls
    BY <1>0, <2>1, NowType, CapsAssumption DEF FM
  <2> QED BY <2>2, ReportType
<1>3. Pass(k, left, reported)
  BY DEF RelayBurst
<1>4. /\ afm' = SessionNow /\ ambe' = SpeechNow(k) /\ rec' = FmDropped(RecNow)
      /\ tx' = PttAfter(TRUE, Tail(QueueNow), SessionNow) /\ rearm' = rearm
  BY DEF RelayBurst
<1>5. /\ afm' \in Session /\ UnderflowBelow' /\ ambe' \in 0..AmbeCap
      /\ rec' \in FM..MaxCalls
  BY <1>0, <1>4, SpeechType, SessionNowBelow, NowType, ReportType DEF UnderflowBelow
<1>6. tx' \in BOOLEAN /\ rearm' \in BOOLEAN
  BY <1>0, <1>4 DEF PttAfter, TypeOK
<1> HIDE DEF next, left, reported
<1> QED BY <1>1, <1>2, <1>3, <1>5, <1>6, PassKeepsType

\* The other passes find the queue empty and leave it so.
LEMMA EmptyPassKeepsType ==
  ASSUME TypeInv, NEW k, NEW reported \in FM..MaxCalls, Pass(k, <<>>, reported),
         afm' \in Session, UnderflowBelow', ambe' \in 0..AmbeCap,
         rec' \in FM..MaxCalls, tx' \in BOOLEAN, rearm' \in BOOLEAN
  PROVE  TypeInv'
<1>1. <<>> \in Seq(QueuedBurst) /\ Len(<<>>) <= QueueCap
  BY CapsAssumption
<1> QED BY <1>1, PassKeepsType

\* A pass with nothing to send keeps the types.
LEMMA IdlePassType ==
  ASSUME TypeInv, NEW k \in {0, AmbePerBurst}, IdlePass(k)
  PROVE  TypeInv'
<1>0. TypeOK
  BY DEF TypeInv
<1>1. /\ afm' = SessionNow /\ ambe' = SpeechNow(k) /\ rec' = FmDropped(RecNow)
      /\ tx' = PttAfter(tx, <<>>, SessionNow) /\ rearm' = rearm
      /\ Pass(k, <<>>, FmDropped(ShownNow))
  BY DEF IdlePass
<1>2. /\ afm' \in Session /\ UnderflowBelow' /\ ambe' \in 0..AmbeCap
      /\ rec' \in FM..MaxCalls /\ FmDropped(ShownNow) \in FM..MaxCalls
  BY <1>0, <1>1, SpeechType, SessionNowBelow, NowType, ReportType DEF UnderflowBelow
<1>3. tx' \in BOOLEAN /\ rearm' \in BOOLEAN
  BY <1>0, <1>1 DEF PttAfter, TypeOK
<1> QED BY <1>1, <1>2, <1>3, EmptyPassKeepsType

\* A pass that opens an FM session or sends its header keeps the types.
LEMMA FmHeaderType ==
  ASSUME TypeInv, NEW k \in {0, AmbePerBurst}, FmHeader(k)
  PROVE  TypeInv'
<1> DEFINE starts == ~InSession
           s == IF starts THEN [NoSession EXCEPT !.stage = "header", !.left = TalkLimit]
                ELSE afm
           reported == IF starts THEN FM ELSE ShownNow
<1>0. TypeOK
  BY DEF TypeInv
<1>1. s \in Session /\ s.under < UnderflowLimit
  <2>1. CASE starts
    <3>1. TalkLimit \in 0..TalkLimit
      BY TimersAssumption
    <3>2. [NoSession EXCEPT !.stage = "header", !.left = TalkLimit] \in Session
      BY <3>1, NoSessionType DEF Session
    <3>3. [NoSession EXCEPT !.stage = "header", !.left = TalkLimit].under = 0
      BY DEF NoSession
    <3> QED BY <2>1, <3>2, <3>3, StagesAssumption
  <2>2. CASE ~starts
    <3>1. afm.stage = "header"
      BY <2>2 DEF FmHeader, FmMayStart
    <3> QED BY <2>2, <3>1 DEF TypeInv, TypeOK, UnderflowBelow
  <2> QED BY <2>1, <2>2
<1>2. /\ afm' = IF s.count + 1 >= HeaderBursts
                THEN [s EXCEPT !.stage = "voice", !.count = 0]
                ELSE [s EXCEPT !.count = @ + 1]
      /\ rec' = IF starts THEN FM ELSE RecNow
      /\ Pass(k, <<>>, reported)
      /\ ambe' = AmbeNow(k) /\ tx' = TRUE /\ rearm' = rearm
  BY DEF FmHeader
<1> HIDE DEF s, starts
<1>3. afm' \in Session /\ UnderflowBelow'
  <2>1. CASE s.count + 1 >= HeaderBursts
    <3>1. 0 \in 0..HeaderBursts + TerminatorBursts
      BY StagesAssumption
    <3>2. afm' = [s EXCEPT !.stage = "voice", !.count = 0]
      BY <1>2, <2>1
    <3>3. afm' \in Session
      BY <1>1, <3>1, <3>2 DEF Session
    <3>4. afm'.under = s.under
      BY <1>1, <3>2 DEF Session
    <3> QED BY <1>1, <3>3, <3>4 DEF UnderflowBelow
  <2>2. CASE ~(s.count + 1 >= HeaderBursts)
    <3>1. s.count + 1 \in 0..HeaderBursts + TerminatorBursts
      BY <1>1, <2>2, SessionFields, StagesAssumption
    <3>2. afm' = [s EXCEPT !.count = s.count + 1]
      BY <1>2, <2>2
    <3>3. afm' \in Session
      BY <1>1, <3>1, <3>2 DEF Session
    <3>4. afm'.under = s.under
      BY <1>1, <3>2 DEF Session
    <3> QED BY <1>1, <3>3, <3>4 DEF UnderflowBelow
  <2> QED BY <2>1, <2>2
<1>4. FM \in FM..MaxCalls
  BY CapsAssumption DEF FM
<1>5. reported \in FM..MaxCalls /\ rec' \in FM..MaxCalls
  BY <1>0, <1>2, <1>4, NowType
<1>6. ambe' \in 0..AmbeCap /\ tx' \in BOOLEAN /\ rearm' \in BOOLEAN
  BY <1>0, <1>2, SpeechType DEF TypeOK
<1> HIDE DEF reported
<1> QED BY <1>2, <1>3, <1>5, <1>6, EmptyPassKeepsType

\* A pass that sends FM speech keeps the types.
LEMMA FmVoiceType ==
  ASSUME TypeInv, NEW k \in {0, AmbePerBurst}, FmVoice(k)
  PROVE  TypeInv'
<1>0. TypeOK
  BY DEF TypeInv
<1>1. /\ afm' = [afm EXCEPT !.under = 0] /\ ambe' = AmbeNow(k) - AmbePerBurst
      /\ AmbeNow(k) >= AmbePerBurst /\ tx' = TRUE /\ rearm' = rearm
      /\ rec' = RecNow /\ Pass(k, <<>>, ShownNow)
  BY DEF FmVoice
<1>2. afm' \in Session /\ afm'.under = 0
  <2>1. 0 \in 0..UnderflowLimit /\ afm \in Session
    BY <1>0, StagesAssumption DEF TypeOK
  <2> QED BY <1>1, <2>1 DEF Session
<1>3. UnderflowBelow'
  BY <1>2, StagesAssumption DEF UnderflowBelow
<1>4. ambe' \in 0..AmbeCap
  BY <1>0, <1>1, SpeechType, CapsAssumption
<1>5. tx' \in BOOLEAN /\ rearm' \in BOOLEAN
  BY <1>0, <1>1 DEF TypeOK
<1> QED BY <1>0, <1>1, <1>2, <1>3, <1>4, <1>5, NowType, EmptyPassKeepsType

\* A pass without speech keeps the types and the underflow limit.
LEMMA FmUnderflowType ==
  ASSUME TypeInv, NEW k \in {0, AmbePerBurst}, FmUnderflow(k)
  PROVE  TypeInv'
<1>0. TypeOK /\ afm \in Session
  BY DEF TypeInv, TypeOK
<1>1. /\ ambe' = AmbeNow(k) /\ tx' = tx /\ rearm' \in {TRUE, rearm}
      /\ rec' = RecNow /\ Pass(k, <<>>, ShownNow)
  BY DEF FmUnderflow
<1>2. afm' \in Session /\ UnderflowBelow'
  <2>0. afm.under + 1 \in 0..UnderflowLimit /\ 0 \in 0..HeaderBursts + TerminatorBursts
    <3>1. afm.under < UnderflowLimit
      BY DEF FmUnderflow, TypeInv, UnderflowBelow
    <3> QED BY <1>0, <3>1, SessionFields, StagesAssumption
  <2>1. CASE afm' = [afm EXCEPT !.under = afm.under + 1, !.stage = "terminator", !.count = 0]
    BY <1>0, <2>0, <2>1 DEF Session, UnderflowBelow
  <2>2. CASE /\ afm.under + 1 < UnderflowLimit
             /\ afm' = [afm EXCEPT !.under = afm.under + 1]
    <3>1. afm' \in Session /\ afm'.under = afm.under + 1
      BY <1>0, <2>0, <2>2 DEF Session
    <3> QED BY <2>2, <3>1 DEF UnderflowBelow
  <2> QED BY <2>1, <2>2 DEF FmUnderflow
<1>3. ambe' \in 0..AmbeCap /\ rec' \in FM..MaxCalls /\ ShownNow \in FM..MaxCalls
  BY <1>0, <1>1, SpeechType, NowType
<1>4. tx' \in BOOLEAN /\ rearm' \in BOOLEAN
  BY <1>0, <1>1 DEF TypeOK
<1> QED BY <1>1, <1>2, <1>3, <1>4, EmptyPassKeepsType

\* A pass that sends an FM terminator keeps the types.
LEMMA FmTerminatorType ==
  ASSUME TypeInv, NEW k \in {0, AmbePerBurst}, FmTerminator(k)
  PROVE  TypeInv'
<1> DEFINE s == Stopping(afm)
<1>0. TypeOK
  BY DEF TypeInv
<1>1. s \in Session /\ s.stage = "terminator"
  <2>1. s \in Session
    BY StoppingType
  <2>2. afm.stage \in {"header", "voice"} \/ afm.stage = "terminator"
    BY DEF FmTerminator, FmStops, OnAir
  <2>3. CASE afm.stage \in {"header", "voice"}
    <3>1. [afm EXCEPT !.stage = "terminator", !.count = 0].stage = "terminator"
      BY <1>0 DEF TypeOK, Session
    <3>2. s.stage = "terminator"
      BY <2>3, <3>1 DEF Stopping
    <3> QED BY <2>1, <3>2
  <2>4. CASE afm.stage = "terminator"
    <3>1. s = afm
      BY <2>4 DEF Stopping
    <3> QED BY <2>1, <2>4, <3>1
  <2> QED BY <2>1, <2>2, <2>3, <2>4
<1>2. rearm' \in BOOLEAN
  BY <1>0 DEF FmTerminator, TypeOK
<1>3. CASE /\ s.count + 1 < TerminatorBursts
           /\ afm' = [s EXCEPT !.count = s.count + 1]
           /\ ambe' \in {0, AmbeNow(k)} /\ tx' = TRUE
           /\ Pass(k, <<>>, ShownNow) /\ rec' = RecNow
  <2> HIDE DEF s
  <2>1. afm' \in Session /\ afm'.stage = "terminator"
    <3>1. s.count + 1 \in 0..HeaderBursts + TerminatorBursts
      BY <1>1, <1>3, SessionFields, StagesAssumption
    <3>2. afm' \in Session
      BY <1>1, <1>3, <3>1 DEF Session
    <3>3. afm'.stage = s.stage
      BY <1>1, <1>3 DEF Session
    <3> QED BY <1>1, <3>2, <3>3
  <2>2. ambe' \in 0..AmbeCap
    BY <1>0, <1>3, SpeechType, CapsAssumption
  <2> QED BY <1>0, <1>2, <1>3, <2>1, <2>2, NowType, EmptyPassKeepsType
      DEF UnderflowBelow
<1>4. CASE /\ afm' = NoSession /\ ambe' = 0 /\ tx' = FALSE
           /\ Pass(k, <<>>, FmEnded(ShownNow)) /\ rec' = FmEnded(RecNow)
  <2>1. afm' \in Session /\ UnderflowBelow'
    BY <1>4, NoSessionType, StagesAssumption DEF NoSession, UnderflowBelow
  <2>2. ambe' \in 0..AmbeCap
    BY <1>4, CapsAssumption
  <2>3. FmEnded(ShownNow) \in FM..MaxCalls /\ rec' \in FM..MaxCalls
    BY <1>0, <1>4, NowType, ReportType
  <2> QED BY <1>2, <1>4, <2>1, <2>2, <2>3, EmptyPassKeepsType
<1> QED BY <1>3, <1>4 DEF FmTerminator

\* A report of the tone detector keeps the types.
LEMMA CtcssType ==
  ASSUME TypeInv, NEW q \in BOOLEAN, SetCtcssState(q)
  PROVE  TypeInv'
<1> DEFINE eff == q /\ ~MustRearm(q) /\ ~Busy
<1>1. /\ tone' \in {-1, 0, tone}
      /\ rearm' \in BOOLEAN /\ stale' \in BOOLEAN
      /\ UNCHANGED <<call, queue, pre, dup, cool, seq, cut, cand, idleFor, lastTerm,
                     tx, shown, rec, fwd>>
  BY DEF SetCtcssState, MustRearm, Qualified, Busy, Candidate, TypeInv, TypeOK,
         dmrVars, outVars
<1>2. tone' \in -1..IdleGuard
  BY <1>1, TimersAssumption DEF TypeInv, TypeOK
<1>3. StopSession \/ UNCHANGED <<afm, ambe>>
  BY DEF SetCtcssState
<1>4. afm' \in Session /\ ambe' \in 0..AmbeCap /\ UnderflowBelow'
  <2>1. CASE StopSession
    <3>1. ambe' \in {0, ambe} /\ afm' = Stopping(afm)
      BY <2>1 DEF StopSession
    <3> QED BY <3>1, StoppingType, CapsAssumption DEF TypeInv, TypeOK, UnderflowBelow
  <2> QED BY <1>3, <2>1 DEF TypeInv, TypeOK, UnderflowBelow
<1> QED BY <1>1, <1>2, <1>4 DEF TypeInv, TypeOK

\* The clock keeps the types.
LEMMA TickType ==
  ASSUME TypeInv, Tick
  PROVE  TypeInv'
<1>0. TypeOK /\ call \in Call /\ afm \in Session
  BY DEF TypeInv, TypeOK
<1>1. \A m \in Nat : \A n \in 0..m : Down(n) \in 0..m /\ Up(n, m) \in 0..m
  BY DEF Down, Up
<1>2. \A m \in Nat : \A n \in -1..m : Down(n) \in -1..m /\ Up(n, m) \in -1..m
  BY DEF Down, Up
<1>3. call' \in Call
  <2>1. Down(call.left) \in 0..TalkLimit /\ Up(call.quiet, Inactivity) \in 0..Inactivity
    BY <1>0, <1>1, CallFields, TimersAssumption
  <2>2. call' \in {call, [call EXCEPT !.left = Down(call.left),
                                      !.quiet = Up(call.quiet, Inactivity)]}
    BY DEF Tick
  <2>3. [call EXCEPT !.left = Down(call.left), !.quiet = Up(call.quiet, Inactivity)]
          \in Call
    BY <1>0, <2>1 DEF Call
  <2> QED BY <1>0, <2>2, <2>3
<1>4. pre' \in Seq(PreBurst) /\ Len(pre') <= PreCap
  <2> DEFINE older(i) == [pre[i] EXCEPT !.age = Up(pre[i].age, CandidateHold + 1)]
  <2>1. \A b \in PreBurst : [b EXCEPT !.age = Up(b.age, CandidateHold + 1)] \in PreBurst
    <3>1. SUFFICES ASSUME NEW b \in PreBurst
                   PROVE  [b EXCEPT !.age = Up(b.age, CandidateHold + 1)] \in PreBurst
      OBVIOUS
    <3>2. b.age \in 0..CandidateHold + 1 /\ CandidateHold + 1 \in Nat
      BY TimersAssumption DEF PreBurst
    <3>3. Up(b.age, CandidateHold + 1) \in 0..CandidateHold + 1
      BY <1>1, <3>2
    <3> QED BY <3>3 DEF PreBurst
  <2>2. pre \in Seq(PreBurst) /\ Len(pre) <= PreCap /\ Len(pre) \in Nat
    BY <1>0 DEF TypeOK
  <2>3. \A i \in 1..Len(pre) : older(i) \in PreBurst
    BY <2>1, <2>2
  <2>4. pre' = [i \in 1..Len(pre) |-> older(i)]
    BY DEF Tick
  <2> HIDE DEF older
  <2> QED BY <2>2, <2>3, <2>4
<1>5. /\ cand' \in -1..CandidateHold /\ idleFor' \in -1..IdleGuard
      /\ tone' \in -1..IdleGuard
  BY <1>0, <1>2, TimersAssumption DEF Tick, TypeOK
<1>6. dup' \in 0..DupHold + 1 /\ lastTerm' \in 0..DupHold + 1
  <2>1. DupHold + 1 \in Nat
    BY TimersAssumption
  <2> QED BY <1>0, <1>1, <2>1 DEF Tick, TypeOK
<1>7. afm' \in Session /\ UnderflowBelow'
  <2>1. Down(afm.left) \in 0..TalkLimit
    BY <1>0, <1>1, SessionFields, TimersAssumption
  <2>2. afm' = [afm EXCEPT !.left = Down(afm.left)]
    BY DEF Tick
  <2>3. afm' \in Session /\ afm'.stage = afm.stage /\ afm'.under = afm.under
    BY <1>0, <2>1, <2>2 DEF Session
  <2> QED BY <2>3 DEF TypeInv, UnderflowBelow
<1>8. cool' \in [Sources -> 0..Cooldown]
  <2>1. \A s \in Sources : Down(cool[s]) \in 0..Cooldown
    BY <1>0, <1>1, TimersAssumption DEF TypeOK
  <2> QED BY <2>1 DEF Tick
<1>9. UNCHANGED <<queue, seq, cut, rearm, ambe, stale, tx, shown, rec, fwd>>
  BY DEF Tick, outVars
<1> QED BY <1>0, <1>3, <1>4, <1>5, <1>6, <1>7, <1>8, <1>9 DEF TypeInv, TypeOK

\* Every step keeps the types.
LEMMA TypeStep == TypeInv /\ [Next]_vars => TypeInv'
<1> SUFFICES ASSUME TypeInv, [Next]_vars PROVE TypeInv'
  OBVIOUS
<1>1. ASSUME NEW kind \in RawKinds, RawBurst(kind) PROVE TypeInv'
  BY <1>1, RawBurstType
<1>2. ASSUME NEW s \in Sources, Header(s) \/ Terminator(s) PROVE TypeInv'
  BY <1>2, HeaderType, TerminatorType
<1>3. CASE DataFrame
  <2>1. <<>> \in Seq(PreBurst) /\ Len(<<>>) <= PreCap
    BY CapsAssumption
  <2> QED BY <1>3, <2>1 DEF DataFrame, TypeInv, TypeOK, UnderflowBelow, afmVars, outVars
<1>4. ASSUME NEW k \in {0, AmbePerBurst}, GeneralWork(k) PROVE TypeInv'
  BY <1>4, RelayBurstType, IdlePassType, FmHeaderType, FmVoiceType, FmUnderflowType,
     FmTerminatorType DEF GeneralWork
<1>5. ASSUME NEW q \in BOOLEAN, SetCtcssState(q) PROVE TypeInv'
  BY <1>5, CtcssType
<1>6. CASE SetForwarding
  BY <1>6 DEF SetForwarding, TypeInv, TypeOK, UnderflowBelow, dmrVars, afmVars, outVars
<1>7. CASE Tick
  BY <1>7, TickType
<1>8. CASE UNCHANGED vars
  BY <1>8 DEF vars, TypeInv, TypeOK, UnderflowBelow, dmrVars, afmVars, outVars
<1> QED BY <1>1, <1>2, <1>3, <1>4, <1>5, <1>6, <1>7, <1>8 DEF Next

\* Every variable of the block stays in its range; in particular the queue
\* and the bursts kept from before a header never outgrow their limits,
\* whatever handlers, passes and threads do (hardware_runtime.cpp,
\* enqueue_locked and handle_raw_burst).
THEOREM TypeCorrect == Spec => []TypeOK
<1>1. TypeInv => TypeOK
  BY DEF TypeInv
<1> QED BY <1>1, TypeInit, TypeStep, PTL DEF Spec

\* The inductive invariant of the types: TypeOK, and an FM session on the air
\* below its underflow limit.
THEOREM TypeInvariant == Spec => []TypeInv
BY TypeInit, TypeStep, PTL DEF Spec

-----------------------------------------------------------------------------
(* What each kind of step does to the call, the queue and the session *)

\* No call and no session are what their names say.
LEMMA NoneActive == NoCall.id = 0 /\ NoSession.stage = "none"
BY DEF NoCall, NoSession

\* After the housekeeping the call is gone or still the one that was up.
LEMMA CallNowCases ==
  ASSUME TypeInv
  PROVE  \/ CallNow = NoCall /\ Over
         \/ CallNow = call /\ ~Over
BY DEF CallNow

\* The queue is kept unless the duration limit cut the call.
LEMMA QueueNowCases == IF Expired THEN QueueNow = <<>> ELSE QueueNow = queue
BY DEF QueueNow

\* Telling a session to stop neither opens nor closes one.
LEMMA StoppingStage ==
  ASSUME TypeInv
  PROVE  Stopping(afm).stage = "none" <=> afm.stage = "none"
<1>1. afm \in Session
  BY DEF TypeInv, TypeOK
<1>2. [afm EXCEPT !.stage = "terminator", !.count = 0].stage = "terminator"
  BY <1>1 DEF Session
<1> QED BY <1>2 DEF Stopping

\* A raw burst keeps the call and the session; the burst it may queue is the
\* call's, and does not carry its start.
LEMMA RawBurstEffect ==
  ASSUME TypeInv, NEW kind \in RawKinds, RawBurst(kind)
  PROVE  /\ call'.id = call.id /\ (InSession' <=> InSession)
         /\ \/ queue' = queue
            \/ /\ Active
               /\ queue' = Append(queue, [of |-> call.id, start |-> FALSE,
                                          data |-> kind = "data"])
         /\ UNCHANGED <<cut, seq, rec, shown, tx>>
         /\ \/ rearm' = TRUE
            \/ UNCHANGED <<rearm, stale>>
<1>1. call' \in {call, [call EXCEPT !.quiet = 0]}
  BY DEF RawBurst
<1>2. call'.id = call.id
  BY <1>1 DEF TypeInv, TypeOK, Call
<1>3. InSession' <=> InSession
  <2>1. afm' \in {afm, Stopping(afm)}
    BY DEF RawBurst, StopSession, afmVars
  <2> QED BY <2>1, StoppingStage DEF InSession
<1>4. \/ queue' = queue
      \/ /\ Active
         /\ queue' = Append(queue, [of |-> call.id, start |-> FALSE,
                                    data |-> kind = "data"])
  BY DEF RawBurst
<1> QED BY <1>2, <1>3, <1>4 DEF RawBurst, afmVars, outVars

\* A report of the tone detector opens and closes no session and leaves the
\* DMR side alone.
LEMMA CtcssEffect ==
  ASSUME TypeInv, NEW q \in BOOLEAN, SetCtcssState(q)
  PROVE  /\ UNCHANGED <<call, queue, cut, seq, rec, shown, tx>>
         /\ (InSession' <=> InSession)
<1>1. afm' \in {afm, Stopping(afm)}
  BY DEF SetCtcssState, StopSession
<1> QED BY <1>1, StoppingStage DEF SetCtcssState, InSession, dmrVars, outVars

\* The clock opens and closes no call and no session.
LEMMA TickEffect ==
  ASSUME TypeInv, Tick
  PROVE  /\ call'.id = call.id /\ (InSession' <=> InSession)
         /\ UNCHANGED <<queue, cut, seq, rec, shown, tx, rearm, stale, ambe>>
<1>1. call'.id = call.id
  <2>1. call' \in {call, [call EXCEPT !.left = Down(call.left),
                                      !.quiet = Up(call.quiet, Inactivity)]}
    BY DEF Tick
  <2> QED BY <2>1 DEF TypeInv, TypeOK, Call
<1>2. afm'.stage = afm.stage
  BY DEF Tick, TypeInv, TypeOK, Session
<1> QED BY <1>1, <1>2 DEF Tick, InSession, outVars

\* A header admits a new call, fails to, or leaves the call that is up.
LEMMA RepeatHeaderEffect ==
  ASSUME TypeInv, NEW s \in Sources, RepeatHeader(s)
  PROVE  /\ call'.id = call.id /\ Active /\ ~Over
         /\ cut' = cut
         /\ UNCHANGED <<queue, seq, rec, shown, tx, afm, ambe, rearm, stale>>
<1>1. CallNow = call /\ Active /\ ~Over
  BY CallNowCases, NoneActive DEF RepeatHeader, Active
<1>2. call' \in {call, [call EXCEPT !.quiet = 0]}
  BY DEF RepeatHeader
<1>3. call'.id = call.id
  BY <1>2 DEF TypeInv, TypeOK, Call
<1>4. cut' = cut
  BY <1>1 DEF RepeatHeader, Housekeeping, CutNow, Over
<1> QED BY <1>1, <1>3, <1>4 DEF RepeatHeader, afmVars, outVars

\* Every work pass settles the call and the queue of the housekeeping.
LEMMA WorkEffect ==
  ASSUME NEW k \in {0, AmbePerBurst}, GeneralWork(k)
  PROVE  /\ call' = CallNow /\ cut' = CutNow /\ UNCHANGED <<seq, stale>>
         /\ \/ QueueNow # <<>> /\ queue' = Tail(QueueNow)
            \/ QueueNow = <<>> /\ queue' = <<>>
BY DEF GeneralWork, RelayBurst, IdlePass, FmHeader, FmVoice, FmUnderflow, FmTerminator,
       FmRuns, Pass, Housekeeping

-----------------------------------------------------------------------------
(* The duration limit *)

\* The identity of a new call was never used, so that a cut call is neither
\* the one that is up nor one to come.
CutInv ==
  /\ cut \subseteq 1..seq
  /\ call.id <= seq
  /\ Active => call.id \notin cut
  /\ CutCallSilenced

\* Every step keeps bursts of cut calls out of the queue.
LEMMA CutStep ==
  ASSUME TypeInv, CutInv, [Next]_vars
  PROVE  CutInv'
<1> DEFINE Silent(q, c) == \A i \in 1..Len(q) : q[i].of \notin c
<1>0. /\ call.id \in 0..MaxCalls /\ seq \in 0..MaxCalls /\ cut \subseteq 1..MaxCalls
      /\ queue \in Seq(QueuedBurst)
  BY CallFields DEF TypeInv, TypeOK
<1>1. CutNow \subseteq 1..seq
  <2>1. Expired => call.id \in 1..seq
    BY <1>0, CapsAssumption DEF CutInv, Expired, Active
  <2> QED BY <2>1 DEF CutNow, CutInv
<1>2. Silent(QueueNow, CutNow)
  BY <1>0, QueueNowCases DEF CutNow, CutInv, CutCallSilenced
<1>3. QueueNow \in Seq(QueuedBurst)
  BY NowType DEF TypeInv
<1>4. ASSUME NEW kind \in RawKinds, RawBurst(kind) PROVE CutInv'
  <2>1. Silent(queue', cut)
    <3>1. CASE queue' = queue
      BY <3>1 DEF CutInv, CutCallSilenced
    <3>2. CASE Active /\ queue' = Append(queue, [of |-> call.id, start |-> FALSE,
                                                 data |-> kind = "data"])
      <4> DEFINE b == [of |-> call.id, start |-> FALSE, data |-> kind = "data"]
      <4>1. b.of \notin cut
        BY <3>2 DEF CutInv
      <4>2. queue' = Append(queue, b)
        BY <3>2
      <4> HIDE DEF b
      <4> QED BY <1>0, <4>1, <4>2 DEF CutInv, CutCallSilenced
    <3> QED BY <1>4, <3>1, <3>2, RawBurstEffect
  <2>2. call'.id = call.id /\ cut' = cut /\ seq' = seq
    BY <1>4, RawBurstEffect
  <2> QED BY <2>1, <2>2 DEF CutInv, CutCallSilenced, Active
<1>5. ASSUME NEW s \in Sources, BeginCall(s) PROVE CutInv'
  <2>1. /\ seq' = seq + 1 /\ call'.id = seq + 1 /\ cut' = CutNow
        /\ queue' = QueueNow \o Admitted(seq + 1) /\ seq + 1 \in 1..MaxCalls
    BY <1>0, <1>5, CapsAssumption DEF BeginCall, Housekeeping
  <2>2. /\ Admitted(seq + 1) \in Seq(QueuedBurst)
        /\ \A i \in 1..Len(Admitted(seq + 1)) : Admitted(seq + 1)[i].of = seq + 1
    BY <2>1, AdmittedType DEF TypeInv, TypeOK
  <2>3. seq + 1 \notin CutNow
    BY <1>0, <1>1
  <2>4. Silent(queue', CutNow)
    <3> DEFINE a == Admitted(seq + 1)
    <3>1. \A i \in 1..Len(a) : a[i].of \notin CutNow
      BY <2>2, <2>3
    <3>2. queue' = QueueNow \o a /\ a \in Seq(QueuedBurst)
      BY <2>1, <2>2
    <3> HIDE DEF a
    <3> QED BY <1>2, <1>3, <3>1, <3>2
  <2>5. CutNow \subseteq 1..seq'
    BY <1>0, <1>1, <2>1
  <2> QED BY <1>0, <2>1, <2>3, <2>4, <2>5 DEF CutInv, CutCallSilenced
<1>6. ASSUME NEW s \in Sources, BeginFails(s) PROVE CutInv'
  <2>1. /\ seq' = seq + 1 /\ call' = NoCall /\ cut' = CutNow /\ queue' = QueueNow
    BY <1>6 DEF BeginFails, Housekeeping
  <2>2. cut' \subseteq 1..seq' /\ call'.id = 0 /\ call'.id <= seq'
    BY <1>0, <1>1, <2>1, NoneActive, CapsAssumption
  <2> QED BY <1>2, <2>1, <2>2 DEF CutInv, CutCallSilenced, Active
<1>7. ASSUME NEW s \in Sources, RepeatHeader(s) PROVE CutInv'
  <2>1. call'.id = call.id /\ UNCHANGED <<queue, cut, seq>>
    BY <1>7, RepeatHeaderEffect
  <2> QED BY <2>1 DEF CutInv, CutCallSilenced, Active
<1>8. ASSUME NEW s \in Sources, Terminator(s) PROVE CutInv'
  <2>1. Silent(queue', cut)
    <3>1. CASE queue' = queue
      BY <3>1 DEF CutInv, CutCallSilenced
    <3>2. CASE Active /\ queue' = Append(queue, [of |-> call.id, start |-> FALSE,
                                                 data |-> FALSE])
      <4> DEFINE b == [of |-> call.id, start |-> FALSE, data |-> FALSE]
      <4>1. b.of \notin cut
        BY <3>2 DEF CutInv
      <4>2. queue' = Append(queue, b)
        BY <3>2
      <4> HIDE DEF b
      <4> QED BY <1>0, <4>1, <4>2 DEF CutInv, CutCallSilenced
    <3> QED BY <1>8, <3>1, <3>2 DEF Terminator
  <2>2. call' = NoCall /\ seq' = seq /\ cut' = cut
    BY <1>8 DEF Terminator
  <2> QED BY <1>0, <2>1, <2>2, NoneActive DEF CutInv, CutCallSilenced, Active
<1>9. ASSUME NEW k \in {0, AmbePerBurst}, GeneralWork(k) PROVE CutInv'
  <2>1. call' = CallNow /\ cut' = CutNow /\ seq' = seq
    BY <1>9, WorkEffect
  <2>2. Silent(queue', CutNow)
    <3>1. CASE QueueNow # <<>> /\ queue' = Tail(QueueNow)
      BY <1>2, <1>3, <3>1
    <3>2. CASE queue' = <<>>
      BY <3>2
    <3> QED BY <1>9, <3>1, <3>2, WorkEffect
  <2>3. CASE CallNow = NoCall
    BY <1>0, <1>1, <2>1, <2>2, <2>3, NoneActive DEF CutInv, CutCallSilenced, Active
  <2>4. CASE CallNow = call /\ ~Over
    <3>1. CutNow = cut
      BY <2>4 DEF CutNow, Over
    <3> QED BY <1>1, <2>1, <2>2, <2>4, <3>1 DEF CutInv, CutCallSilenced, Active
  <2> QED BY <2>3, <2>4, CallNowCases
<1>10. ASSUME NEW q \in BOOLEAN, SetCtcssState(q) PROVE CutInv'
  <2>1. UNCHANGED <<call, queue, cut, seq>>
    BY <1>10, CtcssEffect
  <2> QED BY <2>1 DEF CutInv, CutCallSilenced, Active
<1>11. CASE DataFrame \/ SetForwarding \/ UNCHANGED vars
  BY <1>11 DEF DataFrame, SetForwarding, vars, dmrVars,
     CutInv, CutCallSilenced, Active
<1>12. CASE Tick
  <2>1. call'.id = call.id /\ UNCHANGED <<queue, cut, seq>>
    BY <1>12, TickEffect
  <2> QED BY <2>1 DEF CutInv, CutCallSilenced, Active
<1> QED BY <1>4, <1>5, <1>6, <1>7, <1>8, <1>9, <1>10, <1>11, <1>12 DEF Next, Header

\* No burst of a call the duration limit has cut is sent afterwards, neither
\* what was queued when enforce_duration_limit_locked cut it nor what is
\* received later (hardware_runtime.cpp).
THEOREM CutCallsAreSilenced == Spec => []CutCallSilenced
<1>1. Init => CutInv
  BY CapsAssumption, NoneActive DEF Init, CutInv, CutCallSilenced, Active
<1>2. CutInv => CutCallSilenced
  BY DEF CutInv
<1>3. TypeInv /\ CutInv /\ [Next]_vars => CutInv'
  BY CutStep
<1> QED BY <1>1, <1>2, <1>3, TypeInvariant, PTL DEF Spec

-----------------------------------------------------------------------------
(* The FM fallback *)

\* A tone not seen absent since DMR was heard keeps the fallback waiting for
\* its end.
FreshInv == stale => rearm

\* Every step keeps a stale tone from opening a session.
LEMMA FreshStep ==
  ASSUME TypeInv, FreshInv, [Next]_vars
  PROVE  FreshInv'
<1>1. ASSUME NEW kind \in RawKinds, RawBurst(kind) PROVE FreshInv'
  BY <1>1, RawBurstEffect DEF FreshInv
<1>2. ASSUME NEW s \in Sources, BeginCall(s) \/ BeginFails(s) PROVE FreshInv'
  BY <1>2 DEF BeginCall, BeginFails, FreshInv
<1>3. ASSUME NEW s \in Sources, RepeatHeader(s) PROVE FreshInv'
  BY <1>3, RepeatHeaderEffect DEF FreshInv
<1>4. ASSUME NEW s \in Sources, Terminator(s) PROVE FreshInv'
  BY <1>4 DEF Terminator, afmVars, FreshInv
<1>5. ASSUME NEW k \in {0, AmbePerBurst}, GeneralWork(k) PROVE FreshInv'
  <2>1. rearm => rearm'
    BY <1>5 DEF GeneralWork, RelayBurst, IdlePass, FmHeader, FmVoice, FmUnderflow,
       FmTerminator
  <2> QED BY <1>5, <2>1, WorkEffect DEF FreshInv
<1>6. ASSUME NEW q \in BOOLEAN, SetCtcssState(q) PROVE FreshInv'
  <2>1. /\ rearm' = ((rearm \/ (q /\ Busy)) /\ q)
        /\ stale' = (q /\ (stale \/ Busy))
    BY <1>6 DEF SetCtcssState, MustRearm
  <2> QED BY <2>1 DEF FreshInv
<1>7. CASE DataFrame \/ SetForwarding \/ UNCHANGED vars
  BY <1>7 DEF DataFrame, SetForwarding, vars, afmVars, FreshInv
<1>8. CASE Tick
  BY <1>8, TickEffect DEF FreshInv
<1> QED BY <1>1, <1>2, <1>3, <1>4, <1>5, <1>6, <1>7, <1>8 DEF Next, Header

\* Only the pass that sends the first header of a session opens one, and
\* only a finishing or a preempting pass closes one; both leave no speech.
LEMMA SessionOpens ==
  ASSUME TypeInv, [Next]_vars, ~InSession, InSession'
  PROVE  ~rearm
<1>1. ASSUME NEW kind \in RawKinds, RawBurst(kind) PROVE FALSE
  BY <1>1, RawBurstEffect
<1>2. ASSUME NEW s \in Sources, Header(s) PROVE FALSE
  BY <1>2 DEF Header, BeginCall, BeginFails, RepeatHeader, afmVars, InSession
<1>3. ASSUME NEW s \in Sources, Terminator(s) PROVE FALSE
  BY <1>3 DEF Terminator, afmVars, InSession
<1>4. ASSUME NEW k \in {0, AmbePerBurst}, GeneralWork(k) PROVE ~rearm
  <2>1. CASE RelayBurst(k) \/ IdlePass(k)
    BY <2>1, NoneActive DEF RelayBurst, IdlePass, SessionNow, InSession
  <2>2. CASE FmHeader(k)
    BY <2>2 DEF FmHeader, FmMayStart, InSession
  <2>3. CASE FmVoice(k) \/ FmUnderflow(k) \/ FmTerminator(k)
    BY <2>3 DEF FmVoice, FmUnderflow, FmTerminator, FmStops, OnAir, InSession
  <2> QED BY <1>4, <2>1, <2>2, <2>3 DEF GeneralWork
<1>5. ASSUME NEW q \in BOOLEAN, SetCtcssState(q) PROVE FALSE
  BY <1>5, CtcssEffect
<1>6. CASE DataFrame \/ SetForwarding \/ UNCHANGED vars
  BY <1>6 DEF DataFrame, SetForwarding, vars, afmVars, InSession
<1>7. CASE Tick
  BY <1>7, TickEffect
<1> QED BY <1>1, <1>2, <1>3, <1>4, <1>5, <1>6, <1>7 DEF Next

\* The passes of a session before its terminator leave it open ...
LEMMA SessionGoesOn ==
  ASSUME TypeInv, InSession, NEW k, FmHeader(k) \/ FmVoice(k) \/ FmUnderflow(k)
  PROVE  InSession'
<1>0. afm \in Session
  BY DEF TypeInv, TypeOK
<1>1. CASE FmHeader(k)
  <2>1. /\ afm.stage = "header"
        /\ afm' \in {[afm EXCEPT !.stage = "voice", !.count = 0],
                     [afm EXCEPT !.count = afm.count + 1]}
    BY <1>1 DEF FmHeader, FmMayStart
  <2>2. [afm EXCEPT !.stage = "voice", !.count = 0].stage = "voice"
    BY <1>0 DEF Session
  <2>3. [afm EXCEPT !.count = afm.count + 1].stage = afm.stage
    BY <1>0 DEF Session
  <2> QED BY <2>1, <2>2, <2>3 DEF InSession
<1>2. CASE FmVoice(k)
  <2>1. [afm EXCEPT !.under = 0].stage = afm.stage
    BY <1>0 DEF Session
  <2> QED BY <1>2, <2>1 DEF FmVoice, InSession
<1>3. CASE FmUnderflow(k)
  <2>1. afm' \in {[afm EXCEPT !.under = afm.under + 1],
                  [afm EXCEPT !.under = afm.under + 1, !.stage = "terminator", !.count = 0]}
    BY <1>3 DEF FmUnderflow
  <2>2. [afm EXCEPT !.under = afm.under + 1].stage = afm.stage
    BY <1>0 DEF Session
  <2>3. [afm EXCEPT !.under = afm.under + 1, !.stage = "terminator", !.count = 0].stage
          = "terminator"
    BY <1>0 DEF Session
  <2> QED BY <1>3, <2>1, <2>2, <2>3 DEF FmUnderflow, InSession
<1> QED BY <1>1, <1>2, <1>3

\* ... and one more terminator burst does, too.
LEMMA TerminatorGoesOn ==
  ASSUME TypeInv, InSession, afm' = [Stopping(afm) EXCEPT !.count = @ + 1]
  PROVE  InSession'
<1> DEFINE s == Stopping(afm)
<1>1. s \in Session /\ s.stage # "none"
  BY StoppingType, StoppingStage DEF InSession
<1>2. afm' = [s EXCEPT !.count = s.count + 1]
  OBVIOUS
<1> HIDE DEF s
<1>3. [s EXCEPT !.count = s.count + 1].stage = s.stage
  BY <1>1 DEF Session
<1> QED BY <1>1, <1>2, <1>3 DEF InSession

\* Whichever step ends an FM session, it leaves no speech frame.
LEMMA SessionCloses ==
  ASSUME TypeInv, [Next]_vars, InSession, ~InSession'
  PROVE  ambe' = 0
<1>1. ASSUME NEW kind \in RawKinds, RawBurst(kind) PROVE FALSE
  BY <1>1, RawBurstEffect
<1>2. ASSUME NEW s \in Sources, Header(s) PROVE FALSE
  BY <1>2 DEF Header, BeginCall, BeginFails, RepeatHeader, afmVars, InSession
<1>3. ASSUME NEW s \in Sources, Terminator(s) PROVE FALSE
  BY <1>3 DEF Terminator, afmVars, InSession
<1>4. ASSUME NEW k \in {0, AmbePerBurst}, GeneralWork(k) PROVE ambe' = 0
  <2>1. CASE RelayBurst(k) \/ IdlePass(k)
    BY <2>1 DEF RelayBurst, IdlePass, SessionNow, SpeechNow, InSession
  <2>2. CASE FmHeader(k) \/ FmVoice(k) \/ FmUnderflow(k)
    BY <2>2, SessionGoesOn
  <2>3. CASE FmTerminator(k)
    BY <2>3, TerminatorGoesOn DEF FmTerminator
  <2> QED BY <1>4, <2>1, <2>2, <2>3 DEF GeneralWork
<1>5. ASSUME NEW q \in BOOLEAN, SetCtcssState(q) PROVE FALSE
  BY <1>5, CtcssEffect
<1>6. CASE DataFrame \/ SetForwarding \/ UNCHANGED vars
  BY <1>6 DEF DataFrame, SetForwarding, vars, afmVars, InSession
<1>7. CASE Tick
  BY <1>7, TickEffect
<1> QED BY <1>1, <1>2, <1>3, <1>4, <1>5, <1>6, <1>7 DEF Next

\* An FM session only ever starts on a tone that was absent at some time
\* after the last DMR was heard (set_afm_ctcss_state, handle_raw_burst and
\* start_afm_locked in hardware_runtime.cpp).
THEOREM FmToneIsFresh == Spec => FmNeedsFreshTone
<1>1. Init => FreshInv
  BY DEF Init, FreshInv
<1>2. TypeInv /\ FreshInv /\ [Next]_vars => FreshInv'
  BY FreshStep
<1>3. TypeInv /\ FreshInv /\ [Next]_vars => [~InSession /\ InSession' => ~stale]_vars
  BY SessionOpens DEF FreshInv
<1> QED BY <1>1, <1>2, <1>3, TypeInvariant, PTL DEF Spec, FmNeedsFreshTone

\* No session leaves speech behind for the next one (produce_afm_locked and
\* finish_afm_locked in hardware_runtime.cpp).
THEOREM FmSpeechIsOwn == Spec => FmLeavesNoSpeech
<1>1. TypeInv /\ [Next]_vars => [InSession /\ ~InSession' => ambe' = 0]_vars
  BY SessionCloses
<1> QED BY <1>1, TypeInvariant, PTL DEF Spec, FmLeavesNoSpeech

-----------------------------------------------------------------------------
(* The recording *)

\* Every step keeps the open recording with the call or session it is of.
LEMMA RecordingStep ==
  ASSUME TypeInv, RecordingFollowsCall, [Next]_vars
  PROVE  RecordingFollowsCall'
<1>0. call.id \in 0..MaxCalls /\ call.id # FM
  BY CallFields, CapsAssumption DEF TypeInv, TypeOK, FM
<1>1. IF CallNow.id # 0 THEN Active /\ RecNow = CallNow.id
      ELSE RecNow = 0 \/ (RecNow = FM /\ InSession)
  BY <1>0, CallNowCases, NoneActive
     DEF RecordingFollowsCall, RecNow, Over, Expired, Active
<1>2. ASSUME NEW kind \in RawKinds, RawBurst(kind) PROVE RecordingFollowsCall'
  <2>1. call'.id = call.id /\ (InSession' <=> InSession) /\ rec' = rec
    BY <1>2, RawBurstEffect
  <2> QED BY <2>1 DEF RecordingFollowsCall, Active
<1>3. ASSUME NEW s \in Sources, BeginCall(s) PROVE RecordingFollowsCall'
  <2>1. call'.id = seq + 1 /\ rec' = seq + 1 /\ seq \in 0..MaxCalls
    BY <1>3 DEF BeginCall, TypeInv, TypeOK
  <2> QED BY <2>1, CapsAssumption DEF RecordingFollowsCall, Active
<1>4. ASSUME NEW s \in Sources, BeginFails(s) PROVE RecordingFollowsCall'
  <2>1. call' = NoCall /\ rec' = RecNow /\ afm' = afm /\ CallNow.id = 0
    BY <1>4 DEF BeginFails
  <2> QED BY <1>1, <2>1, NoneActive DEF RecordingFollowsCall, Active, InSession
<1>5. ASSUME NEW s \in Sources, RepeatHeader(s) PROVE RecordingFollowsCall'
  <2>1. call'.id = call.id /\ Active /\ rec' = rec
    BY <1>5, RepeatHeaderEffect
  <2> QED BY <2>1 DEF RecordingFollowsCall, Active
<1>6. ASSUME NEW s \in Sources, Terminator(s) PROVE RecordingFollowsCall'
  <2>1. call' = NoCall /\ Active /\ rec' = IF rec = call.id THEN 0 ELSE rec
    BY <1>6 DEF Terminator
  <2> QED BY <2>1, NoneActive DEF RecordingFollowsCall, Active
<1>7. ASSUME NEW k \in {0, AmbePerBurst}, GeneralWork(k) PROVE RecordingFollowsCall'
  <2>0. call' = CallNow
    BY <1>7, WorkEffect
  <2>1. CASE RelayBurst(k) \/ IdlePass(k)
    <3>1. afm' = SessionNow /\ rec' = FmDropped(RecNow)
      BY <2>1 DEF RelayBurst, IdlePass
    <3>2. CASE CallNow.id # 0
      <4>1. RecNow = CallNow.id /\ CallNow.id # FM
        BY <1>0, <1>1, <3>2, CallNowCases, NoneActive
      <4>2. rec' = RecNow
        BY <3>1, <4>1 DEF FmDropped, FmEnded
      <4> QED BY <2>0, <3>2, <4>1, <4>2 DEF RecordingFollowsCall, Active
    <3>3. CASE CallNow.id = 0
      <4>1. CASE DmrNow
        <5>1. rec' = 0
          BY <1>1, <3>1, <3>3, <4>1 DEF FmDropped, FmEnded
        <5> QED BY <2>0, <3>3, <5>1 DEF RecordingFollowsCall, Active
      <4>2. CASE ~DmrNow
        <5>1. rec' = RecNow /\ afm' = afm
          BY <3>1, <4>2 DEF FmDropped, SessionNow
        <5> QED BY <1>1, <2>0, <3>3, <5>1 DEF RecordingFollowsCall, Active, InSession
      <4> QED BY <4>1, <4>2
    <3> QED BY <3>2, <3>3
  <2>2. CASE FmHeader(k) \/ FmVoice(k) \/ FmUnderflow(k) \/ FmTerminator(k)
    <3>1. CallNow.id = 0
      BY <2>2 DEF FmHeader, FmVoice, FmUnderflow, FmTerminator, FmRuns, DmrNow
    <3>2. \/ rec' = FM /\ ~InSession
          \/ rec' = RecNow /\ InSession
          \/ rec' = FmEnded(RecNow)
      BY <2>2 DEF FmHeader, FmVoice, FmUnderflow, FmTerminator, FmStops, OnAir, InSession
    <3>3. CASE rec' = FmEnded(RecNow)
      <4>1. rec' = 0
        BY <1>1, <3>1, <3>3 DEF FmEnded
      <4> QED BY <2>0, <3>1, <4>1 DEF RecordingFollowsCall, Active
    <3>4. CASE rec' # FmEnded(RecNow)
      <4>1. InSession'
        <5>1. CASE FmHeader(k) /\ ~InSession
          <6> DEFINE s == [NoSession EXCEPT !.stage = "header", !.left = TalkLimit]
          <6>1. s.stage = "header" /\ s.count = 0
            BY DEF NoSession
          <6>2. /\ [s EXCEPT !.stage = "voice", !.count = 0].stage = "voice"
                /\ [s EXCEPT !.count = s.count + 1].stage = "header"
            BY DEF NoSession
          <6>3. afm' \in {[s EXCEPT !.stage = "voice", !.count = 0],
                          [s EXCEPT !.count = s.count + 1]}
            BY <5>1 DEF FmHeader
          <6> QED BY <6>2, <6>3 DEF InSession
        <5>2. CASE InSession /\ ~InSession'
          <6>2. CASE FmTerminator(k)
            BY <3>4, <5>2, <6>2, TerminatorGoesOn DEF FmTerminator
          <6>3. CASE FmHeader(k) \/ FmVoice(k) \/ FmUnderflow(k)
            BY <5>2, <6>3, SessionGoesOn
          <6> QED BY <2>2, <6>2, <6>3
        <5>3. CASE ~InSession /\ ~FmHeader(k)
          BY <2>2, <5>3 DEF FmVoice, FmUnderflow, FmTerminator, FmStops, OnAir, InSession
        <5> QED BY <5>1, <5>2, <5>3
      <4>2. rec' = 0 \/ rec' = FM
        BY <1>1, <3>1, <3>2, <3>4
      <4> QED BY <2>0, <3>1, <4>1, <4>2 DEF RecordingFollowsCall, Active
    <3> QED BY <3>3, <3>4
  <2> QED BY <1>7, <2>1, <2>2 DEF GeneralWork
<1>8. ASSUME NEW q \in BOOLEAN, SetCtcssState(q) PROVE RecordingFollowsCall'
  <2>1. call' = call /\ (InSession' <=> InSession) /\ rec' = rec
    BY <1>8, CtcssEffect
  <2> QED BY <2>1 DEF RecordingFollowsCall, Active
<1>9. CASE DataFrame \/ SetForwarding \/ UNCHANGED vars
  <2>1. UNCHANGED <<call, afm, rec>>
    BY <1>9 DEF DataFrame, SetForwarding, vars, dmrVars, afmVars, outVars
  <2> QED BY <2>1 DEF RecordingFollowsCall, Active, InSession
<1>10. CASE Tick
  <2>1. call'.id = call.id /\ (InSession' <=> InSession) /\ rec' = rec
    BY <1>10, TickEffect
  <2> QED BY <2>1 DEF RecordingFollowsCall, Active
<1> QED BY <1>2, <1>3, <1>4, <1>5, <1>6, <1>7, <1>8, <1>9, <1>10 DEF Next, Header

\* While a call is up, the recording left open is the call's; an interrupted
\* FM session that ends late does not close it (publish_relay_event and
\* finish_afm_locked in hardware_runtime.cpp).
THEOREM RecordingIsTheCalls == Spec => []RecordingFollowsCall
<1>1. Init => RecordingFollowsCall
  BY NoneActive DEF Init, RecordingFollowsCall, Active
<1>2. TypeInv /\ RecordingFollowsCall /\ [Next]_vars => RecordingFollowsCall'
  BY RecordingStep
<1> QED BY <1>1, <1>2, TypeInvariant, PTL DEF Spec

-----------------------------------------------------------------------------
(* PTT *)

\* The bursts of an admission start with the one that carries the call.
LEMMA AdmittedStart ==
  ASSUME NEW id \in 1..MaxCalls, pre \in Seq(PreBurst)
  PROVE  /\ Len(Admitted(id)) >= 1
         /\ \A i \in 1..Len(Admitted(id)) : Admitted(id)[i].start <=> i = 1
<1>1. Purge(pre) \in Seq(PreBurst)
  BY PurgeType
<1>2. CASE Purge(pre) # <<>>
  <2> DEFINE burst(i) == [of |-> id, start |-> i = 1, data |-> Purge(pre)[i].data]
  <2>1. Admitted(id) = [i \in 1..Len(Purge(pre)) |-> burst(i)]
    BY <1>2 DEF Admitted
  <2>2. \A i \in 1..Len(Purge(pre)) : burst(i).start <=> i = 1
    OBVIOUS
  <2>3. Len(Purge(pre)) \in Nat /\ Len(Purge(pre)) >= 1
    BY <1>1, <1>2
  <2> HIDE DEF burst
  <2> QED BY <2>1, <2>2, <2>3
<1>3. CASE Purge(pre) = <<>>
  BY <1>3 DEF Admitted
<1> QED BY <1>2, <1>3

\* A call that was just admitted has not started.
LEMMA BeginNotStarted ==
  ASSUME TypeInv, NEW s \in Sources, BeginCall(s)
  PROVE  ~Started'
<1>1. seq + 1 \in 1..MaxCalls /\ QueueNow \in Seq(QueuedBurst) /\ pre \in Seq(PreBurst)
  BY NowType, CapsAssumption DEF BeginCall, TypeInv, TypeOK
<1> DEFINE a == Admitted(seq + 1)
<1>2. /\ a \in Seq(QueuedBurst) /\ Len(a) >= 1
      /\ a[1].of = seq + 1 /\ a[1].start
  BY <1>1, AdmittedType, AdmittedStart
<1>3. queue' = QueueNow \o a /\ call'.id = seq + 1
  BY DEF BeginCall
<1> HIDE DEF a
<1>4. /\ Len(QueueNow) + 1 \in 1..Len(queue')
      /\ queue'[Len(QueueNow) + 1] = a[1]
  BY <1>1, <1>2, <1>3
<1> QED BY <1>2, <1>3, <1>4 DEF Started

\* A raw burst queued behind the call's start does not start it.
LEMMA RawBurstStarts ==
  ASSUME TypeInv, NEW kind \in RawKinds, RawBurst(kind), Started'
  PROVE  Started
<1>1. queue \in Seq(QueuedBurst) /\ call'.id = call.id
  BY RawBurstEffect DEF TypeInv, TypeOK
<1>2. \A i \in 1..Len(queue) : i \in 1..Len(queue') /\ queue'[i] = queue[i]
  <2>1. CASE queue' = queue
    BY <2>1
  <2>2. CASE queue' = Append(queue, [of |-> call.id, start |-> FALSE,
                                     data |-> kind = "data"])
    BY <1>1, <2>2
  <2> QED BY <2>1, <2>2, RawBurstEffect
<1> QED BY <1>1, <1>2 DEF Started, Active

\* Every step keeps PTT under a started call and an FM session.
LEMMA PttStep ==
  ASSUME TypeInv, PttHeld, [Next]_vars
  PROVE  PttHeld'
<1>0. tx \in BOOLEAN
  BY DEF TypeInv, TypeOK
<1>1. ASSUME NEW kind \in RawKinds, RawBurst(kind) PROVE PttHeld'
  <2>1. (InSession' <=> InSession) /\ tx' = tx /\ (Started' => Started)
    BY <1>1, RawBurstEffect, RawBurstStarts
  <2> QED BY <2>1 DEF PttHeld
<1>2. ASSUME NEW s \in Sources, BeginCall(s) PROVE PttHeld'
  <2>1. ~Started' /\ afm' = afm /\ tx' = tx
    BY <1>2, BeginNotStarted DEF BeginCall
  <2> QED BY <2>1 DEF PttHeld, InSession
<1>3. ASSUME NEW s \in Sources, BeginFails(s) \/ Terminator(s) PROVE PttHeld'
  <2>1. call' = NoCall /\ afm' = afm /\ tx' = tx
    BY <1>3 DEF BeginFails, Terminator, afmVars
  <2> QED BY <2>1, NoneActive DEF PttHeld, Started, Active, InSession
<1>4. ASSUME NEW s \in Sources, RepeatHeader(s) PROVE PttHeld'
  <2>1. call'.id = call.id /\ UNCHANGED <<queue, afm, tx>>
    BY <1>4, RepeatHeaderEffect
  <2> QED BY <2>1 DEF PttHeld, Started, Active, InSession
<1>5. ASSUME NEW k \in {0, AmbePerBurst}, RelayBurst(k) PROVE PttHeld'
  <2>1. /\ call' = CallNow /\ afm' = SessionNow
        /\ tx' = (TRUE /\ (CallNow.id # 0 \/ Tail(QueueNow) # <<>>
                            \/ SessionNow.stage # "none"))
    BY <1>5 DEF RelayBurst, Pass, PttAfter
  <2> QED BY <2>1 DEF PttHeld, Started, Active, InSession
<1>6. ASSUME NEW k \in {0, AmbePerBurst}, IdlePass(k) PROVE PttHeld'
  <2>1. /\ call' = CallNow /\ afm' = SessionNow /\ QueueNow = <<>>
        /\ tx' = (tx /\ (CallNow.id # 0 \/ <<>> # <<>> \/ SessionNow.stage # "none"))
    BY <1>6 DEF IdlePass, Pass, PttAfter
  <2>2. InSession' => InSession /\ SessionNow.stage # "none"
    BY <2>1, NoneActive DEF SessionNow, InSession
  <2>3. Started' => Started /\ CallNow.id # 0
    <3>1. SUFFICES ASSUME Started' PROVE Started /\ CallNow.id # 0
      OBVIOUS
    <3>2. CallNow.id # 0
      BY <2>1, <3>1 DEF Started, Active
    <3>3. CallNow = call /\ ~Expired
      BY <3>2, CallNowCases, NoneActive DEF Over
    <3>4. queue = <<>>
      BY <2>1, <3>3, QueueNowCases
    <3> QED BY <3>2, <3>3, <3>4 DEF Started, Active
  <2> QED BY <1>0, <2>1, <2>2, <2>3 DEF PttHeld
<1>7. ASSUME NEW k \in {0, AmbePerBurst},
             FmHeader(k) \/ FmVoice(k) \/ FmUnderflow(k) \/ FmTerminator(k)
      PROVE  PttHeld'
  <2>1. CallNow.id = 0 /\ call' = CallNow
    BY <1>7 DEF FmHeader, FmVoice, FmUnderflow, FmTerminator, FmRuns, DmrNow, Pass
  <2>2. \/ tx' = TRUE
        \/ afm' = NoSession
        \/ tx' = tx /\ InSession
    BY <1>7 DEF FmHeader, FmVoice, FmUnderflow, FmTerminator, InSession
  <2> QED BY <2>1, <2>2, NoneActive DEF PttHeld, Started, Active, InSession
<1>8. ASSUME NEW q \in BOOLEAN, SetCtcssState(q) PROVE PttHeld'
  <2>1. UNCHANGED <<call, queue, tx>> /\ (InSession' <=> InSession)
    BY <1>8, CtcssEffect
  <2> QED BY <2>1 DEF PttHeld, Started, Active
<1>9. CASE DataFrame \/ SetForwarding \/ UNCHANGED vars
  <2>1. UNCHANGED <<call, queue, afm, tx>>
    BY <1>9 DEF DataFrame, SetForwarding, vars, dmrVars, afmVars, outVars
  <2> QED BY <2>1 DEF PttHeld, Started, Active, InSession
<1>10. CASE Tick
  <2>1. call'.id = call.id /\ UNCHANGED <<queue, tx>> /\ (InSession' <=> InSession)
    BY <1>10, TickEffect
  <2> QED BY <2>1 DEF PttHeld, Started, Active
<1> QED BY <1>1, <1>2, <1>3, <1>4, <1>5, <1>6, <1>7, <1>8, <1>9, <1>10
    DEF Next, Header, GeneralWork

\* PTT stays asserted under a call that is on the air, with gaps in its
\* bursts, and under an FM session (general_work in hardware_runtime.cpp).
THEOREM PttIsHeld == Spec => []PttHeld
<1>1. Init => PttHeld
  BY NoneActive DEF Init, PttHeld, Started, Active, InSession
<1>2. TypeInv /\ PttHeld /\ [Next]_vars => PttHeld'
  BY PttStep
<1> QED BY <1>1, <1>2, TypeInvariant, PTL DEF Spec

-----------------------------------------------------------------------------
(* Sequences of bursts in the order of their calls *)

Ordered(q) ==
  \A i, j \in 1..Len(q) : i < j =>
    /\ q[i].of <= q[j].of
    /\ q[j].start => q[i].of # q[j].of

Below(q, n) == \A i \in 1..Len(q) : q[i].of <= n

OnlyOf(q, n) == \A i \in 1..Len(q) : q[i].of = n

\* The fields of a queued burst have their types.
LEMMA BurstFields ==
  ASSUME NEW q \in Seq(QueuedBurst), NEW i \in 1..Len(q)
  PROVE  q[i].of \in 1..MaxCalls /\ q[i].start \in BOOLEAN
<1>1. q[i] \in QueuedBurst
  OBVIOUS
<1> QED BY <1>1 DEF QueuedBurst

\* The queue the duration limit empties is in order.
LEMMA EmptyOrdered ==
  ASSUME NEW n
  PROVE  Ordered(<<>>) /\ Below(<<>>, n) /\ OnlyOf(<<>>, n)
BY DEF Ordered, Below, OnlyOf

\* A later burst of the newest call goes behind.
LEMMA AppendOrdered ==
  ASSUME NEW q \in Seq(QueuedBurst), NEW n \in 1..MaxCalls, Ordered(q), Below(q, n),
         NEW b \in QueuedBurst, b.of = n, ~b.start
  PROVE  Ordered(Append(q, b)) /\ Below(Append(q, b), n)
<1> DEFINE r == Append(q, b)
<1>1. /\ Len(r) = Len(q) + 1 /\ r[Len(q) + 1] = b
      /\ \A i \in 1..Len(q) : r[i] = q[i]
  OBVIOUS
<1>2. Len(q) \in Nat
  OBVIOUS
<1> HIDE DEF r
<1>3. Below(r, n)
  BY <1>1, <1>2, CapsAssumption DEF Below
<1>4. Ordered(r)
  <2> SUFFICES ASSUME NEW i \in 1..Len(r), NEW j \in 1..Len(r), i < j
               PROVE  r[i].of <= r[j].of /\ (r[j].start => r[i].of # r[j].of)
    BY DEF Ordered
  <2>1. CASE j \in 1..Len(q)
    <3>1. i \in 1..Len(q) /\ r[i] = q[i] /\ r[j] = q[j]
      BY <1>1, <1>2, <2>1
    <3> QED BY <2>1, <3>1 DEF Ordered
  <2>2. CASE j = Len(q) + 1
    <3>1. i \in 1..Len(q) /\ r[i] = q[i] /\ r[j] = b
      BY <1>1, <1>2, <2>2
    <3> QED BY <3>1 DEF Below
  <2> QED BY <1>1, <1>2, <2>1, <2>2
<1> QED BY <1>3, <1>4 DEF r

\* An admission goes behind the bursts of older calls.
LEMMA ConcatOrdered ==
  ASSUME NEW q \in Seq(QueuedBurst), NEW n \in 0..MaxCalls, Ordered(q), Below(q, n),
         NEW a \in Seq(QueuedBurst), OnlyOf(a, n + 1),
         \A i \in 1..Len(a) : a[i].start <=> i = 1
  PROVE  Ordered(q \o a) /\ Below(q \o a, n + 1)
<1> DEFINE r == q \o a
<1>1. /\ Len(r) = Len(q) + Len(a)
      /\ \A i \in 1..Len(r) : r[i] = IF i <= Len(q) THEN q[i] ELSE a[i - Len(q)]
  OBVIOUS
<1>2. Len(q) \in Nat /\ Len(a) \in Nat
  OBVIOUS
<1> HIDE DEF r
<1>3. \A i \in 1..Len(r) :
        \/ i \in 1..Len(q) /\ r[i] = q[i]
        \/ /\ i - Len(q) \in 1..Len(a) /\ r[i] = a[i - Len(q)]
           /\ r[i].of = n + 1
           /\ r[i].start <=> i = Len(q) + 1
  BY <1>1, <1>2 DEF OnlyOf
<1>4. \A i \in 1..Len(q) : q[i].of \in 1..n
  BY BurstFields DEF Below
<1>5. Below(r, n + 1)
  BY <1>3, <1>4 DEF Below
<1>6. Ordered(r)
  <2> SUFFICES ASSUME NEW i \in 1..Len(r), NEW j \in 1..Len(r), i < j
               PROVE  r[i].of <= r[j].of /\ (r[j].start => r[i].of # r[j].of)
    BY DEF Ordered
  <2>1. CASE j \in 1..Len(q)
    <3>1. i \in 1..Len(q) /\ r[i] = q[i] /\ r[j] = q[j]
      BY <1>1, <1>2, <2>1
    <3> QED BY <2>1, <3>1 DEF Ordered
  <2>2. CASE j \notin 1..Len(q) /\ i \in 1..Len(q)
    <3>1. r[j].of = n + 1 /\ r[i].of \in 1..n
      BY <1>1, <1>2, <1>3, <1>4, <2>2
    <3> QED BY <3>1
  <2>3. CASE j \notin 1..Len(q) /\ i \notin 1..Len(q)
    <3>1. /\ r[j].of = n + 1 /\ r[i].of = n + 1
          /\ (r[j].start <=> j = Len(q) + 1) /\ i > Len(q)
      BY <1>2, <1>3, <2>3
    <3> QED BY <1>2, <3>1
  <2> QED BY <2>1, <2>2, <2>3
<1> QED BY <1>5, <1>6 DEF r

\* Sending the first burst keeps the order of the others.
LEMMA TailOrdered ==
  ASSUME NEW q \in Seq(QueuedBurst), q # <<>>, NEW n \in Nat, Ordered(q), Below(q, n)
  PROVE  Ordered(Tail(q)) /\ Below(Tail(q), n)
<1> DEFINE r == Tail(q)
<1>1. /\ Len(r) = Len(q) - 1 /\ Len(q) \in Nat
      /\ \A i \in 1..Len(r) : r[i] = q[i + 1]
  OBVIOUS
<1> HIDE DEF r
<1>2. \A i \in 1..Len(r) : i + 1 \in 1..Len(q)
  BY <1>1
<1>3. Below(r, n)
  BY <1>1, <1>2 DEF Below
<1>4. Ordered(r)
  <2> SUFFICES ASSUME NEW i \in 1..Len(r), NEW j \in 1..Len(r), i < j
               PROVE  r[i].of <= r[j].of /\ (r[j].start => r[i].of # r[j].of)
    BY DEF Ordered
  <2>1. i + 1 \in 1..Len(q) /\ j + 1 \in 1..Len(q) /\ i + 1 < j + 1
    BY <1>1, <1>2
  <2>2. r[i] = q[i + 1] /\ r[j] = q[j + 1]
    BY <1>1
  <2> QED BY <2>1, <2>2 DEF Ordered
<1> QED BY <1>3, <1>4 DEF r

-----------------------------------------------------------------------------
(* The queue and the status *)

\* Calls are numbered as they are admitted and the newest is the only one
\* that may be up; once its start has been sent, everything older has, too,
\* and the status names it.
OrderInv ==
  /\ QueueInCallOrder
  /\ Below(queue, seq)
  /\ Active => call.id = seq
  /\ Started => OnlyOf(queue, call.id)
  /\ StatusNamesCallOnAir

\* The property, on the queue as it is, is the order of a sequence.
LEMMA OrderOfQueue == QueueInCallOrder <=> Ordered(queue)
BY DEF QueueInCallOrder, Ordered

\* The same of the queue after a step.
LEMMA OrderOfQueueNext == QueueInCallOrder' <=> Ordered(queue')
BY DEF QueueInCallOrder, Ordered

\* The housekeeping keeps the order.
LEMMA NowOrdered ==
  ASSUME TypeInv, OrderInv
  PROVE  /\ Ordered(QueueNow) /\ Below(QueueNow, seq)
         /\ QueueNow \in Seq(QueuedBurst)
<1>1. QueueNow \in {<<>>, queue}
  BY DEF QueueNow
<1>2. Ordered(queue) /\ Below(queue, seq)
  BY OrderOfQueue DEF OrderInv
<1>3. QueueNow \in Seq(QueuedBurst)
  BY NowType DEF TypeInv
<1> QED BY <1>1, <1>2, <1>3, EmptyOrdered

\* A step that keeps the call, the queue and the status keeps the order.
LEMMA QuietOrder ==
  ASSUME OrderInv, call'.id = call.id, UNCHANGED <<queue, seq, shown>>
  PROVE  OrderInv'
<1>1. Started' <=> Started
  BY DEF Started, Active
<1> QED BY <1>1, OrderOfQueue, OrderOfQueueNext
    DEF OrderInv, Below, OnlyOf, StatusNamesCallOnAir, Active

\* So does one that leaves no call up.
LEMMA NoCallOrder ==
  ASSUME call'.id = 0, Ordered(queue'), Below(queue', seq')
  PROVE  OrderInv'
<1>1. ~Active' /\ ~Started'
  BY DEF Started, Active
<1> QED BY <1>1, OrderOfQueueNext DEF OrderInv, Below, StatusNamesCallOnAir

\* A burst of the active call, the newest one, keeps the order.
LEMMA RawBurstOrder ==
  ASSUME TypeInv, OrderInv, NEW kind \in RawKinds, RawBurst(kind)
  PROVE  OrderInv'
<1>1. call'.id = call.id /\ seq' = seq /\ shown' = shown
  BY RawBurstEffect
<1>2. CASE queue' = queue
  BY <1>1, <1>2, QuietOrder
<1>3. CASE /\ Active
           /\ queue' = Append(queue, [of |-> call.id, start |-> FALSE,
                                      data |-> kind = "data"])
  <2> DEFINE b == [of |-> call.id, start |-> FALSE, data |-> kind = "data"]
  <2>1. call.id \in 1..MaxCalls /\ call.id = seq /\ queue \in Seq(QueuedBurst)
    BY <1>3, CallFields, CapsAssumption, SMTT(30) DEF Active, TypeInv, TypeOK, OrderInv
  <2>2. b \in QueuedBurst /\ b.of = seq /\ ~b.start
    BY <2>1 DEF QueuedBurst
  <2>3. queue' = Append(queue, b)
    BY <1>3
  <2> HIDE DEF b
  <2>4. Ordered(queue') /\ Below(queue', seq)
    BY <2>1, <2>2, <2>3, AppendOrdered, OrderOfQueue DEF OrderInv
  <2>5. Started' => Started
    BY RawBurstStarts
  <2>6. Started' => OnlyOf(queue', call.id)
    BY <2>1, <2>2, <2>3, <2>5 DEF OrderInv, OnlyOf
  <2> QED BY <1>1, <2>4, <2>5, <2>6, OrderOfQueueNext
      DEF OrderInv, Below, OnlyOf, StatusNamesCallOnAir, Active
<1> QED BY <1>2, <1>3, RawBurstEffect

\* An admission's bursts carry an id above all those queued.
LEMMA BeginCallOrder ==
  ASSUME TypeInv, OrderInv, NEW s \in Sources, BeginCall(s)
  PROVE  OrderInv'
<1> DEFINE a == Admitted(seq + 1)
<1>1. seq \in 0..MaxCalls /\ seq + 1 \in 1..MaxCalls /\ pre \in Seq(PreBurst)
  BY CapsAssumption DEF BeginCall, TypeInv, TypeOK
<1>2. /\ a \in Seq(QueuedBurst) /\ OnlyOf(a, seq + 1)
      /\ \A i \in 1..Len(a) : a[i].start <=> i = 1
  BY <1>1, AdmittedType, AdmittedStart DEF OnlyOf
<1>3. queue' = QueueNow \o a /\ seq' = seq + 1 /\ call'.id = seq + 1
  BY DEF BeginCall
<1> HIDE DEF a
<1>4. Ordered(queue') /\ Below(queue', seq')
  BY <1>1, <1>2, <1>3, NowOrdered, ConcatOrdered
<1>5. ~Started'
  BY BeginNotStarted
<1> QED BY <1>3, <1>4, <1>5, OrderOfQueueNext
    DEF OrderInv, Below, StatusNamesCallOnAir, Active

\* A terminator is a burst of the active call.
LEMMA TerminatorOrder ==
  ASSUME TypeInv, OrderInv, NEW s \in Sources, Terminator(s)
  PROVE  OrderInv'
<1>1. call'.id = 0 /\ seq' = seq
  BY NoneActive DEF Terminator
<1>2. Ordered(queue') /\ Below(queue', seq')
  <2>1. CASE queue' = queue
    BY <1>1, <2>1, OrderOfQueue DEF OrderInv
  <2>2. CASE queue' = Append(queue, [of |-> call.id, start |-> FALSE, data |-> FALSE])
    <3> DEFINE b == [of |-> call.id, start |-> FALSE, data |-> FALSE]
    <3>1. call.id \in 1..MaxCalls /\ call.id = seq /\ queue \in Seq(QueuedBurst)
      BY CallFields, CapsAssumption, SMTT(30) DEF Terminator, Active, TypeInv, TypeOK, OrderInv
    <3>2. b \in QueuedBurst /\ b.of = seq /\ ~b.start
      BY <3>1 DEF QueuedBurst
    <3>3. queue' = Append(queue, b)
      BY <2>2
    <3> HIDE DEF b
    <3> QED BY <1>1, <3>1, <3>2, <3>3, AppendOrdered, OrderOfQueue DEF OrderInv
  <2> QED BY <2>1, <2>2 DEF Terminator
<1> QED BY <1>1, <1>2, NoCallOrder

\* A pass that leaves the call up, seen from the burst it sends.
LEMMA RelayBurstOrder ==
  ASSUME TypeInv, OrderInv, NEW k \in {0, AmbePerBurst}, RelayBurst(k)
  PROVE  OrderInv'
<1>1. /\ call' = CallNow /\ queue' = Tail(QueueNow) /\ QueueNow # <<>> /\ seq' = seq
      /\ shown' = FmDropped(IF Head(QueueNow).start THEN Head(QueueNow).of ELSE ShownNow)
  BY DEF RelayBurst, Pass
<1>2. Ordered(queue') /\ Below(queue', seq')
  BY <1>1, NowOrdered, TailOrdered DEF TypeInv, TypeOK
<1>3. CASE CallNow = NoCall
  BY <1>1, <1>2, <1>3, NoneActive, NoCallOrder
<1>4. CASE CallNow = call /\ ~Over
  <2>1. /\ QueueNow = queue /\ ShownNow = shown /\ call.id \in 0..MaxCalls
        /\ queue \in Seq(QueuedBurst) /\ seq \in 0..MaxCalls
    BY <1>4, QueueNowCases, CallFields DEF Over, ShownNow, TypeInv, TypeOK
  <2>2. /\ Head(queue) = queue[1] /\ 1 \in 1..Len(queue)
        /\ Len(queue') = Len(queue) - 1 /\ Len(queue) \in Nat
        /\ \A i \in 1..Len(queue') : i + 1 \in 1..Len(queue) /\ queue'[i] = queue[i + 1]
    BY <1>1, <2>1
  <2>3. Active' => call.id = seq
    BY <1>1, <1>4 DEF OrderInv, Active
  <2>4. CASE Started
    <3>1. OnlyOf(queue, call.id) /\ shown = call.id /\ Active
      BY <2>4 DEF OrderInv, StatusNamesCallOnAir, Started
    <3>2. OnlyOf(queue', call.id)
      BY <2>2, <3>1 DEF OnlyOf
    <3>3. ~Head(queue).start
      BY <2>2, <2>4, <3>1 DEF OnlyOf, Started
    <3>4. shown' = call.id
      BY <1>1, <2>1, <3>1, <3>3, CapsAssumption DEF FmDropped, FmEnded, FM
    <3> QED BY <1>1, <1>2, <1>4, <2>3, <3>2, <3>4, OrderOfQueueNext
        DEF OrderInv, Below, OnlyOf, StatusNamesCallOnAir, Active
  <2>5. CASE Started' /\ ~Started
    <3>0. Active /\ call.id = seq
      BY <1>1, <1>4, <2>3, <2>5 DEF Started, Active
    <3>1. PICK i \in 1..Len(queue) : queue[i].start /\ queue[i].of = call.id
      BY <2>5, <3>0 DEF Started
    <3>2. i = 1
      <4>1. SUFFICES ASSUME i # 1 PROVE FALSE
        OBVIOUS
      <4>2. i - 1 \in 1..Len(queue') /\ queue'[i - 1] = queue[i]
        BY <2>2, <4>1
      <4> QED BY <1>1, <1>4, <2>5, <3>1, <4>2 DEF Started
    <3>3. \A j \in 1..Len(queue) : queue[j].of = call.id
      <4>1. SUFFICES ASSUME NEW j \in 1..Len(queue), j # 1
                     PROVE  queue[j].of = call.id
        BY <3>1, <3>2
      <4>2. queue[1].of <= queue[j].of
        BY <2>2, <4>1 DEF OrderInv, QueueInCallOrder
      <4>3. queue[j].of <= seq /\ queue[j].of \in 1..MaxCalls
        BY <2>1, BurstFields DEF OrderInv, Below
      <4> QED BY <2>1, <3>0, <3>1, <3>2, <4>2, <4>3
    <3>4. OnlyOf(queue', call.id)
      BY <2>2, <3>3 DEF OnlyOf
    <3>5. shown' = call.id
      <4>1. Head(queue).start /\ Head(queue).of = call.id /\ call.id # FM
        BY <2>1, <2>2, <3>1, <3>2 DEF FM
      <4> QED BY <1>1, <2>1, <4>1 DEF FmDropped, FmEnded
    <3> QED BY <1>1, <1>2, <1>4, <2>3, <3>4, <3>5, OrderOfQueueNext
        DEF OrderInv, Below, OnlyOf, StatusNamesCallOnAir, Active
  <2>6. CASE ~Started'
    BY <1>1, <1>2, <1>4, <2>3, <2>6, OrderOfQueueNext
       DEF OrderInv, Below, StatusNamesCallOnAir, Active
  <2> QED BY <2>4, <2>5, <2>6
<1> QED BY <1>3, <1>4, CallNowCases

\* A pass with nothing queued leaves nothing queued.
LEMMA IdlePassOrder ==
  ASSUME TypeInv, OrderInv, NEW k \in {0, AmbePerBurst}, IdlePass(k)
  PROVE  OrderInv'
<1>1. /\ call' = CallNow /\ queue' = <<>> /\ QueueNow = <<>> /\ seq' = seq
      /\ shown' = FmDropped(ShownNow)
  BY DEF IdlePass, Pass
<1>2. Ordered(queue') /\ Below(queue', seq')
  BY <1>1, EmptyOrdered
<1>3. CASE CallNow = NoCall
  BY <1>1, <1>2, <1>3, NoneActive, NoCallOrder
<1>4. CASE CallNow = call /\ ~Over
  <2>1. queue = <<>> /\ ShownNow = shown /\ call.id \in 0..MaxCalls
    BY <1>1, <1>4, QueueNowCases, CallFields DEF Over, ShownNow, TypeInv, TypeOK
  <2>2. Started' => Started
    BY <1>1, <1>4, <2>1 DEF Started, Active
  <2>3. Started' => shown' = call.id
    <3>1. Started => shown = call.id
      BY DEF OrderInv, StatusNamesCallOnAir
    <3>2. call.id # FM
      BY <2>1 DEF FM
    <3> QED BY <1>1, <2>1, <2>2, <3>1, <3>2 DEF FmDropped, FmEnded
  <2> QED BY <1>1, <1>2, <1>4, <2>3, EmptyOrdered, OrderOfQueueNext
      DEF OrderInv, Below, OnlyOf, StatusNamesCallOnAir, Active
<1> QED BY <1>3, <1>4, CallNowCases

\* Every step keeps the order.
LEMMA OrderStep ==
  ASSUME TypeInv, OrderInv, [Next]_vars
  PROVE  OrderInv'
<1>1. ASSUME NEW kind \in RawKinds, RawBurst(kind) PROVE OrderInv'
  BY <1>1, RawBurstOrder
<1>2. ASSUME NEW s \in Sources, BeginCall(s) PROVE OrderInv'
  BY <1>2, BeginCallOrder
<1>3. ASSUME NEW s \in Sources, BeginFails(s) PROVE OrderInv'
  <2>1. call'.id = 0 /\ queue' = QueueNow /\ seq' = seq + 1 /\ seq \in 0..MaxCalls
    BY <1>3, NoneActive DEF BeginFails, TypeInv, TypeOK
  <2>2. Ordered(queue')
    BY <2>1, NowOrdered
  <2>3. Below(queue', seq')
    <3>1. \A i \in 1..Len(QueueNow) :
            QueueNow[i].of <= seq /\ QueueNow[i].of \in 1..MaxCalls
      BY NowOrdered, BurstFields DEF Below
    <3> QED BY <2>1, <3>1, CapsAssumption DEF Below
  <2> QED BY <2>1, <2>2, <2>3, NoCallOrder
<1>4. ASSUME NEW s \in Sources, RepeatHeader(s) PROVE OrderInv'
  BY <1>4, RepeatHeaderEffect, QuietOrder
<1>5. ASSUME NEW s \in Sources, Terminator(s) PROVE OrderInv'
  BY <1>5, TerminatorOrder
<1>6. ASSUME NEW k \in {0, AmbePerBurst}, RelayBurst(k) PROVE OrderInv'
  BY <1>6, RelayBurstOrder
<1>7. ASSUME NEW k \in {0, AmbePerBurst}, IdlePass(k) PROVE OrderInv'
  BY <1>7, IdlePassOrder
<1>8. ASSUME NEW k \in {0, AmbePerBurst},
             FmHeader(k) \/ FmVoice(k) \/ FmUnderflow(k) \/ FmTerminator(k)
      PROVE  OrderInv'
  <2>1. call'.id = 0 /\ queue' = <<>>
    BY <1>8 DEF FmHeader, FmVoice, FmUnderflow, FmTerminator, FmRuns, DmrNow, Pass
  <2> QED BY <2>1, EmptyOrdered, NoCallOrder
<1>9. ASSUME NEW q \in BOOLEAN, SetCtcssState(q) PROVE OrderInv'
  BY <1>9, CtcssEffect, QuietOrder
<1>10. CASE DataFrame \/ SetForwarding \/ UNCHANGED vars
  <2>1. UNCHANGED <<call, queue, seq, shown>>
    BY <1>10 DEF DataFrame, SetForwarding, vars, dmrVars, outVars
  <2> QED BY <2>1, QuietOrder
<1>11. CASE Tick
  BY <1>11, TickEffect, QuietOrder
<1> QED BY <1>1, <1>2, <1>3, <1>4, <1>5, <1>6, <1>7, <1>8, <1>9, <1>10, <1>11
    DEF Next, Header, GeneralWork

\* Nothing is queued when the block is made.
LEMMA OrderInit == Init => OrderInv
<1> SUFFICES ASSUME Init PROVE OrderInv
  OBVIOUS
<1>1. queue = <<>> /\ call.id = 0
  BY NoneActive DEF Init
<1> QED BY <1>1, EmptyOrdered, OrderOfQueue
    DEF OrderInv, Started, Active, StatusNamesCallOnAir

\* The order of the queue, of ids and of the status is an invariant of the
\* relay block: what CallsLeaveInOrder and StatusFollowsAir rest on.
THEOREM OrderIsKept == Spec => []OrderInv
<1>1. TypeInv /\ OrderInv /\ [Next]_vars => OrderInv'
  BY OrderStep
<1> QED BY <1>1, OrderInit, TypeInvariant, PTL DEF Spec

\* Calls are sent in the order they were admitted, each reported started
\* once (handle_header and enqueue_locked in hardware_runtime.cpp).
THEOREM CallsLeaveInOrder == Spec => []QueueInCallOrder
<1>1. OrderInv => QueueInCallOrder
  BY DEF OrderInv
<1> QED BY <1>1, OrderIsKept, PTL

\* The status names the call on the air, whatever ended late before it
\* (general_work in hardware_runtime.cpp, observe_relay_event in
\* network_protocol.cpp).
THEOREM StatusFollowsAir == Spec => []StatusNamesCallOnAir
<1>1. OrderInv => StatusNamesCallOnAir
  BY DEF OrderInv
<1> QED BY <1>1, OrderIsKept, PTL
=============================================================================
