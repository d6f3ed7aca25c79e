------------------------ MODULE TimestampClockProofs ------------------------
(* Proofs about TimestampClock, for every set of formats and durations.        *)
EXTENDS TimestampClock, TLAPS

(* What holds inside resolve.  NeverEarly is not inductive without it: the     *)
(* timestamp about to be handed out is tied to the timeline by the loops, and  *)
(* diff to the wall clock at the time of the call.                             *)
Underway ==
    pc # "idle" => /\ timestamp = base + clock_ts
                   /\ timestamp >= last + step
                   /\ diff = clock_ts - (called - start)

IInv == TypeOK /\ NeverEarly /\ CaughtUp /\ Underway

\* Arithmetic of a supplied timestamp.
LEMMA ShiftBase == \A t, c \in Int : t = (t - c) + c
OBVIOUS

\* A new clock satisfies the invariant.
LEMMA Initially == Init => IInv
<1> SUFFICES ASSUME Init PROVE IInv OBVIOUS
<1>1. TypeOK
  <2>1. wall \in 0..MaxWall /\ start \in 0..MaxWall /\ start <= wall /\ called \in 0..wall
    BY ClockAssumption DEF Init
  <2>2. clock_ts \in Nat /\ last \in Int /\ timestamp \in Int /\ diff \in Int
        /\ base \in Int /\ step \in Nat /\ interval \in Nat \cup {-1}
    BY DEF Init
  <2>3. known \in BOOLEAN /\ pc = "idle" /\ format \in Formats \cup {"none"} BY DEF Init
  <2> QED BY <2>1, <2>2, <2>3 DEF TypeOK
<1>2. NeverEarly /\ CaughtUp /\ Underway
  BY DEF Init, NeverEarly, CaughtUp, Underway, Elapsed
<1> QED BY <1>1, <1>2 DEF IInv

\* Time passing, at any point of resolve, keeps the invariant.
LEMMA TickStep == IInv /\ Tick => IInv'
<1> SUFFICES ASSUME IInv, Tick PROVE IInv' OBVIOUS
<1> USE ClockAssumption
<1>1. TypeOK' BY DEF IInv, TypeOK, Tick, locals
<1>2. NeverEarly' BY DEF IInv, TypeOK, NeverEarly, Tick, Elapsed, locals
<1>3. CaughtUp' /\ Underway' BY DEF IInv, TypeOK, CaughtUp, Underway, Tick, locals
<1> QED BY <1>1, <1>2, <1>3 DEF IInv

\* reset gives the clock a new origin, now.
LEMMA RestartFacts ==
    ASSUME IInv, NEW f \in Formats, NEW len \in Lengths, Restart(f, len)
    PROVE  format' \in Formats /\ interval' \in Nat /\ start' = wall /\ clock_ts' = 0
BY ClockAssumption DEF Restart, IntervalOf

\* So does resolve of a supplied timestamp,
LEMMA ManualStep ==
    ASSUME IInv, NEW f \in Formats, NEW len \in Lengths, NEW ts \in Manual,
           ResolveManual(f, len, ts)
    PROVE  IInv'
<1> USE ClockAssumption
<1>1. pc = "idle" /\ pc' = "idle" /\ known' = TRUE /\ last' = ts /\ base' = ts - clock_ts'
      /\ wall' = wall /\ UNCHANGED locals
  BY DEF ResolveManual
<1>2. format' \in Formats \cup {"none"} /\ interval' \in Nat \cup {-1}
      /\ start' \in 0..MaxWall /\ start' <= wall /\ clock_ts' \in Nat
      /\ clock_ts' <= wall - start'
  <2>1. CASE f # format
    BY <2>1, RestartFacts DEF ResolveManual, IInv, TypeOK
  <2>2. CASE f = format
    BY <2>2 DEF ResolveManual, IInv, TypeOK, NeverEarly, Elapsed
  <2> QED BY <2>1, <2>2
<1>3. TypeOK' BY <1>1, <1>2 DEF IInv, TypeOK, locals
<1>4. NeverEarly'
  <2>0. ts \in Int OBVIOUS
  <2>1. last' = base' + clock_ts'
    <3>1. last' = ts /\ base' = ts - clock_ts' /\ clock_ts' \in Int BY <1>1, <1>2
    <3> QED BY ONLY <2>0, <3>1, ShiftBase
  <2>2. clock_ts' <= Elapsed' BY <1>1, <1>2 DEF Elapsed
  <2> QED BY <2>1, <2>2 DEF NeverEarly
<1>5. CaughtUp' /\ Underway' BY <1>1 DEF CaughtUp, Underway
<1> QED BY <1>3, <1>4, <1>5 DEF IInv

\* resolve of the first automatic timestamp,
LEMMA FirstStep ==
    ASSUME IInv, NEW f \in Formats, NEW len \in Lengths, ResolveFirst(f, len)
    PROVE  IInv'
<1> USE ClockAssumption
<1>1. pc = "idle" /\ pc' = "idle" /\ known' = TRUE /\ last' = 0 /\ base' = 0
      /\ wall' = wall /\ UNCHANGED locals
  BY DEF ResolveFirst
<1>2. format' \in Formats /\ interval' \in Nat /\ start' = wall /\ clock_ts' = 0
  BY RestartFacts DEF ResolveFirst
<1>3. TypeOK' BY <1>1, <1>2 DEF IInv, TypeOK, locals
<1>4. NeverEarly' BY <1>1, <1>2 DEF NeverEarly, Elapsed, IInv, TypeOK
<1>5. CaughtUp' /\ Underway' BY <1>1 DEF CaughtUp, Underway
<1> QED BY <1>3, <1>4, <1>5 DEF IInv

\* the start of resolve for a later one,
LEMMA NextStep ==
    ASSUME IInv, NEW f \in Formats, NEW len \in Lengths, ResolveNext(f, len)
    PROVE  IInv'
<1>1. interval' \in Nat \cup {-1} BY ClockAssumption DEF ResolveNext, IInv, TypeOK
<1>2. step' \in Nat /\ step' > 0 BY <1>1 DEF ResolveNext, StepOf
<1>3. /\ timestamp' = last + step' /\ clock_ts' = clock_ts + step'
      /\ diff' = clock_ts' - (wall - start) /\ called' = wall
  BY DEF ResolveNext, Elapsed
<1>4. wall' = wall /\ start' = start /\ last' = last /\ base' = base BY DEF ResolveNext
<1>5. pc' = "skip" /\ format' = format BY DEF ResolveNext
<1>6. known' \in BOOLEAN /\ known'
  <2>1. known' = known /\ known BY DEF ResolveNext
  <2> QED BY <2>1 DEF IInv, TypeOK
<1>7. last = base + clock_ts BY DEF ResolveNext, IInv, NeverEarly
<1>8. wall \in 0..MaxWall /\ start \in 0..MaxWall /\ start <= wall /\ clock_ts \in Nat
      /\ last \in Int /\ base \in Int /\ format \in Formats \cup {"none"} /\ MaxWall \in Nat
  BY ClockAssumption DEF IInv, TypeOK
<1>9. /\ clock_ts + step' \in Nat /\ last + step' \in Int
      /\ (clock_ts + step') - (wall - start) \in Int
      /\ last + step' = base + (clock_ts + step') /\ last + step' >= last + step'
  <2>1. wall \in Nat /\ start \in Nat /\ last \in Int /\ base \in Int /\ clock_ts \in Nat BY <1>8
  <2>2. step' \in Nat BY <1>2
  <2>3. \A s \in Nat : /\ clock_ts + s \in Nat /\ last + s \in Int
                      /\ (clock_ts + s) - (wall - start) \in Int
                      /\ last + s = base + (clock_ts + s) /\ last + s >= last + s
    BY ONLY <2>1, <1>7
  <2> QED BY ONLY <2>2, <2>3, Zenon
<1>10. TypeOK'
  <2>1. clock_ts' \in Nat /\ timestamp' \in Int /\ diff' \in Int BY <1>3, <1>9
  <2>2. called' \in 0..wall' /\ start' <= called' /\ start' <= wall' BY <1>3, <1>4, <1>8
  <2>3. wall' \in 0..MaxWall /\ start' \in 0..MaxWall /\ last' \in Int /\ base' \in Int
        /\ format' \in Formats \cup {"none"}
    BY <1>4, <1>5, <1>8
  <2> QED BY <1>1, <1>2, <1>5, <1>6, <2>1, <2>2, <2>3 DEF TypeOK
<1>11. timestamp' = base' + clock_ts' /\ timestamp' >= last' + step'
       /\ diff' = clock_ts' - (called' - start')
  BY <1>3, <1>4, <1>9
<1>12. Underway' BY <1>11 DEF Underway
<1>13. NeverEarly' /\ CaughtUp' BY <1>5 DEF NeverEarly, CaughtUp
<1> QED BY <1>10, <1>12, <1>13 DEF IInv

\* and each turn of its two loops.
LEMMA LoopStep ==
    ASSUME IInv, Skip \/ SkipDone \/ Due
    PROVE  IInv'
<1> USE ClockAssumption
<1>1. CASE Skip
  <2>1. TypeOK' BY <1>1 DEF IInv, TypeOK, Skip
  <2>2. Underway' BY <1>1 DEF IInv, TypeOK, Underway, Skip
  <2>3. NeverEarly' /\ CaughtUp' BY <1>1 DEF NeverEarly, CaughtUp, Skip
  <2> QED BY <2>1, <2>2, <2>3 DEF IInv
<1>2. CASE SkipDone
  <2>1. TypeOK' BY <1>2 DEF IInv, TypeOK, SkipDone, locals
  <2>2. Underway' BY <1>2 DEF IInv, TypeOK, Underway, SkipDone, locals
  <2>3. NeverEarly' /\ CaughtUp'
    BY <1>2 DEF IInv, TypeOK, Underway, NeverEarly, CaughtUp, SkipDone, locals
  <2> QED BY <2>1, <2>2, <2>3 DEF IInv
<1>3. CASE Due
  <2>1. TypeOK' BY <1>3 DEF IInv, TypeOK, Due, NoLocals
  <2>2. NeverEarly' BY <1>3 DEF IInv, TypeOK, Underway, NeverEarly, Due, Elapsed
  <2>3. CaughtUp' /\ Underway' BY <1>3 DEF CaughtUp, Underway, Due
  <2> QED BY <2>1, <2>2, <2>3 DEF IInv
<1> QED BY <1>1, <1>2, <1>3

\* Every step keeps the invariant.
LEMMA Preserved == IInv /\ [Next]_vars => IInv'
<1> SUFFICES ASSUME IInv, [Next]_vars PROVE IInv' OBVIOUS
<1>1. CASE UNCHANGED vars
  BY <1>1 DEF vars, IInv, TypeOK, NeverEarly, CaughtUp, Underway, Elapsed
<1>2. CASE Next
  BY <1>1, <1>2, TickStep, ManualStep, FirstStep, NextStep, LoopStep DEF Next, Finished
<1> QED BY <1>1, <1>2

\* The inductive invariant holds in every reachable state.
LEMMA Invariance == Spec => []IInv
BY Initially, Preserved, PTL DEF Spec

-----------------------------------------------------------------------------
\* Every field of TimestampClock keeps its type; a step is never 0 ticks, so the
\* skipping loop of resolve moves.
THEOREM TypeCorrect == Spec => []TypeOK
<1>1. IInv => TypeOK BY DEF IInv
<1> QED BY <1>1, Invariance, PTL

\* Automatic timestamps never run ahead of the wall clock.
THEOREM TimestampsAreDue == Spec => []NeverEarly
<1>1. IInv => NeverEarly BY DEF IInv
<1> QED BY <1>1, Invariance, PTL

\* resolve makes up for late frames to within one interval.
THEOREM LateFramesCatchUp == Spec => []CaughtUp
<1>1. IInv => CaughtUp BY DEF IInv
<1> QED BY <1>1, Invariance, PTL

\* Within a format every automatic timestamp is at least one interval after the
\* one before it.
THEOREM TimestampsAdvance == Spec => AutoAdvances
<1>1. IInv /\ [Next]_vars => [(pc = "pace" /\ pc' = "idle") => last' >= last + step]_vars
  <2> SUFFICES ASSUME IInv, Next, pc = "pace", pc' = "idle"
               PROVE  last' >= last + step \/ UNCHANGED vars
    OBVIOUS
  <2>1. Due \/ UNCHANGED vars
    BY DEF Next, Tick, ResolveManual, ResolveFirst, ResolveNext, Skip, SkipDone, Finished
  <2> QED BY <2>1 DEF IInv, Underway, Due
<1> QED BY <1>1, Invariance, PTL DEF Spec, AutoAdvances
=============================================================================
