------------------------ MODULE ReceivePipelineProofs ------------------------
(***************************************************************************)
(* The accounting and ordering invariants of ReceivePipeline for every     *)
(* queue capacity and any number of frames.                                *)
(***************************************************************************)
EXTENDS ReceivePipeline, SequenceTheorems, TLAPS

\* The gauge with its two outstanding counts: what makes GaugeCoversQueue
\* inductive.  The decrement saturates at zero, so only one direction holds.
GaugeInv ==
    wireDepth + (IF reader = "sent" THEN 1 ELSE 0)
        >= Len(wireq) + (IF decoder = "got" THEN 1 ELSE 0)

\* publish holds a sequence number when it reaches for the slot.
FillHasNumber == decoder = "fill" => capSeq > 0

\* All elements of s are above m, or at most m.
Above(s, m)  == \A i \in 1..Len(s) : m < s[i]
AtMost(s, m) == \A i \in 1..Len(s) : s[i] <= m

\* Arrival order, with newest as the mark between decoded and not yet decoded.
OrderInv ==
    /\ newest <= arrived
    /\ Increasing(wireq) /\ Increasing(slot) /\ Increasing(taken)
    /\ Above(wireq, newest) /\ AtMost(wireq, arrived)
    /\ Held = 1 => newest < cur /\ cur <= arrived /\ Above(wireq, cur)
    /\ AtMost(slot, newest) /\ AtMost(taken, newest)
    /\ Before(taken, slot)
    /\ LatestWins

IInv ==
    /\ TypeOK
    /\ FramesConserved
    /\ GaugeInv
    /\ FillHasNumber
    /\ CaptureAccounted
    /\ OrderInv

\* The elements of a sequence of frame numbers are numbers.
LEMMA NatElements == \A s \in Seq(Nat) : \A i \in 1..Len(s) : s[i] \in Nat
OBVIOUS

-----------------------------------------------------------------------------
\* Appending above everything in s keeps order and bounds.
LEMMA AppendOrder ==
    ASSUME NEW s \in Seq(Nat), NEW e \in Nat
    PROVE  /\ Append(s, e) \in Seq(Nat)
           /\ Len(Append(s, e)) = Len(s) + 1 /\ Append(s, e)[Len(s) + 1] = e
           /\ \A i \in 1..Len(s) : Append(s, e)[i] = s[i]
           /\ Increasing(s) /\ (\A i \in 1..Len(s) : s[i] < e) => Increasing(Append(s, e))
           /\ \A m \in Nat : Above(s, m) /\ m < e => Above(Append(s, e), m)
           /\ \A m \in Nat : AtMost(s, m) /\ e <= m => AtMost(Append(s, e), m)
<1> DEFINE t == Append(s, e)
<1>1. /\ t \in Seq(Nat) /\ Len(t) = Len(s) + 1 /\ t[Len(s) + 1] = e
      /\ \A i \in 1..Len(s) : t[i] = s[i]
  BY AppendProperties
<1>2. \A i \in 1..Len(s) : s[i] \in Nat
  OBVIOUS
<1>3. Len(s) \in Nat
  OBVIOUS
<1> HIDE DEF t
<1>4. \A i \in 1..Len(t) : i = Len(s) + 1 \/ i \in 1..Len(s)
  BY <1>1, <1>3
<1>5. ASSUME Increasing(s), \A i \in 1..Len(s) : s[i] < e PROVE Increasing(t)
  <2> SUFFICES ASSUME NEW i \in 1..Len(t), NEW j \in 1..Len(t), i < j PROVE t[i] < t[j]
    BY DEF Increasing
  <2>1. i \in 1..Len(s)
    BY <1>1, <1>3
  <2> QED  BY <1>1, <1>3, <1>4, <1>5, <2>1 DEF Increasing
<1>6. ASSUME NEW m \in Nat, Above(s, m), m < e PROVE Above(t, m)
  BY <1>1, <1>4, <1>6 DEF Above
<1>7. ASSUME NEW m \in Nat, AtMost(s, m), e <= m PROVE AtMost(t, m)
  BY <1>1, <1>4, <1>7 DEF AtMost
<1> QED  BY <1>1, <1>5, <1>6, <1>7 DEF t

\* A bound may be raised.
LEMMA RaiseBound ==
    ASSUME NEW s \in Seq(Nat), NEW m \in Nat, AtMost(s, m)
    PROVE  AtMost(s, m + 1) /\ \A i \in 1..Len(s) : s[i] < m + 1
<1>1. \A i \in 1..Len(s) : s[i] \in Nat /\ s[i] <= m
  BY DEF AtMost
<1> QED  BY <1>1 DEF AtMost

\* t is s without its first k elements: it inherits order and bounds.
Suffix(t, s, k) ==
    /\ t \in Seq(Nat) /\ k \in Nat /\ Len(t) + k = Len(s)
    /\ \A i \in 1..Len(t) : t[i] = s[i + k]

\* A suffix of a queue keeps its order and bounds.
LEMMA SuffixOrder ==
    ASSUME NEW s \in Seq(Nat), NEW t, NEW k, Suffix(t, s, k)
    PROVE  /\ Increasing(s) => Increasing(t)
           /\ \A m \in Nat : Above(s, m) => Above(t, m)
           /\ \A m \in Nat : AtMost(s, m) => AtMost(t, m)
           /\ \A r \in Seq(Nat) : Before(r, s) => Before(r, t)
           /\ Len(t) # 0 => t[Len(t)] = s[Len(s)]
<1>1. /\ Len(s) \in Nat /\ Len(t) \in Nat /\ k \in Nat /\ Len(t) + k = Len(s)
      /\ \A i \in 1..Len(t) : t[i] = s[i + k]
  BY DEF Suffix
<1>2. \A i \in 1..Len(t) : i + k \in 1..Len(s)
  BY <1>1
<1>3. ASSUME Increasing(s) PROVE Increasing(t)
  <2> SUFFICES ASSUME NEW i \in 1..Len(t), NEW j \in 1..Len(t), i < j PROVE t[i] < t[j]
    BY DEF Increasing
  <2>1. i + k \in 1..Len(s) /\ j + k \in 1..Len(s) /\ i + k < j + k
    BY <1>1, <1>2
  <2> QED  BY <1>1, <1>3, <2>1 DEF Increasing
<1>4. ASSUME NEW m \in Nat, Above(s, m) PROVE Above(t, m)
  BY <1>1, <1>2, <1>4 DEF Above
<1>5. ASSUME NEW m \in Nat, AtMost(s, m) PROVE AtMost(t, m)
  BY <1>1, <1>2, <1>5 DEF AtMost
<1>6. ASSUME NEW r \in Seq(Nat), Before(r, s) PROVE Before(r, t)
  BY <1>1, <1>2, <1>6 DEF Before
<1>7. ASSUME Len(t) # 0 PROVE t[Len(t)] = s[Len(s)]
  BY <1>1, <1>7
<1> QED  BY <1>3, <1>4, <1>5, <1>6, <1>7

\* The tail of a queue is its suffix, and follows its head.
LEMMA TailOrder ==
    ASSUME NEW s \in Seq(Nat), s # <<>>
    PROVE  /\ Suffix(Tail(s), s, 1) /\ Head(s) = s[1] /\ Head(s) \in Nat /\ Len(s) >= 1
           /\ Increasing(s) => Above(Tail(s), Head(s))
<1> DEFINE t == Tail(s)
<1>1. /\ t \in Seq(Nat) /\ Len(t) = Len(s) - 1 /\ Head(s) = s[1] /\ Head(s) \in Nat
      /\ \A i \in 1..Len(t) : t[i] = s[i + 1]
  BY HeadTailProperties
<1>2. Len(s) \in Nat /\ Len(s) >= 1
  OBVIOUS
<1> HIDE DEF t
<1>3. Suffix(t, s, 1)
  BY <1>1, <1>2 DEF Suffix
<1>4. ASSUME Increasing(s) PROVE Above(t, s[1])
  <2> SUFFICES ASSUME NEW i \in 1..Len(t) PROVE s[1] < t[i]
    BY DEF Above
  <2>1. 1 \in 1..Len(s) /\ i + 1 \in 1..Len(s) /\ 1 < i + 1
    BY <1>1, <1>2
  <2> QED  BY <1>1, <1>4, <2>1 DEF Increasing
<1> QED  BY <1>1, <1>2, <1>3, <1>4 DEF t

\* What publish leaves of the decoded queue before it appends is a suffix of it.
LEMMA KeptFacts ==
    ASSUME slot \in Seq(Nat)
    PROVE  /\ Kept \in Seq(Nat) /\ Len(Kept) <= Len(slot)
           /\ \E k \in Nat : Suffix(Kept, slot, k)
<1>0. Len(slot) \in Nat /\ DecodedCap \in Nat /\ DecodedCap >= 1
  BY PipelineAssumption
<1>1. CASE Len(slot) < DecodedCap
  <2>1. Kept = slot
    BY <1>0, <1>1 DEF Kept
  <2>2. Suffix(Kept, slot, 0)
    <3>1. \A i \in 1..Len(slot) : slot[i] = slot[i + 0]
      OBVIOUS
    <3> QED  BY <1>0, <2>1, <3>1 DEF Suffix
  <2> QED  BY <1>0, <2>1, <2>2
<1>2. CASE Len(slot) >= DecodedCap
  <2> DEFINE k == Len(slot) - DecodedCap + 1
  <2>1. k \in Nat /\ k >= 1 /\ k <= Len(slot) /\ k + 1 = Len(slot) - DecodedCap + 2
    BY <1>0, <1>2
  <2> HIDE DEF k
  <2>2. Kept = SubSeq(slot, k + 1, Len(slot))
    BY <1>2, <2>1 DEF Kept
  <2>3. /\ Kept \in Seq(Nat) /\ Len(Kept) = Len(slot) - k
        /\ \A i \in 1..(Len(slot) - k) : Kept[i] = slot[i + k]
    <3>1. \A i \in (k + 1)..Len(slot) : slot[i] \in Nat
      BY <1>0, <2>1
    <3> DEFINE t == SubSeq(slot, k + 1, Len(slot))
    <3>2. t \in Seq(Nat)
      BY <1>0, <2>1, <3>1
    <3>3. Len(t) = Len(slot) - k
      BY <1>0, <2>1
    <3>4. \A i \in 1..(Len(slot) - k) : t[i] = slot[i + k]
      BY <1>0, <2>1
    <3> QED  BY <2>2, <3>2, <3>3, <3>4
  <2>4. Suffix(Kept, slot, k)
    BY <1>0, <2>1, <2>3 DEF Suffix
  <2> QED  BY <1>0, <2>1, <2>3, <2>4
<1> QED  BY <1>0, <1>1, <1>2

\* Every step keeps the variables well typed.
LEMMA TypeStep == TypeOK /\ [Next]_vars => TypeOK'
<1> SUFFICES ASSUME TypeOK, [Next]_vars PROVE TypeOK'
  OBVIOUS
<1> USE PipelineAssumption
    DEF TypeOK, readerVars, captureVars, outVars, dropVars, ReaderStates, DecoderStates,
        UserStates
<1>1. CASE ReaderCheck
  BY <1>1 DEF ReaderCheck
<1>2. CASE ReadNothing
  BY <1>2 DEF ReadNothing
<1>3. CASE RefuseFrame
  BY <1>3 DEF RefuseFrame
<1>4. CASE DispatchFrame
  <2>1. CASE SendOk
    BY <1>4, <2>1 DEF DispatchFrame, SendOk
  <2>2. CASE SendFull
    BY <1>4, <2>2 DEF DispatchFrame, SendFull
  <2>3. CASE SendDisconnected
    BY <1>4, <2>3 DEF DispatchFrame, SendDisconnected
  <2> QED  BY <1>4, <2>1, <2>2, <2>3 DEF DispatchFrame
<1>5. CASE CountQueued
  BY <1>5 DEF CountQueued
<1>6. CASE DecoderCheck
  BY <1>6 DEF DecoderCheck
<1>7. CASE DecoderTimeout
  BY <1>7 DEF DecoderTimeout
<1>8. CASE DecoderRecv
  BY <1>8 DEF DecoderRecv
<1>9. CASE CountDequeued
  BY <1>9 DEF CountDequeued
<1>10. CASE CaptureLoad
  BY <1>10 DEF CaptureLoad
<1>11. CASE CaptureFill
  BY <1>11 DEF CaptureFill
<1>12. CASE DecodeOk
  <2>1. Kept \in Seq(Nat) /\ Len(Kept) <= Len(slot)
    BY KeptFacts
  <2>2. Append(Kept, cur) \in Seq(Nat) /\ droppedDecode + (Len(slot) - Len(Kept)) \in Nat
    BY <2>1
  <2> QED  BY <1>12, <2>2 DEF DecodeOk
<1>13. CASE DecodeError
  BY <1>13 DEF DecodeError
<1>14. CASE TakeVideo
  BY <1>14 DEF TakeVideo
<1>15. CASE CaptureOn
  BY <1>15 DEF CaptureOn
<1>16. CASE CaptureOff
  BY <1>16 DEF CaptureOff
<1>17. CASE CaptureDiscard
  BY <1>17 DEF CaptureDiscard
<1>18. CASE TakeCaptured
  BY <1>18 DEF TakeCaptured
<1>19. CASE Disconnect
  BY <1>19 DEF Disconnect
<1>20. CASE Joined
  BY <1>20 DEF Joined, vars
<1>21. CASE ReaderCloses
  BY <1>21 DEF ReaderCloses
<1>22. CASE DecoderDisconnected
  BY <1>22 DEF DecoderDisconnected
<1>23. CASE UNCHANGED vars
  BY <1>23 DEF vars
<1> QED
  BY <1>1, <1>2, <1>3, <1>4, <1>5, <1>6, <1>7, <1>8, <1>9, <1>10,
     <1>11, <1>12, <1>13, <1>14, <1>15, <1>16, <1>17, <1>18, <1>19, <1>20,
     <1>21, <1>22, <1>23
  DEF Next, ReaderStep, DecoderStep, UserStep

\* Every step keeps the frame, gauge and capture accounts.
AccountInv == FramesConserved /\ GaugeInv /\ FillHasNumber /\ CaptureAccounted

\* Every step of reader, decoder and application keeps the accounts.
LEMMA AccountStep == TypeOK /\ AccountInv /\ [Next]_vars => AccountInv'
<1> SUFFICES ASSUME TypeOK, AccountInv, [Next]_vars PROVE AccountInv'
  OBVIOUS
<1> USE PipelineAssumption
    DEF TypeOK, AccountInv, FramesConserved, GaugeInv, FillHasNumber, CaptureAccounted, Held,
        readerVars, captureVars, outVars, dropVars, ReaderStates, DecoderStates, UserStates
<1>1. CASE ReaderCheck
  BY <1>1 DEF ReaderCheck
<1>2. CASE ReadNothing
  BY <1>2 DEF ReadNothing
<1>3. CASE RefuseFrame
  BY <1>3 DEF RefuseFrame
<1>4. CASE DispatchFrame
  <2>1. CASE SendOk
    BY <1>4, <2>1 DEF DispatchFrame, SendOk
  <2>2. CASE SendFull
    BY <1>4, <2>2 DEF DispatchFrame, SendFull
  <2>3. CASE SendDisconnected
    BY <1>4, <2>3 DEF DispatchFrame, SendDisconnected
  <2> QED  BY <1>4, <2>1, <2>2, <2>3 DEF DispatchFrame
<1>5. CASE CountQueued
  BY <1>5 DEF CountQueued
<1>6. CASE DecoderCheck
  BY <1>6 DEF DecoderCheck
<1>7. CASE DecoderTimeout
  BY <1>7 DEF DecoderTimeout
<1>8. CASE DecoderRecv
  BY <1>8 DEF DecoderRecv
<1>9. CASE CountDequeued
  BY <1>9 DEF CountDequeued
<1>10. CASE CaptureLoad
  BY <1>10 DEF CaptureLoad
<1>11. CASE CaptureFill
  BY <1>11 DEF CaptureFill
<1>12. CASE DecodeOk
  <2>1. Kept \in Seq(Nat) /\ Len(Kept) <= Len(slot)
    BY KeptFacts
  <2>2. Len(Append(Kept, cur)) = Len(Kept) + 1
    BY <2>1
  <2> QED  BY <1>12, <2>1, <2>2 DEF DecodeOk
<1>13. CASE DecodeError
  BY <1>13 DEF DecodeError
<1>14. CASE TakeVideo
  BY <1>14 DEF TakeVideo
<1>15. CASE CaptureOn
  BY <1>15 DEF CaptureOn
<1>16. CASE CaptureOff
  BY <1>16 DEF CaptureOff
<1>17. CASE CaptureDiscard
  BY <1>17 DEF CaptureDiscard
<1>18. CASE TakeCaptured
  BY <1>18 DEF TakeCaptured
<1>19. CASE Disconnect
  BY <1>19 DEF Disconnect
<1>20. CASE Joined
  BY <1>20 DEF Joined, vars
<1>21. CASE ReaderCloses
  BY <1>21 DEF ReaderCloses
<1>22. CASE DecoderDisconnected
  BY <1>22 DEF DecoderDisconnected
<1>23. CASE UNCHANGED vars
  BY <1>23 DEF vars
<1> QED
  BY <1>1, <1>2, <1>3, <1>4, <1>5, <1>6, <1>7, <1>8, <1>9, <1>10,
     <1>11, <1>12, <1>13, <1>14, <1>15, <1>16, <1>17, <1>18, <1>19, <1>20,
     <1>21, <1>22, <1>23
  DEF Next, ReaderStep, DecoderStep, UserStep

\* Every step keeps arrival order.
LEMMA OrderStep == TypeOK /\ OrderInv /\ [Next]_vars => OrderInv'
<1> SUFFICES ASSUME TypeOK, OrderInv, [Next]_vars PROVE OrderInv'
  OBVIOUS
<1> USE PipelineAssumption
    DEF TypeOK, OrderInv, LatestWins, Held,
        readerVars, captureVars, outVars, dropVars, ReaderStates, DecoderStates, UserStates
<1>0. AtMost(wireq, arrived + 1) /\ \A i \in 1..Len(wireq) : wireq[i] < arrived + 1
  <2>1. wireq \in Seq(Nat) /\ arrived \in Nat /\ AtMost(wireq, arrived)
    OBVIOUS
  <2> QED  BY <2>1, RaiseBound
<1>1. CASE ReaderCheck
  BY <1>1 DEF ReaderCheck
<1>2. CASE ReadNothing
  BY <1>2 DEF ReadNothing
<1>3. CASE RefuseFrame
  BY <1>0, <1>3 DEF RefuseFrame
<1>4. CASE DispatchFrame
  <2>1. CASE SendOk
    <3>1. /\ wireq' = Append(wireq, arrived + 1) /\ arrived' = arrived + 1 /\ arrived \in Nat
          /\ UNCHANGED <<slot, taken, newest, cur, decoder>>
      BY <1>4, <2>1 DEF DispatchFrame, SendOk
    <3>2. wireq \in Seq(Nat) /\ Increasing(wireq) /\ AtMost(wireq, arrived)
      OBVIOUS
    <3>3. arrived + 1 \in Nat
      BY <3>1
    <3>4. Increasing(wireq') /\ AtMost(wireq', arrived')
      <4> HIDE DEF TypeOK, OrderInv
      <4>1. Increasing(Append(wireq, arrived + 1))
        BY <1>0, <3>2, <3>3, AppendOrder
      <4>2. AtMost(Append(wireq, arrived + 1), arrived + 1)
        <5>1. arrived + 1 <= arrived + 1
          BY <3>3
        <5> QED  BY <1>0, <3>2, <3>3, <5>1, AppendOrder
      <4> QED  BY <3>1, <4>1, <4>2
    <3>5. Above(wireq', newest) /\ (Held = 1 => Above(wireq', cur))
      BY <3>1, <3>2, AppendOrder
    <3> QED  BY <3>1, <3>4, <3>5
  <2>2. CASE SendFull
    BY <1>0, <1>4, <2>2 DEF DispatchFrame, SendFull
  <2>3. CASE SendDisconnected
    BY <1>0, <1>4, <2>3 DEF DispatchFrame, SendDisconnected
  <2> QED  BY <1>4, <2>1, <2>2, <2>3 DEF DispatchFrame
<1>5. CASE CountQueued
  BY <1>5 DEF CountQueued
<1>6. CASE DecoderCheck
  BY <1>6 DEF DecoderCheck
<1>7. CASE DecoderTimeout
  BY <1>7 DEF DecoderTimeout
<1>8. CASE DecoderRecv
  <2>1. /\ wireq # <<>> /\ cur' = Head(wireq) /\ wireq' = Tail(wireq) /\ Held' = 1
        /\ UNCHANGED <<arrived, slot, taken, newest>>
    BY <1>8 DEF DecoderRecv
  <2>2. wireq \in Seq(Nat) /\ Increasing(wireq) /\ newest \in Nat /\ arrived \in Nat
    OBVIOUS
  <2>3. Suffix(wireq', wireq, 1) /\ cur' = wireq[1] /\ Len(wireq) >= 1 /\ Above(wireq', cur')
    BY <2>1, <2>2, TailOrder
  <2>4. Increasing(wireq') /\ Above(wireq', newest) /\ AtMost(wireq', arrived)
    BY <2>2, <2>3, SuffixOrder
  <2>5. newest < cur' /\ cur' <= arrived
    <3>1. 1 \in 1..Len(wireq) /\ Above(wireq, newest) /\ AtMost(wireq, arrived)
      BY <2>2, <2>3
    <3> QED  BY <2>3, <3>1 DEF Above, AtMost
  <2> QED  BY <2>1, <2>3, <2>4, <2>5
<1>9. CASE CountDequeued
  BY <1>9 DEF CountDequeued
<1>10. CASE CaptureLoad
  BY <1>10 DEF CaptureLoad
<1>11. CASE CaptureFill
  BY <1>11 DEF CaptureFill
<1>12. CASE DecodeOk
  <2>1. PICK k \in Nat : Suffix(Kept, slot, k)
    BY KeptFacts
  <2>2. /\ Kept \in Seq(Nat) /\ slot \in Seq(Nat) /\ taken \in Seq(Nat)
        /\ newest \in Nat /\ cur \in Nat
    BY KeptFacts
  <2>3. /\ slot' = Append(Kept, cur) /\ newest' = cur /\ Held = 1 /\ Held' = 0
        /\ UNCHANGED <<taken, wireq, arrived>>
    BY <1>12 DEF DecodeOk
  <2>4. newest < cur /\ cur <= arrived /\ Above(wireq, cur)
    BY <2>3
  <2>5. Increasing(Kept) /\ AtMost(Kept, newest) /\ Before(taken, Kept)
    BY <2>1, <2>2, SuffixOrder
  <2>6. (\A i \in 1..Len(Kept) : Kept[i] < cur) /\ AtMost(Kept, cur) /\ AtMost(taken, cur)
    <3>1. AtMost(taken, newest)
      OBVIOUS
    <3>2. /\ \A i \in 1..Len(Kept) : Kept[i] \in Nat
          /\ \A i \in 1..Len(taken) : taken[i] \in Nat
      <4> HIDE DEF TypeOK, OrderInv
      <4> QED  BY <2>2, NatElements
    <3> QED  BY <2>2, <2>4, <2>5, <3>1, <3>2 DEF AtMost
  <2>7. /\ Increasing(slot') /\ AtMost(slot', cur) /\ slot'[Len(slot')] = cur
        /\ Len(slot') = Len(Kept) + 1 /\ slot'[Len(Kept) + 1] = cur
        /\ \A i \in 1..Len(Kept) : slot'[i] = Kept[i]
    BY <2>2, <2>3, <2>5, <2>6, AppendOrder
  <2>8. Before(taken, slot')
    <3> SUFFICES ASSUME NEW i \in 1..Len(taken), NEW j \in 1..Len(slot')
                 PROVE  taken[i] < slot'[j]
      BY DEF Before
    <3>1. taken[i] <= newest /\ taken[i] \in Nat
      BY <2>2 DEF AtMost
    <3>2. CASE j \in 1..Len(Kept)
      BY <2>5, <2>7, <3>2 DEF Before
    <3>3. CASE j = Len(Kept) + 1
      BY <2>2, <2>4, <2>7, <3>1, <3>3
    <3>4. Len(Kept) \in Nat /\ Len(slot') = Len(Kept) + 1
      BY <2>2, <2>7
    <3>5. j \in 1..(Len(Kept) + 1)
      BY <3>4
    <3> HIDE DEF TypeOK, OrderInv
    <3> QED  BY <3>2, <3>3, <3>4, <3>5
  <2> QED  BY <2>3, <2>4, <2>6, <2>7, <2>8
<1>13. CASE DecodeError
  BY <1>13 DEF DecodeError
<1>14. CASE TakeVideo
  <2>1. /\ slot # <<>> /\ taken' = Append(taken, Head(slot)) /\ slot' = Tail(slot)
        /\ UNCHANGED <<arrived, wireq, newest, cur, decoder>>
    BY <1>14 DEF TakeVideo
  <2>2. slot \in Seq(Nat) /\ taken \in Seq(Nat) /\ newest \in Nat /\ Increasing(slot)
    OBVIOUS
  <2>3. /\ Suffix(slot', slot, 1) /\ Head(slot) = slot[1] /\ Head(slot) \in Nat
        /\ Len(slot) >= 1 /\ Above(slot', Head(slot))
    BY <2>1, <2>2, TailOrder
  <2>4. /\ Increasing(slot') /\ AtMost(slot', newest) /\ Before(taken, slot')
        /\ Len(slot') # 0 => slot'[Len(slot')] = slot[Len(slot)]
    BY <2>2, <2>3, SuffixOrder
  <2>5. Head(slot) <= newest /\ \A i \in 1..Len(taken) : taken[i] < Head(slot)
    <3>1. 1 \in 1..Len(slot) /\ AtMost(slot, newest) /\ Before(taken, slot)
      BY <2>2, <2>3
    <3> QED  BY <2>3, <3>1 DEF AtMost, Before
  <2>6. /\ Increasing(taken') /\ AtMost(taken', newest) /\ Len(taken') = Len(taken) + 1
        /\ taken'[Len(taken) + 1] = Head(slot)
        /\ \A i \in 1..Len(taken) : taken'[i] = taken[i]
    BY <2>1, <2>2, <2>3, <2>5, AppendOrder
  <2>7. Before(taken', slot')
    <3> SUFFICES ASSUME NEW i \in 1..Len(taken'), NEW j \in 1..Len(slot')
                 PROVE  taken'[i] < slot'[j]
      BY DEF Before
    <3>1. CASE i \in 1..Len(taken)
      BY <2>4, <2>6, <3>1 DEF Before
    <3>2. CASE i = Len(taken) + 1
      BY <2>3, <2>6, <3>2 DEF Above
    <3> QED  BY <2>2, <2>6, <3>1, <3>2
  <2>8. LatestWins'
    <3>1. slot' \in Seq(Nat)
      BY <2>3 DEF Suffix
    <3>2. slot' # <<>> => Len(slot') # 0
      BY <3>1
    <3>3. slot[Len(slot)] = newest
      BY <2>1
    <3> QED  BY <2>1, <2>4, <3>2, <3>3
  <2> QED  BY <2>1, <2>4, <2>6, <2>7, <2>8
<1>15. CASE CaptureOn
  BY <1>15 DEF CaptureOn
<1>16. CASE CaptureOff
  BY <1>16 DEF CaptureOff
<1>17. CASE CaptureDiscard
  BY <1>17 DEF CaptureDiscard
<1>18. CASE TakeCaptured
  BY <1>18 DEF TakeCaptured
<1>19. CASE Disconnect
  BY <1>19 DEF Disconnect
<1>20. CASE Joined
  BY <1>20 DEF Joined, vars
<1>21. CASE ReaderCloses
  BY <1>21 DEF ReaderCloses
<1>22. CASE DecoderDisconnected
  BY <1>22 DEF DecoderDisconnected
<1>23. CASE UNCHANGED vars
  BY <1>23 DEF vars
<1> QED
  BY <1>1, <1>2, <1>3, <1>4, <1>5, <1>6, <1>7, <1>8, <1>9, <1>10,
     <1>11, <1>12, <1>13, <1>14, <1>15, <1>16, <1>17, <1>18, <1>19, <1>20,
     <1>21, <1>22, <1>23
  DEF Next, ReaderStep, DecoderStep, UserStep

-----------------------------------------------------------------------------
\* The inductive invariant holds in every reachable state.
LEMMA Invariance == Spec => []IInv
<1>1. Init => IInv
  <2> SUFFICES ASSUME Init PROVE IInv
    OBVIOUS
  <2> USE PipelineAssumption DEF Init
  <2>1. TypeOK
    <3>1. /\ stop \in BOOLEAN /\ capture \in BOOLEAN
          /\ user \in UserStates /\ reader \in ReaderStates /\ decoder \in DecoderStates
      BY DEF ReaderStates, DecoderStates, UserStates
    <3>2. wireq \in Seq(Nat) /\ slot \in Seq(Nat) /\ taken \in Seq(Nat)
      OBVIOUS
    <3>3. /\ arrived \in 0..MaxFrames
          /\ wireDepth \in Nat /\ cur \in Nat /\ newest \in Nat
          /\ capSeq \in Nat /\ capDropped \in Nat /\ capSlot \in Nat
          /\ capTaken \in Nat /\ capDiscarded \in Nat
          /\ droppedWire \in Nat /\ droppedDecode \in Nat /\ lost \in Nat
      OBVIOUS
    <3> QED  BY <3>1, <3>2, <3>3 DEF TypeOK
  <2>2. FramesConserved /\ GaugeInv /\ FillHasNumber /\ CaptureAccounted
    BY DEF FramesConserved, GaugeInv, FillHasNumber, CaptureAccounted, Held
  <2>3. OrderInv
    BY DEF OrderInv, Held, Increasing, Before, Above, AtMost, LatestWins
  <2> QED  BY <2>1, <2>2, <2>3 DEF IInv
<1>2. IInv /\ [Next]_vars => IInv'
  BY TypeStep, AccountStep, OrderStep DEF IInv, AccountInv
<1> QED  BY <1>1, <1>2, PTL DEF Spec

\* Type correctness of the pipeline, the saturating gauge included.
THEOREM TypeCorrect == Spec => []TypeOK
BY Invariance, PTL DEF IInv

\* No video frame vanishes uncounted between the socket and the application,
\* for every queue capacity and every interleaving of the three threads.
THEOREM FramesAreConserved == Spec => []FramesConserved
BY Invariance, PTL DEF IInv

\* The wire_depth gauge never under-reports the queue.
THEOREM GaugeCovers == Spec => []GaugeCoversQueue
<1>1. IInv => GaugeCoversQueue
  BY DEF IInv, TypeOK, GaugeInv, GaugeCoversQueue
<1> QED  BY <1>1, Invariance, PTL

\* The application receives frames in arrival order and none twice.
THEOREM OrderIsKept == Spec => []ArrivalOrder
<1>1. IInv => ArrivalOrder
  <2> SUFFICES ASSUME IInv PROVE ArrivalOrder
    OBVIOUS
  <2>1. TypeOK /\ OrderInv
    BY DEF IInv
  <2>2. /\ newest \in Nat /\ cur \in Nat
        /\ wireq \in Seq(Nat) /\ slot \in Seq(Nat) /\ taken \in Seq(Nat)
        /\ \A i \in 1..Len(slot) : slot[i] \in Nat /\ slot[i] <= newest
        /\ \A i \in 1..Len(taken) : taken[i] \in Nat /\ taken[i] <= newest
        /\ \A i \in 1..Len(wireq) : wireq[i] \in Nat /\ newest < wireq[i]
    BY <2>1 DEF TypeOK, OrderInv, Above, AtMost
  <2>3. Before(taken, wireq) /\ Before(slot, wireq)
    <3>1. ASSUME NEW i \in 1..Len(taken), NEW j \in 1..Len(wireq) PROVE taken[i] < wireq[j]
      <4>1. taken[i] \in Nat /\ taken[i] <= newest /\ wireq[j] \in Nat /\ newest < wireq[j]
        BY <2>2
      <4> QED  BY <2>2, <4>1
    <3>2. ASSUME NEW i \in 1..Len(slot), NEW j \in 1..Len(wireq) PROVE slot[i] < wireq[j]
      <4>1. slot[i] \in Nat /\ slot[i] <= newest /\ wireq[j] \in Nat /\ newest < wireq[j]
        BY <2>2
      <4> QED  BY <2>2, <4>1
    <3> QED  BY <3>1, <3>2 DEF Before
  <2>4. Before(taken, InDecoder) /\ Before(slot, InDecoder) /\ Before(InDecoder, wireq)
    <3>1. CASE Held = 1
      <4>1. InDecoder = <<cur>> /\ newest < cur /\ Above(wireq, cur)
        BY <2>1, <3>1 DEF OrderInv, InDecoder
      <4>2. Len(InDecoder) = 1 /\ InDecoder[1] = cur
        BY <4>1
      <4> QED  BY <2>2, <4>1, <4>2 DEF Before, Above
    <3>2. CASE Held # 1
      <4>1. Len(InDecoder) = 0
        BY <3>2 DEF InDecoder
      <4> QED  BY <2>2, <4>1 DEF Before
    <3> QED  BY <3>1, <3>2
  <2> QED  BY <2>1, <2>3, <2>4 DEF OrderInv, ArrivalOrder
<1> QED  BY <1>1, Invariance, PTL

\* The decoded queue always ends with the newest decoded frame.
THEOREM LatestFrameWins == Spec => []LatestWins
BY Invariance, PTL DEF IInv, OrderInv

\* The capture's sequence numbers account for every captured frame.
THEOREM CaptureIsAccounted == Spec => []CaptureAccounted
BY Invariance, PTL DEF IInv
=============================================================================
