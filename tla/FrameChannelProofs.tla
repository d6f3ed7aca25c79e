------------------------- MODULE FrameChannelProofs -------------------------
(* Proofs about FrameChannel, for every stream and all sizes.                  *)
EXTENDS FrameChannel, TLAPS

\* What is always true of a frame of the stream.
LEMMA FrameFacts ==
    ASSUME IsStream(frames), NEW i \in 1..Len(frames)
    PROVE  /\ frames[i].start \in Nat /\ frames[i].body \in 0..MaxBody
           /\ frames[i].form \in Forms
           /\ Size(frames[i]) \in Nat /\ Size(frames[i]) >= HeaderSize
           /\ End(i) = frames[i].start + Size(frames[i])
           /\ Len(frames) \in Nat
<1> DEFINE F == [start : Nat, body : 0..MaxBody, form : Forms]
<1>0. frames \in Seq(F) BY DEF IsStream
<1>1. frames[i] \in F
  <2> HIDE DEF F
  <2> QED BY <1>0
<1>2. Len(frames) \in Nat BY DEF IsStream
<1> QED BY <1>1, <1>2, SizeAssumption DEF Size, End

\* Each frame has a start of its own.
LEMMA OneFrameHere ==
    ASSUME IsStream(frames), NEW i \in 1..Len(frames), NEW j \in 1..Len(frames),
           frames[i].start = frames[j].start
    PROVE  i = j
<1>1. frames[i].start \in Nat /\ frames[j].start \in Nat
      /\ Size(frames[i]) \in Nat /\ Size(frames[j]) \in Nat
      /\ Size(frames[i]) > 0 /\ Size(frames[j]) > 0
  BY FrameFacts, SizeAssumption
<1>2. CASE i < j
  <2>1. frames[i].start + Size(frames[i]) <= frames[j].start BY <1>2 DEF IsStream
  <2> QED BY <1>1, <2>1
<1>3. CASE j < i
  <2>1. frames[j].start + Size(frames[j]) <= frames[i].start BY <1>3 DEF IsStream
  <2> QED BY <1>1, <2>1
<1>4. i \in Int /\ j \in Int BY DEF IsStream
<1> QED BY <1>2, <1>3, <1>4

\* try_pop_frame leaves the buffer within the bytes it had.
LEMMA PopStaysInside ==
    ASSUME IsStream(frames), NEW l \in Nat, NEW h \in Nat, l <= h, NEW r \in TryPop(l, h)
    PROVE  /\ r.kind \in {"none", "error", "frame"}
           /\ r.lo \in Nat /\ l <= r.lo /\ r.lo <= h
           /\ r.id \in 0..Len(frames)
<1> HeaderSize \in Nat BY SizeAssumption
<1>0. Len(frames) \in Nat BY DEF IsStream
<1>1. CASE h - l < HeaderSize
  <2>1. r = None(l) BY <1>1 DEF TryPop
  <2> QED BY <2>1, <1>0 DEF None
<1>2. CASE ~(h - l < HeaderSize) /\ {i \in 1..Len(frames) : frames[i].start = l} = {}
  <2>1. r \in PopPayload(l, h) BY <1>2 DEF TryPop
  <2> QED BY <2>1, <1>0, <1>2 DEF PopPayload, None, Error, Frame
<1>3. CASE ~(h - l < HeaderSize) /\ {i \in 1..Len(frames) : frames[i].start = l} # {}
  <2>1. PICK i \in 1..Len(frames) : r = PopFrame(i, l, h) BY <1>3 DEF TryPop
  <2>2. Size(frames[i]) \in Nat BY FrameFacts
  <2> QED BY <2>1, <2>2, <1>0 DEF PopFrame, None, Error, Frame
<1> QED BY <1>1, <1>2, <1>3

\* At frame k's start try_pop_frame returns frame k whole, or refuses it for its
\* form, or waits for the rest of it.
LEMMA PopAtFrame ==
    ASSUME IsStream(frames), NEW k \in 1..Len(frames), NEW h \in Nat,
           frames[k].start <= h, NEW r \in TryPop(frames[k].start, h)
    PROVE  /\ r.kind = "frame" => r.id = k /\ r.lo = End(k) /\ frames[k].form = "ok"
           /\ r.kind = "error" => frames[k].form # "ok"
           /\ r.kind = "none" => r.lo = frames[k].start
                                 /\ h - frames[k].start < Size(frames[k])
<1> DEFINE l == frames[k].start
<1> HeaderSize \in Nat \ {0} BY SizeAssumption
<1>0. l \in Nat /\ Size(frames[k]) \in Nat /\ Size(frames[k]) >= HeaderSize
      /\ frames[k].form \in Forms /\ End(k) = l + Size(frames[k])
  BY FrameFacts
<1>1. CASE h - l < HeaderSize
  <2>1. r = None(l) BY <1>1 DEF TryPop
  <2> QED BY <2>1, <1>0, <1>1 DEF None
<1>2. CASE ~(h - l < HeaderSize)
  <2>1. k \in {i \in 1..Len(frames) : frames[i].start = l} OBVIOUS
  <2>2. PICK i \in 1..Len(frames) : frames[i].start = l /\ r = PopFrame(i, l, h)
    BY <1>2, <2>1 DEF TryPop
  <2>3. i = k BY <2>2, OneFrameHere
  <2>4. r = PopFrame(k, l, h) BY <2>2, <2>3
  <2> HIDE DEF l
  <2>5. CASE frames[k].form = "header"
    BY <2>4, <2>5 DEF PopFrame, Error
  <2>6. CASE frames[k].form # "header" /\ h - l < Size(frames[k])
    BY <2>4, <2>6, <1>0 DEF PopFrame, None, l
  <2>7. CASE frames[k].form = "body" /\ ~(h - l < Size(frames[k]))
    BY <2>4, <2>7 DEF PopFrame, Error
  <2>8. CASE frames[k].form = "ok" /\ ~(h - l < Size(frames[k]))
    BY <2>4, <2>8, <1>0 DEF PopFrame, Frame
  <2> QED BY <2>5, <2>6, <2>7, <2>8, <1>0 DEF Forms
<1> QED BY <1>0, <1>1, <1>2

-----------------------------------------------------------------------------
(* The inductive invariant: GenuineUntilRefused needs the other parts.  A pop  *)
(* that waits is what bounds the buffer by less than one frame before a read,  *)
(* so that a legal stream cannot overflow it.                                  *)

Closed == reader = "closed" => lo = hi /\ hi = limit

IInv ==
    /\ TypeOK /\ limit <= Total
    /\ GenuineUntilRefused
    /\ LegalNeverRefused
    /\ Closed

\* A protocol error, or a frame, handed to the reader (React) keeps the type.
LEMMA ReactType ==
    ASSUME IInv, NEW h \in Nat, hi <= h, h <= limit, NEW r,
           r.kind \in {"error", "frame"}, r.lo \in Nat, lo <= r.lo, r.lo <= h,
           h - r.lo <= MaxReassembly, r.id \in 0..Len(frames),
           reader = "run", React(r, h), UNCHANGED <<frames, limit, resync>>
    PROVE  TypeOK' /\ (limit <= Total)' /\ Closed'
<1> USE SizeAssumption
<1>1. CASE r.kind = "frame"
  <2>1. delivered' = Append(delivered, r.id) /\ lo' = r.lo /\ hi' = h
        /\ reader' = reader /\ refused' = refused
    BY <1>1 DEF React
  <2>2. delivered' \in Seq(0..Len(frames)) BY <2>1 DEF IInv, TypeOK
  <2>3. IsStream(frames)' BY DEF IInv, TypeOK, IsStream
  <2>4. (limit <= Total)' BY DEF IInv, Total, End
  <2> QED BY <2>1, <2>2, <2>3, <2>4 DEF IInv, TypeOK, Closed
<1>2. CASE r.kind = "error"
  <2>1. delivered' = delivered /\ hi' = h /\ refused' = TRUE
        /\ lo' = (IF resync THEN h ELSE r.lo) /\ reader' \in {"run", "failed"}
    BY <1>2 DEF React
  <2>2. lo' \in Nat /\ lo' <= h /\ h - lo' <= MaxReassembly
    BY <2>1 DEF MaxReassembly
  <2>3. IsStream(frames)' BY DEF IInv, TypeOK, IsStream
  <2>4. (limit <= Total)' BY DEF IInv, Total, End
  <2> QED BY <2>1, <2>2, <2>3, <2>4 DEF IInv, TypeOK, Closed
<1> QED BY <1>1, <1>2

\* Before the first refusal the buffer starts at the frame after the delivered
\* ones, or at the end of the stream.
LEMMA InStep ==
    ASSUME IInv, ~refused
    PROVE  /\ Len(delivered) \in Nat /\ Len(frames) \in Nat
           /\ \/ /\ Len(delivered) + 1 \in 1..Len(frames)
                 /\ lo = frames[Len(delivered) + 1].start
              \/ Len(delivered) = Len(frames) /\ lo = Total
<1>1. Len(delivered) \in Nat /\ Len(frames) \in Nat /\ delivered \in Seq(0..Len(frames))
  BY DEF IInv, TypeOK, IsStream
<1>2. Len(delivered) <= Len(frames) /\ lo = NextStart BY DEF IInv, GenuineUntilRefused
<1>3. delivered = <<>> <=> Len(delivered) = 0 BY <1>1
<1>4. frames = <<>> <=> Len(frames) = 0 BY DEF IInv, TypeOK, IsStream
<1>5. CASE Len(delivered) = Len(frames)
  BY <1>1, <1>2, <1>3, <1>4, <1>5 DEF NextStart, Total
<1>6. CASE Len(delivered) < Len(frames)
  <2> DEFINE k == Len(delivered) + 1
  <2>1. k \in 1..Len(frames) BY <1>1, <1>6
  <2>2. frames[k].start = IF k = 1 THEN 0 ELSE frames[k - 1].start + Size(frames[k - 1])
    BY <2>1 DEF IInv, TypeOK, IsStream
  <2>3. k - 1 = Len(delivered) /\ (k = 1 <=> delivered = <<>>) BY <1>1, <1>3
  <2>4. frames[k].start = NextStart BY <2>2, <2>3 DEF NextStart, End
  <2> QED BY <2>1, <2>4, <1>1, <1>2
<1> QED BY <1>1, <1>2, <1>5, <1>6

\* A pop that ends with a frame or an error, and the reader's reaction.
LEMMA PopStep ==
    ASSUME IInv, reader = "run", NEW h \in Nat, hi <= h, h <= limit,
           h - lo <= MaxReassembly, NEW r \in TryPop(lo, h), r.kind # "none",
           React(r, h), UNCHANGED <<frames, limit, resync>>
    PROVE  IInv'
<1>0. IsStream(frames) /\ lo \in Nat /\ hi \in Nat /\ limit \in Nat /\ lo <= h
      /\ MaxReassembly \in Nat
  BY SizeAssumption DEF IInv, TypeOK, MaxReassembly
<1>1. /\ r.kind \in {"error", "frame"} /\ r.lo \in Nat /\ lo <= r.lo /\ r.lo <= h
      /\ r.id \in 0..Len(frames)
  BY <1>0, PopStaysInside
<1>2. h - r.lo <= MaxReassembly BY <1>0, <1>1
<1>3. TypeOK' /\ (limit <= Total)' /\ Closed' BY <1>1, <1>2, ReactType
<1>4. CASE refused
  <2>1. refused' BY <1>4 DEF React
  <2>2. ~Legal BY <1>4 DEF IInv, LegalNeverRefused
  <2>3. ~Legal' BY <2>2 DEF Legal, Fits
  <2> QED BY <1>3, <2>1, <2>3 DEF IInv, GenuineUntilRefused, LegalNeverRefused
<1>5. CASE ~refused
  <2> DEFINE k == Len(delivered) + 1
  <2>1. Len(delivered) \in Nat /\ k \in 1..Len(frames) /\ lo = frames[k].start
    <3>1. CASE Len(delivered) = Len(frames) /\ lo = Total
      <4>1. h - lo < HeaderSize BY <3>1, <1>0, SizeAssumption DEF IInv
      <4>2. r = None(lo) BY <4>1 DEF TryPop
      <4> QED BY <4>2 DEF None
    <3> QED BY <3>1, <1>5, InStep
  <2>2. /\ r.kind = "frame" => r.id = k /\ r.lo = End(k) /\ frames[k].form = "ok"
        /\ r.kind = "error" => frames[k].form # "ok"
    BY <2>1, <1>0, PopAtFrame
  <2>3. CASE r.kind = "error"
    <3>1. refused' BY <2>3 DEF React
    <3>2. ~Legal' BY <2>1, <2>2, <2>3 DEF Legal
    <3> QED BY <1>3, <3>1, <3>2 DEF IInv, GenuineUntilRefused, LegalNeverRefused
  <2>4. CASE r.kind = "frame"
    <3>1. delivered' = Append(delivered, k) /\ lo' = End(k) /\ ~refused'
      BY <2>2, <2>4, <1>5 DEF React
    <3>2. delivered \in Seq(0..Len(frames)) /\ k \in 0..Len(frames)
      BY <2>1 DEF IInv, TypeOK
    <3>3. Len(delivered') = k /\ delivered' # <<>>
          /\ \A i \in 1..k : delivered'[i] = IF i = k THEN k ELSE delivered[i]
      BY <3>1, <3>2
    <3>4. \A i \in 1..k : delivered'[i] = i /\ frames[i].form = "ok"
      <4>1. \A i \in 1..Len(delivered) : delivered[i] = i /\ frames[i].form = "ok"
        BY <1>5 DEF IInv, GenuineUntilRefused
      <4> QED BY <4>1, <3>3, <2>1, <2>2, <2>4
    <3>5. NextStart' = End(k) BY <3>3 DEF NextStart, End
    <3>6. GenuineUntilRefused'
      BY <3>1, <3>3, <3>4, <3>5, <2>1 DEF GenuineUntilRefused
    <3>7. LegalNeverRefused' BY <3>1 DEF LegalNeverRefused
    <3> QED BY <1>3, <3>6, <3>7 DEF IInv
  <2> QED BY <2>3, <2>4, <1>1
<1> QED BY <1>4, <1>5

\* A read after a pop that waits.
LEMMA ReadStep ==
    ASSUME IInv, reader = "run", NEW r \in TryPop(lo, hi), r.kind = "none",
           Read, UNCHANGED <<frames, limit, resync>>
    PROVE  IInv'
<1>0. IsStream(frames) /\ lo \in Nat /\ hi \in Nat /\ limit \in Nat /\ lo <= hi
      /\ hi <= limit /\ MaxReassembly \in Nat /\ ReadMax \in Nat
  BY SizeAssumption DEF IInv, TypeOK, MaxReassembly
<1>1. IsStream(frames)' /\ (limit <= Total)'
  BY DEF IInv, TypeOK, IsStream, Total, End
<1>2. ASSUME lo' = lo, delivered' = delivered, refused' = refused
      PROVE  GenuineUntilRefused' /\ LegalNeverRefused'
  BY <1>2 DEF IInv, GenuineUntilRefused, NextStart, End, LegalNeverRefused, Legal, Fits
<1>3. CASE hi = limit /\ AtEof
  <2>1. GenuineUntilRefused' /\ LegalNeverRefused' BY <1>2, <1>3 DEF AtEof
  <2>2. TypeOK' /\ Closed' BY <1>0, <1>1, <1>3 DEF IInv, TypeOK, AtEof, Closed
  <2> QED BY <1>1, <2>1, <2>2 DEF IInv
<1>4. ASSUME NEW n \in 1..ReadMax, hi + n <= limit, Extend(n)
      PROVE  IInv'
  <2> DEFINE h == hi + n
  <2>1. h \in Nat /\ hi <= h /\ h <= limit BY <1>0, <1>4
  <2>2. CASE Overflows(n)
    <3> DEFINE e == Error(h)
    <3>1. React(e, h) BY <1>4, <2>2 DEF Extend
    <3>2. e.kind = "error" /\ e.lo = h /\ e.id = 0 BY DEF Error
    <3>3. e.lo \in Nat /\ lo <= e.lo /\ e.lo <= h /\ h - e.lo <= MaxReassembly
          /\ e.id \in 0..Len(frames)
      BY <3>2, <2>1, <1>0 DEF IsStream
    <3> HIDE DEF e, h
    <3>4. TypeOK' /\ (limit <= Total)' /\ Closed' BY <3>1, <3>2, <3>3, <2>1, ReactType
    <3>5. refused' BY <3>1, <3>2 DEF React
    <3>6. ~Legal
      <4>1. CASE refused BY <4>1 DEF IInv, LegalNeverRefused
      <4>2. CASE ~refused
        <5> DEFINE k == Len(delivered) + 1
        <5>1. k \in 1..Len(frames) /\ lo = frames[k].start
          <6>1. CASE Len(delivered) = Len(frames) /\ lo = Total
            BY <6>1, <2>1, <1>0, <1>4 DEF IInv, h
          <6> QED BY <6>1, <4>2, InStep
        <5>2. hi - lo < Size(frames[k]) BY <5>1, <1>0, PopAtFrame
        <5>3. Size(frames[k]) \in Nat BY <5>1, <1>0, FrameFacts
        <5>4. ~Fits(frames[k])
          BY <5>2, <5>3, <2>2, <1>0, <1>4 DEF Fits, Overflows
        <5> QED BY <5>1, <5>4 DEF Legal
      <4> QED BY <4>1, <4>2
    <3>7. ~Legal' BY <3>6 DEF Legal, Fits
    <3> QED BY <3>4, <3>5, <3>7 DEF IInv, GenuineUntilRefused, LegalNeverRefused
  <2>3. CASE ~Overflows(n)
    <3>1. h - lo <= MaxReassembly BY <2>3, <1>0 DEF Overflows
    <3>2. PICK q \in TryPop(lo, h) :
            IF q.kind = "none"
            THEN hi' = h /\ UNCHANGED <<lo, reader, delivered, refused>>
            ELSE React(q, h)
      BY <1>4, <2>3 DEF Extend
    <3>3. CASE q.kind # "none"
      <4> HIDE DEF h
      <4> QED BY <3>1, <3>2, <3>3, <2>1, PopStep
    <3>4. CASE q.kind = "none"
      <4>1. hi' = h /\ UNCHANGED <<lo, reader, delivered, refused>> BY <3>2, <3>4
      <4>2. GenuineUntilRefused' /\ LegalNeverRefused' BY <4>1, <1>2
      <4>3. TypeOK' /\ Closed'
        BY <4>1, <3>1, <2>1, <1>0, <1>1 DEF IInv, TypeOK, Closed, MaxReassembly
      <4> QED BY <4>2, <4>3, <1>1 DEF IInv
    <3> QED BY <3>3, <3>4
  <2> QED BY <2>2, <2>3
<1> QED BY <1>3, <1>4 DEF Read

\* The invariant holds of every stream before the first read.
LEMMA Initially == Init => IInv
<1> SUFFICES ASSUME Init PROVE IInv OBVIOUS
<1>0. IsStream(frames) BY StreamAssumption DEF Init
<1>1. IsStream(frames) /\ Len(frames) \in Nat
  <2>1. frames \in Seq([start : Nat, body : 0..MaxBody, form : Forms])
    BY <1>0 DEF IsStream
  <2> QED  BY <1>0, <2>1
<1>2. Total \in Nat
  <2>1. CASE frames = <<>> BY <2>1 DEF Total
  <2>2. CASE frames # <<>>
    <3>1. Len(frames) \in 1..Len(frames) BY <1>1, <2>2 DEF IsStream
    <3> QED BY <3>1, <1>1, <2>2, FrameFacts DEF Total
  <2> QED BY <2>1, <2>2
<1>3. TypeOK /\ limit <= Total
  <2>1. limit \in Nat /\ limit <= Total /\ 0 <= limit BY <1>2 DEF Init
  <2>2. lo = 0 /\ hi = 0 /\ 0 <= MaxReassembly BY SizeAssumption DEF Init, MaxReassembly
  <2>3. delivered \in Seq(0..Len(frames)) BY DEF Init
  <2>4. resync \in BOOLEAN /\ refused \in BOOLEAN /\ reader \in {"run", "closed", "failed"}
    BY DEF Init
  <2> QED BY <1>1, <2>1, <2>2, <2>3, <2>4 DEF TypeOK
<1> QED BY <1>1, <1>3 DEF Init, IInv, GenuineUntilRefused, NextStart, LegalNeverRefused, Closed

\* Every turn of the reader loop keeps the invariant.
LEMMA Preserved == IInv /\ [Next]_vars => IInv'
<1> SUFFICES ASSUME IInv, [Next]_vars PROVE IInv' OBVIOUS
<1>1. CASE RecvFrame
  <2>1. reader = "run" /\ UNCHANGED <<frames, limit, resync>> BY <1>1 DEF RecvFrame
  <2>2. PICK r \in TryPop(lo, hi) : IF r.kind = "none" THEN Read ELSE React(r, hi)
    BY <1>1 DEF RecvFrame
  <2>3. CASE r.kind = "none" BY <2>1, <2>2, <2>3, ReadStep
  <2>4. CASE r.kind # "none"
    <3>1. hi \in Nat /\ hi <= hi /\ hi <= limit /\ hi - lo <= MaxReassembly
      BY DEF IInv, TypeOK
    <3> QED BY <2>1, <2>2, <2>4, <3>1, PopStep
  <2> QED BY <2>3, <2>4
<1>2. CASE UNCHANGED vars
  <2>1. TypeOK' /\ (limit <= Total)' /\ Closed'
    BY <1>2 DEF IInv, TypeOK, IsStream, Total, End, Closed, vars
  <2>2. GenuineUntilRefused' /\ LegalNeverRefused'
    BY <1>2 DEF IInv, GenuineUntilRefused, NextStart, End, LegalNeverRefused, Legal, Fits, vars
  <2> QED BY <2>1, <2>2 DEF IInv
<1> QED BY <1>1, <1>2 DEF Next, Finished

\* The inductive invariant holds in every reachable state.
LEMMA Invariance == Spec => []IInv
BY Initially, Preserved, PTL DEF Spec

-----------------------------------------------------------------------------
\* The buffer stays within MAX_REASSEMBLY and inside what the socket delivered.
THEOREM TypeCorrect == Spec => []TypeOK
<1>1. IInv => TypeOK BY DEF IInv
<1> QED BY <1>1, Invariance, PTL

\* Whatever the stream, the sizes and the cuts between reads, until the first
\* protocol error Channel returns the sender's frames once each and in order.
THEOREM FramesAreGenuine == Spec => []GenuineUntilRefused
<1>1. IInv => GenuineUntilRefused BY DEF IInv
<1> QED BY <1>1, Invariance, PTL

\* Well-formed frames at least one read below MAX_REASSEMBLY never make Channel
\* report an error.
THEOREM LegalStreamsPass == Spec => []LegalNeverRefused
<1>1. IInv => LegalNeverRefused BY DEF IInv
<1> QED BY <1>1, Invariance, PTL

\* Ok(None) is returned only when all that was sent has been delivered.
THEOREM CloseIsComplete == Spec => []CleanCloseIsComplete
<1>1. IInv => CleanCloseIsComplete BY DEF IInv, Closed, GenuineUntilRefused, CleanCloseIsComplete
<1> QED BY <1>1, Invariance, PTL
=============================================================================
