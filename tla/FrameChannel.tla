---------------------------- MODULE FrameChannel ----------------------------
(* The reassembly of frames out of a TCP byte stream: transport::Channel, with *)
(* the receiver's reader loop that drives it.                                  *)
(*                                                                             *)
(* The bytes themselves are abstracted: the stream is a sequence of frames,    *)
(* each with the offset it starts at, and the reassembly buffer, always a      *)
(* contiguous piece of the stream, is the interval of offsets lo .. hi-1.  A   *)
(* header read at a frame's start says what the sender wrote; one read         *)
(* anywhere else is payload taken for a header, and may say anything.          *)
EXTENDS Integers, Sequences

CONSTANTS
    HeaderSize,     \* HEADER_SIZE
    MaxBody,        \* VIDEO_MAX_SIZE, the largest data_length of any type
    Slack,          \* what MAX_REASSEMBLY adds to the largest frame
    ReadMax,        \* NETWORK_RECEIVE_MAX_TRANSFER, the most one read returns
    Streams         \* the streams senders may write

\* A frame is well formed, or its header is refused (version, negative or
\* excessive data_length, type), or its body is (metadata longer than the body,
\* extended header missing).
Forms == {"ok", "header", "body"}

Size(f) == HeaderSize + f.body

\* The frames follow one another without a gap.  (The last conjunct follows from
\* the one before it by induction; stating it spares the proofs that induction.)
IsStream(s) ==
    /\ s \in Seq([start : Nat, body : 0..MaxBody, form : Forms])
    /\ \A i \in 1..Len(s) :
          s[i].start = IF i = 1 THEN 0 ELSE s[i - 1].start + Size(s[i - 1])
    /\ \A i, j \in 1..Len(s) : i < j => s[i].start + Size(s[i]) <= s[j].start

ASSUME SizeAssumption ==
    /\ HeaderSize \in Nat \ {0} /\ ReadMax \in Nat \ {0}
    /\ MaxBody \in Nat /\ Slack \in Nat

ASSUME StreamAssumption == \A s \in Streams : IsStream(s)

VARIABLES
    frames,         \* the stream: where each frame starts, its body, its form
    limit,          \* the number of bytes sent before the connection ends
    resync,         \* the reader is the video reader, which goes on after an error
    lo, hi,         \* the buffer holds bytes lo .. hi-1; hi bytes have been read
    reader,         \* "run", "closed" (Ok(None)) or "failed" (an error ended it)
    delivered,      \* frames handed to the reader, 0 for one made of payload
    refused         \* a protocol error has been reported

vars == <<frames, limit, resync, lo, hi, reader, delivered, refused>>

\* MAX_REASSEMBLY
MaxReassembly == MaxBody + HeaderSize + Slack

End(i) == frames[i].start + Size(frames[i])
Total == IF frames = <<>> THEN 0 ELSE End(Len(frames))

-----------------------------------------------------------------------------
(* try_pop_frame on the bytes l .. h-1: what it returns and where it leaves    *)
(* the start of the buffer.                                                    *)

None(l) == [kind |-> "none", lo |-> l, id |-> 0]
Error(l) == [kind |-> "error", lo |-> l, id |-> 0]
Frame(i, l) == [kind |-> "frame", lo |-> l, id |-> i]

\* Mutant of PopFrame: only the header is taken out of the buffer.
MutLeaveBody(i, l, h) ==
    LET total == Size(frames[i]) IN
    IF frames[i].form = "header" THEN Error(h)
    ELSE IF h - l < total THEN None(l)
    ELSE IF frames[i].form = "body" THEN Error(l + total)
    ELSE Frame(i, l + HeaderSize)

\* The header is frame i's own.  A refused header empties the buffer; a refused
\* body (AssembledFrame::from_bytes) has already left it.
PopFrame(i, l, h) ==
    LET total == Size(frames[i]) IN
    IF frames[i].form = "header" THEN Error(h)
    ELSE IF h - l < total THEN None(l)
    ELSE IF frames[i].form = "body" THEN Error(l + total)
    ELSE Frame(i, l + total)

\* Payload taken for a header: refused, or incomplete, or a frame of any length.
PopPayload(l, h) ==
    {Error(h), None(l)} \cup {Frame(0, e) : e \in (l + HeaderSize)..h}
                        \cup {Error(e) : e \in (l + HeaderSize)..h}

TryPop(l, h) ==
    LET here == {i \in 1..Len(frames) : frames[i].start = l} IN
    IF h - l < HeaderSize THEN {None(l)}
    ELSE IF here = {} THEN PopPayload(l, h)
    ELSE {PopFrame(i, l, h) : i \in here}

-----------------------------------------------------------------------------
(* recv_frame_into and the reader's reaction to what it returns.               *)

\* Ok(Some) is dispatched.  A protocol error makes the video reader clear the
\* channel and go on and ends the audio reader.
React(r, h) ==
    /\ hi' = h
    /\ IF r.kind = "frame"
       THEN /\ delivered' = Append(delivered, r.id)
            /\ lo' = r.lo
            /\ UNCHANGED <<reader, refused>>
       ELSE /\ refused' = TRUE
            /\ lo' = IF resync THEN h ELSE r.lo
            /\ reader' = IF resync THEN "run" ELSE "failed"
            /\ UNCHANGED delivered

\* Mutant of AtEof: the bytes left in the buffer are not looked at.
MutAlwaysClosed ==
    /\ reader' = "closed"
    /\ UNCHANGED <<lo, hi, delivered, refused>>

\* read returned 0: Ok(None) with an empty buffer, "connection closed mid-frame"
\* otherwise; both end the reader.
AtEof ==
    /\ reader' = IF lo = hi THEN "closed" ELSE "failed"
    /\ UNCHANGED <<lo, hi, delivered, refused>>

\* Mutant of Overflows: the buffer may grow without a limit.
MutNeverOverflows(n) == FALSE

\* Mutant of Overflows: no more than one largest frame fits.
MutNoSlack(n) == hi - lo + n > MaxBody + HeaderSize

Overflows(n) == hi - lo + n > MaxReassembly

\* read returned n bytes: append them, unless the buffer would overflow (then
\* they are lost with what it held), and try again.
Extend(n) ==
    IF Overflows(n) THEN React(Error(hi + n), hi + n)
    ELSE \E r \in TryPop(lo, hi + n) :
            IF r.kind = "none"
            THEN hi' = hi + n /\ UNCHANGED <<lo, reader, delivered, refused>>
            ELSE React(r, hi + n)

Read ==
    \/ hi = limit /\ AtEof
    \/ \E n \in 1..ReadMax : hi + n <= limit /\ Extend(n)

\* Mutant of RecvFrame: the buffer is looked at only after a read.
MutReadFirst ==
    /\ reader = "run"
    /\ Read
    /\ UNCHANGED <<frames, limit, resync>>

\* One turn of the reader loop.  (A read that times out changes nothing.)
RecvFrame ==
    /\ reader = "run"
    /\ \E r \in TryPop(lo, hi) : IF r.kind = "none" THEN Read ELSE React(r, hi)
    /\ UNCHANGED <<frames, limit, resync>>

Finished == reader # "run" /\ UNCHANGED vars

Next == RecvFrame \/ Finished

\* Any stream, up to any of its bytes.
Init ==
    /\ frames \in Streams
    /\ limit \in 0..Total
    /\ resync \in BOOLEAN
    /\ lo = 0 /\ hi = 0
    /\ reader = "run"
    /\ delivered = <<>>
    /\ refused = FALSE

Spec == Init /\ [][Next]_vars

\* The loop keeps turning; the bytes sent before the end do arrive.
FairSpec == Spec /\ WF_vars(RecvFrame)

-----------------------------------------------------------------------------
\* The buffer never holds more than MAX_REASSEMBLY bytes.
TypeOK ==
    /\ IsStream(frames) /\ resync \in BOOLEAN /\ refused \in BOOLEAN
    /\ reader \in {"run", "closed", "failed"}
    /\ lo \in Nat /\ hi \in Nat /\ limit \in Nat
    /\ lo <= hi /\ hi <= limit /\ hi - lo <= MaxReassembly
    /\ delivered \in Seq(0..Len(frames))

\* Where the frame after the delivered ones starts.
NextStart == IF delivered = <<>> THEN 0 ELSE End(Len(delivered))

\* However the stream is cut into reads, until the first protocol error what the
\* reader gets is exactly the sender's frames, each once and in their order, and
\* the buffer starts at a frame's start.
GenuineUntilRefused ==
    ~refused => /\ Len(delivered) <= Len(frames)
                /\ \A i \in 1..Len(delivered) : delivered[i] = i /\ frames[i].form = "ok"
                /\ lo = NextStart

\* A frame that fits whatever arrives behind it: one read on top of all but its
\* last byte stays within MAX_REASSEMBLY.
Fits(f) == Size(f) - 1 + ReadMax <= MaxReassembly

Legal == \A i \in 1..Len(frames) : frames[i].form = "ok" /\ Fits(frames[i])

\* A stream of well-formed frames that fit meets no protocol error.  The bound is
\* sharp: with MAX_REASSEMBLY 64 KiB above the largest frame and reads of 128 KiB,
\* a video frame within 64 KiB of VIDEO_MAX_SIZE overflows the buffer when more
\* data follows it.
LegalNeverRefused == Legal => ~refused

\* A connection that breaks inside a frame is never taken for one that was closed
\* after its last frame.
CleanCloseIsComplete ==
    (reader = "closed" /\ ~refused) => limit = NextStart

\* A legal stream sent to its end is delivered to its last frame.
AllDelivered ==
    (Legal /\ limit = Total) ~> (Len(delivered) = Len(frames) /\ reader = "closed")
=============================================================================
