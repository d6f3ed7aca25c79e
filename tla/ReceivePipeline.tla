--------------------------- MODULE ReceivePipeline ---------------------------
(***************************************************************************)
(* The video path of a receiver session (receive.rs): the video socket's   *)
(* reader thread, the bounded wire queue, the decode thread, the decoded   *)
(* slot the application takes from, and the encoded capture beside it.     *)
(*                                                                         *)
(* A frame is its arrival number.  What two threads can interleave is kept *)
(* apart: the queue operation and the update of the wire_depth gauge, the  *)
(* capture flag and the capture slot.  Operations under one mutex are one  *)
(* step.                                                                   *)
(***************************************************************************)
EXTENDS Naturals, Sequences

CONSTANTS WireCap,     \* VIDEO_WIRE_Q
          DecodedCap,  \* VIDEO_DECODED_Q
          MaxFrames    \* bound: video frames (and garbled reads) that arrive

ASSUME PipelineAssumption ==
    /\ WireCap \in Nat \ {0} /\ DecodedCap \in Nat \ {0}
    /\ MaxFrames \in Nat

VARIABLES stop,          \* Shared.stop
          user,          \* the application's thread
          arrived,       \* frames read from the socket so far
          reader,        \* the reader thread
          wireq,         \* the channel between reader and decoder
          wireDepth,     \* Shared.wire_depth
          decoder,       \* the decode thread
          cur,           \* the frame the decoder holds, 0 if none
          capture,       \* EncodedCapture.capture
          capSeq,        \* EncodedCapture.sequence
          capDropped,    \* EncodedCapture.dropped
          capSlot,       \* EncodedCapture.slot: 0 or a sequence number
          capTaken,      \* history: captured frames the application took
          capDiscarded,  \* history: captured frames set_encoded_capture(false) threw away
          slot,          \* DecodedVideoQueue.slot
          taken,         \* history: decoded frames the application took, in order
          newest,        \* history: the last frame decoded
          droppedWire,   \* SessionStatistics.frames_dropped_wire
          droppedDecode, \* SessionStatistics.frames_dropped_decode
          lost           \* history: frames refused because the decoder has gone

readerVars  == <<arrived, reader>>
captureVars == <<capture, capSeq, capDropped, capSlot, capTaken, capDiscarded>>
outVars     == <<slot, taken, newest>>
dropVars    == <<droppedWire, droppedDecode, lost>>
vars == <<stop, user, arrived, reader, wireq, wireDepth, decoder, cur, capture, capSeq,
          capDropped, capSlot, capTaken, capDiscarded, slot, taken, newest, droppedWire,
          droppedDecode, lost>>

ReaderStates  == {"check", "read", "sent", "done"}
DecoderStates == {"check", "recv", "got", "load", "fill", "decode", "done"}
UserStates    == {"idle", "discard", "gone"}

Init ==
    /\ stop = FALSE /\ user = "idle"
    /\ arrived = 0 /\ reader = "check"
    /\ wireq = <<>> /\ wireDepth = 0
    /\ decoder = "check" /\ cur = 0
    /\ capture = FALSE /\ capSeq = 0 /\ capDropped = 0 /\ capSlot = 0
    /\ capTaken = 0 /\ capDiscarded = 0
    /\ slot = <<>> /\ taken = <<>> /\ newest = 0
    /\ droppedWire = 0 /\ droppedDecode = 0 /\ lost = 0

-----------------------------------------------------------------------------
(* The reader thread. *)

\* Mutant of ReaderCheck: the loop does not look at stop.
MutReaderIgnoresStop ==
    /\ reader = "check"
    /\ reader' = "read"
    /\ UNCHANGED <<stop, user, arrived, wireq, wireDepth, decoder, cur, captureVars,
                   outVars, dropVars>>

\* The head of video_reader_loop.
ReaderCheck ==
    /\ reader = "check"
    /\ reader' = IF stop THEN "done" ELSE "read"
    /\ UNCHANGED <<stop, user, arrived, wireq, wireDepth, decoder, cur, captureVars,
                   outVars, dropVars>>

\* The read times out after 20 ms, or yields a frame that is not video.
ReadNothing ==
    /\ reader = "read"
    /\ reader' = "check"
    /\ UNCHANGED <<stop, user, arrived, wireq, wireDepth, decoder, cur, captureVars,
                   outVars, dropVars>>

\* The stream ends and socket_supervisor gives up (auto_reconnect is off): the
\* sending end of the channel is dropped.  A reconnect resumes at the loop's head.
ReaderCloses ==
    /\ reader = "read"
    /\ reader' = "done"
    /\ UNCHANGED <<stop, user, arrived, wireq, wireDepth, decoder, cur, captureVars,
                   outVars, dropVars>>

\* The frame is refused: a protocol error on the stream, no video header, a
\* codec other than VMX1, alpha or high bit depth, or more than VIDEO_MAX_SIZE.
RefuseFrame ==
    /\ reader = "read"
    /\ arrived < MaxFrames
    /\ arrived' = arrived + 1
    /\ droppedWire' = droppedWire + 1
    /\ reader' = "check"
    /\ UNCHANGED <<stop, user, wireq, wireDepth, decoder, cur, captureVars, outVars,
                   droppedDecode, lost>>

\* try_send on a channel whose receiver is gone: the frame is not counted.
SendDisconnected ==
    /\ decoder = "done"
    /\ lost' = lost + 1
    /\ reader' = "check"
    /\ UNCHANGED <<wireq, droppedWire>>

\* Mutant of SendOk: the new frame is put at the wrong end.
MutEnqueueAtFront ==
    /\ decoder # "done" /\ Len(wireq) < WireCap
    /\ wireq' = <<arrived + 1>> \o wireq
    /\ reader' = "sent"
    /\ UNCHANGED <<droppedWire, lost>>

SendOk ==
    /\ decoder # "done" /\ Len(wireq) < WireCap
    /\ wireq' = Append(wireq, arrived + 1)
    /\ reader' = "sent"
    /\ UNCHANGED <<droppedWire, lost>>

\* Mutant of SendFull: a frame that finds the queue full is not counted.
MutFullUncounted ==
    /\ decoder # "done" /\ Len(wireq) >= WireCap
    /\ reader' = "check"
    /\ UNCHANGED <<wireq, droppedWire, lost>>

SendFull ==
    /\ decoder # "done" /\ Len(wireq) >= WireCap
    /\ droppedWire' = droppedWire + 1
    /\ reader' = "check"
    /\ UNCHANGED <<wireq, lost>>

\* The video branch of dispatch_av_frame, up to the result of try_send.
DispatchFrame ==
    /\ reader = "read"
    /\ arrived < MaxFrames
    /\ arrived' = arrived + 1
    /\ SendOk \/ SendFull \/ SendDisconnected
    /\ UNCHANGED <<stop, user, wireDepth, decoder, cur, captureVars, outVars, droppedDecode>>

\* After a successful try_send: wire_depth.fetch_add(1).
CountQueued ==
    /\ reader = "sent"
    /\ wireDepth' = wireDepth + 1
    /\ reader' = "check"
    /\ UNCHANGED <<stop, user, arrived, wireq, decoder, cur, captureVars, outVars, dropVars>>

-----------------------------------------------------------------------------
(* The decode thread. *)

\* The head of video_decode_loop; leaving it drops the receiving end.
DecoderCheck ==
    /\ decoder = "check"
    /\ decoder' = IF stop THEN "done" ELSE "recv"
    /\ UNCHANGED <<stop, user, readerVars, wireq, wireDepth, cur, captureVars, outVars,
                   dropVars>>

\* recv_timeout(20 ms) on an empty queue.
DecoderTimeout ==
    /\ decoder = "recv"
    /\ wireq = <<>> /\ reader # "done"
    /\ decoder' = "check"
    /\ UNCHANGED <<stop, user, readerVars, wireq, wireDepth, cur, captureVars, outVars,
                   dropVars>>

\* recv_timeout on an empty queue whose sending end is gone.
DecoderDisconnected ==
    /\ decoder = "recv"
    /\ wireq = <<>> /\ reader = "done"
    /\ decoder' = "done"
    /\ UNCHANGED <<stop, user, readerVars, wireq, wireDepth, cur, captureVars, outVars,
                   dropVars>>

DecoderRecv ==
    /\ decoder = "recv"
    /\ wireq # <<>>
    /\ cur' = Head(wireq)
    /\ wireq' = Tail(wireq)
    /\ decoder' = "got"
    /\ UNCHANGED <<stop, user, readerVars, wireDepth, captureVars, outVars, dropVars>>

\* Mutant of CountDequeued: the update resets the gauge instead of lowering it.
MutResetDepth ==
    /\ decoder = "got"
    /\ wireDepth' = 0
    /\ decoder' = "load"
    /\ UNCHANGED <<stop, user, readerVars, wireq, cur, captureVars, outVars, dropVars>>

\* Mutant of CountDequeued: the subtraction does not saturate.
MutDepthUnderflows ==
    /\ decoder = "got"
    /\ wireDepth' = wireDepth - 1
    /\ decoder' = "load"
    /\ UNCHANGED <<stop, user, readerVars, wireq, cur, captureVars, outVars, dropVars>>

\* wire_depth.fetch_update(saturating_sub(1)).
CountDequeued ==
    /\ decoder = "got"
    /\ wireDepth' = IF wireDepth = 0 THEN 0 ELSE wireDepth - 1
    /\ decoder' = "load"
    /\ UNCHANGED <<stop, user, readerVars, wireq, cur, captureVars, outVars, dropVars>>

\* EncodedCapture::publish up to the slot's mutex.
CaptureLoad ==
    /\ decoder = "load"
    /\ capSeq' = IF capture THEN capSeq + 1 ELSE capSeq
    /\ decoder' = IF capture THEN "fill" ELSE "decode"
    /\ UNCHANGED <<stop, user, readerVars, wireq, wireDepth, cur, capture, capDropped,
                   capSlot, capTaken, capDiscarded, outVars, dropVars>>

\* Mutant of CaptureFill: a replaced frame is not counted.
MutReplaceUncounted ==
    /\ decoder = "fill"
    /\ capSlot' = capSeq
    /\ decoder' = "decode"
    /\ UNCHANGED <<stop, user, readerVars, wireq, wireDepth, cur, capture, capSeq,
                   capDropped, capTaken, capDiscarded, outVars, dropVars>>

\* EncodedCapture::publish under the slot's mutex.
CaptureFill ==
    /\ decoder = "fill"
    /\ capDropped' = IF capSlot # 0 THEN capDropped + 1 ELSE capDropped
    /\ capSlot' = capSeq
    /\ decoder' = "decode"
    /\ UNCHANGED <<stop, user, readerVars, wireq, wireDepth, cur, capture, capSeq,
                   capTaken, capDiscarded, outVars, dropVars>>

\* What is left of the decoded queue once publish has made room.
Kept == IF Len(slot) >= DecodedCap
        THEN SubSeq(slot, Len(slot) - DecodedCap + 2, Len(slot)) ELSE slot

\* decode_vmx_bgra succeeds; DecodedVideoQueue::publish overwrites the oldest.
DecodeOk ==
    /\ decoder = "decode"
    /\ slot' = Append(Kept, cur)
    /\ droppedDecode' = droppedDecode + (Len(slot) - Len(Kept))
    /\ newest' = cur
    /\ cur' = 0
    /\ decoder' = "check"
    /\ UNCHANGED <<stop, user, readerVars, wireq, wireDepth, captureVars, taken,
                   droppedWire, lost>>

\* Decoding fails: the frame is counted and the codec discarded.
DecodeError ==
    /\ decoder = "decode"
    /\ droppedDecode' = droppedDecode + 1
    /\ cur' = 0
    /\ decoder' = "check"
    /\ UNCHANGED <<stop, user, readerVars, wireq, wireDepth, captureVars, outVars,
                   droppedWire, lost>>

-----------------------------------------------------------------------------
(* The application's thread; ReceiverSession is not Sync. *)

\* DecodedVideoQueue::try_take, and wait_take once a frame is there.
TakeVideo ==
    /\ user = "idle"
    /\ slot # <<>>
    /\ taken' = Append(taken, Head(slot))
    /\ slot' = Tail(slot)
    /\ UNCHANGED <<stop, user, readerVars, wireq, wireDepth, decoder, cur, captureVars,
                   newest, dropVars>>

CaptureOn ==
    /\ user = "idle"
    /\ capture' = TRUE
    /\ UNCHANGED <<stop, user, readerVars, wireq, wireDepth, decoder, cur, capSeq,
                   capDropped, capSlot, capTaken, capDiscarded, outVars, dropVars>>

\* set_encoded_capture(false): first the flag, then the waiting frame.
CaptureOff ==
    /\ user = "idle"
    /\ capture' = FALSE
    /\ user' = "discard"
    /\ UNCHANGED <<stop, readerVars, wireq, wireDepth, decoder, cur, capSeq, capDropped,
                   capSlot, capTaken, capDiscarded, outVars, dropVars>>

CaptureDiscard ==
    /\ user = "discard"
    /\ capDiscarded' = IF capSlot # 0 THEN capDiscarded + 1 ELSE capDiscarded
    /\ capSlot' = 0
    /\ user' = "idle"
    /\ UNCHANGED <<stop, readerVars, wireq, wireDepth, decoder, cur, capture, capSeq,
                   capDropped, capTaken, outVars, dropVars>>

\* try_recv_vmx1.
TakeCaptured ==
    /\ user = "idle"
    /\ capSlot # 0
    /\ capTaken' = capTaken + 1
    /\ capSlot' = 0
    /\ UNCHANGED <<stop, user, readerVars, wireq, wireDepth, decoder, cur, capture, capSeq,
                   capDropped, capDiscarded, outVars, dropVars>>

\* disconnect or drop: the session is consumed and the threads told to stop.
Disconnect ==
    /\ user = "idle"
    /\ user' = "gone"
    /\ stop' = TRUE
    /\ UNCHANGED <<readerVars, wireq, wireDepth, decoder, cur, captureVars, outVars, dropVars>>

\* disconnect returns when both threads have ended: nothing is left to do.
Joined ==
    /\ user = "gone" /\ reader = "done" /\ decoder = "done"
    /\ UNCHANGED vars

-----------------------------------------------------------------------------
ReaderStep ==
    \/ ReaderCheck \/ ReadNothing \/ ReaderCloses
    \/ RefuseFrame \/ DispatchFrame \/ CountQueued
DecoderStep ==
    \/ DecoderCheck \/ DecoderTimeout \/ DecoderDisconnected \/ DecoderRecv \/ CountDequeued
    \/ CaptureLoad \/ CaptureFill \/ DecodeOk \/ DecodeError
UserStep == TakeVideo \/ CaptureOn \/ CaptureOff \/ CaptureDiscard \/ TakeCaptured \/ Disconnect

Next == ReaderStep \/ DecoderStep \/ UserStep \/ Joined

Spec == Init /\ [][Next]_vars

(* Both threads keep running: reads and receives time out after 20 ms and a  *)
(* decode always ends.  Nothing is assumed of the application.               *)
Fairness == WF_vars(ReaderStep) /\ WF_vars(DecoderStep)
FairSpec == Spec /\ Fairness

-----------------------------------------------------------------------------
\* Types; the counters and the wire_depth gauge never go below zero.
TypeOK ==
    /\ stop \in BOOLEAN /\ capture \in BOOLEAN
    /\ user \in UserStates /\ reader \in ReaderStates /\ decoder \in DecoderStates
    /\ arrived \in 0..MaxFrames
    /\ wireq \in Seq(Nat) /\ slot \in Seq(Nat) /\ taken \in Seq(Nat)
    /\ wireDepth \in Nat /\ cur \in Nat /\ newest \in Nat
    /\ capSeq \in Nat /\ capDropped \in Nat /\ capSlot \in Nat
    /\ capTaken \in Nat /\ capDiscarded \in Nat
    /\ droppedWire \in Nat /\ droppedDecode \in Nat /\ lost \in Nat

Held == IF decoder \in {"got", "load", "fill", "decode"} THEN 1 ELSE 0

\* No frame vanishes: every video frame read from the socket was taken by the
\* application, waits in one of the two queues, is being decoded, or is counted
\* in exactly one of frames_dropped_wire and frames_dropped_decode.  Only after
\* the decoder has ended may frames be refused without being counted (lost).
FramesConserved ==
    /\ arrived = droppedWire + lost + Len(wireq) + Held + droppedDecode + Len(slot) + Len(taken)
    /\ decoder # "done" => lost = 0

Increasing(s) == \A i, j \in 1..Len(s) : i < j => s[i] < s[j]
Before(s, t)  == \A i \in 1..Len(s), j \in 1..Len(t) : s[i] < t[j]
InDecoder     == IF Held = 1 THEN <<cur>> ELSE <<>>

\* The application sees frames in the order they arrived, none twice: what it
\* has taken, the decoded queue, the frame in the decoder and the wire queue
\* follow each other in strictly increasing arrival order.
ArrivalOrder ==
    /\ Increasing(taken) /\ Increasing(slot) /\ Increasing(wireq)
    /\ Before(taken, slot) /\ Before(taken, InDecoder) /\ Before(taken, wireq)
    /\ Before(slot, InDecoder) /\ Before(slot, wireq) /\ Before(InDecoder, wireq)

\* Latest wins: a decoded queue that is not empty ends with the newest decoded
\* frame, however slow the application is.
LatestWins == slot # <<>> => slot[Len(slot)] = newest

\* The wire_depth gauge never hides a queued frame: outside the two windows
\* between a queue operation and its count it is at least the queue's length.
GaugeCoversQueue ==
    (reader # "sent" /\ decoder # "got") => wireDepth >= Len(wireq)

\* Every captured frame is accounted for: the sequence number equals the frames
\* taken, the frames counted as replaced, those thrown away by switching the
\* capture off, and the one waiting or about to be stored.  A consumer can read
\* its losses off the gaps.
CaptureAccounted ==
    capSeq = capTaken + capDropped + capDiscarded
             + (IF capSlot # 0 THEN 1 ELSE 0) + (IF decoder = "fill" THEN 1 ELSE 0)

\* disconnect can return: once stop is set both threads end.
StopEndsThreads == stop ~> (reader = "done" /\ decoder = "done")
=============================================================================
