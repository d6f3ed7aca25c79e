------------------------------ MODULE MediaPath ------------------------------
(***************************************************************************)
(* A frame's way from the application's call to the other application: the *)
(* sender's encoders and queues (send.rs, send_video.rs), the bytes of its *)
(* payload and per-frame metadata on the receiver's two sockets, and the   *)
(* reader threads with the audio and metadata channels (receive.rs).       *)
(*                                                                         *)
(* Frames are numbered by the calls that carry them.  Payload and metadata *)
(* are sequences of units: a plane of samples, half of a picture, a piece  *)
(* of XML.  MetaWidth stands for the 2^16 of metadata_length.              *)
(*                                                                         *)
(* A write that times out may leave the first part of a frame on a         *)
(* connection that is kept.  What a receiver makes of the bytes behind the *)
(* cut is not followed: those frames are "torn", and the properties of     *)
(* what is delivered are about streams up to the first cut.  (Sender shows *)
(* the cut itself.)  The writers' queues exist: a sender with              *)
(* send_queue_depth 0, which writes in the call, is in Sender.             *)
(***************************************************************************)
EXTENDS VideoEncoder, Fpa1

CONSTANTS Threads,     \* users of AudioIngress clones
          Qualities, DefaultQuality,  \* effective_quality, at first Quality::Default
          Geometries,  \* sizes and colour spaces of pictures
          MetaWidth,   \* lengths metadata_length can express
          QueueDepth,  \* SenderConfig.send_queue_depth, not 0
          AudioQ, MetadataQ,  \* the receiver's channel capacities
          Workloads    \* what happens: the frames of the calls, how many calls, how often
                       \* the network or the quality changes or a write times out, preview or not

Sockets == {"video", "audio"}
Counters == {"sender", "link", "late", "torn", "wire", "audio", "quiet"}

\* What a call can be given: xml is the length of the per-frame metadata, loud[i] tells
\* whether plane i has a sample that is not +0.0, and coded the active channels of data
\* that is FPA1 already.
VideoCalls == [kind : {"video"}, form : {"vmx1", "raw", "refused", "unfit"},
               geometry : Geometries, alpha : BOOLEAN, xml : Nat]
TextureCalls == [kind : {"texture"}, fits : BOOLEAN, geometry : Geometries, alpha : BOOLEAN,
                 xml : Nat]
AudioCalls == [kind : {"audio"}, channels : Nat, loud : Seq(BOOLEAN),
               coded : SUBSET (1..MaxChannels), xml : Nat]
TextCalls == [kind : {"metadata"}, xml : Nat]
Calls == VideoCalls \cup TextureCalls \cup AudioCalls \cup TextCalls

ASSUME MediaPathAssumption ==
    /\ MetaWidth \in Nat \ {0} /\ QueueDepth \in Nat \ {0}
    /\ AudioQ \in Nat /\ MetadataQ \in Nat /\ None \notin Nat
    /\ Workloads \subseteq [frames : SUBSET Calls, calls : Nat, changes : Nat, preview : BOOLEAN]

VARIABLES workload,    \* one of Workloads, and the changes still to come
          given, by,   \* history: the frame of each call, and the thread that made it
          peer,        \* peer[k]: the receiver is connected and subscribed on socket k
                       \* ("good"), so since a write stopped inside a frame ("torn"), or "gone"
          subscribed,  \* Sender.subscribed, as of the last poll
          quality,     \* Sender.subscribed.quality
          pipeline,    \* Sender.gpu_pipeline
          pending,     \* Sender.pending_gpu
          stage,       \* the texture send_video_texture is about to submit
          ingress,     \* ingress[t]: assembled under the clock's lock, not yet queued; one
                       \* frame or none
          out,         \* out[k]: the outbound queue of the writer for k
          stream,      \* stream[k]: frames on the receiver's socket k
          preview,     \* the receiver's video socket asked for preview
          seen,        \* history: what the reader handed to the video pipeline
          audioQ, metaQ,  \* the audio and metadata channels
          heard, read, \* history: what try_recv_audio and try_recv_metadata returned
          drops,       \* the frames behind the statistics, by counter; "link", "late",
                       \* "torn" and "quiet" are counted nowhere
          failed,      \* history: frames whose call, or whose finish, returned an error
          pipelined    \* history: textures that were pending

callVars    == <<workload, given, by>>
senderVars  == <<subscribed, quality, pipeline, pending, stage, encoderVars, pipelined>>
audioVars   == <<ingress>>
linkVars    == <<peer, out, stream, preview>>
rxVars      == <<seen, audioQ, metaQ, heard, read>>
lossVars    == <<drops, failed>>
vars == <<callVars, senderVars, audioVars, linkVars, rxVars, lossVars>>

Init ==
    /\ workload \in Workloads /\ given = <<>> /\ by = <<>>
    /\ peer = [k \in Sockets |-> "good"] /\ subscribed = [k \in Sockets |-> TRUE]
    /\ quality = DefaultQuality /\ pipeline = FALSE /\ pending = None /\ stage = None
    /\ EncoderInit
    /\ ingress = [t \in Threads |-> <<>>]
    /\ out = [k \in Sockets |-> <<>>] /\ stream = out /\ preview = workload.preview
    /\ seen = <<>> /\ audioQ = <<>> /\ metaQ = <<>> /\ heard = <<>> /\ read = <<>>
    /\ drops = [c \in Counters |-> {}] /\ failed = {} /\ pipelined = {}

-----------------------------------------------------------------------------
(* Frames. *)

Xml(f, a) == [k \in 1..a.xml |-> <<"xml", f, k>>]
Picture(f) == << <<"dc", f>>, <<"ac", f>> >>
Planes(f, a) == [i \in DOMAIN a.loud |-> IF a.loud[i] THEN <<"pcm", f, i>> ELSE Silent]

NoExt == [alpha |-> FALSE, preview |-> FALSE, channels |-> 0, active |-> {}]

\* AssembledFrame: metadata_length is 16 bits wide, data and metadata go out whole.
Assembled(kind, f, ext, data, metadata) ==
    [kind |-> kind, id |-> f, ext |-> ext, data |-> data, metadata |-> metadata,
     metaLen |-> Len(metadata) % MetaWidth]

\* build_frame for video.
BuildFrame(f, a, data) ==
    Assembled("video", f, [NoExt EXCEPT !.alpha = a.alpha], data, Xml(f, a))

\* assemble_audio: data that comes with active channels is passed on as it is.
AudioLegal(a) == a.coded # {} \/ (LegalCount(a.channels) /\ Len(a.loud) >= a.channels)

AssembleAudio(f, a) ==
    LET given1 == SubSeq(Planes(f, a), 1, a.channels)
        coded  == IF a.coded # {} THEN [payload |-> Planes(f, a), active |-> a.coded]
                                  ELSE EncodePlanar(given1)
    IN  Assembled("audio", f, [NoExt EXCEPT !.channels = a.channels, !.active = coded.active],
                  coded.payload, Xml(f, a))

\* write_into, and for a preview peer preview_video_bytes: the first part of the
\* picture, unless vmx cannot tell where it ends.
OnWire(frame) ==
    [kind |-> frame.kind, id |-> frame.id, ext |-> frame.ext, metaLen |-> frame.metaLen,
     body |-> frame.data \o frame.metadata]
PreviewBytes(frame) ==
    OnWire([frame EXCEPT !.ext.preview = TRUE, !.data = SubSeq(@, 1, 1)])
Variants(frame) ==
    IF preview /\ frame.kind = "video" THEN {OnWire(frame), PreviewBytes(frame)} ELSE {OnWire(frame)}

\* AssembledFrame::from_bytes splits the body by the metadata length.
Payload(w) == SubSeq(w.body, 1, Len(w.body) - w.metaLen)
Metadata(w) == SubSeq(w.body, Len(w.body) - w.metaLen + 1, Len(w.body))

-----------------------------------------------------------------------------
(* The video side of the sender: calls on a &mut Sender, one at a time.  A  *)
(* send while nobody is subscribed does nothing and is not a step.          *)

MayCall == Len(given) < workload.calls
Call(a, t) ==
    /\ given' = Append(given, a) /\ by' = Append(by, t)
    /\ UNCHANGED workload

\* try_send on an outbound queue; a frame that finds it full is dropped.  The sender
\* counts it for video, enqueue_wire does not for audio.
Ship(k, frame) ==
    IF Len(out[k]) < QueueDepth
    THEN out' = [out EXCEPT ![k] = Append(@, frame)] /\ UNCHANGED drops
    ELSE /\ drops' = [drops EXCEPT ![IF k = "video" THEN "sender" ELSE "quiet"] = @ \cup {frame.id}]
         /\ UNCHANGED out

ShipOrFail(ok, f, frame) ==
    IF ok THEN Ship("video", frame) /\ UNCHANGED failed
          ELSE failed' = failed \cup {f} /\ UNCHANGED <<out, drops>>

Key(a) == <<a.geometry, quality>>

\* send_video.
SendVideo(a) ==
    LET f == Len(given) + 1
    IN  /\ a.kind = "video" /\ MayCall /\ stage = None /\ subscribed["video"]
        /\ Call(a, None)
        /\ \E ok \in BOOLEAN :
              /\ IF a.form = "vmx1" THEN ok /\ UNCHANGED encoderVars ELSE EncodeRaw(a.form, Key(a), ok)
              /\ ShipOrFail(ok, f, BuildFrame(f, a, Picture(f)))
        /\ UNCHANGED <<subscribed, quality, pipeline, pending, stage, pipelined, audioVars, peer,
                       stream, preview, rxVars>>

\* send_video_texture: the size checks, and the path without the pipeline, which
\* leaves a pending texture where it is.
SendTextureNow(a) ==
    LET f == Len(given) + 1
    IN  /\ a.kind = "texture" /\ MayCall /\ stage = None /\ subscribed["video"]
        /\ a.fits => ~pipeline
        /\ Call(a, None)
        /\ \E ok \in BOOLEAN :
              /\ IF a.fits THEN EncodeFromTexture(Key(a), ok) ELSE ~ok /\ UNCHANGED encoderVars
              /\ ShipOrFail(ok, f, BuildFrame(f, a, Picture(f)))
        /\ UNCHANGED <<subscribed, quality, pipeline, pending, stage, pipelined, audioVars, peer,
                       stream, preview, rxVars>>

\* Mutant of FinishPending: the texture is read and not taken.
MutPeekPending(ok) ==
    IF pending = None THEN ok /\ UNCHANGED <<encoderVars, pending, out, drops>>
    ELSE /\ UNCHANGED pending
         /\ FinishSubmittedTexture(ok)
         /\ IF ok THEN Ship("video", BuildFrame(pending, given[pending], Picture(job)))
                  ELSE UNCHANGED <<out, drops>>

\* finish_pending_gpu takes the pending texture first, so an error loses it.
FinishPending(ok) ==
    IF pending = None THEN ok /\ UNCHANGED <<encoderVars, pending, out, drops>>
    ELSE /\ pending' = None
         /\ FinishSubmittedTexture(ok)
         /\ IF ok THEN Ship("video", BuildFrame(pending, given[pending], Picture(job)))
                  ELSE UNCHANGED <<out, drops>>

\* send_video_texture with the pipeline: if the texture before it cannot be finished
\* the new one is not submitted either.
SendTexture(a) ==
    LET f == Len(given) + 1
    IN  /\ a.kind = "texture" /\ MayCall /\ stage = None /\ subscribed["video"]
        /\ a.fits /\ pipeline
        /\ Call(a, None)
        /\ \E ok \in BOOLEAN :
              /\ FinishPending(ok)
              /\ stage' = IF ok THEN f ELSE None
              /\ failed' = IF ok THEN failed ELSE failed \cup {pending, f}
        /\ UNCHANGED <<subscribed, quality, pipeline, pipelined, audioVars, peer, stream, preview,
                       rxVars>>

\* Mutant of SubmitTexture: the texture is remembered before the result is known.
MutPendingFirst ==
    /\ stage # None /\ stage' = None
    /\ \E ok \in BOOLEAN : SubmitFromTexture(stage, Key(given[stage]), ok)
    /\ pending' = stage /\ pipelined' = pipelined \cup {stage}
    /\ UNCHANGED <<callVars, subscribed, quality, pipeline, audioVars, linkVars, rxVars, drops, failed>>

SubmitTexture ==
    /\ stage # None /\ stage' = None
    /\ \E ok \in BOOLEAN :
          /\ SubmitFromTexture(stage, Key(given[stage]), ok)
          /\ IF ok THEN pending' = stage /\ pipelined' = pipelined \cup {stage} /\ UNCHANGED failed
                   ELSE failed' = failed \cup {stage} /\ UNCHANGED <<pending, pipelined>>
    /\ UNCHANGED <<callVars, subscribed, quality, pipeline, audioVars, linkVars, rxVars, drops>>

\* flush_gpu_encode.
Flush ==
    /\ stage = None /\ pending # None
    /\ \E ok \in BOOLEAN :
          FinishPending(ok) /\ failed' = IF ok THEN failed ELSE failed \cup {pending}
    /\ UNCHANGED <<callVars, subscribed, quality, pipeline, stage, pipelined, audioVars, peer,
                   stream, preview, rxVars>>

SetPipeline(on) ==
    /\ stage = None /\ pipeline' = on
    /\ UNCHANGED <<callVars, subscribed, quality, pending, stage, encoderVars, pipelined, audioVars,
                   linkVars, rxVars, lossVars>>

\* A write has timed out; the workload says how often that may happen.
TimeOut == workload.changes > 0 /\ workload' = [workload EXCEPT !.changes = @ - 1]

\* send_metadata: written at once to every peer, past the queues.  On a socket in late
\* the write times out, on one in cut after a part of the text.
SendMetadata(a) ==
    LET f == Len(given) + 1
        w == OnWire(Assembled("metadata", f, NoExt, Xml(f, a), <<>>))
    IN  /\ a.kind = "metadata" /\ MayCall /\ stage = None
        /\ given' = Append(given, a) /\ by' = Append(by, None)
        /\ \E late \in SUBSET {k \in Sockets : peer[k] # "gone"} : \E cut \in SUBSET late :
              /\ IF late = {} THEN UNCHANGED workload ELSE TimeOut
              /\ stream' = [k \in Sockets |-> IF peer[k] = "good" /\ k \notin late
                                              THEN Append(stream[k], w) ELSE stream[k]]
              /\ peer' = [k \in Sockets |-> IF k \in cut THEN "torn" ELSE peer[k]]
        /\ UNCHANGED <<senderVars, audioVars, out, preview, rxVars, lossVars>>

\* poll_peer_metadata: what is subscribed, and the quality that follows from it.
Poll ==
    /\ stage = None
    /\ subscribed' = [k \in Sockets |-> peer[k] # "gone"]
    /\ \/ UNCHANGED <<quality, workload>>
       \/ /\ workload.changes > 0 /\ quality' \in Qualities \ {quality}
          /\ workload' = [workload EXCEPT !.changes = @ - 1]
    /\ UNCHANGED <<given, by, pipeline, pending, stage, encoderVars, pipelined, audioVars, linkVars,
                   rxVars, lossVars>>

-----------------------------------------------------------------------------
(* Audio, from any thread: assembled under the clock's lock, queued after it. *)

AudioStamp(t, a) ==
    LET f == Len(given) + 1
    IN  /\ a.kind = "audio" /\ MayCall /\ ingress[t] = <<>> /\ subscribed["audio"]
        /\ Call(a, t)
        /\ IF AudioLegal(a)
           THEN ingress' = [ingress EXCEPT ![t] = <<AssembleAudio(f, a)>>] /\ UNCHANGED failed
           ELSE failed' = failed \cup {f} /\ UNCHANGED ingress
        /\ UNCHANGED <<senderVars, linkVars, rxVars, drops>>

AudioQueue(t) ==
    /\ ingress[t] # <<>>
    /\ Ship("audio", Head(ingress[t]))
    /\ ingress' = [ingress EXCEPT ![t] = <<>>]
    /\ UNCHANGED <<callVars, senderVars, peer, stream, preview, rxVars, failed>>

-----------------------------------------------------------------------------
(* The writers and the network. *)

\* Mutant of Write: the newest frame of the queue goes first.
MutWriteNewest(k) ==
    LET n == Len(out[k])
    IN  /\ n > 0
        /\ out' = [out EXCEPT ![k] = SubSeq(@, 1, n - 1)]
        /\ \E w \in Variants(out[k][n]) : stream' = [stream EXCEPT ![k] = Append(@, w)]
        /\ UNCHANGED <<callVars, senderVars, audioVars, peer, preview, rxVars, lossVars>>

\* write_peers on a write that succeeds, or finds the peer gone.
Write(k) ==
    LET frame == Head(out[k])
    IN  /\ out[k] # <<>>
        /\ out' = [out EXCEPT ![k] = Tail(@)]
        /\ IF peer[k] = "good"
           THEN /\ \E w \in Variants(frame) : stream' = [stream EXCEPT ![k] = Append(@, w)]
                /\ UNCHANGED drops
           ELSE /\ drops' = [drops EXCEPT ![IF peer[k] = "gone" THEN "link" ELSE "torn"]
                                             = @ \cup {frame.id}]
                /\ UNCHANGED stream
        /\ UNCHANGED <<callVars, senderVars, audioVars, peer, preview, rxVars, failed>>

\* write_peers on a write that times out: the peer is kept, and nothing or the first
\* part of the frame is on the connection.
WriteTimesOut(k) ==
    LET frame == Head(out[k])
    IN  /\ out[k] # <<>> /\ peer[k] # "gone" /\ TimeOut
        /\ out' = [out EXCEPT ![k] = Tail(@)]
        /\ drops' = [drops EXCEPT !.late = @ \cup {frame.id}]
        /\ peer' \in {peer, [peer EXCEPT ![k] = "torn"]}
        /\ UNCHANGED <<given, by, senderVars, audioVars, stream, preview, rxVars, failed>>

\* A connection breaks with what is on it; the receiver comes back.
Leave(k) ==
    /\ peer[k] # "gone" /\ workload.changes > 0
    /\ workload' = [workload EXCEPT !.changes = @ - 1]
    /\ peer' = [peer EXCEPT ![k] = "gone"]
    /\ stream' = [stream EXCEPT ![k] = <<>>]
    /\ drops' = [drops EXCEPT !.link = @ \cup {stream[k][i].id : i \in DOMAIN stream[k]}]
    /\ UNCHANGED <<given, by, senderVars, audioVars, out, preview, rxVars, failed>>

Return(k) ==
    /\ peer[k] = "gone" /\ peer' = [peer EXCEPT ![k] = "good"]
    /\ UNCHANGED <<callVars, senderVars, audioVars, out, stream, preview, rxVars, lossVars>>

-----------------------------------------------------------------------------
(* The receiver. *)

Count(c, w) == drops' = [drops EXCEPT ![c] = @ \cup {w.id}]

\* decode_metadata_xml: metadata cut in the middle need not be UTF-8.
XmlOf(w) == IF Metadata(w) = Xml(w.id, given[w.id]) THEN {Metadata(w)} ELSE {Metadata(w), <<>>}

\* dispatch_av_frame on a video frame: no alpha, and the wire queue may be full.
DispatchVideo(w) ==
    \/ Count("wire", w) /\ UNCHANGED seen
    \/ /\ ~w.ext.alpha
       /\ \E m \in XmlOf(w) : seen' = Append(seen, [id |-> w.id, preview |-> w.ext.preview,
                                                    payload |-> Payload(w), metadata |-> m])
       /\ UNCHANGED drops

\* On a metadata frame: a full channel loses it, and no counter tells.
DispatchMetadata(w) ==
    IF Len(metaQ) < MetadataQ
    THEN metaQ' = Append(metaQ, [id |-> w.id, xml |-> Payload(w)]) /\ UNCHANGED drops
    ELSE Count("quiet", w) /\ UNCHANGED metaQ

ReadVideoSocket ==
    LET w == Head(stream["video"])
    IN  /\ stream["video"] # <<>>
        /\ stream' = [stream EXCEPT !["video"] = Tail(@)]
        /\ \/ w.kind = "video" /\ DispatchVideo(w) /\ UNCHANGED metaQ
           \/ w.kind = "metadata" /\ DispatchMetadata(w) /\ UNCHANGED seen
        /\ UNCHANGED <<callVars, senderVars, audioVars, peer, out, preview, audioQ, heard, read, failed>>

\* decode_audio_frame drops the per-frame metadata and refuses everything that is not
\* audio; audio_reader_loop counts what it refuses.
Decoded(w) ==
    [id |-> w.id, active |-> w.ext.active,
     pcm |-> DecodePlanar(Payload(w), w.ext.channels, w.ext.active)]

\* Mutant of Acceptable: the channel takes one more.
MutOneMore(w) ==
    /\ w.kind = "audio" /\ Decodable(Payload(w), w.ext.channels, w.ext.active)
    /\ Len(audioQ) <= AudioQ

Acceptable(w) ==
    /\ w.kind = "audio" /\ Decodable(Payload(w), w.ext.channels, w.ext.active)
    /\ Len(audioQ) < AudioQ

ReadAudioSocket ==
    LET w == Head(stream["audio"])
    IN  /\ stream["audio"] # <<>>
        /\ stream' = [stream EXCEPT !["audio"] = Tail(@)]
        /\ IF Acceptable(w) THEN audioQ' = Append(audioQ, Decoded(w)) /\ UNCHANGED drops
                            ELSE Count("audio", w) /\ UNCHANGED audioQ
        /\ UNCHANGED <<callVars, senderVars, audioVars, peer, out, preview, seen, metaQ, heard, read,
                       failed>>

TryRecvAudio ==
    /\ audioQ # <<>> /\ audioQ' = Tail(audioQ) /\ heard' = Append(heard, Head(audioQ))
    /\ UNCHANGED <<callVars, senderVars, audioVars, linkVars, seen, metaQ, read, lossVars>>

TryRecvMetadata ==
    /\ metaQ # <<>> /\ metaQ' = Tail(metaQ) /\ read' = Append(read, Head(metaQ))
    /\ UNCHANGED <<callVars, senderVars, audioVars, linkVars, seen, audioQ, heard, lossVars>>

-----------------------------------------------------------------------------

Sending ==
    \/ \E a \in workload.frames :
          SendVideo(a) \/ SendTextureNow(a) \/ SendTexture(a) \/ SendMetadata(a)
    \/ SubmitTexture \/ Flush \/ Poll
    \/ \E on \in BOOLEAN : SetPipeline(on)
    \/ \E t \in Threads : AudioQueue(t) \/ \E a \in workload.frames : AudioStamp(t, a)

Carrying == \E k \in Sockets : Write(k) \/ WriteTimesOut(k) \/ Leave(k) \/ Return(k)

Receiving == ReadVideoSocket \/ ReadAudioSocket \/ TryRecvAudio \/ TryRecvMetadata

Next == Sending \/ Carrying \/ Receiving

Spec == Init /\ [][Next]_vars

-----------------------------------------------------------------------------
(* Properties. *)

Ids(s) == [i \in DOMAIN s |-> s[i].id]
Frames == DOMAIN given
Media == {f \in Frames : given[f].kind # "metadata"}
VideoTrail == Ids(seen) \o Ids(stream["video"]) \o Ids(out["video"])
AudioTrail == Ids(heard) \o Ids(audioQ) \o Ids(stream["audio"]) \o Ids(out["audio"])

\* Queues and channels keep to their capacities, and what the encoder and the sender
\* remember are frames of past calls.
TypeOK ==
    /\ \A k \in Sockets : Len(out[k]) <= QueueDepth
    /\ Len(audioQ) <= AudioQ /\ Len(metaQ) <= MetadataQ
    /\ {pending, stage, job} \subseteq Frames \cup {None} /\ pipelined \cup failed \subseteq Frames
    /\ \A t \in Threads : ingress[t] # <<>> => Len(ingress[t]) = 1 /\ Head(ingress[t]).id \in Frames
    /\ DOMAIN drops = Counters /\ UNION {drops[c] : c \in Counters} \subseteq Frames

\* Every frame the receiver's pipeline gets, up to a cut in its stream, carries the picture
\* and the metadata of the call its header speaks of, also when the picture was finished
\* calls later, after the codec was replaced, or after an error (finish_pending_gpu,
\* ensure_codec).  Metadata too long for metadata_length is cut at the front, and the
\* picture is not harmed.
PicturesMatch ==
    \A i \in DOMAIN seen :
        LET v == seen[i]
            text == Xml(v.id, given[v.id])
            whole == IF v.preview THEN SubSeq(Picture(v.id), 1, 1) ELSE Picture(v.id)
        IN  /\ SubSeq(v.payload, 1, Len(whole)) = whole
            /\ Len(text) < MetaWidth => v.payload = whole /\ v.metadata = text
            /\ v.metadata = SubSeq(text, Len(text) - Len(v.metadata) + 1, Len(text))

\* Frames are delivered in the order of their calls, across encoders, queues, writes that
\* time out and a reconnect: all metadata, the audio frames of one thread, and video
\* frames with one exception: a texture that was pending can be late, but only behind
\* frames that went past the GPU pipeline (send_video, or send_video_texture with the
\* pipeline off).
InCallOrder ==
    /\ \A i, j \in DOMAIN VideoTrail :
          LET f == VideoTrail[i]  g == VideoTrail[j]
          IN  i < j /\ {f, g} \subseteq Media /\ f > g => g \in pipelined /\ f \notin pipelined
    /\ \A i, j \in DOMAIN AudioTrail :
          LET f == AudioTrail[i]  g == AudioTrail[j]
          IN  i < j /\ {f, g} \subseteq Media /\ by[f] = by[g] => f < g
    /\ LET got == Ids(read \o metaQ)
       IN  \A i, j \in DOMAIN got : i < j => got[i] < got[j]

\* Up to a cut in the stream, try_recv_audio returns the planes the sender was given,
\* silent channels included, whatever the length of the metadata behind them; of a frame
\* that was already FPA1, the planes of its payload are those of its active channels, in
\* their order, and a payload of too few planes is refused unless its metadata is too long
\* for its length.  try_recv_metadata returns the text that was sent.
ContentIntact ==
    /\ \A i \in DOMAIN read : read[i].xml = Xml(read[i].id, given[read[i].id])
    /\ \A d \in {audioQ[i] : i \in DOMAIN audioQ} \cup {heard[i] : i \in DOMAIN heard} :
          LET a == given[d.id]
              planes == Planes(d.id, a)
          IN  IF a.coded = {} THEN d.pcm = SubSeq(planes, 1, a.channels)
              ELSE \A c \in 1..a.channels :
                      LET k == Cardinality(a.coded \cap (1..c))
                      IN  IF c \notin a.coded THEN d.pcm[c] = Silent
                          ELSE /\ k \in DOMAIN planes => d.pcm[c] = planes[k]
                               /\ a.xml < MetaWidth => k \in DOMAIN planes

\* Where frames can be: in a queue, socket or channel, in the hands of an audio thread, with
\* the encoder, delivered, failed, or behind one of the counters.
IdSet(s) == {s[i].id : i \in DOMAIN s}
Places == {"seen", "videoStream", "videoOut", "heard", "audioQ", "audioStream", "audioOut",
           "ingress", "failed", "pending", "stage"} \cup Counters
Held(p) ==
    CASE p = "seen"        -> IdSet(seen)
      [] p = "videoStream" -> IdSet(stream["video"])
      [] p = "videoOut"    -> IdSet(out["video"])
      [] p = "heard"       -> IdSet(heard)
      [] p = "audioQ"      -> IdSet(audioQ)
      [] p = "audioStream" -> IdSet(stream["audio"])
      [] p = "audioOut"    -> IdSet(out["audio"])
      [] p = "ingress"     -> UNION {IdSet(ingress[t]) : t \in Threads}
      [] p = "failed"      -> failed
      [] p = "pending"     -> {pending}
      [] p = "stage"       -> {stage}
      [] OTHER             -> drops[p]
Once(ids) == \A i, j \in DOMAIN ids : ids[i] = ids[j] => i = j

\* Every video, texture and audio frame a call accepted is in exactly one place, and there
\* once: with the encoder, on its way, delivered, in one counter, failed, or in one of the
\* losses no statistic shows: with the connection, by a write that timed out (write_peers
\* keeps the peer and says nothing), behind the cut such a write left on the connection,
\* or at a full audio queue of the sender.  Each counter holds frames of its own kind,
\* except that frames_dropped_audio also counts every metadata frame, because the audio
\* socket gets them and refuses them.
OneFate ==
    /\ \A f \in Media : Cardinality({p \in Places : f \in Held(p)}) = 1
    /\ Once(VideoTrail) /\ Once(AudioTrail)
    /\ \A t, u \in Threads : t # u => IdSet(ingress[t]) \cap IdSet(ingress[u]) = {}
    /\ \A f \in drops["sender"] \cup drops["wire"] : given[f].kind \in {"video", "texture"}
    /\ \A f \in drops["audio"] \cup drops["quiet"] : given[f].kind \in {"audio", "metadata"}
=============================================================================
