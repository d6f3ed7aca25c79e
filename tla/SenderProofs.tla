----------------------------- MODULE SenderProofs -----------------------------
(***************************************************************************)
(* The safety properties of Sender for any peers, any number of frames,    *)
(* and any queue depth.                                                    *)
(***************************************************************************)
EXTENDS Sender, SequenceTheorems, FiniteSetTheorems, TLAPS

\* The video frames not written yet are the last ones offered, in order: one in
\* the writer's hand, the others in the queue.  With depth 0 there are none.
InHand == IF vw = 0 THEN 0 ELSE 1
QueueInv ==
    /\ offered = written + InHand + Len(vq)
    /\ vw # 0 => vw = written + 1
    /\ \A i \in 1..Len(vq) : vq[i] = written + InHand + i
    /\ depth = 0 => vw = 0

\* The timestamps still to be given out fit below the bound.
AudioInv ==
    /\ clock + Cardinality({i \in Ingress : ing[i] = "pass"}) <= MaxAudio
    /\ \A i \in Ingress : ing[i] = "stamped" => stamp[i] # 0

\* The map and the sockets: an open connection is in the map, a socket in the map
\* is open or was shut by the receiver, and close leaves the map empty.
MapInv ==
    /\ \A p \in Peers : conn[p] = "open" => p \in peers
    /\ \A p \in peers : conn[p] \in {"open", "hungup"}
    /\ user \in {"closed", "dropped"} => peers = {}

\* Frames are due to a peer from its subscription on, and no message takes the
\* subscription back.
DueInv ==
    \A p \in Peers :
        /\ \A f \in due[p] : f <= offered
        /\ conn[p] \in {"none", "backlog"} => due[p] = {}
        /\ conn[p] = "open" /\ due[p] # {} => "video" \in pst[p]

\* No stream is ahead of the writer.
GotInv == \A p \in Peers : \A k \in 1..Len(gotV[p]) : gotV[p][k] <= written

IInv ==
    /\ TypeOK
    /\ QueueInv
    /\ AudioInv
    /\ MapInv
    /\ SubscribersServed
    /\ DueInv
    /\ GotInv
    /\ StreamsExact

-----------------------------------------------------------------------------
(* What the operators of the model do. *)

\* The effect of write_peers, without the outcomes that led to it: only peers
\* that hung up leave the map, and an open peer whose stream is still good has
\* the whole frame if it wanted it.
WriteEffect(type, f) ==
    /\ peers' \subseteq peers
    /\ \A p \in peers \ peers' : conn[p] = "hungup"
    /\ pst' \in [Peers -> SUBSET Flags]
    /\ \A p \in Peers : pst'[p] = IF p \in peers \ peers' THEN {} ELSE pst[p]
    /\ gotV' \in [Peers -> Seq(1..MaxVideo)] /\ gotA' \in [Peers -> Seq(1..MaxAudio)]
    /\ health' \in [Peers -> {"good", "late", "cut", "lost"}]
    /\ \A p \in Peers : gotV'[p] \in {gotV[p], Append(gotV[p], f)}
    /\ type # "video" => gotV' = gotV
    /\ peers = {} => UNCHANGED <<gotV, gotA>>
    /\ \A p \in peers : conn[p] = "open" /\ health'[p] = "good" =>
          /\ health[p] = "good"
          /\ type = "video" /\ "video" \in pst[p] => gotV'[p] = Append(gotV[p], f)

\* Worse never repairs a stream.
LEMMA WorseFacts ==
    ASSUME NEW h \in {"good", "late", "cut", "lost"}, NEW o \in {"ok", "late", "cut", "error"}
    PROVE  /\ Worse(h, o) \in {"good", "late", "cut", "lost"}
           /\ Worse(h, o) = "good" => h = "good" /\ o \in {"ok", "error"}
BY DEF Worse

\* write_peers for a frame of the right type has that effect.
LEMMA WriteFacts ==
    ASSUME TypeOK, NEW type \in {"video", "audio", "metadata"}, NEW f,
           type = "video" => f \in 1..MaxVideo, type = "audio" => f \in 1..MaxAudio,
           WritePeers(type, f)
    PROVE  WriteEffect(type, f)
<1> DEFINE targets == {p \in peers : PeerWants(pst[p], type)}
           Dead(out) == {p \in targets : out[p] = "error"}
           Whole(out) == {p \in Reached(out) : health[p] \in {"good", "late"} /\ conn[p] = "open"}
<1>1. PICK out \in [targets -> {"ok", "late", "cut", "error"}] :
        /\ \A p \in targets : out[p] \in Outcomes(p)
        /\ DropPeers(Dead(out))
        /\ gotV' = [p \in Peers |-> IF type = "video" /\ p \in Whole(out)
                                    THEN Append(gotV[p], f) ELSE gotV[p]]
        /\ gotA' = [p \in Peers |-> IF type = "audio" /\ p \in Whole(out)
                                    THEN Append(gotA[p], f) ELSE gotA[p]]
        /\ health' = [p \in Peers |-> IF p \in targets /\ conn[p] = "open"
                                      THEN Worse(health[p], out[p]) ELSE health[p]]
  BY DEF WritePeers
<1>2. \A p \in targets : out[p] = "error" => conn[p] = "hungup"
  BY <1>1 DEF Outcomes
<1>3. /\ Dead(out) \subseteq peers /\ peers' = peers \ Dead(out)
      /\ pst' = [p \in Peers |-> IF p \in Dead(out) THEN {} ELSE pst[p]]
  BY <1>1 DEF DropPeers
<1>4. Whole(out) \subseteq targets /\ \A p \in Whole(out) : conn[p] = "open"
  BY <1>1 DEF Reached
<1>5. peers \subseteq Peers /\ targets \subseteq peers
  BY DEF TypeOK
<1>6. /\ peers' \subseteq peers
      /\ \A p \in peers \ peers' : conn[p] = "hungup"
      /\ pst' \in [Peers -> SUBSET Flags]
      /\ \A p \in Peers : pst'[p] = IF p \in peers \ peers' THEN {} ELSE pst[p]
  BY <1>2, <1>3, <1>5 DEF TypeOK
<1>7. /\ gotV' \in [Peers -> Seq(1..MaxVideo)]
      /\ \A p \in Peers : gotV'[p] \in {gotV[p], Append(gotV[p], f)}
      /\ type # "video" => gotV' = gotV
  <2>1. \A p \in Peers : gotV[p] \in Seq(1..MaxVideo)
    BY DEF TypeOK
  <2>2. type = "video" => \A p \in Peers : Append(gotV[p], f) \in Seq(1..MaxVideo)
    BY <2>1, AppendProperties
  <2> HIDE DEF targets, Whole
  <2> QED  BY <1>1, <2>1, <2>2 DEF TypeOK
<1>8. gotA' \in [Peers -> Seq(1..MaxAudio)]
  <2>1. \A p \in Peers : gotA[p] \in Seq(1..MaxAudio)
    BY DEF TypeOK
  <2>2. type = "audio" => \A p \in Peers : Append(gotA[p], f) \in Seq(1..MaxAudio)
    BY <2>1, AppendProperties
  <2> HIDE DEF targets, Whole
  <2> QED  BY <1>1, <2>1, <2>2 DEF TypeOK
<1>9. health' \in [Peers -> {"good", "late", "cut", "lost"}]
  <2>1. \A p \in Peers : health[p] \in {"good", "late", "cut", "lost"}
    BY DEF TypeOK
  <2>2. \A p \in targets : Worse(health[p], out[p]) \in {"good", "late", "cut", "lost"}
    BY <1>1, <1>5, <2>1, WorseFacts
  <2> QED  BY <1>1, <2>1, <2>2
<1>10. peers = {} => UNCHANGED <<gotV, gotA>>
  BY <1>1, <1>4, <1>5 DEF TypeOK
<1>11. ASSUME NEW p \in peers, conn[p] = "open", health'[p] = "good"
       PROVE  /\ health[p] = "good"
              /\ type = "video" /\ "video" \in pst[p] => gotV'[p] = Append(gotV[p], f)
  <2>1. p \in Peers /\ health[p] \in {"good", "late", "cut", "lost"}
    BY <1>5 DEF TypeOK
  <2>2. CASE p \notin targets
    <3>1. health[p] = "good"
      BY <1>1, <1>11, <2>1, <2>2
    <3>2. ~(type = "video" /\ "video" \in pst[p])
      BY <2>2 DEF PeerWants
    <3> QED  BY <3>1, <3>2
  <2>3. CASE p \in targets
    <3>1. health'[p] = Worse(health[p], out[p]) /\ out[p] \in {"ok", "late", "cut", "error"}
      BY <1>1, <1>11, <2>1, <2>3
    <3>2. health[p] = "good" /\ out[p] \in {"ok", "error"}
      BY <1>11, <2>1, <3>1, WorseFacts
    <3>3. out[p] = "ok"
      BY <1>2, <1>11, <2>3, <3>2
    <3>4. p \in Whole(out)
      BY <1>1, <1>11, <2>3, <3>2, <3>3 DEF Reached
    <3> QED  BY <1>1, <2>1, <3>2, <3>4
  <2> QED  BY <2>2, <2>3
<1> QED  BY <1>6, <1>7, <1>8, <1>9, <1>10, <1>11 DEF WriteEffect

\* Reading control messages leaves a set of flags, and no message withdraws video.
LEMMA ApplyFacts ==
    ASSUME NEW st \in SUBSET Flags, NEW s \in Seq(Commands)
    PROVE  /\ ApplyAll(st, s) \in SUBSET Flags
           /\ "video" \in st => "video" \in ApplyAll(st, s)
<1>1. \A j \in 1..Len(s) : s[j] \in ControlMessage
  BY SenderAssumption
<1>2. \A j \in 1..Len(s) : "video" \notin s[j].off
  BY <1>1 DEF ControlMessage, Subscriptions
<1>3. Framed(s) \subseteq 1..Len(s)
  BY DEF Framed
<1>4. "video" \in st => "video" \in ApplyAll(st, s)
  <2> SUFFICES ASSUME "video" \in st PROVE "video" \in ApplyAll(st, s)
    OBVIOUS
  <2>1. \A j \in Framed(s) : "video" \notin s[j].off
    BY <1>2, <1>3
  <2>2. 0 \in {0} \cup Framed(s) /\ "video" \in Flags
    BY DEF Flags
  <2>3. \E k \in {0} \cup Framed(s) :
           /\ IF k = 0 THEN "video" \in st ELSE "video" \in s[k].on
           /\ \A j \in Framed(s) : j > k => "video" \notin s[j].off
    BY <2>1, <2>2
  <2> QED  BY <2>2, <2>3 DEF ApplyAll
<1> QED  BY <1>4 DEF ApplyAll

\* The bounds are numbers.
LEMMA Bounds == MaxVideo \in Nat /\ MaxAudio \in Nat /\ MaxCommands \in Nat /\ Depths \subseteq Nat
BY SenderAssumption

\* The steps that write, and the frame each one writes.
LEMMA WriteSteps ==
    ASSUME TypeOK, AudioInv
    PROVE  /\ SendVideo /\ depth = 0 => WriteEffect("video", offered + 1)
           /\ SendMetadata => WriteEffect("metadata", 0)
           /\ \A i \in Ingress : IngressSend(i) /\ depth = 0 => WriteEffect("audio", stamp[i])
           /\ VideoWrite => WriteEffect("video", vw)
           /\ AudioWrite => WriteEffect("audio", aw)
<1>1. ASSUME SendVideo, depth = 0 PROVE WriteEffect("video", offered + 1)
  <2>1. offered + 1 \in 1..MaxVideo
    <3>1. offered \in 0..MaxVideo /\ offered < MaxVideo
      BY <1>1 DEF SendVideo, TypeOK
    <3> QED  BY <3>1, Bounds
  <2> QED  BY <1>1, <2>1, WriteFacts DEF SendVideo
<1>2. ASSUME SendMetadata PROVE WriteEffect("metadata", 0)
  BY <1>2, WriteFacts DEF SendMetadata
<1>3. ASSUME NEW i \in Ingress, IngressSend(i), depth = 0 PROVE WriteEffect("audio", stamp[i])
  <2>1. stamp[i] \in 1..MaxAudio
    BY <1>3, Bounds DEF IngressSend, TypeOK, AudioInv
  <2> QED  BY <1>3, <2>1, WriteFacts DEF IngressSend
<1>4. ASSUME VideoWrite PROVE WriteEffect("video", vw)
  <2>1. vw \in 1..MaxVideo
    BY <1>4, Bounds DEF VideoWrite, TypeOK
  <2> QED  BY <1>4, <2>1, WriteFacts DEF VideoWrite
<1>5. ASSUME AudioWrite PROVE WriteEffect("audio", aw)
  <2>1. aw \in 1..MaxAudio
    BY <1>5, Bounds DEF AudioWrite, TypeOK
  <2> QED  BY <1>5, <2>1, WriteFacts DEF AudioWrite
<1> QED  BY <1>1, <1>2, <1>3, <1>4, <1>5

\* What a write leaves alone keeps its type.
LEMMA WriteTypes ==
    ASSUME TypeOK, NEW type, NEW f, WriteEffect(type, f)
    PROVE  /\ peers' \subseteq Peers /\ pst' \in [Peers -> SUBSET Flags]
           /\ \A p \in Peers \ peers' : pst'[p] = {}
           /\ gotV' \in [Peers -> Seq(1..MaxVideo)] /\ gotA' \in [Peers -> Seq(1..MaxAudio)]
           /\ health' \in [Peers -> {"good", "late", "cut", "lost"}]
BY DEF TypeOK, WriteEffect

\* Taking the first frame of a queue.
LEMMA TailFacts ==
    ASSUME NEW S, NEW s \in Seq(S), s # <<>>
    PROVE  /\ Head(s) = s[1] /\ s[1] \in S /\ Tail(s) \in Seq(S)
           /\ Len(s) \in Nat /\ Len(s) >= 1 /\ Len(Tail(s)) = Len(s) - 1
           /\ \A i \in 1..Len(Tail(s)) : Tail(s)[i] = s[i + 1]
<1>1. Len(s) \in Nat /\ Len(s) # 0
  BY EmptySeq, LenProperties
<1> QED  BY <1>1, HeadTailProperties

\* Adding a frame to a queue or a stream.
LEMMA AppendFacts ==
    ASSUME NEW S, NEW s \in Seq(S), NEW e \in S
    PROVE  /\ Append(s, e) \in Seq(S) /\ Len(s) \in Nat /\ Len(Append(s, e)) = Len(s) + 1
           /\ Append(s, e)[Len(s) + 1] = e /\ \A i \in 1..Len(s) : Append(s, e)[i] = s[i]
BY AppendProperties, LenProperties

\* The threads between the check and the clock are finitely many, and leaving or
\* joining them changes their number by one.
Passing == {i \in Ingress : ing[i] = "pass"}
LEMMA PassingFacts ==
    ASSUME TypeOK
    PROVE  /\ Cardinality(Passing) \in Nat
           /\ \A i \in Passing : /\ Cardinality(Passing) >= 1
                                 /\ Cardinality(Passing \ {i}) = Cardinality(Passing) - 1
           /\ \A i \in Ingress \ Passing : Cardinality(Passing \cup {i}) = Cardinality(Passing) + 1
<1>1. IsFiniteSet(Passing)
  <2>1. Passing \in SUBSET Ingress
    BY DEF Passing
  <2> QED  BY <2>1, SenderAssumption, FS_Subset
<1>2. Cardinality(Passing) \in Nat
  BY <1>1, FS_CardinalityType
<1>3. ASSUME NEW i \in Passing
      PROVE  /\ Cardinality(Passing) >= 1
             /\ Cardinality(Passing \ {i}) = Cardinality(Passing) - 1
  <2>1. Passing # {}
    BY <1>3
  <2>2. Cardinality(Passing) # 0
    BY <1>1, <2>1, FS_EmptySet
  <2>3. Cardinality(Passing \ {i}) = Cardinality(Passing) - 1
    BY <1>1, <1>3, FS_RemoveElement
  <2> QED  BY <1>2, <2>2, <2>3
<1>4. ASSUME NEW i \in Ingress \ Passing
      PROVE  Cardinality(Passing \cup {i}) = Cardinality(Passing) + 1
  BY <1>1, <1>4, FS_AddElement
<1> QED  BY <1>2, <1>3, <1>4

-----------------------------------------------------------------------------
(* Every step keeps every part of the invariant. *)

\* poll_peer_metadata cuts an inbox in two.
LEMMA PollFacts ==
    ASSUME NEW s \in Seq(Commands), NEW k \in 0..MaxCommands, k <= Len(s)
    PROVE  SubSeq(s, 1, k) \in Seq(Commands) /\ SubSeq(s, k + 1, Len(s)) \in Seq(Commands)
<1>1. Len(s) \in Nat /\ k \in Int /\ k >= 0 /\ \A i \in 1..Len(s) : s[i] \in Commands
  BY Bounds
<1>2. (\A i \in 1..k : s[i] \in Commands) /\ \A i \in k + 1..Len(s) : s[i] \in Commands
  BY <1>1
<1> QED  BY <1>1, <1>2, SubSeqProperties

\* Types: the queues within the depth, the frames within their ranges.
LEMMA TypeStep ==
    ASSUME TypeOK, AudioInv, Next
    PROVE  TypeOK'
<1> USE SenderAssumption DEF TypeOK, AudioInv, vars, sockVars, peerVars, queueVars, ingVars, streamVars, wireVars
<1>1. ASSUME NEW p \in Peers, Connect(p) PROVE TypeOK'
  BY <1>1 DEF Connect
<1>2. ASSUME NEW p \in Peers, HangUp(p) PROVE TypeOK'
  BY <1>2 DEF HangUp
<1>3. ASSUME NEW p \in Peers, NEW c \in Commands, Say(p, c) PROVE TypeOK'
  <2>1. inbox' \in [Peers -> Seq(Commands)]
    <3>1. \A q \in Peers : inbox[q] \in Seq(Commands) /\ Append(inbox[q], c) \in Seq(Commands)
      BY AppendProperties
    <3> QED  BY <1>3, <3>1 DEF Say
  <2>2. said' \in [Peers -> 0..MaxCommands]
    BY <1>3, Bounds DEF Say
  <2> QED  BY <1>3, <2>1, <2>2 DEF Say
<1>4. CASE PollAccept
  BY <1>4 DEF PollAccept
<1>5. CASE PollPeers
  <2>1. PICK n \in [peers -> 0..MaxCommands] :
          /\ \A p \in peers : n[p] <= Len(inbox[p])
          /\ pst' = [p \in Peers |->
                        IF p \notin peers \/ conn[p] = "hungup" THEN {}
                        ELSE ApplyAll(pst[p], SubSeq(inbox[p], 1, n[p]))]
          /\ inbox' = [p \in Peers |->
                          IF p \in peers THEN SubSeq(inbox[p], n[p] + 1, Len(inbox[p])) ELSE inbox[p]]
    BY <1>5 DEF PollPeers
  <2>2. ASSUME NEW p \in peers
        PROVE  /\ SubSeq(inbox[p], 1, n[p]) \in Seq(Commands)
               /\ SubSeq(inbox[p], n[p] + 1, Len(inbox[p])) \in Seq(Commands)
    BY <2>1, PollFacts
  <2>3. inbox' \in [Peers -> Seq(Commands)]
    BY <2>1, <2>2
  <2>4. pst' \in [Peers -> SUBSET Flags]
    BY <2>1, <2>2, ApplyFacts
  <2>5. /\ peers' = {p \in peers : conn[p] # "hungup"} /\ user' = "recompute"
        /\ UNCHANGED <<conn, said, subscribed, enabled, queueVars, ingVars, offered, written,
                       wireVars>>
    BY <1>5 DEF PollPeers
  <2>6. \A p \in Peers \ peers' : pst'[p] = {}
    BY <2>1, <2>5
  <2> QED  BY <2>3, <2>4, <2>5, <2>6
<1>6. CASE Recompute
  BY <1>6 DEF Recompute
<1>7. CASE EnableAudioOutput
  <2>1. pst' = [p \in Peers |-> IF p \in ToMark THEN pst[p] \cup {"audio"} ELSE pst[p]]
        /\ ToMark \subseteq peers
    BY <1>7 DEF EnableAudioOutput, ToMark
  <2>2. pst' \in [Peers -> SUBSET Flags] /\ \A p \in Peers \ peers : pst'[p] = {}
    BY <2>1 DEF Flags
  <2>3. subscribed' \subseteq Flags
    BY <1>7 DEF EnableAudioOutput, Flags
  <2> QED  BY <1>7, <2>2, <2>3 DEF EnableAudioOutput
<1>8. CASE SendVideo
  <2>1. offered + 1 \in 1..MaxVideo /\ offered' = offered + 1
    <3>1. offered \in 0..MaxVideo /\ offered < MaxVideo
      BY <1>8 DEF SendVideo
    <3> QED  BY <1>8, <3>1, Bounds DEF SendVideo
  <2>2. due' \in [Peers -> SUBSET (1..MaxVideo)]
    BY <1>8, <2>1 DEF SendVideo
  <2>3. CASE depth = 0
    <3>1. WriteEffect("video", offered + 1)
      BY <1>8, <2>3, WriteSteps
    <3>2. UNCHANGED <<vq, depth, user, sockVars, subscribed, enabled, vopen, vw, aq, aopen, aw,
                      ingVars>> /\ written' = offered + 1
      BY <1>8, <2>3 DEF SendVideo
    <3>3. offered' \in 0..MaxVideo /\ written' \in 0..MaxVideo
      BY <2>1, <3>2, Bounds
    <3> QED  BY <2>2, <3>1, <3>2, <3>3, WriteTypes
  <2>4. CASE depth # 0
    <3>1. /\ vq' = Append(vq, offered + 1) /\ Len(vq) < depth
          /\ UNCHANGED <<written, peerVars, streamVars, depth, user, sockVars, subscribed, enabled,
                         vopen, vw, aq, aopen, aw, ingVars>>
      BY <1>8, <2>4 DEF SendVideo, Enqueue
    <3>2. vq' \in Seq(1..MaxVideo) /\ Len(vq') <= depth
      BY <2>1, <3>1, AppendFacts, Bounds
    <3> QED  BY <2>1, <2>2, <3>1, <3>2, Bounds
  <2> QED  BY <2>3, <2>4
<1>9. CASE SendMetadata
  BY <1>9, WriteSteps DEF SendMetadata, WriteEffect
<1>10. CASE CloseQueues
  BY <1>10 DEF CloseQueues
<1>11. CASE ClosePeers
  BY <1>11 DEF ClosePeers, DropPeers
<1>12. CASE DropAll
  BY <1>12 DEF DropAll
<1>13. ASSUME NEW i \in Ingress, IngressCheck(i) PROVE TypeOK'
  BY <1>13 DEF IngressCheck
<1>14. ASSUME NEW i \in Ingress, IngressStamp(i) PROVE TypeOK'
  <2>1. i \in Passing
    BY <1>14 DEF IngressStamp, Passing
  <2>2. clock + Cardinality(Passing) <= MaxAudio
    BY DEF Passing
  <2>3. clock + 1 \in 0..MaxAudio
    <3>1. Cardinality(Passing) \in Nat /\ Cardinality(Passing) >= 1
      BY <2>1, PassingFacts
    <3>2. clock \in Nat
      BY Bounds
    <3> QED  BY <2>2, <3>1, <3>2, Bounds
  <2> QED  BY <1>14, <2>3 DEF IngressStamp
<1>15. ASSUME NEW i \in Ingress, IngressSend(i) PROVE TypeOK'
  <2>1. stamp[i] \in 1..MaxAudio
    BY <1>15, Bounds DEF IngressSend
  <2>2. ing' \in [Ingress -> {"idle", "pass", "stamped"}] /\ stamp' \in [Ingress -> 0..MaxAudio]
    BY <1>15, Bounds DEF IngressSend
  <2>3. UNCHANGED <<depth, user, sockVars, subscribed, enabled, vq, vopen, vw, aopen, aw, clock,
                    offered, written, due>>
    BY <1>15 DEF IngressSend
  <2>4. CASE depth = 0
    <3>1. WriteEffect("audio", stamp[i]) /\ UNCHANGED aq
      BY <1>15, <2>4, WriteSteps DEF IngressSend
    <3> QED  BY <2>2, <2>3, <3>1, WriteTypes
  <2>5. CASE depth # 0
    <3>1. /\ aq' = IF Len(aq) < depth THEN Append(aq, stamp[i]) ELSE aq
          /\ UNCHANGED <<peerVars, streamVars>>
      BY <1>15, <2>5 DEF IngressSend, Enqueue
    <3>2. aq' \in Seq(1..MaxAudio) /\ Len(aq') <= depth
      <4>1. CASE Len(aq) < depth
        <5>1. aq' \in Seq(1..MaxAudio) /\ Len(aq) \in Nat /\ Len(aq') = Len(aq) + 1
          BY <2>1, <3>1, <4>1, AppendFacts
        <5> QED  BY <4>1, <5>1, Bounds
      <4>2. CASE ~(Len(aq) < depth)
        BY <3>1, <4>2
      <4> QED  BY <4>1, <4>2
    <3> QED  BY <2>2, <2>3, <3>1, <3>2
  <2> QED  BY <2>4, <2>5
<1>16. CASE VideoTake
  BY <1>16 DEF VideoTake
<1>17. CASE VideoWrite
  <2>1. WriteEffect("video", vw)
    BY <1>17, WriteSteps
  <2>2. UNCHANGED <<depth, user, sockVars, subscribed, enabled, vq, vopen, aq, aopen, aw, ingVars,
                    offered, due>>
        /\ written' = vw /\ vw' = 0
    BY <1>17 DEF VideoWrite
  <2> QED  BY <2>1, <2>2, WriteTypes, Bounds
<1>18. CASE AudioTake
  BY <1>18 DEF AudioTake
<1>19. CASE AudioWrite
  <2>1. WriteEffect("audio", aw)
    BY <1>19, WriteSteps
  <2>2. UNCHANGED <<depth, user, sockVars, subscribed, enabled, vq, vopen, vw, aq, aopen, ingVars,
                    offered, written, due>>
        /\ aw' = 0
    BY <1>19 DEF AudioWrite
  <2> QED  BY <2>1, <2>2, WriteTypes, Bounds
<1>20. CASE Finished
  BY <1>20 DEF Finished
<1> QED  BY <1>1, <1>2, <1>3, <1>4, <1>5, <1>6, <1>7, <1>8, <1>9, <1>10,
            <1>11, <1>12, <1>13, <1>14, <1>15, <1>16, <1>17, <1>18, <1>19, <1>20 DEF Next

\* The pending video frames stay the last ones offered, in order.
LEMMA QueueStep ==
    ASSUME TypeOK, AudioInv, QueueInv, Next
    PROVE  QueueInv'
<1> USE SenderAssumption DEF TypeOK, QueueInv, InHand, vars, sockVars, peerVars, queueVars, ingVars, streamVars, wireVars
<1>1. ASSUME NEW p \in Peers, Connect(p) PROVE QueueInv'
  BY <1>1 DEF Connect
<1>2. ASSUME NEW p \in Peers, HangUp(p) PROVE QueueInv'
  BY <1>2 DEF HangUp
<1>3. ASSUME NEW p \in Peers, NEW c \in Commands, Say(p, c) PROVE QueueInv'
  BY <1>3 DEF Say
<1>4. CASE PollAccept
  BY <1>4 DEF PollAccept
<1>5. CASE PollPeers
  BY <1>5 DEF PollPeers
<1>6. CASE Recompute
  BY <1>6 DEF Recompute
<1>7. CASE EnableAudioOutput
  BY <1>7 DEF EnableAudioOutput
<1>8. CASE SendVideo
  <2>1. offered' = offered + 1 /\ UNCHANGED <<depth, vw>>
    BY <1>8 DEF SendVideo
  <2>2. CASE depth = 0
    <3>1. written' = offered + 1 /\ UNCHANGED vq
      BY <1>8, <2>2 DEF SendVideo
    <3>2. Len(vq) = 0
      BY <2>2, LenProperties
    <3> QED  BY <2>1, <2>2, <3>1, <3>2
  <2>3. CASE depth # 0
    <3>0. written \in Nat /\ offered \in Nat /\ InHand \in Nat /\ Len(vq) \in Nat
      BY Bounds, LenProperties
    <3>1. vq' = Append(vq, offered + 1) /\ UNCHANGED written
      BY <1>8, <2>3 DEF SendVideo, Enqueue
    <3>2. offered + 1 \in 1..MaxVideo
      BY <1>8, Bounds DEF SendVideo
    <3>3. /\ Len(vq) \in Nat /\ Len(vq') = Len(vq) + 1 /\ vq'[Len(vq) + 1] = offered + 1
          /\ \A i \in 1..Len(vq) : vq'[i] = vq[i]
      BY <3>1, <3>2, AppendFacts
    <3>4. /\ InHand' = InHand /\ offered = written + InHand + Len(vq)
          /\ \A i \in 1..Len(vq) : vq[i] = written + InHand + i
          /\ vw # 0 => vw = written + 1
      BY <2>1
    <3> HIDE DEF TypeOK, QueueInv, InHand
    <3>5. offered' = written' + InHand' + Len(vq') /\ (vw' # 0 => vw' = written' + 1)
      BY <2>1, <3>0, <3>1, <3>3, <3>4
    <3>6. ASSUME NEW i \in 1..Len(vq') PROVE vq'[i] = written' + InHand' + i
      <4>1. CASE i \in 1..Len(vq)
        BY <2>1, <3>1, <3>3, <3>4, <4>1
      <4>2. CASE i = Len(vq) + 1
        BY <2>1, <3>0, <3>1, <3>3, <3>4, <4>2
      <4> QED  BY <3>0, <3>3, <4>1, <4>2
    <3> QED  BY <2>1, <2>3, <3>5, <3>6 DEF QueueInv
  <2> QED  BY <2>2, <2>3
<1>9. CASE SendMetadata
  BY <1>9 DEF SendMetadata
<1>10. CASE CloseQueues
  BY <1>10 DEF CloseQueues
<1>11. CASE ClosePeers
  BY <1>11 DEF ClosePeers, DropPeers
<1>12. CASE DropAll
  BY <1>12 DEF DropAll
<1>13. ASSUME NEW i \in Ingress, IngressCheck(i) PROVE QueueInv'
  BY <1>13 DEF IngressCheck
<1>14. ASSUME NEW i \in Ingress, IngressStamp(i) PROVE QueueInv'
  BY <1>14 DEF IngressStamp
<1>15. ASSUME NEW i \in Ingress, IngressSend(i) PROVE QueueInv'
  BY <1>15 DEF IngressSend
<1>16. CASE VideoTake
  BY <1>16 DEF VideoTake
<1>17. CASE VideoWrite
  BY <1>17 DEF VideoWrite
<1>18. CASE AudioTake
  BY <1>18 DEF AudioTake
<1>19. CASE AudioWrite
  BY <1>19 DEF AudioWrite
<1>20. CASE Finished
  BY <1>20 DEF Finished
<1> QED  BY <1>1, <1>2, <1>3, <1>4, <1>5, <1>6, <1>7, <1>8, <1>9, <1>10,
            <1>11, <1>12, <1>13, <1>14, <1>15, <1>16, <1>17, <1>18, <1>19, <1>20 DEF Next

\* The clock stays below its bound.
LEMMA AudioStep ==
    ASSUME TypeOK, AudioInv, Next
    PROVE  AudioInv'
<1> USE SenderAssumption DEF TypeOK, AudioInv, vars, sockVars, peerVars, queueVars, ingVars, streamVars, wireVars
<1>1. ASSUME NEW p \in Peers, Connect(p) PROVE AudioInv'
  BY <1>1 DEF Connect
<1>2. ASSUME NEW p \in Peers, HangUp(p) PROVE AudioInv'
  BY <1>2 DEF HangUp
<1>3. ASSUME NEW p \in Peers, NEW c \in Commands, Say(p, c) PROVE AudioInv'
  BY <1>3 DEF Say
<1>4. CASE PollAccept
  BY <1>4 DEF PollAccept
<1>5. CASE PollPeers
  BY <1>5 DEF PollPeers
<1>6. CASE Recompute
  BY <1>6 DEF Recompute
<1>7. CASE EnableAudioOutput
  BY <1>7 DEF EnableAudioOutput
<1>8. CASE SendVideo
  BY <1>8 DEF SendVideo
<1>9. CASE SendMetadata
  BY <1>9 DEF SendMetadata
<1>10. CASE CloseQueues
  BY <1>10 DEF CloseQueues
<1>11. CASE ClosePeers
  BY <1>11 DEF ClosePeers, DropPeers
<1>12. CASE DropAll
  BY <1>12 DEF DropAll
<1>13. ASSUME NEW i \in Ingress, IngressCheck(i) PROVE AudioInv'
  <2>1. /\ clock + Cardinality(Passing) < MaxAudio /\ clock' = clock /\ i \in Ingress \ Passing
        /\ stamp' = stamp
    BY <1>13 DEF IngressCheck, Passing
  <2>2. Passing' = Passing \cup {i}
    BY <1>13 DEF IngressCheck, Passing
  <2>3. \A j \in Ingress : ing'[j] = "stamped" => ing[j] = "stamped"
    BY <1>13 DEF IngressCheck
  <2>4. clock' + Cardinality(Passing') <= MaxAudio
    <3>1. Cardinality(Passing) \in Nat /\ Cardinality(Passing') = Cardinality(Passing) + 1
      BY <2>1, <2>2, PassingFacts
    <3>2. clock \in Nat
      BY Bounds
    <3> QED  BY <2>1, <3>1, <3>2, Bounds
  <2> QED  BY <2>1, <2>3, <2>4 DEF Passing
<1>14. ASSUME NEW i \in Ingress, IngressStamp(i) PROVE AudioInv'
  <2>1. clock + Cardinality(Passing) <= MaxAudio /\ clock' = clock + 1 /\ i \in Passing
    BY <1>14 DEF IngressStamp, Passing
  <2>2. Passing' = Passing \ {i}
    BY <1>14 DEF IngressStamp, Passing
  <2>3. \A j \in Ingress : ing'[j] = "stamped" => stamp'[j] # 0
    BY <1>14, Bounds DEF IngressStamp
  <2>4. clock' + Cardinality(Passing') <= MaxAudio
    <3>1. Cardinality(Passing) \in Nat /\ Cardinality(Passing') = Cardinality(Passing) - 1
      BY <2>1, <2>2, PassingFacts
    <3>2. clock \in Nat
      BY Bounds
    <3> QED  BY <2>1, <3>1, <3>2, Bounds
  <2> QED  BY <2>3, <2>4 DEF Passing
<1>15. ASSUME NEW i \in Ingress, IngressSend(i) PROVE AudioInv'
  BY <1>15 DEF IngressSend
<1>16. CASE VideoTake
  BY <1>16 DEF VideoTake
<1>17. CASE VideoWrite
  BY <1>17 DEF VideoWrite
<1>18. CASE AudioTake
  BY <1>18 DEF AudioTake
<1>19. CASE AudioWrite
  BY <1>19 DEF AudioWrite
<1>20. CASE Finished
  BY <1>20 DEF Finished
<1> QED  BY <1>1, <1>2, <1>3, <1>4, <1>5, <1>6, <1>7, <1>8, <1>9, <1>10,
            <1>11, <1>12, <1>13, <1>14, <1>15, <1>16, <1>17, <1>18, <1>19, <1>20 DEF Next

\* The map stays in step with the sockets.
LEMMA MapStep ==
    ASSUME TypeOK, AudioInv, MapInv, Next
    PROVE  MapInv'
<1> USE SenderAssumption DEF TypeOK, MapInv, vars, sockVars, peerVars, queueVars, ingVars, streamVars, wireVars
<1>1. ASSUME NEW p \in Peers, Connect(p) PROVE MapInv'
  BY <1>1 DEF Connect
<1>2. ASSUME NEW p \in Peers, HangUp(p) PROVE MapInv'
  BY <1>2 DEF HangUp
<1>3. ASSUME NEW p \in Peers, NEW c \in Commands, Say(p, c) PROVE MapInv'
  BY <1>3 DEF Say
<1>4. CASE PollAccept
  BY <1>4 DEF PollAccept
<1>5. CASE PollPeers
  BY <1>5 DEF PollPeers
<1>6. CASE Recompute
  BY <1>6 DEF Recompute
<1>7. CASE EnableAudioOutput
  BY <1>7 DEF EnableAudioOutput
<1>8. CASE SendVideo
  BY <1>8, WriteSteps DEF SendVideo, WriteEffect
<1>9. CASE SendMetadata
  BY <1>9, WriteSteps DEF SendMetadata, WriteEffect
<1>10. CASE CloseQueues
  BY <1>10 DEF CloseQueues
<1>11. CASE ClosePeers
  BY <1>11 DEF ClosePeers, DropPeers
<1>12. CASE DropAll
  BY <1>12 DEF DropAll
<1>13. ASSUME NEW i \in Ingress, IngressCheck(i) PROVE MapInv'
  BY <1>13 DEF IngressCheck
<1>14. ASSUME NEW i \in Ingress, IngressStamp(i) PROVE MapInv'
  BY <1>14 DEF IngressStamp
<1>15. ASSUME NEW i \in Ingress, IngressSend(i) PROVE MapInv'
  BY <1>15, WriteSteps DEF IngressSend, WriteEffect
<1>16. CASE VideoTake
  BY <1>16 DEF VideoTake
<1>17. CASE VideoWrite
  BY <1>17, WriteSteps DEF VideoWrite, WriteEffect
<1>18. CASE AudioTake
  BY <1>18 DEF AudioTake
<1>19. CASE AudioWrite
  BY <1>19, WriteSteps DEF AudioWrite, WriteEffect
<1>20. CASE Finished
  BY <1>20 DEF Finished
<1> QED  BY <1>1, <1>2, <1>3, <1>4, <1>5, <1>6, <1>7, <1>8, <1>9, <1>10,
            <1>11, <1>12, <1>13, <1>14, <1>15, <1>16, <1>17, <1>18, <1>19, <1>20 DEF Next

\* The aggregate covers every peer whenever the owner is between calls.
LEMMA ServedStep ==
    ASSUME TypeOK, AudioInv, SubscribersServed, Next
    PROVE  SubscribersServed'
<1> USE SenderAssumption DEF TypeOK, SubscribersServed, vars, sockVars, peerVars, queueVars, ingVars, streamVars, wireVars
<1>1. ASSUME NEW p \in Peers, Connect(p) PROVE SubscribersServed'
  BY <1>1 DEF Connect
<1>2. ASSUME NEW p \in Peers, HangUp(p) PROVE SubscribersServed'
  BY <1>2 DEF HangUp
<1>3. ASSUME NEW p \in Peers, NEW c \in Commands, Say(p, c) PROVE SubscribersServed'
  BY <1>3 DEF Say
<1>4. CASE PollAccept
  BY <1>4 DEF PollAccept
<1>5. CASE PollPeers
  BY <1>5 DEF PollPeers
<1>6. CASE Recompute
  BY <1>6 DEF Recompute
<1>7. CASE EnableAudioOutput
  BY <1>7 DEF EnableAudioOutput
<1>8. CASE SendVideo
  BY <1>8, WriteSteps DEF SendVideo, WriteEffect
<1>9. CASE SendMetadata
  BY <1>9, WriteSteps DEF SendMetadata, WriteEffect
<1>10. CASE CloseQueues
  BY <1>10 DEF CloseQueues
<1>11. CASE ClosePeers
  BY <1>11 DEF ClosePeers, DropPeers
<1>12. CASE DropAll
  BY <1>12 DEF DropAll
<1>13. ASSUME NEW i \in Ingress, IngressCheck(i) PROVE SubscribersServed'
  BY <1>13 DEF IngressCheck
<1>14. ASSUME NEW i \in Ingress, IngressStamp(i) PROVE SubscribersServed'
  BY <1>14 DEF IngressStamp
<1>15. ASSUME NEW i \in Ingress, IngressSend(i) PROVE SubscribersServed'
  BY <1>15, WriteSteps DEF IngressSend, WriteEffect
<1>16. CASE VideoTake
  BY <1>16 DEF VideoTake
<1>17. CASE VideoWrite
  BY <1>17, WriteSteps DEF VideoWrite, WriteEffect
<1>18. CASE AudioTake
  BY <1>18 DEF AudioTake
<1>19. CASE AudioWrite
  BY <1>19, WriteSteps DEF AudioWrite, WriteEffect
<1>20. CASE Finished
  BY <1>20 DEF Finished
<1> QED  BY <1>1, <1>2, <1>3, <1>4, <1>5, <1>6, <1>7, <1>8, <1>9, <1>10,
            <1>11, <1>12, <1>13, <1>14, <1>15, <1>16, <1>17, <1>18, <1>19, <1>20 DEF Next

\* Frames stay due to subscribed peers only.
LEMMA DueStep ==
    ASSUME TypeOK, AudioInv, MapInv, DueInv, Next
    PROVE  DueInv'
<1> USE SenderAssumption DEF TypeOK, MapInv, DueInv, vars, sockVars, peerVars, queueVars, ingVars, streamVars, wireVars
<1>1. ASSUME NEW p \in Peers, Connect(p) PROVE DueInv'
  BY <1>1 DEF Connect
<1>2. ASSUME NEW p \in Peers, HangUp(p) PROVE DueInv'
  BY <1>2 DEF HangUp
<1>3. ASSUME NEW p \in Peers, NEW c \in Commands, Say(p, c) PROVE DueInv'
  BY <1>3 DEF Say
<1>4. CASE PollAccept
  BY <1>4 DEF PollAccept
<1>5. CASE PollPeers
  <2>1. PICK n \in [peers -> 0..MaxCommands] :
          /\ \A p \in peers : n[p] <= Len(inbox[p])
          /\ pst' = [p \in Peers |->
                        IF p \notin peers \/ conn[p] = "hungup" THEN {}
                        ELSE ApplyAll(pst[p], SubSeq(inbox[p], 1, n[p]))]
    BY <1>5 DEF PollPeers
  <2>2. ASSUME NEW p \in Peers, conn[p] = "open", "video" \in pst[p] PROVE "video" \in pst'[p]
    <3>1. p \in peers
      BY <2>2
    <3>2. SubSeq(inbox[p], 1, n[p]) \in Seq(Commands)
      BY <2>1, <3>1, PollFacts
    <3> QED  BY <2>1, <2>2, <3>1, <3>2, ApplyFacts
  <2>3. UNCHANGED <<due, conn, offered>>
    BY <1>5 DEF PollPeers
  <2> QED  BY <2>2, <2>3
<1>6. CASE Recompute
  BY <1>6 DEF Recompute
<1>7. CASE EnableAudioOutput
  BY <1>7 DEF EnableAudioOutput
<1>8. CASE SendVideo
  <2>1. /\ offered' = offered + 1 /\ conn' = conn
        /\ due' = [p \in Peers |-> IF p \in peers /\ "video" \in pst[p] /\ conn[p] = "open"
                                   THEN due[p] \cup {offered + 1} ELSE due[p]]
    BY <1>8 DEF SendVideo
  <2>2. \A p \in Peers : conn[p] = "open" => pst'[p] = pst[p]
    <3>1. CASE depth = 0
      BY <1>8, <3>1, WriteSteps DEF WriteEffect
    <3>2. CASE depth # 0
      BY <1>8, <3>2 DEF SendVideo
    <3> QED  BY <3>1, <3>2
  <2>3. ASSUME NEW p \in Peers, NEW f \in due'[p] PROVE f <= offered'
    BY <2>1
  <2>4. ASSUME NEW p \in Peers, conn[p] \in {"none", "backlog"} PROVE due'[p] = {}
    BY <2>1, <2>4
  <2>5. ASSUME NEW p \in Peers, conn[p] = "open", due'[p] # {} PROVE "video" \in pst'[p]
    BY <2>1, <2>2, <2>5
  <2> QED  BY <2>1, <2>3, <2>4, <2>5
<1>9. CASE SendMetadata
  BY <1>9, WriteSteps DEF SendMetadata, WriteEffect
<1>10. CASE CloseQueues
  BY <1>10 DEF CloseQueues
<1>11. CASE ClosePeers
  BY <1>11 DEF ClosePeers, DropPeers
<1>12. CASE DropAll
  BY <1>12 DEF DropAll
<1>13. ASSUME NEW i \in Ingress, IngressCheck(i) PROVE DueInv'
  BY <1>13 DEF IngressCheck
<1>14. ASSUME NEW i \in Ingress, IngressStamp(i) PROVE DueInv'
  BY <1>14 DEF IngressStamp
<1>15. ASSUME NEW i \in Ingress, IngressSend(i) PROVE DueInv'
  BY <1>15, WriteSteps DEF IngressSend, WriteEffect
<1>16. CASE VideoTake
  BY <1>16 DEF VideoTake
<1>17. CASE VideoWrite
  BY <1>17, WriteSteps DEF VideoWrite, WriteEffect
<1>18. CASE AudioTake
  BY <1>18 DEF AudioTake
<1>19. CASE AudioWrite
  BY <1>19, WriteSteps DEF AudioWrite, WriteEffect
<1>20. CASE Finished
  BY <1>20 DEF Finished
<1> QED  BY <1>1, <1>2, <1>3, <1>4, <1>5, <1>6, <1>7, <1>8, <1>9, <1>10,
            <1>11, <1>12, <1>13, <1>14, <1>15, <1>16, <1>17, <1>18, <1>19, <1>20 DEF Next

\* The stream of a peer that got the next frame, or did not: still in order, below
\* the writer, and with everything it had.
LEMMA GrowsBelow ==
    ASSUME NEW s \in Seq(1..MaxVideo), NEW w \in Nat, w + 1 \in 1..MaxVideo,
           \A k \in 1..Len(s) : s[k] <= w, NEW t \in {s, Append(s, w + 1)}
    PROVE  /\ \A k \in 1..Len(t) : t[k] <= w + 1
           /\ Ascending(s) => Ascending(t)
           /\ \A f : (\E k \in DOMAIN s : s[k] = f) => \E k \in DOMAIN t : t[k] = f
           /\ t = Append(s, w + 1) => \E k \in DOMAIN t : t[k] = w + 1
<1>1. /\ Len(s) \in Nat /\ DOMAIN s = 1..Len(s)
      /\ \A k \in 1..Len(s) : s[k] \in Nat /\ s[k] <= w
  BY Bounds
<1>2. CASE t = s
  <2>1. Append(s, w + 1) # s
    BY AppendFacts
  <2>2. \A k \in 1..Len(t) : t[k] <= w + 1
    BY <1>1, <1>2
  <2> QED  BY <1>2, <2>1, <2>2
<1>3. CASE t = Append(s, w + 1)
  <2>1. /\ t \in Seq(1..MaxVideo) /\ Len(t) = Len(s) + 1 /\ t[Len(s) + 1] = w + 1
        /\ \A k \in 1..Len(s) : t[k] = s[k]
    BY <1>3, AppendFacts
  <2>2. DOMAIN t = 1..Len(t)
    BY <2>1
  <2>3. \A k \in 1..Len(t) : k \in 1..Len(s) \/ k = Len(s) + 1
    BY <1>1, <2>1
  <2>4. \A k \in 1..Len(t) : t[k] <= w + 1
    BY <1>1, <2>1, <2>3
  <2>5. ASSUME Ascending(s) PROVE Ascending(t)
    <3> SUFFICES ASSUME NEW i \in 1..Len(t), NEW j \in 1..Len(t), i < j PROVE t[i] < t[j]
      BY <2>2 DEF Ascending
    <3>1. i \in 1..Len(s)
      BY <1>1, <2>1
    <3>2. CASE j \in 1..Len(s)
      BY <1>1, <2>1, <2>5, <3>1, <3>2 DEF Ascending
    <3>3. CASE j = Len(s) + 1
      BY <1>1, <2>1, <3>1, <3>3
    <3> QED  BY <2>3, <3>2, <3>3
  <2>6. \A k \in DOMAIN s : k \in DOMAIN t /\ t[k] = s[k]
    BY <1>1, <2>1, <2>2
  <2>7. Len(s) + 1 \in DOMAIN t
    BY <1>1, <2>1, <2>2
  <2> QED  BY <2>1, <2>4, <2>5, <2>6, <2>7
<1> QED  BY <1>2, <1>3

\* All streams at once.
LEMMA BelowAll ==
    ASSUME TypeOK, GotInv, written + 1 \in 1..MaxVideo, written' = written + 1,
           \A p \in Peers : gotV'[p] \in {gotV[p], Append(gotV[p], written + 1)}
    PROVE  GotInv'
<1> SUFFICES ASSUME NEW p \in Peers PROVE \A k \in 1..Len(gotV'[p]) : gotV'[p][k] <= written + 1
  BY DEF GotInv
<1>1. gotV[p] \in Seq(1..MaxVideo) /\ written \in Nat /\ \A k \in 1..Len(gotV[p]) : gotV[p][k] <= written
  BY Bounds DEF TypeOK, GotInv
<1>2. gotV'[p] \in {gotV[p], Append(gotV[p], written + 1)}
  OBVIOUS
<1> QED  BY <1>1, <1>2, GrowsBelow

\* No stream overtakes the writer.
LEMMA GotStep ==
    ASSUME TypeOK, AudioInv, QueueInv, GotInv, Next
    PROVE  GotInv'
<1> USE SenderAssumption DEF TypeOK, QueueInv, InHand, GotInv, vars, sockVars, peerVars, queueVars, ingVars, streamVars, wireVars
<1>1. ASSUME NEW p \in Peers, Connect(p) PROVE GotInv'
  BY <1>1 DEF Connect
<1>2. ASSUME NEW p \in Peers, HangUp(p) PROVE GotInv'
  BY <1>2 DEF HangUp
<1>3. ASSUME NEW p \in Peers, NEW c \in Commands, Say(p, c) PROVE GotInv'
  BY <1>3 DEF Say
<1>4. CASE PollAccept
  BY <1>4 DEF PollAccept
<1>5. CASE PollPeers
  BY <1>5 DEF PollPeers
<1>6. CASE Recompute
  BY <1>6 DEF Recompute
<1>7. CASE EnableAudioOutput
  BY <1>7 DEF EnableAudioOutput
<1>8. CASE SendVideo
  <2>1. CASE depth = 0
    <3>1. offered + 1 \in 1..MaxVideo
      BY <1>8, Bounds DEF SendVideo
    <3>2. written' = offered + 1 /\ \A p \in Peers : gotV'[p] \in {gotV[p], Append(gotV[p], offered + 1)}
      BY <1>8, <2>1, WriteSteps DEF SendVideo, WriteEffect
    <3>3. offered = written
      BY <2>1, LenProperties
    <3> QED  BY <3>1, <3>2, <3>3, BelowAll
  <2>2. CASE depth # 0
    BY <1>8, <2>2 DEF SendVideo
  <2> QED  BY <2>1, <2>2
<1>9. CASE SendMetadata
  BY <1>9, WriteSteps DEF SendMetadata, WriteEffect
<1>10. CASE CloseQueues
  BY <1>10 DEF CloseQueues
<1>11. CASE ClosePeers
  BY <1>11 DEF ClosePeers, DropPeers
<1>12. CASE DropAll
  BY <1>12 DEF DropAll
<1>13. ASSUME NEW i \in Ingress, IngressCheck(i) PROVE GotInv'
  BY <1>13 DEF IngressCheck
<1>14. ASSUME NEW i \in Ingress, IngressStamp(i) PROVE GotInv'
  BY <1>14 DEF IngressStamp
<1>15. ASSUME NEW i \in Ingress, IngressSend(i) PROVE GotInv'
  BY <1>15, WriteSteps DEF IngressSend, WriteEffect
<1>16. CASE VideoTake
  BY <1>16 DEF VideoTake
<1>17. CASE VideoWrite
  <2>1. vw \in 1..MaxVideo /\ vw = written + 1
    BY <1>17, Bounds DEF VideoWrite
  <2>2. written' = vw /\ \A p \in Peers : gotV'[p] \in {gotV[p], Append(gotV[p], vw)}
    BY <1>17, WriteSteps DEF VideoWrite, WriteEffect
  <2> QED  BY <2>1, <2>2, BelowAll
<1>18. CASE AudioTake
  BY <1>18 DEF AudioTake
<1>19. CASE AudioWrite
  BY <1>19, WriteSteps DEF AudioWrite, WriteEffect
<1>20. CASE Finished
  BY <1>20 DEF Finished
<1> QED  BY <1>1, <1>2, <1>3, <1>4, <1>5, <1>6, <1>7, <1>8, <1>9, <1>10,
            <1>11, <1>12, <1>13, <1>14, <1>15, <1>16, <1>17, <1>18, <1>19, <1>20 DEF Next

\* Steps that neither write nor change what is due, and open no stream that has
\* frames due, keep the streams exact.
LEMMA StreamsKept ==
    ASSUME StreamsExact, UNCHANGED <<gotV, written, due, health>>,
           \A p \in Peers : p \in peers' /\ conn'[p] = "open" =>
               due[p] = {} \/ (p \in peers /\ conn[p] = "open")
    PROVE  StreamsExact'
BY DEF StreamsExact

\* A write of another type, or none: the same with the streams' health free to worsen.
LEMMA StreamsWorse ==
    ASSUME StreamsExact, UNCHANGED <<gotV, written, due, conn>>, peers' \subseteq peers,
           \A p \in peers : conn[p] = "open" /\ health'[p] = "good" => health[p] = "good"
    PROVE  StreamsExact'
BY DEF StreamsExact

\* The next video frame is written: every good stream it was due to has it.
LEMMA StreamsGrow ==
    ASSUME TypeOK, StreamsExact, GotInv, DueInv, WriteEffect("video", written + 1),
           written + 1 \in 1..MaxVideo, written' = written + 1, conn' = conn,
           \A p \in Peers : /\ due[p] \subseteq due'[p]
                             /\ \A f \in due'[p] \ due[p] : /\ f = written + 1
                                                            /\ "video" \in pst[p]
    PROVE  StreamsExact'
<1> SUFFICES ASSUME NEW p \in Peers
             PROVE  /\ Ascending(gotV'[p])
                    /\ p \in peers' /\ conn[p] = "open" /\ health'[p] = "good" =>
                          \A f \in due'[p] : f <= written + 1 =>
                              \E k \in DOMAIN gotV'[p] : gotV'[p][k] = f
  BY DEF StreamsExact
<1>1. /\ gotV[p] \in Seq(1..MaxVideo) /\ written \in Nat /\ due[p] \subseteq 1..MaxVideo
      /\ \A k \in 1..Len(gotV[p]) : gotV[p][k] <= written
  BY Bounds DEF TypeOK, GotInv
<1>2. gotV'[p] \in {gotV[p], Append(gotV[p], written + 1)}
  BY DEF WriteEffect
<1>3. /\ Ascending(gotV'[p])
      /\ \A f : (\E k \in DOMAIN gotV[p] : gotV[p][k] = f) =>
                  \E k \in DOMAIN gotV'[p] : gotV'[p][k] = f
      /\ gotV'[p] = Append(gotV[p], written + 1) =>
              \E k \in DOMAIN gotV'[p] : gotV'[p][k] = written + 1
  <2>1. Ascending(gotV[p])
    BY DEF StreamsExact
  <2> DEFINE old == gotV[p]
             new == gotV'[p]
  <2>2. /\ old \in Seq(1..MaxVideo) /\ written \in Nat /\ written + 1 \in 1..MaxVideo
        /\ \A k \in 1..Len(old) : old[k] <= written
        /\ new \in {old, Append(old, written + 1)} /\ Ascending(old)
    BY <1>1, <1>2, <2>1
  <2> HIDE DEF old, new
  <2>3. Ascending(new)
    BY <2>2, GrowsBelow
  <2>4. \A f : (\E k \in DOMAIN old : old[k] = f) => \E k \in DOMAIN new : new[k] = f
    BY <2>2, GrowsBelow
  <2>5. new = Append(old, written + 1) => \E k \in DOMAIN new : new[k] = written + 1
    BY <2>2, GrowsBelow
  <2> QED  BY <2>3, <2>4, <2>5 DEF old, new
<1>4. ASSUME p \in peers', conn[p] = "open", health'[p] = "good", NEW f \in due'[p],
             f <= written + 1
      PROVE  \E k \in DOMAIN gotV'[p] : gotV'[p][k] = f
  <2>1. /\ p \in peers /\ health[p] = "good"
        /\ "video" \in pst[p] => gotV'[p] = Append(gotV[p], written + 1)
    BY <1>4 DEF WriteEffect
  <2>2. CASE f = written + 1
    <3>1. "video" \in pst[p]
      BY <1>4, <2>2 DEF DueInv
    <3> QED  BY <1>3, <2>1, <2>2, <3>1
  <2>3. CASE f # written + 1
    <3>1. f \in due[p] /\ f <= written
      BY <1>1, <1>4, <2>3
    <3>2. \E k \in DOMAIN gotV[p] : gotV[p][k] = f
      BY <1>4, <2>1, <3>1 DEF StreamsExact
    <3> QED  BY <1>3, <3>2
  <2> QED  BY <2>2, <2>3
<1> QED  BY <1>3, <1>4

\* Every stream stays exact.
LEMMA StreamStep ==
    ASSUME TypeOK, AudioInv, QueueInv, MapInv, DueInv, GotInv, StreamsExact, Next
    PROVE  StreamsExact'
<1> USE SenderAssumption DEF TypeOK, MapInv, DueInv, vars, sockVars, peerVars, queueVars, ingVars, streamVars, wireVars
<1>1. ASSUME NEW p \in Peers, Connect(p) PROVE StreamsExact'
  BY <1>1, StreamsKept DEF Connect
<1>2. ASSUME NEW p \in Peers, HangUp(p) PROVE StreamsExact'
  <2>1. gotV' = [gotV EXCEPT ![p] = <<>>] /\ conn' = [conn EXCEPT ![p] = "hungup"]
        /\ due' = [due EXCEPT ![p] = {}] /\ health' = [health EXCEPT ![p] = "good"]
        /\ UNCHANGED <<peers, written>>
    BY <1>2 DEF HangUp
  <2>2. Ascending(<<>>)
    BY DEF Ascending
  <2>3. \A q \in Peers \ {p} : gotV'[q] = gotV[q] /\ conn'[q] = conn[q] /\ due'[q] = due[q]
                              /\ health'[q] = health[q]
    BY <2>1
  <2>4. gotV'[p] = <<>> /\ conn'[p] = "hungup"
    BY <2>1
  <2> QED  BY <2>1, <2>2, <2>3, <2>4 DEF StreamsExact
<1>3. ASSUME NEW p \in Peers, NEW c \in Commands, Say(p, c) PROVE StreamsExact'
  BY <1>3, StreamsKept DEF Say
<1>4. CASE PollAccept
  BY <1>4, StreamsKept DEF PollAccept
<1>5. CASE PollPeers
  BY <1>5, StreamsKept DEF PollPeers
<1>6. CASE Recompute
  BY <1>6, StreamsKept DEF Recompute
<1>7. CASE EnableAudioOutput
  BY <1>7, StreamsKept DEF EnableAudioOutput
<1>8. CASE SendVideo
  <2>1. CASE depth = 0
    <3>1. WriteEffect("video", offered + 1) /\ written' = offered + 1 /\ conn' = conn
      BY <1>8, <2>1, WriteSteps DEF SendVideo
    <3>2. offered = written /\ offered + 1 \in 1..MaxVideo
      BY <1>8, <2>1, Bounds, LenProperties DEF SendVideo, QueueInv, InHand
    <3>3. \A q \in Peers : /\ due[q] \subseteq due'[q]
                           /\ \A f \in due'[q] \ due[q] : /\ f = offered + 1
                                                          /\ "video" \in pst[q]
      BY <1>8 DEF SendVideo
    <3> QED  BY <3>1, <3>2, <3>3, StreamsGrow
  <2>2. CASE depth # 0
    <3>1. /\ UNCHANGED <<gotV, written, health, peers, conn>> /\ written < offered + 1
          /\ \A q \in Peers : \A f \in due'[q] : f \in due[q] \/ f = offered + 1
      BY <1>8, <2>2, Bounds, LenProperties DEF SendVideo, QueueInv, InHand
    <3>2. offered \in Nat /\ written \in Nat
      BY Bounds
    <3>3. ASSUME NEW q \in Peers, NEW f \in due'[q], f <= written PROVE f \in due[q]
      BY <3>1, <3>2, <3>3
    <3> QED  BY <3>1, <3>3 DEF StreamsExact
  <2> QED  BY <2>1, <2>2
<1>9. CASE SendMetadata
  <2>1. WriteEffect("metadata", 0) /\ UNCHANGED <<written, due, conn>>
    BY <1>9, WriteSteps DEF SendMetadata
  <2> QED  BY <2>1, StreamsWorse DEF WriteEffect
<1>10. CASE CloseQueues
  BY <1>10, StreamsKept DEF CloseQueues
<1>11. CASE ClosePeers
  BY <1>11, StreamsKept DEF ClosePeers, DropPeers
<1>12. CASE DropAll
  BY <1>12, StreamsKept DEF DropAll
<1>13. ASSUME NEW i \in Ingress, IngressCheck(i) PROVE StreamsExact'
  BY <1>13, StreamsKept DEF IngressCheck
<1>14. ASSUME NEW i \in Ingress, IngressStamp(i) PROVE StreamsExact'
  BY <1>14, StreamsKept DEF IngressStamp
<1>15. ASSUME NEW i \in Ingress, IngressSend(i) PROVE StreamsExact'
  <2>1. UNCHANGED <<written, due, conn>>
    BY <1>15 DEF IngressSend
  <2>2. CASE depth = 0
    <3>1. WriteEffect("audio", stamp[i])
      BY <1>15, <2>2, WriteSteps
    <3> QED  BY <2>1, <3>1, StreamsWorse DEF WriteEffect
  <2>3. CASE depth # 0
    BY <1>15, <2>3, StreamsKept DEF IngressSend
  <2> QED  BY <2>2, <2>3
<1>16. CASE VideoTake
  BY <1>16, StreamsKept DEF VideoTake
<1>17. CASE VideoWrite
  <2>1. vw = written + 1 /\ vw \in 1..MaxVideo
    BY <1>17, Bounds DEF VideoWrite, QueueInv
  <2>2. WriteEffect("video", written + 1) /\ written' = written + 1 /\ UNCHANGED <<conn, due>>
    BY <1>17, <2>1, WriteSteps DEF VideoWrite
  <2> QED  BY <2>1, <2>2, StreamsGrow
<1>18. CASE AudioTake
  BY <1>18, StreamsKept DEF AudioTake
<1>19. CASE AudioWrite
  <2>1. WriteEffect("audio", aw) /\ UNCHANGED <<written, due, conn>>
    BY <1>19, WriteSteps DEF AudioWrite
  <2> QED  BY <2>1, StreamsWorse DEF WriteEffect
<1>20. CASE Finished
  BY <1>20, StreamsKept DEF Finished
<1> QED  BY <1>1, <1>2, <1>3, <1>4, <1>5, <1>6, <1>7, <1>8, <1>9, <1>10,
            <1>11, <1>12, <1>13, <1>14, <1>15, <1>16, <1>17, <1>18, <1>19, <1>20 DEF Next

-----------------------------------------------------------------------------
\* The initial states satisfy the invariant.
LEMMA InitIInv == Init => IInv
<1> SUFFICES ASSUME Init PROVE IInv
  OBVIOUS
<1>1. vq = <<>> /\ aq = <<>> /\ Len(vq) = 0 /\ Len(aq) = 0 /\ depth \in Nat
  BY Bounds DEF Init
<1>2. Cardinality({i \in Ingress : ing[i] = "pass"}) = 0
  <2>1. {i \in Ingress : ing[i] = "pass"} = {}
    BY DEF Init
  <2> QED  BY <2>1, FS_EmptySet
<1>3. TypeOK
  <2>1. /\ vq \in Seq(1..MaxVideo) /\ aq \in Seq(1..MaxAudio)
        /\ gotV \in [Peers -> Seq(1..MaxVideo)] /\ gotA \in [Peers -> Seq(1..MaxAudio)]
        /\ inbox \in [Peers -> Seq(Commands)]
    BY DEF Init
  <2>2. /\ said \in [Peers -> 0..MaxCommands] /\ stamp \in [Ingress -> 0..MaxAudio]
        /\ vw \in 0..MaxVideo /\ aw \in 0..MaxAudio /\ clock \in 0..MaxAudio
        /\ offered \in 0..MaxVideo /\ written \in 0..MaxVideo
    BY Bounds DEF Init
  <2>3. /\ Len(vq) <= depth /\ Len(aq) <= depth
    BY <1>1
  <2>4. /\ depth \in Depths /\ user = "idle"
        /\ conn \in [Peers -> {"none", "backlog", "open", "hungup"}]
        /\ peers \subseteq Peers /\ pst \in [Peers -> SUBSET Flags] /\ subscribed \subseteq Flags
        /\ \A p \in Peers \ peers : pst[p] = {}
        /\ enabled \in BOOLEAN /\ vopen \in BOOLEAN /\ aopen \in BOOLEAN
        /\ ing \in [Ingress -> {"idle", "pass", "stamped"}]
        /\ due \in [Peers -> SUBSET (1..MaxVideo)]
        /\ health \in [Peers -> {"good", "late", "cut", "lost"}]
    BY DEF Init
  <2> QED  BY <2>1, <2>2, <2>3, <2>4 DEF TypeOK
<1>4. QueueInv
  BY <1>1 DEF Init, QueueInv, InHand
<1>5. AudioInv
  BY <1>2, Bounds DEF Init, AudioInv
<1>6. MapInv /\ SubscribersServed /\ DueInv
  BY DEF Init, MapInv, SubscribersServed, DueInv
<1>7. GotInv /\ StreamsExact
  <2>1. \A p \in Peers : gotV[p] = <<>> /\ due[p] = {}
    BY DEF Init
  <2> QED  BY <2>1 DEF GotInv, StreamsExact, Ascending
<1> QED  BY <1>3, <1>4, <1>5, <1>6, <1>7 DEF IInv

\* Every step, and every stutter, preserves it.
LEMMA NextIInv == IInv /\ [Next]_vars => IInv'
<1> SUFFICES ASSUME IInv, [Next]_vars PROVE IInv'
  OBVIOUS
<1>1. CASE Next
  BY <1>1, TypeStep, QueueStep, AudioStep, MapStep, ServedStep, DueStep, GotStep, StreamStep
     DEF IInv
<1>2. CASE UNCHANGED vars
  <2>1. TypeOK' /\ QueueInv' /\ AudioInv'
    BY <1>2 DEF IInv, vars, TypeOK, QueueInv, InHand, AudioInv
  <2>2. MapInv' /\ SubscribersServed' /\ DueInv' /\ GotInv' /\ StreamsExact'
    BY <1>2 DEF IInv, vars, MapInv, SubscribersServed, DueInv, GotInv, StreamsExact
  <2> QED  BY <2>1, <2>2 DEF IInv
<1> QED  BY <1>1, <1>2

\* IInv is an invariant of the sender.
THEOREM SenderInvariant == Spec => []IInv
BY InitIInv, NextIInv, PTL DEF Spec

\* Types: no queue grows beyond send_queue_depth, and the state of a peer goes with
\* the peer.
THEOREM TypeCorrect == Spec => []TypeOK
<1>1. IInv => TypeOK  BY DEF IInv
<1> QED  BY <1>1, SenderInvariant, PTL

\* Between calls the aggregate the application reads covers every peer in the map.
THEOREM NoSubscriberStarves == Spec => []SubscribersServed
<1>1. IInv => SubscribersServed  BY DEF IInv
<1> QED  BY <1>1, SenderInvariant, PTL

\* Every stream has the video frames in order and none twice, and a healthy
\* subscriber has each one that was accepted for it and written since.
THEOREM StreamsAreExact == Spec => []StreamsExact
<1>1. IInv => StreamsExact  BY DEF IInv
<1> QED  BY <1>1, SenderInvariant, PTL

\* After close nothing more reaches a peer: the map is empty, so a writer or an
\* ingress that still holds a frame has nobody to write it to, and no receiver is
\* left to hang up.
THEOREM ClosedIsQuiet == Spec => QuietAfterClose
<1>1. ASSUME IInv, [Next]_vars, user \in {"closed", "dropped"} PROVE UNCHANGED <<gotV, gotA>>
  <2>1. peers = {} /\ \A p \in Peers : conn[p] # "open"
    BY <1>1 DEF IInv, MapInv
  <2>2. TypeOK /\ AudioInv
    BY <1>1 DEF IInv
  <2>3. ASSUME NEW type, NEW f, WriteEffect(type, f) PROVE UNCHANGED <<gotV, gotA>>
    BY <2>1, <2>3 DEF WriteEffect
  <2>4. CASE VideoWrite \/ AudioWrite \/ \E i \in Ingress : IngressSend(i) /\ depth = 0
    BY <2>2, <2>3, <2>4, WriteSteps
  <2>5. ASSUME NEW i \in Ingress, IngressSend(i), depth # 0 PROVE UNCHANGED <<gotV, gotA>>
    BY <2>5 DEF IngressSend, streamVars
  <2>6. ASSUME NEW p \in Peers, HangUp(p) PROVE FALSE
    BY <2>1, <2>6 DEF HangUp
  <2>7. CASE PollAccept \/ PollPeers \/ Recompute \/ EnableAudioOutput \/ SendVideo \/ SendMetadata
             \/ CloseQueues \/ ClosePeers
    BY <1>1, <2>7 DEF PollAccept, PollPeers, Recompute, EnableAudioOutput, SendVideo, SendMetadata,
       CloseQueues, ClosePeers
  <2>8. CASE \E p \in Peers : Connect(p) \/ \E c \in Commands : Say(p, c)
    BY <2>8 DEF Connect, Say, wireVars, streamVars
  <2>9. CASE DropAll \/ (\E i \in Ingress : IngressCheck(i) \/ IngressStamp(i)) \/ VideoTake \/ AudioTake
    BY <2>9 DEF DropAll, IngressCheck, IngressStamp, VideoTake, AudioTake, wireVars, streamVars
  <2>10. CASE Finished \/ UNCHANGED vars
    BY <2>10 DEF Finished, vars
  <2> QED  BY <1>1, <2>4, <2>5, <2>6, <2>7, <2>8, <2>9, <2>10 DEF Next
<1> QED  BY <1>1, SenderInvariant, PTL DEF Spec, QuietAfterClose
=============================================================================
