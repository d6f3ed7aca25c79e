------------------------------- MODULE Sender --------------------------------
(***************************************************************************)
(* The sending side (send.rs): the application's thread that owns the      *)
(* Sender (poll_accept, poll_peer_metadata, send_video, send_metadata,     *)
(* close), the AudioIngress handles other threads use, the two writer      *)
(* threads behind bounded queues, and the peers' sockets.                  *)
(*                                                                         *)
(* Everything done under the peers mutex is one step: a writer holds it    *)
(* for all peers of one frame.  A video frame is its number, an audio      *)
(* frame the timestamp the shared clock gave it.  A PeerState is the set   *)
(* of its flags that are true; the suggested quality is left out.          *)
(***************************************************************************)
EXTENDS Naturals, Sequences, FiniteSets

CONSTANTS Peers,      \* connections receivers may open
          SlowPeers,  \* those whose socket buffer may fill up
          Ingress,    \* threads that hold an AudioIngress
          Commands,   \* control messages the receivers use
          Depths,     \* values of SenderConfig.send_queue_depth
          MaxVideo, MaxAudio,  \* bounds: frames of each type
          MaxCommands          \* bound: control messages per peer

Flags == {"video", "audio", "metadata", "preview", "tallyPreview", "tallyProgram"}

Subscriptions == {"video", "audio", "metadata"}

\* A control message (OMTSubscribe, OMTSettings, OMTTally, or an OMTGroup of them)
\* is the flags it turns on and off; any other message, and one that does not
\* parse, has neither.  No message withdraws a subscription.  Bytes that are not
\* framed have a header ingest_peer_bytes refuses, or exceed PEER_INBOUND_CAP.
ControlMessage ==
    [on : SUBSET Flags, off : SUBSET (Flags \ Subscriptions), framed : BOOLEAN]

ASSUME SenderAssumption ==
    /\ SlowPeers \subseteq Peers
    /\ Commands \subseteq ControlMessage
    /\ IsFiniteSet(Ingress)
    /\ Depths \cup {MaxVideo, MaxAudio, MaxCommands} \subseteq Nat

VARIABLES depth,      \* SenderConfig.send_queue_depth
          user,       \* the thread that owns the Sender
          conn,       \* conn[p]: the connection, seen from the receiver
          inbox,      \* inbox[p]: commands in the socket, not read yet
          said,       \* said[p]: commands p has sent
          peers,      \* keys of the peer map
          pst,        \* pst[p]: PeerState
          subscribed, \* Sender.subscribed
          enabled,    \* AudioShare.enabled
          vq, vopen, vw,  \* video queue, its sending end, the frame its writer holds
          aq, aopen, aw,  \* audio queue, its sending ends, the frame its writer holds
          ing,        \* ing[i]: the thread with AudioIngress i
          stamp,      \* stamp[i]: the timestamp of the frame it sends
          clock,      \* AudioShare.clock: last timestamp given
          offered,    \* history: video frames accepted by the queue
          written,    \* history: the last of them the writer has finished with
          due,        \* history: due[p], frames offered while p was subscribed
          gotV, gotA, \* history: whole frames on p's stream, in order
          health      \* history: what slow reads have done to p's stream

sockVars  == <<conn, inbox, said>>
peerVars  == <<peers, pst>>
queueVars == <<depth, vq, vopen, vw, aq, aopen, aw>>
ingVars   == <<ing, stamp, clock>>
streamVars == <<gotV, gotA, health>>
wireVars  == <<due, streamVars>>
vars == <<depth, user, conn, inbox, said, peers, pst, subscribed, enabled, vq, vopen, vw, aq,
          aopen, aw, ing, stamp, clock, offered, written, due, gotV, gotA, health>>

Init ==
    /\ depth \in Depths
    /\ user = "idle"
    /\ conn = [p \in Peers |-> "none"] /\ inbox = [p \in Peers |-> <<>>]
    /\ said = [p \in Peers |-> 0]
    /\ peers = {} /\ pst = [p \in Peers |-> {}]
    /\ subscribed = {} /\ enabled = FALSE
    /\ vq = <<>> /\ vopen = TRUE /\ vw = 0
    /\ aq = <<>> /\ aopen = TRUE /\ aw = 0
    /\ ing = [i \in Ingress |-> "idle"] /\ stamp = [i \in Ingress |-> 0] /\ clock = 0
    /\ offered = 0 /\ written = 0
    /\ due = [p \in Peers |-> {}]
    /\ gotV = [p \in Peers |-> <<>>] /\ gotA = [p \in Peers |-> <<>>]
    /\ health = [p \in Peers |-> "good"]

-----------------------------------------------------------------------------
(* Writing to the peers. *)

\* peer_wants: metadata goes to every peer.
PeerWants(st, type) == type = "metadata" \/ type \in st

\* What a write to p may come to.  A peer that hung up may still look writable;
\* a peer that does not read makes write_all time out, before the first byte or
\* in the middle of the frame.
Outcomes(p) ==
    IF conn[p] = "hungup" THEN {"ok", "error"}
    ELSE IF p \in SlowPeers THEN {"ok", "late", "cut"} ELSE {"ok"}

\* Mutant of Reached: the loop over the peers ends at the first dead one.
MutStopAtError(out) ==
    IF \E p \in DOMAIN out : out[p] = "error" THEN {} ELSE {p \in DOMAIN out : out[p] = "ok"}

\* The peers a frame is written to completely.
Reached(out) == {p \in DOMAIN out : out[p] = "ok"}

\* The stream after one more write: half a frame stays half a frame, and what
\* follows it is lost on the receiver.
Worse(h, o) ==
    CASE h \in {"cut", "lost"} -> IF o = "late" THEN h ELSE "lost"
      [] o = "cut"             -> "cut"
      [] o = "late"            -> "late"
      [] OTHER                 -> h

\* Mutant of DropPeers: the state of a removed peer survives.
MutForgetOnlyKey(dead) == peers' = peers \ dead /\ UNCHANGED pst

\* Removing peers from the map drops their state with them.
DropPeers(dead) ==
    /\ peers' = peers \ dead
    /\ pst' = [p \in Peers |-> IF p \in dead THEN {} ELSE pst[p]]

\* write_peers: time-outs keep the peer, other errors remove it.
WritePeers(type, f) ==
    LET targets == {p \in peers : PeerWants(pst[p], type)} IN
    \E out \in [targets -> {"ok", "late", "cut", "error"}] :
        LET dead == {p \in targets : out[p] = "error"}
            whole == {p \in Reached(out) : health[p] \in {"good", "late"} /\ conn[p] = "open"}
        IN  /\ \A p \in targets : out[p] \in Outcomes(p)
            /\ DropPeers(dead)
            /\ gotV' = [p \in Peers |-> IF type = "video" /\ p \in whole
                                        THEN Append(gotV[p], f) ELSE gotV[p]]
            /\ gotA' = [p \in Peers |-> IF type = "audio" /\ p \in whole
                                        THEN Append(gotA[p], f) ELSE gotA[p]]
            /\ health' = [p \in Peers |-> IF p \in targets /\ conn[p] = "open"
                                          THEN Worse(health[p], out[p]) ELSE health[p]]

-----------------------------------------------------------------------------
(* The receivers' sockets. *)

Connect(p) ==
    /\ vopen /\ conn[p] = "none"
    /\ conn' = [conn EXCEPT ![p] = "backlog"]
    /\ UNCHANGED <<user, inbox, said, peerVars, subscribed, enabled, queueVars, ingVars,
                   offered, written, wireVars>>

Say(p, c) ==
    /\ conn[p] \in {"backlog", "open"} /\ said[p] < MaxCommands
    /\ said' = [said EXCEPT ![p] = @ + 1]
    /\ inbox' = [inbox EXCEPT ![p] = Append(@, c)]
    /\ UNCHANGED <<user, conn, peerVars, subscribed, enabled, queueVars, ingVars, offered,
                   written, wireVars>>

\* The receiver closes: linger zero makes it a reset, and unread data is lost.
\* Its side of the story ends here.
HangUp(p) ==
    /\ conn[p] = "open"
    /\ conn' = [conn EXCEPT ![p] = "hungup"]
    /\ inbox' = [inbox EXCEPT ![p] = <<>>]
    /\ said' = [said EXCEPT ![p] = 0]
    /\ due' = [due EXCEPT ![p] = {}]
    /\ gotV' = [gotV EXCEPT ![p] = <<>>] /\ gotA' = [gotA EXCEPT ![p] = <<>>]
    /\ health' = [health EXCEPT ![p] = "good"]
    /\ UNCHANGED <<user, peerVars, subscribed, enabled, queueVars, ingVars, offered, written>>

-----------------------------------------------------------------------------
(* The application's thread. *)

\* poll_accept drains the backlog; the OMTInfo that add_peer writes changes
\* no state here.  When accept or add_peer fails, the streams that are not yet
\* in the map are dropped, and with them their connections.
PollAccept ==
    /\ user = "idle"
    /\ LET new == {p \in Peers : conn[p] = "backlog"} IN
       /\ new # {}
       /\ \E added \in SUBSET new :
             /\ conn' = [p \in Peers |-> IF p \in added THEN "open"
                                        ELSE IF p \in new THEN "hungup" ELSE conn[p]]
             /\ peers' = peers \cup added
    /\ UNCHANGED <<user, inbox, said, pst, subscribed, enabled, queueVars, ingVars, offered,
                   written, due, gotV, gotA, health>>

\* apply_metadata.
ApplyMetadata(st, c) == (st \ c.off) \cup c.on

\* The messages of one read that ingest_peer_bytes gets to: what is not framed is
\* thrown away with everything behind it.
Framed(s) == {k \in DOMAIN s : \A j \in 1..k : s[j].framed}

\* The loop over them.  Written without the loop: a flag is up at the end if it
\* was up before or some message raised it, and no message after that lowered it.
ApplyAll(st, s) ==
    {x \in Flags : \E k \in {0} \cup Framed(s) :
                      /\ IF k = 0 THEN x \in st ELSE x \in s[k].on
                      /\ \A j \in Framed(s) : j > k => x \notin s[j].off}

\* poll_peer_metadata under the lock: one read per peer, which may get any number
\* of the messages on their way, and the dead peers are dropped.
PollPeers ==
    /\ user = "idle"
    /\ \E n \in [peers -> 0..MaxCommands] :
          /\ \A p \in peers : n[p] <= Len(inbox[p])
          /\ pst' = [p \in Peers |->
                        IF p \notin peers \/ conn[p] = "hungup" THEN {}
                        ELSE ApplyAll(pst[p], SubSeq(inbox[p], 1, n[p]))]
          /\ inbox' = [p \in Peers |->
                          IF p \in peers THEN SubSeq(inbox[p], n[p] + 1, Len(inbox[p])) ELSE inbox[p]]
    /\ peers' = {p \in peers : conn[p] # "hungup"}
    /\ user' = "recompute"
    /\ UNCHANGED <<conn, said, subscribed, enabled, queueVars, ingVars, offered, written,
                   wireVars>>

\* recompute_subscriptions, under the lock again: the union of the peers' flags.
Recompute ==
    /\ user = "recompute"
    /\ subscribed' = UNION {pst[p] : p \in peers}
    /\ enabled' = ("audio" \in subscribed')
    /\ user' = "idle"
    /\ UNCHANGED <<sockVars, peerVars, queueVars, ingVars, offered, written, wireVars>>

\* The peers enable_audio_output marks: idle sockets, or all if there is none.
ToMark == LET idle == {p \in peers : "video" \notin pst[p]} IN IF idle = {} THEN peers ELSE idle

\* Mutant of EnableAudioOutput: the ingress handles are not told.
MutMarkPeersOnly ==
    /\ user = "idle" /\ peers # {}
    /\ pst' = [p \in Peers |-> IF p \in ToMark THEN pst[p] \cup {"audio"} ELSE pst[p]]
    /\ subscribed' = subscribed \cup {"audio"}
    /\ UNCHANGED <<user, sockVars, peers, enabled, queueVars, ingVars, offered, written,
                   wireVars>>

EnableAudioOutput ==
    /\ user = "idle" /\ peers # {}
    /\ pst' = [p \in Peers |-> IF p \in ToMark THEN pst[p] \cup {"audio"} ELSE pst[p]]
    /\ subscribed' = subscribed \cup {"audio"}
    /\ enabled' = TRUE
    /\ UNCHANGED <<user, sockVars, peers, queueVars, ingVars, offered, written, wireVars>>

\* A frame accepted by a queue's try_send.
Enqueue(q, f) == Append(q, f)

\* send_video to the queue, or written by the caller when the depth is 0.  A full
\* queue drops the frame: nothing but a statistic changes.
SendVideo ==
    /\ user = "idle" /\ "video" \in subscribed /\ offered < MaxVideo
    /\ depth = 0 \/ Len(vq) < depth
    /\ offered' = offered + 1
    /\ due' = [p \in Peers |-> IF p \in peers /\ "video" \in pst[p] /\ conn[p] = "open"
                               THEN due[p] \cup {offered + 1} ELSE due[p]]
    /\ IF depth = 0
       THEN WritePeers("video", offered + 1) /\ written' = offered + 1 /\ UNCHANGED vq
       ELSE vq' = Enqueue(vq, offered + 1) /\ UNCHANGED <<written, peerVars, streamVars>>
    /\ UNCHANGED <<depth, user, sockVars, subscribed, enabled, vopen, vw, aq, aopen, aw, ingVars>>

\* send_metadata and send_tally: written by the caller.
SendMetadata ==
    /\ user = "idle"
    /\ WritePeers("metadata", 0)
    /\ UNCHANGED <<user, sockVars, subscribed, enabled, queueVars, ingVars, offered, written, due>>

\* Mutant of CloseQueues: the video queue's sending end is kept.
MutKeepQueue ==
    /\ user = "idle"
    /\ enabled' = FALSE
    /\ conn' = [p \in Peers |-> IF conn[p] = "backlog" THEN "none" ELSE conn[p]]
    /\ user' = "closing"
    /\ UNCHANGED <<inbox, said, peerVars, subscribed, queueVars, ingVars, offered, written,
                   wireVars>>

\* close, up to the peers' lock: the listener and the Sender's ends of the queues
\* go and the ingress handles are disabled.  The audio queue stays open through
\* the AudioShare.
CloseQueues ==
    /\ user = "idle"
    /\ vopen' = FALSE
    /\ enabled' = FALSE
    /\ conn' = [p \in Peers |-> IF conn[p] = "backlog" THEN "none" ELSE conn[p]]
    /\ user' = "closing"
    /\ UNCHANGED <<depth, inbox, said, peerVars, subscribed, vq, vw, aq, aopen, aw, ingVars,
                   offered, written, wireVars>>

\* Mutant of ClosePeers: the peers stay in the map.
MutKeepPeers ==
    /\ user = "closing"
    /\ subscribed' = {}
    /\ user' = "closed"
    /\ UNCHANGED <<sockVars, peerVars, enabled, queueVars, ingVars, offered, written, wireVars>>

\* close under the peers' lock: shut every socket down, empty the map.
ClosePeers ==
    /\ user = "closing"
    /\ DropPeers(peers)
    /\ conn' = [p \in Peers |-> IF p \in peers THEN "hungup" ELSE conn[p]]
    /\ subscribed' = {}
    /\ user' = "closed"
    /\ UNCHANGED <<inbox, said, enabled, queueVars, ingVars, offered, written, wireVars>>

\* The Sender and every AudioIngress have been dropped.
DropAll ==
    /\ user = "closed" /\ \A i \in Ingress : ing[i] = "idle"
    /\ aopen' = FALSE
    /\ user' = "dropped"
    /\ UNCHANGED <<depth, sockVars, peerVars, subscribed, enabled, vq, vopen, vw, aq, aw, ingVars,
                   offered, written, wireVars>>

-----------------------------------------------------------------------------
(* AudioIngress::send. *)

IngressCheck(i) ==
    /\ user # "dropped" /\ ing[i] = "idle" /\ enabled
    /\ clock + Cardinality({j \in Ingress : ing[j] = "pass"}) < MaxAudio
    /\ ing' = [ing EXCEPT ![i] = "pass"]
    /\ UNCHANGED <<user, sockVars, peerVars, subscribed, enabled, queueVars, stamp, clock,
                   offered, written, wireVars>>

\* The timestamp, under the clock's mutex.
IngressStamp(i) ==
    /\ ing[i] = "pass"
    /\ clock' = clock + 1
    /\ stamp' = [stamp EXCEPT ![i] = clock + 1]
    /\ ing' = [ing EXCEPT ![i] = "stamped"]
    /\ UNCHANGED <<user, sockVars, peerVars, subscribed, enabled, queueVars, offered, written,
                   wireVars>>

\* enqueue_wire, after the mutex has been released: a full queue drops the frame.
IngressSend(i) ==
    /\ ing[i] = "stamped"
    /\ ing' = [ing EXCEPT ![i] = "idle"]
    /\ stamp' = [stamp EXCEPT ![i] = 0]
    /\ IF depth = 0
       THEN WritePeers("audio", stamp[i]) /\ UNCHANGED aq
       ELSE /\ aq' = IF Len(aq) < depth THEN Enqueue(aq, stamp[i]) ELSE aq
            /\ UNCHANGED <<peerVars, streamVars>>
    /\ UNCHANGED <<depth, user, sockVars, subscribed, enabled, vq, vopen, vw, aopen, aw, clock,
                   offered, written, due>>

-----------------------------------------------------------------------------
(* The writer threads (spawn_typed_writer): recv, then write_peers.  A writer  *)
(* ends when its queue is empty and no sending end is left.                    *)

VideoTake ==
    /\ vw = 0 /\ vq # <<>>
    /\ vw' = Head(vq) /\ vq' = Tail(vq)
    /\ UNCHANGED <<depth, user, sockVars, peerVars, subscribed, enabled, vopen, aq, aopen, aw,
                   ingVars, offered, written, wireVars>>

VideoWrite ==
    /\ vw # 0
    /\ WritePeers("video", vw)
    /\ written' = vw
    /\ vw' = 0
    /\ UNCHANGED <<depth, user, sockVars, subscribed, enabled, vq, vopen, aq, aopen, aw, ingVars,
                   offered, due>>

AudioTake ==
    /\ aw = 0 /\ aq # <<>>
    /\ aw' = Head(aq) /\ aq' = Tail(aq)
    /\ UNCHANGED <<depth, user, sockVars, peerVars, subscribed, enabled, vq, vopen, vw, aopen,
                   ingVars, offered, written, wireVars>>

AudioWrite ==
    /\ aw # 0
    /\ WritePeers("audio", aw)
    /\ aw' = 0
    /\ UNCHANGED <<depth, user, sockVars, subscribed, enabled, vq, vopen, vw, aq, aopen, ingVars,
                   offered, written, due>>

Finished == user = "dropped" /\ UNCHANGED vars

Next ==
    \/ \E p \in Peers : Connect(p) \/ HangUp(p) \/ \E c \in Commands : Say(p, c)
    \/ PollAccept \/ PollPeers \/ Recompute \/ EnableAudioOutput
    \/ SendVideo \/ SendMetadata
    \/ CloseQueues \/ ClosePeers \/ DropAll
    \/ \E i \in Ingress : IngressCheck(i) \/ IngressStamp(i) \/ IngressSend(i)
    \/ VideoTake \/ VideoWrite \/ AudioTake \/ AudioWrite
    \/ Finished

Spec == Init /\ [][Next]_vars

(* The writer threads keep running: a write ends by its time-out.  A call     *)
(* into the Sender or an ingress, once begun, ends.                           *)
Fairness ==
    /\ WF_vars(VideoTake \/ VideoWrite) /\ WF_vars(AudioTake \/ AudioWrite)
    /\ WF_vars(Recompute) /\ WF_vars(ClosePeers)
    /\ \A i \in Ingress : WF_vars(IngressStamp(i) \/ IngressSend(i))
FairSpec == Spec /\ Fairness

-----------------------------------------------------------------------------
\* The queues stay within send_queue_depth, and no state outlives its peer.
TypeOK ==
    /\ depth \in Depths
    /\ user \in {"idle", "recompute", "closing", "closed", "dropped"}
    /\ conn \in [Peers -> {"none", "backlog", "open", "hungup"}]
    /\ inbox \in [Peers -> Seq(Commands)] /\ said \in [Peers -> 0..MaxCommands]
    /\ peers \subseteq Peers /\ pst \in [Peers -> SUBSET Flags] /\ subscribed \subseteq Flags
    /\ \A p \in Peers \ peers : pst[p] = {}
    /\ enabled \in BOOLEAN /\ vopen \in BOOLEAN /\ aopen \in BOOLEAN
    /\ vq \in Seq(1..MaxVideo) /\ vw \in 0..MaxVideo /\ Len(vq) <= depth
    /\ aq \in Seq(1..MaxAudio) /\ aw \in 0..MaxAudio /\ Len(aq) <= depth
    /\ ing \in [Ingress -> {"idle", "pass", "stamped"}]
    /\ stamp \in [Ingress -> 0..MaxAudio] /\ clock \in 0..MaxAudio
    /\ offered \in 0..MaxVideo /\ written \in 0..MaxVideo
    /\ due \in [Peers -> SUBSET (1..MaxVideo)]
    /\ gotV \in [Peers -> Seq(1..MaxVideo)] /\ gotA \in [Peers -> Seq(1..MaxAudio)]
    /\ health \in [Peers -> {"good", "late", "cut", "lost"}]

\* No subscriber starves: whenever the owner is between calls, what any peer in
\* the map has asked for (video, audio, preview, tally) is in the aggregate that
\* send_video, preview() and tally() read, and the AudioIngress handles are
\* enabled if a peer wants audio - although the writers remove peers between
\* the two locks of poll_peer_metadata.
SubscribersServed ==
    user = "idle" => \A p \in peers : /\ pst[p] \subseteq subscribed
                                      /\ "audio" \in pst[p] => enabled

Ascending(s) == \A i, j \in DOMAIN s : i < j => s[i] < s[j]

\* Video frames reach every peer in the order they were sent, none twice, and a healthy
\* subscriber misses nothing: each frame that was accepted while p was subscribed and
\* has been written since is on p's stream, whatever other peers did meanwhile.
StreamsExact ==
    \A p \in Peers :
        /\ Ascending(gotV[p])
        /\ p \in peers /\ conn[p] = "open" /\ health[p] = "good" =>
              \A f \in due[p] : f <= written => \E k \in DOMAIN gotV[p] : gotV[p][k] = f

\* After close no peer receives anything, although the writers may still hold
\* frames and an AudioIngress may be past its check.
QuietAfterClose ==
    [][(user \in {"closed", "dropped"}) => UNCHANGED <<gotV, gotA>>]_vars

\* Both writer threads end once the Sender and all its ingress handles are gone.
WritersEnd ==
    (user = "dropped") ~> (~vopen /\ vq = <<>> /\ vw = 0 /\ ~aopen /\ aq = <<>> /\ aw = 0)

\* "All data is encapsulated into a frame": no stream goes on after half a frame.
StreamsFramed == \A p \in Peers : health[p] # "lost"
=============================================================================
