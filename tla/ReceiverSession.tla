--------------------------- MODULE ReceiverSession ---------------------------
(***************************************************************************)
(* The life of a receiver session (receive.rs): the synchronous first      *)
(* connect, one socket_supervisor thread per media socket with its         *)
(* reconnect loop, the handles disconnect uses to unblock them, and the    *)
(* settings (preview, suggested quality) the application changes at run    *)
(* time and a reconnect with video re-reads.  What a stream asks for       *)
(* depends on the configured frame types.                                  *)
(*                                                                         *)
(* set_preview and set_suggested_quality are the same protocol on two      *)
(* atomics that never meet, so the model has one setting.  Durations are   *)
(* left out: a time-out may come at any moment its step is waiting.  What  *)
(* the frames read from a socket become is in ReceivePipeline.             *)
(***************************************************************************)
EXTENDS Naturals, Sequences

CONSTANTS FrameTypes,  \* the frame_types applications configure, as sets of kinds
          Values,      \* the values of the setting
          MaxSets,     \* bound: changes of the setting
          MaxFailures  \* bound: broken links and refused connects after the first

ASSUME SessionAssumption ==
    /\ FrameTypes \subseteq SUBSET {"video", "audio", "metadata"}
    /\ Values # {} /\ MaxSets \in Nat /\ MaxFailures \in Nat

VARIABLES auto,       \* ReceiverConfig.auto_reconnect
          wants,      \* ReceiverConfig.frame_types, {} for NONE
          user,       \* the application's thread
          stop,       \* Shared.stop
          state,      \* Shared.state
          setting,    \* Shared.preview (or quality)
          outbound,   \* Shared.outbound_meta: settings on their way to the sender
          io,         \* io[r]: Shared.video_io / audio_io holds a handle
          sup,        \* sup[r]: the supervisor thread of socket r
          primed,     \* primed[r]: the first stream has not been used yet
          link,       \* link[r]: the supervisor's stream
          loaded,     \* the setting subscribe_socket has read
          batch,      \* the messages flush_outbound_metadata has taken
          subscribed, \* sender: subscribed[r], the kinds this stream has asked for
          remote,     \* sender: the setting last received on the video stream
          sets,       \* history: changes made
          failures    \* history: failures so far

config   == <<auto, wants>>
userVars == <<config, user, setting, sets>>
peerVars == <<subscribed, remote>>
vars == <<auto, wants, user, stop, state, setting, outbound, io, sup, primed, link, loaded,
          batch, subscribed, remote, sets, failures>>

\* The value of loaded and remote while they hold nothing.
Idle == CHOOSE v \in Values : TRUE

SessionState == {"Connecting", "Connected", "Reconnecting", "Stopping", "Stopped"}
SupStates == {"unborn", "top", "backoff", "connect", "load", "subscribe", "online",
              "install", "head", "flush", "read", "clear", "after", "exited"}
UserStates == {"connect", "push", "idle", "stopping", "shutVideo",
               "shutAudio", "join", "gone", "refused"}

Sockets == {"video", "audio"}
Kinds   == {"video", "audio", "metadata"}

\* want_video, want_audio: the sockets the configuration asks for.  NONE opens
\* the video socket too.
Roles ==
    {r \in Sockets : \/ r \in wants
                     \/ r = "video" /\ ("metadata" \in wants \/ wants = {})}

\* The socket on which frames of kind k come.
Carrier(k) == IF k = "audio" THEN "audio" ELSE "video"

\* send_subscriptions: what a stream asks for.  The metadata subscription goes
\* with video as well as with metadata.
Subscription(r) ==
    {k \in Kinds : /\ Carrier(k) = r
                   /\ k \in wants \/ (k = "metadata" /\ "video" \in wants)}

\* Preview and quality are written with the video subscription only.
TellsSetting(r) == r = "video" /\ "video" \in wants

Init ==
    /\ auto \in BOOLEAN /\ wants \in FrameTypes
    /\ user = "connect" /\ stop = FALSE
    /\ state = "Connecting"
    /\ setting \in Values /\ loaded = Idle /\ remote = Idle
    /\ outbound = <<>> /\ batch = <<>>
    /\ io = [r \in Sockets |-> FALSE]
    /\ sup = [r \in Sockets |-> "unborn"]
    /\ primed = [r \in Sockets |-> FALSE]
    /\ link = [r \in Sockets |-> "none"]
    /\ subscribed = [r \in Sockets |-> {}]
    /\ sets = 0 /\ failures = 0

-----------------------------------------------------------------------------
(* The application. *)

\* connect_with_addresses: each wanted socket is connected and subscribed in
\* turn, video first; the threads start when all have succeeded.
ConnectInitial(r) ==
    /\ user = "connect"
    /\ link[r] = "none" /\ (r = "audio" => "video" \notin Roles \/ link["video"] # "none")
    /\ link' = [link EXCEPT ![r] = "up"]
    /\ subscribed' = [subscribed EXCEPT ![r] = Subscription(r)]
    /\ remote' = IF TellsSetting(r) THEN setting ELSE remote
    /\ UNCHANGED <<config, user, stop, state, setting, outbound, io, sup, primed, loaded,
                   batch, sets, failures>>

\* One of them fails: connect returns the error and drops the streams.
ConnectRefused ==
    /\ user = "connect"
    /\ \E r \in Roles : link[r] = "none"
    /\ user' = "refused"
    /\ link' = [r \in Sockets |-> "none"]
    /\ UNCHANGED <<config, stop, state, setting, outbound, io, sup, primed, loaded, batch,
                   peerVars, sets, failures>>

SpawnThreads ==
    /\ user = "connect"
    /\ \A r \in Roles : link[r] # "none"
    /\ user' = "idle"
    /\ state' = "Connected"
    /\ sup' = [r \in Sockets |-> IF r \in Roles THEN "top" ELSE "unborn"]
    /\ primed' = [r \in Sockets |-> r \in Roles]
    /\ UNCHANGED <<config, stop, setting, outbound, io, link, loaded, batch, peerVars, sets,
                   failures>>

\* set_preview: the atomic first, then the message.
StoreSetting(v) ==
    /\ user = "idle" /\ sets < MaxSets
    /\ setting' = v
    /\ sets' = sets + 1
    /\ user' = "push"
    /\ UNCHANGED <<config, stop, state, outbound, io, sup, primed, link, loaded, batch,
                   peerVars, failures>>

\* Mutant of PushSetting: the change is queued twice.
MutPushTwice ==
    /\ user = "push"
    /\ user' = "idle"
    /\ outbound' = IF "video" \in Roles THEN outbound \o <<setting, setting>> ELSE outbound
    /\ UNCHANGED <<config, stop, state, setting, io, sup, primed, link, loaded, batch,
                   peerVars, sets, failures>>

\* send_metadata, refused when the session has no video socket.
PushSetting ==
    /\ user = "push"
    /\ user' = "idle"
    /\ outbound' = IF "video" \in Roles THEN Append(outbound, setting) ELSE outbound
    /\ UNCHANGED <<config, stop, state, setting, io, sup, primed, link, loaded, batch,
                   peerVars, sets, failures>>

\* disconnect, and drop, one store at a time.
BeginDisconnect ==
    /\ user = "idle"
    /\ state' = "Stopping"
    /\ user' = "stopping"
    /\ UNCHANGED <<config, stop, setting, outbound, io, sup, primed, link, loaded, batch,
                   peerVars, sets, failures>>

RaiseStop ==
    /\ user = "stopping"
    /\ stop' = TRUE
    /\ user' = "shutVideo"
    /\ UNCHANGED <<config, state, setting, outbound, io, sup, primed, link, loaded, batch,
                   peerVars, sets, failures>>

\* shutdown_io takes the two handles one after the other and shuts the streams.
ShutdownIo(r) ==
    /\ user = IF r = "video" THEN "shutVideo" ELSE "shutAudio"
    /\ user' = IF r = "video" THEN "shutAudio" ELSE "join"
    /\ IF io[r]
       THEN /\ io' = [io EXCEPT ![r] = FALSE]
            /\ link' = [link EXCEPT ![r] = "dead"]
       ELSE UNCHANGED <<io, link>>
    /\ UNCHANGED <<config, stop, state, setting, outbound, sup, primed, loaded, batch,
                   peerVars, sets, failures>>

\* Mutant of Join: disconnect does not wait for the threads.
MutDontJoin ==
    /\ user = "join"
    /\ state' = "Stopped"
    /\ user' = "gone"
    /\ UNCHANGED <<config, stop, setting, outbound, io, sup, primed, link, loaded, batch,
                   peerVars, sets, failures>>

Join ==
    /\ user = "join"
    /\ \A r \in Roles : sup[r] = "exited"
    /\ state' = "Stopped"
    /\ user' = "gone"
    /\ UNCHANGED <<config, stop, setting, outbound, io, sup, primed, link, loaded, batch,
                   peerVars, sets, failures>>

-----------------------------------------------------------------------------
(* socket_supervisor. *)

\* Mutant of AfterFailure: auto_reconnect is ignored.
MutGiveUp == "exited"

\* After a failure: try again, or give up when auto_reconnect is off.
AfterFailure == IF auto THEN "top" ELSE "exited"

\* The head of the loop: stop, the primed stream, or a reconnect.
LoopHead(r) ==
    /\ sup[r] = "top"
    /\ IF stop
       THEN /\ sup' = [sup EXCEPT ![r] = "exited"]
            /\ link' = [link EXCEPT ![r] = "none"]
            /\ UNCHANGED <<state, primed>>
       ELSE IF primed[r]
       THEN /\ sup' = [sup EXCEPT ![r] = "online"]
            /\ primed' = [primed EXCEPT ![r] = FALSE]
            /\ UNCHANGED <<state, link>>
       ELSE /\ sup' = [sup EXCEPT ![r] = "backoff"]
            /\ state' = "Reconnecting"
            /\ UNCHANGED <<link, primed>>
    /\ UNCHANGED <<userVars, stop, outbound, io, loaded, batch, peerVars, failures>>

\* interruptible_sleep, then set_state(Connecting).
Backoff(r) ==
    /\ sup[r] = "backoff"
    /\ sup' = [sup EXCEPT ![r] = IF stop THEN "exited" ELSE "connect"]
    /\ state' = IF stop THEN state ELSE "Connecting"
    /\ UNCHANGED <<userVars, stop, outbound, io, primed, link, loaded, batch, peerVars,
                   failures>>

\* Mutant of ConnectOk: a reconnected stream is taken for the primed one.
MutSkipSubscribe(r) ==
    /\ sup[r] = "connect"
    /\ link' = [link EXCEPT ![r] = "up"]
    /\ subscribed' = [subscribed EXCEPT ![r] = {}]
    /\ sup' = [sup EXCEPT ![r] = "online"]
    /\ UNCHANGED <<userVars, stop, state, outbound, io, primed, loaded, batch, remote,
                   failures>>

ConnectOk(r) ==
    /\ sup[r] = "connect"
    /\ link' = [link EXCEPT ![r] = "up"]
    /\ subscribed' = [subscribed EXCEPT ![r] = {}]
    /\ sup' = [sup EXCEPT ![r] = "load"]
    /\ UNCHANGED <<userVars, stop, state, outbound, io, primed, loaded, batch, remote,
                   failures>>

ConnectFails(r) ==
    /\ sup[r] = "connect" /\ failures < MaxFailures
    /\ failures' = failures + 1
    /\ sup' = [sup EXCEPT ![r] = AfterFailure]
    /\ UNCHANGED <<userVars, stop, state, outbound, io, primed, link, loaded, batch,
                   peerVars>>

\* Mutant of LoadSetting: a reconnect sends the default.
MutKeepConfig(r) ==
    /\ sup[r] = "load"
    /\ loaded' = Idle
    /\ sup' = [sup EXCEPT ![r] = "subscribe"]
    /\ UNCHANGED <<userVars, stop, state, outbound, io, primed, link, batch, peerVars,
                   failures>>

\* subscribe_socket reads the live setting ...
LoadSetting(r) ==
    /\ sup[r] = "load"
    /\ loaded' = IF r = "video" THEN setting ELSE loaded
    /\ sup' = [sup EXCEPT ![r] = "subscribe"]
    /\ UNCHANGED <<userVars, stop, state, outbound, io, primed, link, batch, peerVars,
                   failures>>

\* ... and writes the subscription.  On a broken link the writes may fail, or seem
\* to succeed (NONE writes nothing), and then the loss shows at the first read.
Subscribe(r) ==
    /\ sup[r] = "subscribe"
    /\ \/ /\ link[r] = "up"
          /\ subscribed' = [subscribed EXCEPT ![r] = Subscription(r)]
          /\ remote' = IF TellsSetting(r) THEN loaded ELSE remote
          /\ sup' = [sup EXCEPT ![r] = "online"]
          /\ UNCHANGED link
       \/ /\ link[r] = "dead" /\ Subscription(r) # {}
          /\ sup' = [sup EXCEPT ![r] = AfterFailure]
          /\ link' = [link EXCEPT ![r] = "none"]
          /\ UNCHANGED peerVars
       \/ /\ link[r] = "dead"
          /\ sup' = [sup EXCEPT ![r] = "online"]
          /\ UNCHANGED <<link, peerVars>>
    /\ loaded' = IF r = "video" THEN Idle ELSE loaded
    /\ UNCHANGED <<userVars, stop, state, outbound, io, primed, batch, failures>>

Online(r) ==
    /\ sup[r] = "online"
    /\ state' = "Connected"
    /\ sup' = [sup EXCEPT ![r] = "install"]
    /\ UNCHANGED <<userVars, stop, outbound, io, primed, link, loaded, batch, peerVars,
                   failures>>

InstallIo(r) ==
    /\ sup[r] = "install"
    /\ io' = [io EXCEPT ![r] = TRUE]
    /\ sup' = [sup EXCEPT ![r] = "head"]
    /\ UNCHANGED <<userVars, stop, state, outbound, primed, link, loaded, batch, peerVars,
                   failures>>

\* Mutant of ReaderHead: the reader loop does not look at stop.
MutReaderIgnoresStop(r) ==
    /\ sup[r] = "head"
    /\ IF r = "audio"
       THEN /\ sup' = [sup EXCEPT ![r] = "read"]
            /\ UNCHANGED <<outbound, batch>>
       ELSE /\ sup' = [sup EXCEPT ![r] = "flush"]
            /\ batch' = outbound
            /\ outbound' = <<>>
    /\ UNCHANGED <<userVars, stop, state, io, primed, link, loaded, peerVars, failures>>

\* The head of the reader loops; the video reader takes the outbound messages.
ReaderHead(r) ==
    /\ sup[r] = "head"
    /\ IF stop \/ r = "audio"
       THEN /\ sup' = [sup EXCEPT ![r] = IF stop THEN "clear" ELSE "read"]
            /\ UNCHANGED <<outbound, batch>>
       ELSE /\ sup' = [sup EXCEPT ![r] = "flush"]
            /\ batch' = outbound
            /\ outbound' = <<>>
    /\ UNCHANGED <<userVars, stop, state, io, primed, link, loaded, peerVars, failures>>

\* flush_outbound_metadata writes one message.  A write on a broken link may
\* seem to succeed, or fail and take the rest of the batch with it.
FlushOne(r) ==
    /\ sup[r] = "flush" /\ batch # <<>>
    /\ \/ /\ link[r] = "up"
          /\ remote' = Head(batch)
          /\ batch' = Tail(batch)
       \/ /\ link[r] = "dead"
          /\ batch' \in {<<>>, Tail(batch)}
          /\ UNCHANGED remote
    /\ UNCHANGED <<userVars, stop, state, outbound, io, sup, primed, link, loaded,
                   subscribed, failures>>

FlushDone(r) ==
    /\ sup[r] = "flush" /\ batch = <<>>
    /\ sup' = [sup EXCEPT ![r] = "read"]
    /\ UNCHANGED <<userVars, stop, state, outbound, io, primed, link, loaded, batch,
                   peerVars, failures>>

\* A frame or a time-out, and on the video socket a protocol error: go on.  The
\* end of the stream or an error: leave the reader loop.
Read(r) ==
    /\ sup[r] = "read"
    /\ sup' = [sup EXCEPT ![r] = IF link[r] = "up" THEN "head" ELSE "clear"]
    /\ UNCHANGED <<userVars, stop, state, outbound, io, primed, link, loaded, batch,
                   peerVars, failures>>

\* audio_reader_loop leaves on a protocol error too, though the link is up.
AudioProtocolError(r) ==
    /\ r = "audio" /\ sup[r] = "read" /\ link[r] = "up" /\ failures < MaxFailures
    /\ failures' = failures + 1
    /\ sup' = [sup EXCEPT ![r] = "clear"]
    /\ UNCHANGED <<userVars, stop, state, outbound, io, primed, link, loaded, batch,
                   peerVars>>

\* The reader loop has dropped its stream; clear_io drops the handle.  With the
\* stream the sender forgets what it was told on it.
ClearIo(r) ==
    /\ sup[r] = "clear"
    /\ io' = [io EXCEPT ![r] = FALSE]
    /\ link' = [link EXCEPT ![r] = "none"]
    /\ subscribed' = [subscribed EXCEPT ![r] = {}]
    /\ remote' = IF r = "video" THEN Idle ELSE remote
    /\ sup' = [sup EXCEPT ![r] = "after"]
    /\ UNCHANGED <<userVars, stop, state, outbound, primed, loaded, batch, failures>>

AfterClose(r) ==
    /\ sup[r] = "after"
    /\ sup' = [sup EXCEPT ![r] = IF stop THEN "exited" ELSE AfterFailure]
    /\ UNCHANGED <<userVars, stop, state, outbound, io, primed, link, loaded, batch,
                   peerVars, failures>>

-----------------------------------------------------------------------------
\* The network or the sender closes a stream.
LinkDies(r) ==
    /\ link[r] = "up" /\ sup[r] # "unborn" /\ failures < MaxFailures
    /\ link' = [link EXCEPT ![r] = "dead"]
    /\ failures' = failures + 1
    /\ UNCHANGED <<userVars, stop, state, outbound, io, sup, primed, loaded, batch, peerVars>>

Finished ==
    /\ user \in {"gone", "refused"}
    /\ UNCHANGED vars

SupStep(r) ==
    \/ LoopHead(r) \/ Backoff(r) \/ ConnectOk(r) \/ ConnectFails(r)
    \/ LoadSetting(r) \/ Subscribe(r) \/ Online(r) \/ InstallIo(r)
    \/ ReaderHead(r) \/ FlushOne(r) \/ FlushDone(r) \/ Read(r)
    \/ AudioProtocolError(r) \/ ClearIo(r) \/ AfterClose(r)

DisconnectStep == RaiseStop \/ ShutdownIo("video") \/ ShutdownIo("audio") \/ Join

Next ==
    \/ \E r \in Roles : ConnectInitial(r)
    \/ ConnectRefused \/ SpawnThreads
    \/ \E v \in Values : StoreSetting(v)
    \/ PushSetting
    \/ BeginDisconnect \/ DisconnectStep
    \/ \E r \in Roles : SupStep(r)
    \/ \E r \in Roles : LinkDies(r)
    \/ Finished

Spec == Init /\ [][Next]_vars

(* Every thread runs; set_preview and disconnect end once begun.  Nothing   *)
(* makes the application call them, and links fail MaxFailures times.       *)
Fairness ==
    /\ \A r \in Sockets : WF_vars(SupStep(r))
    /\ WF_vars(PushSetting) /\ WF_vars(DisconnectStep)
FairSpec == Spec /\ Fairness

-----------------------------------------------------------------------------
\* Types; outbound_meta holds at most one message per change of the setting.
TypeOK ==
    /\ auto \in BOOLEAN /\ wants \in SUBSET Kinds /\ stop \in BOOLEAN
    /\ user \in UserStates /\ state \in SessionState
    /\ setting \in Values /\ loaded \in Values /\ remote \in Values
    /\ outbound \in Seq(Values) /\ batch \in Seq(Values)
    /\ Len(outbound) + Len(batch) <= sets
    /\ io \in [Sockets -> BOOLEAN] /\ primed \in [Sockets -> BOOLEAN]
    /\ subscribed \in [Sockets -> SUBSET Kinds]
    /\ sup \in [Sockets -> SupStates]
    /\ link \in [Sockets -> {"none", "up", "dead"}]
    /\ sets \in 0..MaxSets /\ failures \in 0..MaxFailures

Reading(r) == sup[r] \in {"head", "flush", "read"}

\* A reader never waits for frames nobody asked for: whatever mix of first
\* connects, reconnects and failed subscriptions led there, the live stream that
\* carries a kind the configuration wants has asked for it when it is read.
\* (NONE asks for nothing: its video socket only carries what the session sends.)
ReadersSubscribed ==
    \A k \in wants : Reading(Carrier(k)) /\ link[Carrier(k)] = "up"
                        => k \in subscribed[Carrier(k)]

\* The sender's setting converges in a session that wants video: when no change
\* is being made, nothing waits in outbound_meta or in a flush, and the video
\* link is up and in its reader loop, the sender holds the value preview() or
\* suggested_quality() returns.  A session without video sends its changes too,
\* but neither the first connect nor a reconnect tells the sender the value.
SettingConverges ==
    (/\ "video" \in wants /\ Reading("video") /\ link["video"] = "up"
     /\ user # "push" /\ outbound = <<>> /\ batch = <<>>)
        => remote = setting

\* "All threads have exited": when the state is Stopped every supervisor has
\* ended, and no handle keeps a socket open.
StoppedIsFinal ==
    state = "Stopped" =>
        /\ \A r \in Roles : sup[r] = "exited"
        /\ \A r \in Sockets : ~io[r] /\ link[r] = "none"

\* disconnect returns: every supervisor notices stop wherever it is, even if it
\* installed its handle after shutdown_io had passed.
DisconnectReturns == stop ~> (user = "gone")

\* With auto_reconnect a session whose links stop failing gets every socket back
\* into its reader loop, and keeps it there until it is told to stop.
Recovers ==
    <>[](~auto \/ user \notin {"idle", "push"} \/ \A r \in Roles : Reading(r))

\* "At least one media socket is active": a session whose supervisors have all
\* given up does not report Connected.
ConnectedMeansActive ==
    (user = "idle" /\ \A r \in Roles : sup[r] = "exited") => state # "Connected"
=============================================================================
