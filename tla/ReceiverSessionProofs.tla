------------------------ MODULE ReceiverSessionProofs ------------------------
(***************************************************************************)
(* The safety invariants of ReceiverSession for any values of the setting, *)
(* any number of changes and failures, and any configured frame types.     *)
(***************************************************************************)
EXTENDS ReceiverSession, SequenceTheorems, TLAPS

\* Where a supervisor owns a stream, and where that stream carries its
\* subscription (after load and subscribe have run, or the first connect).
Streaming  == {"online", "install", "head", "flush", "read", "clear"}
Connecting == {"load", "subscribe"}

\* A live stream has asked for all it is to carry.
Asked(r) == link[r] = "up" => subscribed[r] = Subscription(r)

\* What the position of a supervisor says about its stream, its primed flag and
\* its handle; only the video socket carries outbound messages.
ThreadInv(r) ==
    /\ sup[r] \in Streaming => link[r] # "none" /\ Asked(r)
    /\ sup[r] \in Connecting => link[r] # "none"
    /\ sup[r] \in {"backoff", "connect", "after", "exited"} => link[r] = "none"
    /\ sup[r] = "top" => (link[r] # "none" <=> primed[r])
    /\ sup[r] = "top" /\ primed[r] => Asked(r)
    /\ sup[r] = "unborn" => link[r] # "dead" /\ Asked(r)
    /\ primed[r] => sup[r] \in {"top", "exited"}
    /\ sup[r] = "flush" => r = "video"
    /\ io[r] => sup[r] \in {"head", "flush", "read", "clear"}

\* The application's thread against the supervisors: they exist once connect
\* has succeeded, and only the join at the end stores Stopped.
UserInv ==
    /\ \A r \in Sockets \ Roles : sup[r] = "unborn" /\ link[r] = "none"
    /\ \A r \in Roles : sup[r] = "unborn" <=> user \in {"connect", "refused"}
    /\ user = "gone" => \A r \in Roles : sup[r] = "exited"
    /\ state = "Stopped" => user = "gone"

\* Every message on its way belongs to a change that was made, and the change
\* being made has not queued its message yet.
CountInv ==
    Len(outbound) + Len(batch) + (IF user = "push" THEN 1 ELSE 0) <= sets

\* The value the sender will hold when everything under way has arrived: the
\* youngest queued message, or what subscribe_socket has read and not written,
\* or what the sender has.
Young(s) == s[Len(s)]
VideoCarries ==
    /\ link["video"] = "up"
    /\ \/ sup["video"] \in Streaming
       \/ sup["video"] = "top" /\ primed["video"]
       \/ sup["video"] = "unborn"
SettingInv ==
    "video" \in wants =>
        /\ batch # <<>> => sup["video"] = "flush"
        /\ sup["video"] = "unborn" => outbound = <<>>
        /\ user # "push" =>
            /\ outbound # <<>> => Young(outbound) = setting
            /\ outbound = <<>> /\ batch # <<>> => Young(batch) = setting
            /\ outbound = <<>> /\ sup["video"] = "subscribe" => loaded = setting
            /\ outbound = <<>> /\ batch = <<>> /\ VideoCarries => remote = setting

IInv ==
    /\ TypeOK
    /\ \A r \in Sockets : ThreadInv(r)
    /\ UserInv
    /\ CountInv
    /\ SettingInv

-----------------------------------------------------------------------------
\* The filler of loaded and remote is a value.
LEMMA IdleType == Idle \in Values
BY SessionAssumption DEF Idle

\* The empty sequence, as the start of a new outbound queue.
LEMMA EmptyFacts == <<>> \in Seq(Values) /\ Len(<<>>) = 0
OBVIOUS

\* Taking the oldest message leaves the youngest where it is.
LEMMA TailFacts ==
    ASSUME NEW s \in Seq(Values), s # <<>>
    PROVE  /\ Head(s) \in Values /\ Tail(s) \in Seq(Values) /\ <<>> \in Seq(Values)
           /\ Len(s) \in Nat /\ Len(<<>>) = 0 /\ Len(Tail(s)) + 1 = Len(s)
           /\ Tail(s) # <<>> => Young(Tail(s)) = Young(s)
           /\ Tail(s) = <<>> => Head(s) = Young(s)
<1>1. /\ Tail(s) \in Seq(Values) /\ Len(Tail(s)) = Len(s) - 1 /\ Head(s) = s[1]
      /\ \A i \in 1..Len(Tail(s)) : Tail(s)[i] = s[i + 1]
  BY HeadTailProperties
<1>2. Len(s) \in Nat \ {0} /\ Head(s) \in Values
  OBVIOUS
<1>3. ASSUME Tail(s) # <<>> PROVE Young(Tail(s)) = Young(s)
  <2>1. Len(Tail(s)) \in 1..Len(Tail(s)) /\ Len(Tail(s)) + 1 = Len(s)
    BY <1>1, <1>2, <1>3, EmptySeq
  <2> QED  BY <1>1, <2>1 DEF Young
<1>4. ASSUME Tail(s) = <<>> PROVE Head(s) = Young(s)
  <2>1. Len(s) = 1
    BY <1>1, <1>2, <1>4
  <2> QED  BY <1>1, <2>1 DEF Young
<1> QED  BY <1>1, <1>2, <1>3, <1>4

\* The message queued last is the youngest.
LEMMA AppendFacts ==
    ASSUME NEW s \in Seq(Values), NEW v \in Values
    PROVE  Append(s, v) # <<>> /\ Young(Append(s, v)) = v
BY DEF Young

\* The sockets of the session are among the two there are.
LEMMA RolesFacts ==
    ASSUME TypeOK
    PROVE  /\ Roles \subseteq Sockets /\ Sockets = {"video", "audio"}
           /\ "video" \in wants => "video" \in Roles
           /\ \A r \in Sockets : Subscription(r) \in SUBSET Kinds
BY DEF Roles, Sockets, Subscription

\* No step changes the configuration, and with it the sockets and what they ask for.
LEMMA ConfigKept ==
    ASSUME Next \/ UNCHANGED vars
    PROVE  /\ wants' = wants /\ auto' = auto /\ Roles' = Roles
           /\ \A r \in Sockets : Subscription(r)' = Subscription(r)
<1>1. wants' = wants /\ auto' = auto
  BY DEF Next, DisconnectStep, SupStep, ConnectInitial, ConnectRefused, SpawnThreads,
         StoreSetting, PushSetting, BeginDisconnect, RaiseStop, ShutdownIo, Join, LoopHead,
         Backoff, ConnectOk, ConnectFails, LoadSetting, Subscribe, Online, InstallIo,
         ReaderHead, FlushOne, FlushDone, Read, AudioProtocolError, ClearIo, AfterClose,
         LinkDies, Finished, vars, userVars, config
<1> QED  BY <1>1 DEF Roles, Subscription

\* Every step keeps the types and the count of messages under way.
LEMMA TypeStep ==
    ASSUME TypeOK, CountInv, Next
    PROVE  TypeOK' /\ CountInv'
<1>0. /\ Roles \subseteq Sockets /\ Sockets = {"video", "audio"}
      /\ \A r \in Sockets : Subscription(r) \in SUBSET Kinds
  BY RolesFacts
<1> USE <1>0, SessionAssumption DEF TypeOK, CountInv, SupStates, UserStates, SessionState, vars, userVars, config, peerVars
<1>1. CASE \E r \in Roles : ConnectInitial(r)
  BY <1>1 DEF ConnectInitial
<1>2. CASE ConnectRefused
  BY <1>2 DEF ConnectRefused
<1>3. CASE SpawnThreads
  BY <1>3 DEF SpawnThreads
<1>4. CASE \E v \in Values : StoreSetting(v)
  BY <1>4 DEF StoreSetting
<1>5. CASE PushSetting
  BY <1>5 DEF PushSetting
<1>6. CASE BeginDisconnect
  BY <1>6 DEF BeginDisconnect
<1>7. CASE RaiseStop
  BY <1>7 DEF RaiseStop
<1>8. ASSUME NEW r \in Sockets, ShutdownIo(r)
      PROVE  TypeOK' /\ CountInv'
  <2>1. io' \in [Sockets -> BOOLEAN] /\ link' \in [Sockets -> {"none", "up", "dead"}]
    <3>1. CASE io[r]
      <4>1. io' = [io EXCEPT ![r] = FALSE] /\ link' = [link EXCEPT ![r] = "dead"]
        BY <1>8, <3>1 DEF ShutdownIo
      <4>2. io' \in [Sockets -> BOOLEAN]
        BY <4>1
      <4>3. link' \in [Sockets -> {"none", "up", "dead"}]
        BY <4>1
      <4> QED  BY <4>2, <4>3
    <3>2. CASE ~io[r]
      BY <1>8, <3>2 DEF ShutdownIo
    <3> QED  BY <3>1, <3>2
  <2>2. /\ user' \in {"shutAudio", "join"} /\ user # "push"
        /\ UNCHANGED <<config, stop, state, setting, outbound, sup, primed, loaded, batch,
                       peerVars, sets, failures>>
    BY <1>8 DEF ShutdownIo
  <2> QED  BY <2>1, <2>2
<1>9. CASE Join
  BY <1>9 DEF Join
<1>10. ASSUME NEW r \in Roles, SupStep(r)
       PROVE  TypeOK' /\ CountInv'
  <2>1. CASE LoopHead(r)
    <3>1. primed' \in [Sockets -> BOOLEAN]
      <4>1. primed' = primed \/ primed' = [primed EXCEPT ![r] = FALSE]
        BY <2>1, Zenon DEF LoopHead
      <4> QED  BY <4>1
    <3>4. sup' \in [Sockets -> SupStates]
      BY <2>1 DEF LoopHead
    <3>3. link' \in [Sockets -> {"none", "up", "dead"}] /\ state' \in SessionState
      BY <2>1 DEF LoopHead
    <3>2. UNCHANGED <<userVars, stop, outbound, io, loaded, batch, peerVars, failures>>
      BY <2>1 DEF LoopHead
    <3> QED  BY <3>1, <3>2, <3>3, <3>4
  <2>2. CASE Backoff(r)
    BY <2>2 DEF Backoff
  <2>3. CASE ConnectOk(r)
    BY <2>3 DEF ConnectOk
  <2>4. CASE ConnectFails(r)
    BY <2>4 DEF ConnectFails, AfterFailure
  <2>5. CASE LoadSetting(r)
    BY <2>5 DEF LoadSetting
  <2>6. CASE Subscribe(r)
    BY <2>6, IdleType DEF Subscribe, AfterFailure
  <2>7. CASE Online(r)
    BY <2>7 DEF Online
  <2>8. CASE InstallIo(r)
    BY <2>8 DEF InstallIo
  <2>9. CASE ReaderHead(r)
    <3>1. /\ batch' \in Seq(Values) /\ outbound' \in Seq(Values)
          /\ Len(outbound') + Len(batch') <= Len(outbound) + Len(batch)
      <4>1. CASE UNCHANGED <<outbound, batch>>
        BY <4>1, LenProperties
      <4>2. CASE batch' = outbound /\ outbound' = <<>>
        <5>1. outbound' \in Seq(Values) /\ Len(outbound') = 0
          BY <4>2, EmptyFacts, Zenon
        <5> QED  BY <4>2, <5>1, LenProperties
      <4> QED  BY <2>9, <4>1, <4>2 DEF ReaderHead
    <3>2. sup' \in [Sockets -> SupStates]
      BY <2>9 DEF ReaderHead
    <3>3. UNCHANGED <<auto, wants, user, stop, state, setting, loaded, remote, io, primed, subscribed,
                      link, sets, failures>>
      BY <2>9 DEF ReaderHead
    <3> QED  BY <3>1, <3>2, <3>3, LenProperties
  <2>10. CASE FlushOne(r)
    <3>1. batch' \in Seq(Values) /\ Len(batch') <= Len(batch) /\ remote' \in Values
      <4>1. batch # <<>> /\ (remote' = remote \/ remote' = Head(batch))
            /\ (batch' = Tail(batch) \/ batch' = <<>>)
        BY <2>10 DEF FlushOne
      <4>2. CASE batch' = Tail(batch)
        BY <4>1, <4>2, TailFacts
      <4>3. CASE batch' = <<>>
        <5>1. batch' \in Seq(Values) /\ Len(batch') = 0
          BY <4>3, EmptyFacts, Zenon
        <5> QED  BY <4>1, <5>1, TailFacts
      <4> QED  BY <4>1, <4>2, <4>3
    <3>2. UNCHANGED <<auto, wants, user, stop, state, setting, outbound, loaded, io, sup, primed,
                      subscribed, link, sets, failures>>
      BY <2>10 DEF FlushOne
    <3> QED  BY <3>1, <3>2, LenProperties
  <2>11. CASE FlushDone(r)
    BY <2>11 DEF FlushDone
  <2>12. CASE Read(r) \/ AudioProtocolError(r)
    BY <2>12 DEF Read, AudioProtocolError
  <2>13. CASE ClearIo(r)
    BY <2>13, IdleType DEF ClearIo
  <2>14. CASE AfterClose(r)
    BY <2>14 DEF AfterClose, AfterFailure
  <2> QED  BY <1>10, <2>1, <2>2, <2>3, <2>4, <2>5, <2>6, <2>7, <2>8, <2>9, <2>10, <2>11, <2>12, <2>13, <2>14 DEF SupStep
<1>11. CASE \E r \in Roles : LinkDies(r)
  BY <1>11 DEF LinkDies
<1>12. CASE Finished
  BY <1>12 DEF Finished
<1> QED  BY <1>1, <1>2, <1>3, <1>4, <1>5, <1>6, <1>7, <1>8, <1>9, <1>10, <1>11, <1>12 DEF Next, DisconnectStep

\* Every step keeps what a supervisor's position says about its stream.
LEMMA ThreadStep ==
    ASSUME TypeOK, UserInv, \A q \in Sockets : ThreadInv(q), Next
    PROVE  \A q \in Sockets : ThreadInv(q)'
<1>0. /\ wants' = wants /\ auto' = auto /\ Roles' = Roles
      /\ \A r \in Sockets : Subscription(r)' = Subscription(r)
      /\ Roles \subseteq Sockets /\ Sockets = {"video", "audio"}
      /\ "video" \in wants => "video" \in Roles
  BY ConfigKept, RolesFacts
<1> USE <1>0, SessionAssumption DEF Asked, TypeOK, UserInv, ThreadInv, Streaming, Connecting, vars, userVars, config, peerVars
<1>1. CASE \E r \in Roles : ConnectInitial(r)
  BY <1>1 DEF ConnectInitial
<1>2. CASE ConnectRefused
  BY <1>2 DEF ConnectRefused
<1>3. CASE SpawnThreads
  <2> SUFFICES ASSUME NEW q \in Sockets PROVE ThreadInv(q)'
    OBVIOUS
  <2>1. /\ sup[q] = "unborn" /\ ~io[q] /\ UNCHANGED <<io, link, subscribed>>
        /\ link'[q] # "dead" /\ (link'[q] = "up" => subscribed'[q] = Subscription(q)')
    BY <1>3 DEF SpawnThreads
  <2>2. CASE q \in Roles
    <3>1. sup'[q] = "top" /\ primed'[q] /\ link'[q] # "none"
      BY <1>3, <2>1, <2>2 DEF SpawnThreads
    <3> QED  BY <2>1, <3>1
  <2>3. CASE q \notin Roles
    <3>1. sup'[q] = "unborn" /\ ~primed'[q] /\ link'[q] = "none"
      BY <1>3, <2>1, <2>3 DEF SpawnThreads
    <3> QED  BY <2>1, <3>1
  <2> QED  BY <2>2, <2>3
<1>4. CASE \E v \in Values : StoreSetting(v)
  BY <1>4 DEF StoreSetting
<1>5. CASE PushSetting
  BY <1>5 DEF PushSetting
<1>6. CASE BeginDisconnect
  BY <1>6 DEF BeginDisconnect
<1>7. CASE RaiseStop
  BY <1>7 DEF RaiseStop
<1>8. CASE ShutdownIo("video") \/ ShutdownIo("audio")
  BY <1>8 DEF ShutdownIo
<1>9. CASE Join
  BY <1>9 DEF Join
<1>10. ASSUME NEW r \in Roles, SupStep(r)
       PROVE  \A q \in Sockets : ThreadInv(q)'
  <2>1. CASE LoopHead(r)
    BY <2>1 DEF LoopHead
  <2>2. CASE Backoff(r)
    BY <2>2 DEF Backoff
  <2>3. CASE ConnectOk(r)
    BY <2>3 DEF ConnectOk
  <2>4. CASE ConnectFails(r)
    BY <2>4 DEF ConnectFails, AfterFailure
  <2>5. CASE LoadSetting(r)
    BY <2>5 DEF LoadSetting
  <2>6. CASE Subscribe(r)
    BY <2>6 DEF Subscribe, AfterFailure
  <2>7. CASE Online(r)
    BY <2>7 DEF Online
  <2>8. CASE InstallIo(r)
    BY <2>8 DEF InstallIo
  <2>9. CASE ReaderHead(r)
    BY <2>9 DEF ReaderHead
  <2>10. CASE FlushOne(r)
    BY <2>10 DEF FlushOne
  <2>11. CASE FlushDone(r)
    BY <2>11 DEF FlushDone
  <2>12. CASE Read(r) \/ AudioProtocolError(r)
    BY <2>12 DEF Read, AudioProtocolError
  <2>13. CASE ClearIo(r)
    BY <2>13 DEF ClearIo
  <2>14. CASE AfterClose(r)
    BY <2>14 DEF AfterClose, AfterFailure
  <2> QED  BY <1>10, <2>1, <2>2, <2>3, <2>4, <2>5, <2>6, <2>7, <2>8, <2>9, <2>10, <2>11, <2>12, <2>13, <2>14 DEF SupStep
<1>11. CASE \E r \in Roles : LinkDies(r)
  BY <1>11 DEF LinkDies
<1>12. CASE Finished
  BY <1>12 DEF Finished
<1> QED  BY <1>1, <1>2, <1>3, <1>4, <1>5, <1>6, <1>7, <1>8, <1>9, <1>10, <1>11, <1>12 DEF Next, DisconnectStep

\* Every step keeps the application and its supervisors in step.
LEMMA UserStep ==
    ASSUME TypeOK, UserInv, \A q \in Sockets : ThreadInv(q), Next
    PROVE  UserInv'
<1>0. /\ wants' = wants /\ auto' = auto /\ Roles' = Roles
      /\ \A r \in Sockets : Subscription(r)' = Subscription(r)
      /\ Roles \subseteq Sockets /\ Sockets = {"video", "audio"}
      /\ "video" \in wants => "video" \in Roles
  BY ConfigKept, RolesFacts
<1> USE <1>0, SessionAssumption DEF TypeOK, UserInv, vars, userVars, config, peerVars
<1>1. CASE \E r \in Roles : ConnectInitial(r)
  BY <1>1 DEF ConnectInitial
<1>2. CASE ConnectRefused
  BY <1>2 DEF ConnectRefused
<1>3. CASE SpawnThreads
  BY <1>3 DEF SpawnThreads
<1>4. CASE \E v \in Values : StoreSetting(v)
  BY <1>4 DEF StoreSetting
<1>5. CASE PushSetting
  BY <1>5 DEF PushSetting
<1>6. CASE BeginDisconnect
  BY <1>6 DEF BeginDisconnect
<1>7. CASE RaiseStop
  BY <1>7 DEF RaiseStop
<1>8. CASE ShutdownIo("video") \/ ShutdownIo("audio")
  BY <1>8 DEF ShutdownIo, ThreadInv
<1>9. CASE Join
  BY <1>9 DEF Join
<1>10. ASSUME NEW r \in Roles, SupStep(r)
       PROVE  UserInv'
  <2>1. CASE LoopHead(r)
    BY <2>1 DEF LoopHead
  <2>2. CASE Backoff(r)
    BY <2>2 DEF Backoff
  <2>3. CASE ConnectOk(r)
    BY <2>3 DEF ConnectOk
  <2>4. CASE ConnectFails(r)
    BY <2>4 DEF ConnectFails, AfterFailure
  <2>5. CASE LoadSetting(r)
    BY <2>5 DEF LoadSetting
  <2>6. CASE Subscribe(r)
    BY <2>6 DEF Subscribe, AfterFailure
  <2>7. CASE Online(r)
    BY <2>7 DEF Online
  <2>8. CASE InstallIo(r)
    BY <2>8 DEF InstallIo
  <2>9. CASE ReaderHead(r)
    BY <2>9 DEF ReaderHead
  <2>10. CASE FlushOne(r)
    BY <2>10 DEF FlushOne
  <2>11. CASE FlushDone(r)
    BY <2>11 DEF FlushDone
  <2>12. CASE Read(r) \/ AudioProtocolError(r)
    BY <2>12 DEF Read, AudioProtocolError
  <2>13. CASE ClearIo(r)
    BY <2>13 DEF ClearIo
  <2>14. CASE AfterClose(r)
    BY <2>14 DEF AfterClose, AfterFailure
  <2> QED  BY <1>10, <2>1, <2>2, <2>3, <2>4, <2>5, <2>6, <2>7, <2>8, <2>9, <2>10, <2>11, <2>12, <2>13, <2>14 DEF SupStep
<1>11. CASE \E r \in Roles : LinkDies(r)
  BY <1>11 DEF LinkDies
<1>12. CASE Finished
  BY <1>12 DEF Finished
<1> QED  BY <1>1, <1>2, <1>3, <1>4, <1>5, <1>6, <1>7, <1>8, <1>9, <1>10, <1>11, <1>12 DEF Next, DisconnectStep

\* Every step keeps the value under way to the sender.
LEMMA SettingStep ==
    ASSUME TypeOK, UserInv, \A q \in Sockets : ThreadInv(q), SettingInv, Next
    PROVE  SettingInv'
<1>0. /\ wants' = wants /\ auto' = auto /\ Roles' = Roles
      /\ \A r \in Sockets : Subscription(r)' = Subscription(r)
      /\ Roles \subseteq Sockets /\ Sockets = {"video", "audio"}
      /\ "video" \in wants => "video" \in Roles
  BY ConfigKept, RolesFacts
<1> USE <1>0, SessionAssumption DEF Asked, TypeOK, UserInv, ThreadInv, SettingInv, VideoCarries, Streaming, Connecting, vars, userVars, config, peerVars
<1>1. CASE \E r \in Roles : ConnectInitial(r)
  BY <1>1 DEF ConnectInitial, TellsSetting
<1>2. CASE ConnectRefused
  BY <1>2 DEF ConnectRefused
<1>3. CASE SpawnThreads
  BY <1>3 DEF SpawnThreads
<1>4. CASE \E v \in Values : StoreSetting(v)
  BY <1>4 DEF StoreSetting
<1>5. CASE PushSetting
  BY <1>5, AppendFacts DEF PushSetting
<1>6. CASE BeginDisconnect
  BY <1>6 DEF BeginDisconnect
<1>7. CASE RaiseStop
  BY <1>7 DEF RaiseStop
<1>8. CASE ShutdownIo("video") \/ ShutdownIo("audio")
  BY <1>8 DEF ShutdownIo
<1>9. CASE Join
  BY <1>9 DEF Join
<1>10. ASSUME NEW r \in Roles, SupStep(r)
       PROVE  SettingInv'
  <2>1. CASE LoopHead(r)
    BY <2>1 DEF LoopHead
  <2>2. CASE Backoff(r)
    BY <2>2 DEF Backoff
  <2>3. CASE ConnectOk(r)
    BY <2>3 DEF ConnectOk
  <2>4. CASE ConnectFails(r)
    BY <2>4 DEF ConnectFails, AfterFailure
  <2>5. CASE LoadSetting(r)
    BY <2>5 DEF LoadSetting
  <2>6. CASE Subscribe(r)
    BY <2>6 DEF Subscribe, AfterFailure, TellsSetting
  <2>7. CASE Online(r)
    BY <2>7 DEF Online
  <2>8. CASE InstallIo(r)
    BY <2>8 DEF InstallIo
  <2>9. CASE ReaderHead(r)
    BY <2>9 DEF ReaderHead
  <2>10. CASE FlushOne(r)
    <3>1. /\ batch # <<>> /\ sup["video"] = "flush" /\ r = "video"
          /\ UNCHANGED <<user, setting, outbound, sup, link, loaded, primed>>
          /\ batch' \in {<<>>, Tail(batch)}
          /\ link[r] = "up" => batch' = Tail(batch) /\ remote' = Head(batch)
      BY <2>10 DEF FlushOne
    <3>2. /\ Tail(batch) # <<>> => Young(Tail(batch)) = Young(batch)
          /\ Tail(batch) = <<>> => Head(batch) = Young(batch)
      BY <3>1, TailFacts
    <3> QED  BY <3>1, <3>2
  <2>11. CASE FlushDone(r)
    BY <2>11 DEF FlushDone
  <2>12. CASE Read(r) \/ AudioProtocolError(r)
    BY <2>12 DEF Read, AudioProtocolError
  <2>13. CASE ClearIo(r)
    BY <2>13 DEF ClearIo
  <2>14. CASE AfterClose(r)
    BY <2>14 DEF AfterClose, AfterFailure
  <2> QED  BY <1>10, <2>1, <2>2, <2>3, <2>4, <2>5, <2>6, <2>7, <2>8, <2>9, <2>10, <2>11, <2>12, <2>13, <2>14 DEF SupStep
<1>11. CASE \E r \in Roles : LinkDies(r)
  BY <1>11 DEF LinkDies
<1>12. CASE Finished
  BY <1>12 DEF Finished
<1> QED  BY <1>1, <1>2, <1>3, <1>4, <1>5, <1>6, <1>7, <1>8, <1>9, <1>10, <1>11, <1>12 DEF Next, DisconnectStep

\* The initial states satisfy the invariant.
LEMMA InitIInv == Init => IInv
<1> SUFFICES ASSUME Init PROVE IInv
  OBVIOUS
<1>1. TypeOK
  <2>1. outbound \in Seq(Values) /\ batch \in Seq(Values) /\ Len(outbound) = 0 /\ Len(batch) = 0
    BY EmptyFacts, Zenon DEF Init
  <2>2. /\ io \in [Sockets -> BOOLEAN] /\ primed \in [Sockets -> BOOLEAN]
        /\ subscribed \in [Sockets -> SUBSET Kinds]
        /\ sup \in [Sockets -> SupStates] /\ link \in [Sockets -> {"none", "up", "dead"}]
    BY DEF Init, SupStates
  <2>3. loaded \in Values /\ remote \in Values /\ setting \in Values /\ auto \in BOOLEAN
    BY IdleType, Zenon DEF Init
  <2>0. wants \in SUBSET Kinds
    BY SessionAssumption DEF Init, Kinds
  <2>4. /\ stop \in BOOLEAN /\ user \in UserStates /\ state \in SessionState
        /\ sets = 0 /\ failures = 0
    BY DEF Init, UserStates, SessionState
  <2> QED  BY <2>0, <2>1, <2>2, <2>3, <2>4, SessionAssumption DEF TypeOK
<1>2. \A r \in Sockets : ThreadInv(r)
  BY DEF Init, ThreadInv, Asked, Streaming, Connecting
<1>3. UserInv /\ CountInv
  BY <1>1, RolesFacts DEF Init, UserInv, CountInv
<1>4. SettingInv
  BY DEF Init, SettingInv, VideoCarries, Streaming, Sockets
<1> QED  BY <1>1, <1>2, <1>3, <1>4 DEF IInv

\* Every step, and every stutter, preserves it.
LEMMA NextIInv == IInv /\ [Next]_vars => IInv'
<1> SUFFICES ASSUME IInv, [Next]_vars PROVE IInv'
  OBVIOUS
<1>1. CASE Next
  BY <1>1, TypeStep, ThreadStep, UserStep, SettingStep DEF IInv
<1>2. CASE UNCHANGED vars
  BY <1>2, ConfigKept DEF vars, IInv, TypeOK, ThreadInv, Asked, UserInv, CountInv, SettingInv, VideoCarries, Young
<1> QED  BY <1>1, <1>2

\* IInv is an invariant of the session.
THEOREM SessionInvariant == Spec => []IInv
BY InitIInv, NextIInv, PTL DEF Spec

\* Types, and the bound on outbound_meta: a message there or in a flush belongs to
\* a change the application has made, so the queue grows with the changes only.
THEOREM TypeCorrect == Spec => []TypeOK
<1>1. IInv => TypeOK  BY DEF IInv
<1> QED  BY <1>1, SessionInvariant, PTL

\* A reader never waits on a live stream that has not asked for every kind of frame
\* the configuration wants on it.
THEOREM ReadersAreSubscribed == Spec => []ReadersSubscribed
<1>1. IInv => ReadersSubscribed
  <2> SUFFICES ASSUME IInv, NEW k \in wants, Reading(Carrier(k)), link[Carrier(k)] = "up"
               PROVE  k \in subscribed[Carrier(k)]
    BY DEF ReadersSubscribed
  <2>1. k \in Kinds /\ Carrier(k) \in Sockets
    BY DEF IInv, TypeOK, Carrier, Sockets
  <2>2. subscribed[Carrier(k)] = Subscription(Carrier(k))
    BY <2>1 DEF IInv, ThreadInv, Asked, Reading, Streaming
  <2> QED  BY <2>1, <2>2 DEF Subscription
<1> QED  BY <1>1, SessionInvariant, PTL

\* In a session with video the sender holds the application's setting when nothing
\* is under way, however changes, flushes, broken links and reconnects interleave.
THEOREM SettingReachesSender == Spec => []SettingConverges
<1>1. IInv => SettingConverges
  BY DEF IInv, SettingInv, VideoCarries, SettingConverges, Reading, Streaming
<1> QED  BY <1>1, SessionInvariant, PTL

\* Stopped is stored after every supervisor has ended and dropped its stream.
THEOREM StoppedMeansEnded == Spec => []StoppedIsFinal
<1>1. IInv => StoppedIsFinal
  BY DEF IInv, UserInv, ThreadInv, StoppedIsFinal
<1> QED  BY <1>1, SessionInvariant, PTL
=============================================================================
