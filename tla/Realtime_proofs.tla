-------------------------- MODULE Realtime_proofs --------------------------
(***************************************************************************)
(* What is proved of the parts that reach clients: the realtime hub, one   *)
(* of its connections, calls, the shutdown and push wakes.                 *)
(***************************************************************************)
EXTENDS Hub, WebSocket, Calls, Shutdown, PushWake, TLAPS

-----------------------------------------------------------------------------
(***************************************************************************)
(* The hub: no handshake outlives its session, for any sockets, devices,   *)
(* addresses and limits.                                                   *)
(***************************************************************************)

HubSpec == HubInit /\ [][HubNext]_hubVars

\* A device or an address of a handshake, 0 before it has one.
AnyDevice == HubDevices \cup {0}
AnyAddress == Addresses \cup {0}
Socket == [at : {"idle", "authenticated", "registered", "serving"}, device : AnyDevice,
           token : Nat, address : AnyAddress, queued : Int, closed : BOOLEAN]

HubType ==
    /\ live \in [HubDevices -> Nat]
    /\ logins \in Nat
    /\ socket \in [Sockets -> Socket]

\* A session that a handler has ended and whose sockets it has not yet
\* disconnected.
BeingCut(s) == \E devices \in pending : socket[s].device \in devices

\* An open socket past its registration is where a disconnect looks for it, and
\* one that serves has its session unless a disconnect is on its way.
HubInv ==
    /\ HubType
    /\ \A s \in Sockets :
          /\ socket[s].at # "idle" => socket[s].device \in HubDevices /\ socket[s].token # 0
          /\ socket[s].at \in {"registered", "serving"} /\ ~socket[s].closed => s \in subscribers
          /\ socket[s].at = "serving" /\ ~socket[s].closed /\ live[socket[s].device] # socket[s].token
                => BeingCut(s)

\* The connection an authenticated handshake starts with.
LEMMA NewConnection ==
    ASSUME NEW at \in {"idle", "authenticated"}, NEW d \in AnyDevice, NEW n \in Nat, NEW a \in AnyAddress
    PROVE  /\ Connection(at, d, n, a) \in Socket
           /\ Connection(at, d, n, a).at = at
           /\ Connection(at, d, n, a).device = d
           /\ Connection(at, d, n, a).token = n
BY DEF Connection, Socket

\* The socket of a slot without a handshake.
LEMMA FreeSocket == NewSocket \in Socket /\ NewSocket.at = "idle"
BY NewConnection DEF NewSocket, AnyDevice, AnyAddress

\* The initial state satisfies the invariant.
LEMMA HubInitInv == HubInit => HubInv
BY FreeSocket DEF HubInit, HubInv, HubType

\* Handshakes and connections preserve it.
LEMMA SocketInv ==
    ASSUME HubInv, NEW s \in Sockets,
           \/ \E d \in HubDevices, a \in Addresses : Authenticate(s, d, a)
           \/ Register(s) \/ RecheckSession(s) \/ WriteEvent(s) \/ ServeWebSocketReturns(s) \/ TrySend(s)
    PROVE  HubInv'
<1> USE DEF HubInv, HubType, Socket, BeingCut
<1>1. ASSUME NEW d \in HubDevices, NEW a \in Addresses, Authenticate(s, d, a) PROVE HubInv'
  <2>1. d \in AnyDevice /\ a \in AnyAddress /\ live[d] \in Nat /\ live[d] # 0
    BY Zenon, <1>1 DEF Authenticate, AnyDevice, AnyAddress
  <2>2. socket' = [socket EXCEPT ![s] = Connection("authenticated", d, live[d], a)]
    BY Zenon, <1>1 DEF Authenticate
  <2>3. UNCHANGED <<live, logins, subscribers, pending>>
    BY Zenon, <1>1 DEF Authenticate
  <2> HIDE DEF Socket
  <2>4. QED
    BY <2>1, <2>2, <2>3, NewConnection
<1>2. CASE Register(s)
  <2>1. CASE socket' = [socket EXCEPT ![s] = NewSocket]
    BY Zenon, <1>2, <2>1, FreeSocket DEF Register
  <2>2. CASE socket' = [socket EXCEPT ![s].at = "registered"] /\ subscribers' = subscribers \cup {s}
    <3>1. HubType'
      BY <1>2, <2>2 DEF Register
    <3>2. QED
      BY <1>2, <2>2, <3>1 DEF Register
  <2>3. QED
    BY Zenon, <1>2, <2>1, <2>2 DEF Register
<1>3. CASE RecheckSession(s)
  <2>1. CASE /\ live[socket[s].device] = socket[s].token
             /\ socket' = [socket EXCEPT ![s].at = "serving"]
             /\ UNCHANGED subscribers
    BY <1>3, <2>1 DEF RecheckSession
  <2>2. CASE socket' = [socket EXCEPT ![s] = NewSocket] /\ subscribers' = subscribers \ {s}
    BY Zenon, <1>3, <2>2, FreeSocket DEF RecheckSession
  <2>3. QED
    BY Zenon, <1>3, <2>1, <2>2 DEF RecheckSession, Unregister, RemoveLocked
<1>4. CASE WriteEvent(s)
  BY <1>4 DEF WriteEvent
<1>5. CASE ServeWebSocketReturns(s)
  BY Zenon, <1>5, FreeSocket DEF ServeWebSocketReturns, Unregister, RemoveLocked
<1>6. CASE TrySend(s)
  BY <1>6 DEF TrySend
<1>7. QED
  BY Zenon, <1>1, <1>2, <1>3, <1>4, <1>5, <1>6

\* What closing sockets changes.
LEMMA ClosingSockets ==
    ASSUME HubType, NEW gone
    PROVE  /\ Close(gone) \in [Sockets -> Socket]
           /\ \A s \in Sockets :
                 /\ s \in gone => Close(gone)[s].closed
                 /\ s \notin gone => Close(gone)[s] = socket[s]
                 /\ Close(gone)[s].at = socket[s].at
                 /\ Close(gone)[s].device = socket[s].device
                 /\ Close(gone)[s].token = socket[s].token
<1>1. \A x \in Sockets : [socket[x] EXCEPT !.closed = TRUE] \in Socket
  BY Zenon DEF HubType, Socket
<1>2. Close(gone) \in [Sockets -> Socket]
  BY Zenon, <1>1 DEF Close, HubType
<1>3. QED
  BY Zenon, <1>2 DEF Close, HubType, Socket

\* Logins, handlers that end sessions, their disconnects, publishers and the
\* drain preserve it.
LEMMA HandlerInv ==
    ASSUME HubInv,
           \/ \E d \in HubDevices : Login(d) \/ EndOtherSessions(d)
           \/ \E devices \in {{d} : d \in HubDevices} \cup {HubDevices} : EndSessions(devices)
           \/ \E devices \in pending : Disconnect(devices)
           \/ Publish \/ Drain
    PROVE  HubInv'
<1> USE DEF HubInv, HubType, Socket, BeingCut
<1>1. ASSUME NEW d \in HubDevices, Login(d) PROVE HubInv'
  BY <1>1 DEF Login
<1>2. ASSUME NEW d \in HubDevices, EndOtherSessions(d) PROVE HubInv'
  <2>1. HubType' /\ live'[d] = live[d]
    BY Zenon, <1>2 DEF EndOtherSessions
  <2>2. HubDevices \ {d} \in pending' /\ pending \subseteq pending' /\ UNCHANGED <<socket, subscribers>>
    BY Zenon, <1>2 DEF EndOtherSessions
  <2>3. \A s \in Sockets : socket[s].device \in HubDevices \ {d} => BeingCut(s)'
    BY Zenon, <2>2
  <2>4. QED
    BY <2>1, <2>2, <2>3
<1>3. ASSUME NEW devices \in {{d} : d \in HubDevices} \cup {HubDevices}, EndSessions(devices) PROVE HubInv'
  BY ZenonT(60), <1>3 DEF EndSessions
<1>4. ASSUME NEW devices \in pending, Disconnect(devices) PROVE HubInv'
  <2> DEFINE gone == {s \in subscribers : socket[s].device \in devices}
  <2>1. socket' = Close(gone) /\ pending' = pending \ {devices} /\ subscribers' = subscribers \ gone
    BY Zenon, <1>4 DEF Disconnect, RemoveLocked
  <2>2. UNCHANGED <<live, logins>>
    BY Zenon, <1>4 DEF Disconnect
  <2>3. HubType'
    BY Zenon, <2>1, <2>2, ClosingSockets
  <2>4. ASSUME NEW s \in Sockets
        PROVE  /\ s \in gone => socket'[s].closed
               /\ s \notin gone => socket'[s] = socket[s]
               /\ socket'[s].at = socket[s].at /\ socket'[s].device = socket[s].device
               /\ socket'[s].token = socket[s].token
    BY <2>1, ClosingSockets
  <2>5. QED
    BY SMTT(60), <2>1, <2>2, <2>3, <2>4
<1>5. CASE Publish
  BY Zenon, <1>5 DEF Publish
<1>6. CASE Drain
  <2>1. socket' = Close(subscribers) /\ UNCHANGED <<live, logins, pending>>
    BY Zenon, <1>6 DEF Drain
  <2>2. HubType'
    BY Zenon, <2>1, ClosingSockets
  <2>3. ASSUME NEW s \in Sockets
        PROVE  /\ s \in subscribers => socket'[s].closed
               /\ s \notin subscribers => socket'[s] = socket[s]
               /\ socket'[s].at = socket[s].at /\ socket'[s].device = socket[s].device
               /\ socket'[s].token = socket[s].token
    BY <2>1, ClosingSockets
  <2>4. QED
    BY <2>1, <2>2, <2>3
<1>7. QED
  BY Zenon, <1>1, <1>2, <1>3, <1>4, <1>5, <1>6

\* Every step preserves it.
LEMMA HubStepInv == HubInv /\ [HubNext]_hubVars => HubInv'
<1> SUFFICES ASSUME HubInv, [HubNext]_hubVars PROVE HubInv'
  BY Zenon
<1>1. CASE HubNext
  BY Zenon, <1>1, SocketInv, HandlerInv DEF HubNext
<1>2. CASE UNCHANGED hubVars
  BY Zenon, <1>2 DEF hubVars, HubInv, HubType, BeingCut
<1>3. QED
  BY Zenon, <1>1, <1>2

\* A socket that serves has a session that still stands, or the handler that
\* ended it has yet to disconnect it: the second reading of the session after
\* registration closes the window (call_sync_handlers.go:259-264).
THEOREM SocketsFollowSessions == HubSpec => []NoStaleSocket
<1>1. HubInv => NoStaleSocket
  BY Zenon DEF HubInv, NoStaleSocket, BeingCut
<1>2. QED
  BY HubInitInv, HubStepInv, <1>1, PTL DEF HubSpec

-----------------------------------------------------------------------------
(***************************************************************************)
(* The shutdown: storage closes under nothing that uses it, for any        *)
(* requests, sockets and bound on what they start.                         *)
(***************************************************************************)

ShutdownSpec == ShutdownInit /\ [][ShutdownNext]_shutdownVars

\* The stages of Serve after each of its waits, and a stop that keeps its
\* deadline.
AfterDrain == {"workers", "deliveries", "wakes", "grace", "closed"}
WorkersStopped == AfterDrain \ {"workers"}
ReceiptsWritten == WorkersStopped \ {"deliveries"}
WakesSent == ReceiptsWritten \ {"wakes"}
OnTime == clock \in {"start", "drain"}

ShutdownType ==
    /\ requests \in [Served -> {"none", "accepted", "running", "returned"}]
    /\ working \in BOOLEAN
    /\ drainer \in {"serving", "draining", "waiting", "done"}
    /\ caller \in {"listening", "drained"} \cup AfterDrain
    /\ clock \in {"start", "drain", "deadline", "grace"}

\* What has returned by the time each wait is over: nothing that could start
\* more work is left when the work itself is waited for.
ShutdownInv ==
    /\ ShutdownType
    /\ (drainer \in {"waiting", "done"} /\ uncounted = {}) =>
           \A r \in Served : requests[r] # "accepted"
    /\ (drainer = "done" /\ OnTime /\ uncounted = {}) =>
           \A r \in Served : requests[r] # "running"
    /\ OnTime =>
           /\ caller \in AfterDrain => drainer = "done"
           /\ caller \in WorkersStopped => ~working
    /\ OnTime /\ uncounted = {} =>
           /\ caller \in ReceiptsWritten => writers = 0
           /\ caller \in WakesSent => wakes = 0

\* The initial state satisfies the invariant.
LEMMA ShutdownInitInv == ShutdownInit => ShutdownInv
BY Zenon DEF ShutdownInit, ShutdownInv, ShutdownType, OnTime, AfterDrain, WorkersStopped, ReceiptsWritten, WakesSent

\* Every step of a request, of the shutdown goroutine, of Serve and of a timer
\* preserves it.
LEMMA ShutdownStepInv == ShutdownInv /\ [ShutdownNext]_shutdownVars => ShutdownInv'
<1> SUFFICES ASSUME ShutdownInv, [ShutdownNext]_shutdownVars PROVE ShutdownInv'
  BY Zenon
<1> USE DEF ShutdownInv, ShutdownType, OnTime, AfterDrain, WorkersStopped, ReceiptsWritten, WakesSent
<1>1. ASSUME NEW r \in Served, AcceptRequest(r) PROVE ShutdownInv'
  BY Zenon, <1>1 DEF AcceptRequest
<1>2. ASSUME NEW r \in Served, TrackInflight(r) PROVE ShutdownInv'
  BY Zenon, <1>2 DEF TrackInflight
<1>3. ASSUME NEW r \in Served, HandlerReturns(r) PROVE ShutdownInv'
  BY Zenon, <1>3 DEF HandlerReturns
<1>4. ASSUME NEW r \in Served, StartDeliveryWriter(r) PROVE ShutdownInv'
  BY Zenon, <1>4 DEF StartDeliveryWriter
<1>5. ASSUME NEW r \in Served, StartWake(r) PROVE ShutdownInv'
  BY Zenon, <1>5 DEF StartWake
<1>6. CASE DeliveryWriterEnds
  BY <1>6 DEF DeliveryWriterEnds
<1>7. CASE WakeEnds
  BY <1>7 DEF WakeEnds
<1>8. CASE PushWorkersEnd
  BY Zenon, <1>8 DEF PushWorkersEnd
<1>9. CASE StopServing
  BY Zenon, <1>9 DEF StopServing
<1>10. CASE ShutdownHttp
  BY Zenon, <1>10 DEF ShutdownHttp, At
<1>11. CASE WaitInflight
  BY Zenon, <1>11 DEF WaitInflight, At, Late
<1>12. CASE ServeReturns
  BY Zenon, <1>12 DEF ServeReturns, Waits, Late
<1>13. CASE WaitPushWakes
  BY Zenon, <1>13 DEF WaitPushWakes, Waits, Late
<1>14. CASE TimerPasses
  BY Zenon, <1>14 DEF TimerPasses
<1>15. CASE UNCHANGED shutdownVars
  BY <1>15 DEF shutdownVars
<1>16. QED
  BY Zenon, <1>1, <1>2, <1>3, <1>4, <1>5, <1>6, <1>7, <1>8, <1>9, <1>10, <1>11, <1>12, <1>13, <1>14, <1>15 DEF ShutdownNext

\* A stop that keeps its deadline closes storage only when every handler,
\* socket, push worker, delivery writer and wake has returned (Serve,
\* trackInflight, waitInflight, WaitDeliveryWrites, WaitPushWakes).
THEOREM NothingUsesClosedStorage == ShutdownSpec => []ClosedWhenIdle
<1>1. ShutdownInv => ClosedWhenIdle
  BY Zenon DEF ShutdownInv, ShutdownType, ClosedWhenIdle, Late, At, OnTime, AfterDrain, WorkersStopped, ReceiptsWritten, WakesSent
<1>2. QED
  BY ShutdownInitInv, ShutdownStepInv, <1>1, PTL DEF ShutdownSpec

-----------------------------------------------------------------------------
(***************************************************************************)
(* A connection: whoever answers pings is not taken for dead, for every    *)
(* choice of the timings that KeepaliveAssumption admits.                  *)
(***************************************************************************)

WebSocketSpec == WebSocketInit /\ [][WebSocketNext]_socketVars

SocketType ==
    /\ conn \in {"open", "stopping", "closed"} /\ peer \in {"alive", "silent"}
    /\ quiet \in Nat /\ nextPing \in 1..PingPeriod /\ pingDue \in BOOLEAN
    /\ writing \in {"none", "text", "ping", "pong"} /\ left \in 0..WriteWait
    /\ asked \in Nat \cup {-1}

\* How long the peer may have been quiet: before the ticker fires, while a due
\* ping waits behind one write, while it is written, and once it is asked.
InTime ==
    /\ asked # -1 => quiet <= PingPeriod + 2 * WriteWait + asked /\ asked <= RoundTrip
    /\ asked = -1 =>
          /\ writing = "ping" => quiet + left <= PingPeriod + 2 * WriteWait
          /\ writing = "none" /\ pingDue => quiet <= PingPeriod + WriteWait
          /\ writing \in {"text", "pong"} /\ pingDue => quiet + left <= PingPeriod + WriteWait
          /\ writing # "ping" /\ ~pingDue => quiet + nextPing <= PingPeriod

SocketTimes ==
    /\ SocketType
    /\ conn = "open" /\ peer = "alive" => InTime
    /\ AnsweringPeerKept

\* The initial state satisfies the invariant.
LEMMA SocketInit == WebSocketInit => SocketTimes
<1> SUFFICES ASSUME WebSocketInit PROVE SocketTimes
  BY Zenon
<1>1. ~pingDue /\ pingDue \in BOOLEAN
  BY Zenon DEF WebSocketInit
<1>2. /\ conn = "open" /\ peer = "alive" /\ writing = "none"
      /\ quiet = 0 /\ nextPing = PingPeriod /\ left = 0 /\ asked = -1
  BY Zenon DEF WebSocketInit
<1>3. why # "timeout"
  BY Zenon DEF WebSocketInit
<1>4. SocketType
  BY <1>1, <1>2, KeepaliveAssumption DEF SocketType
<1>5. InTime
  BY <1>1, <1>2, KeepaliveAssumption DEF InTime
<1>6. QED
  BY Zenon, <1>3, <1>4, <1>5 DEF SocketTimes, AnsweringPeerKept

\* The reader, the writer, the peer and the clock preserve it.
LEMMA SocketStep == SocketTimes /\ [WebSocketNext]_socketVars => SocketTimes'
<1> SUFFICES ASSUME SocketTimes, [WebSocketNext]_socketVars PROVE SocketTimes'
  BY Zenon
<1> USE KeepaliveAssumption DEF SocketTimes, SocketType, InTime, AnsweringPeerKept
<1>1. ASSUME NEW f \in Frame, ReadFrame(f) PROVE SocketTimes'
  <2>1. CASE ReaderReplies(f)
    BY Zenon, <1>1, <2>1 DEF ReadFrame, ReaderReplies
  <2>2. CASE ReaderAccepts(f)
    BY <1>1, <2>2 DEF ReadFrame, ReaderAccepts
  <2>3. QED
    BY Zenon, <1>1, <2>1, <2>2 DEF ReadFrame
<1>2. ASSUME NEW ticks \in 0..WriteWait, WritePing(ticks) PROVE SocketTimes'
  <2>1. ~pingDue' /\ pingDue' \in BOOLEAN
    BY <1>2, Zenon DEF WritePing
  <2>2. conn = "open" /\ writing = "none" /\ pingDue /\ writing' = "ping" /\ left' = ticks
    BY Zenon, <1>2 DEF WritePing, Write
  <2>3. UNCHANGED <<conn, why, peer, quiet, nextPing, asked>>
    BY Zenon, <1>2 DEF WritePing
  <2>4. QED
    BY <2>1, <2>2, <2>3
<1>3. ASSUME NEW ticks \in 0..WriteWait, NEW kind \in {"text", "pong"}, WriteOther(kind, ticks)
      PROVE  SocketTimes'
  BY Zenon, <1>3 DEF WriteOther, Write
<1>4. CASE ReaderTimesOut
  BY <1>4 DEF ReaderTimesOut
<1>5. CASE PeerFallsSilent
  BY Zenon, <1>5 DEF PeerFallsSilent
<1>6. CASE Written
  BY <1>6 DEF Written
<1>7. CASE WriterStops
  BY Zenon, <1>7 DEF WriterStops
<1>8. CASE CloseHandshake
  BY <1>8 DEF CloseHandshake
<1>9. CASE Tick
  <2>1. pingDue' \in BOOLEAN /\ (pingDue' <=> (pingDue \/ nextPing = 1))
    BY Zenon, <1>9, ZenonT(30) DEF Tick
  <2>2. /\ conn = "open" /\ (writing = "none" => ~pingDue) /\ (writing # "none" => left > 0)
        /\ peer = "alive" => asked < RoundTrip
    BY Zenon, <1>9 DEF Tick
  <2>3. /\ quiet' = quiet + 1 /\ left' = (IF writing = "none" THEN left ELSE left - 1)
        /\ asked' = (IF peer = "alive" /\ asked >= 0 THEN asked + 1 ELSE asked)
        /\ nextPing' = (IF nextPing = 1 THEN PingPeriod ELSE nextPing - 1)
        /\ UNCHANGED <<conn, why, peer, writing>>
    BY Zenon, <1>9 DEF Tick
  <2>4. QED
    BY <2>1, <2>2, <2>3
<1>10. CASE UNCHANGED socketVars
  BY Zenon, <1>10 DEF socketVars
<1>11. QED
  BY Zenon, <1>1, <1>2, <1>3, <1>4, <1>5, <1>6, <1>7, <1>8, <1>9, <1>10 DEF WebSocketNext

\* A peer that answers every ping within the round trip never meets the read
\* deadline, because a due ping waits behind one write at most: the timings of
\* websocket.go:41-48 need no more than the inequality its comment states.
THEOREM AnsweringPeersKept == WebSocketSpec => []AnsweringPeerKept
<1>1. SocketTimes => AnsweringPeerKept
  BY Zenon DEF SocketTimes
<1>2. QED
  BY SocketInit, SocketStep, <1>1, PTL DEF WebSocketSpec

-----------------------------------------------------------------------------
(***************************************************************************)
(* Calls: a request changes a call once, for any peers and any number of   *)
(* calls and requests.                                                     *)
(***************************************************************************)

CallsSpec == CallsInit /\ [][CallsNext]_callVars

Request == [action : Nat, by : Peers, call : 0..MaxCalls, version : Nat, state : CallStates]

CallRow == [state : CallStates, by : Peers, version : Nat, expired : BOOLEAN,
            create : Nat, last : Request \cup {NoRequest}]

\* The rows made so far are numbered 1..placed, and a call that is gone does
\* not come back: so a request that was applied finds its call at a later
\* version, or not at all.
CallsInv ==
    /\ calls \in [Ids -> CallRow \cup {NoCall}]
    /\ placed \in 0..MaxCalls
    /\ sent \subseteq Request
    /\ \A c \in Ids : c > placed => calls[c] = NoCall
    /\ \A r \in DOMAIN applied :
          /\ r \in Request /\ r.call \in Ids /\ r.call <= placed
          /\ applied[r] = 1
          /\ calls[r.call] = NoCall \/ calls[r.call].version > r.version

\* A row is not the mark of a missing one.
LEMMA RowsAreCalls == NoCall \notin CallRow /\ \A row \in CallRow : row # NoCall /\ row.version \in Nat
BY DEF NoCall, CallRow, CallStates

\* The initial state satisfies the invariant.
LEMMA CallsInitInv == CallsInit => CallsInv
BY CallsAssumption DEF CallsInit, CallsInv, Ids

\* The request that a client sends is a request.
LEMMA SendInv ==
    ASSUME CallsInv, NEW r \in Request, PlaceCall(r) \/ SendState(r) PROVE CallsInv'
BY Zenon DEF CallsInv, PlaceCall, SendState

\* A new call takes a number no request was applied to.
LEMMA CreateCallInv == ASSUME CallsInv, NEW r \in sent, CreateCallSession(r) PROVE CallsInv'
<1> DEFINE row == [state |-> "ringing", by |-> r.by, version |-> 1, expired |-> FALSE,
                   create |-> r.action, last |-> NoRequest]
<1>1. row \in CallRow
  BY Zenon DEF CallsInv, CallRow, CallStates, Request
<1>2. placed' = placed + 1 /\ placed' \in Ids /\ calls' = [calls EXCEPT ![placed'] = row]
  BY CallsAssumption DEF CreateCallSession, CallsInv, Ids
<1>3. UNCHANGED <<sent, applied>>
  BY Zenon DEF CreateCallSession
<1> HIDE DEF row
<1>4. QED
  BY <1>1, <1>2, <1>3, CallsAssumption DEF CallsInv, Ids

\* A transition raises the version above that of the request it applies.
LEMMA TransitionInv == ASSUME CallsInv, NEW r \in sent, TransitionCallSession(r) PROVE CallsInv'
<1> DEFINE call == calls[r.call]
<1>1. r \in Request /\ r.call \in Ids /\ call \in CallRow /\ r.version = call.version /\ call # NoCall
  <2>1. r \in Request /\ call # NoCall /\ r.version = call.version
    BY Zenon DEF CallsInv, TransitionCallSession
  <2>2. r.call \in Ids
    BY <2>1, CallsAssumption DEF TransitionCallSession, Request, Ids
  <2>3. QED
    BY Zenon, <2>1, <2>2 DEF CallsInv
<1>2. After(call, r) \in CallRow /\ After(call, r).version = r.version + 1 /\ r.version \in Nat
  <2>1. call.version \in Nat /\ r.state \in CallStates
    BY Zenon, <1>1 DEF CallRow, Request
  <2>2. After(call, r).version = call.version + 1
    BY Zenon, <1>1 DEF After, CallRow
  <2> HIDE DEF call
  <2>3. After(call, r) \in CallRow
    <3>1. call.version + 1 \in Nat /\ r \in Request \cup {NoRequest}
      BY <1>1, <2>1
    <3>2. QED
      BY <1>1, <2>1, <3>1, Zenon DEF After, CallRow
  <2>4. QED
    BY Zenon, <1>1, <2>1, <2>2, <2>3
<1>3. calls' = [calls EXCEPT ![r.call] = After(call, r)] /\ UNCHANGED <<placed, sent>>
  BY Zenon DEF TransitionCallSession
<1>4. calls' \in [Ids -> CallRow \cup {NoCall}] /\ \A c \in Ids : c > placed => calls'[c] = NoCall
  BY Zenon, <1>1, <1>2, <1>3 DEF CallsInv
<1>5. r.call <= placed
  BY <1>1 DEF CallsInv, Ids
<1>6. r \notin DOMAIN applied
  BY <1>1, <1>2 DEF CallsInv
<1>7. DOMAIN applied' = DOMAIN applied \cup {r} /\ \A x \in DOMAIN applied' : applied'[x] = 1
  BY <1>6 DEF TransitionCallSession, CountApplied, CallsInv
<1>8. \A x \in DOMAIN applied : calls[x.call] # NoCall => x.version < calls[x.call].version
  BY Zenon DEF CallsInv
<1>9. \A x \in DOMAIN applied' : calls'[x.call] = NoCall \/ calls'[x.call].version > x.version
  <2> SUFFICES ASSUME NEW x \in DOMAIN applied', calls'[x.call] # NoCall
               PROVE  calls'[x.call].version > x.version
    BY Zenon
  <2> HIDE DEF call
  <2>1. x \in Request /\ x.version \in Nat /\ x.call \in Ids
    BY Zenon, <1>1, <1>7 DEF CallsInv, Request
  <2>2. CASE x.call # r.call
    BY ZenonT(60), <1>3, <1>7, <1>8, <2>1, <2>2 DEF CallsInv
  <2>3. CASE x.call = r.call /\ x # r
    BY <1>1, <1>2, <1>3, <1>7, <1>8, <2>1, <2>3 DEF CallsInv, call
  <2>4. CASE x = r
    BY <1>1, <1>2, <1>3, <2>4 DEF CallsInv
  <2>5. QED
    BY Zenon, <2>2, <2>3, <2>4
<1>10. QED
  BY Zenon, <1>1, <1>3, <1>4, <1>5, <1>7, <1>9 DEF CallsInv

\* Rows expire, are pruned, and accounts go.
LEMMA CallsEndInv ==
    ASSUME CallsInv, (\E c \in Ids : CallExpires(c)) \/ PruneCallSessions \/ \E a \in Peers : AccountGone(a)
    PROVE  CallsInv'
<1>1. ASSUME NEW c \in Ids, CallExpires(c) PROVE CallsInv'
  <2>1. calls[c] \in CallRow /\ calls' = [calls EXCEPT ![c].expired = TRUE]
    BY Zenon, <1>1 DEF CallExpires, CallsInv
  <2>2. calls'[c] \in CallRow /\ calls'[c].version = calls[c].version
    BY Zenon, <2>1 DEF CallsInv, CallRow
  <2>3. \A d \in Ids : d # c => calls'[d] = calls[d]
    BY Zenon, <2>1 DEF CallsInv
  <2>4. calls' \in [Ids -> CallRow \cup {NoCall}]
    BY Zenon, <2>1, <2>2, <2>3 DEF CallsInv
  <2>5. QED
    BY Zenon, <1>1, <2>1, <2>2, <2>3, <2>4, RowsAreCalls DEF CallExpires, CallsInv
<1>2. CASE PruneCallSessions
  BY Zenon, <1>2 DEF PruneCallSessions, CallsInv
<1>3. ASSUME NEW a \in Peers, AccountGone(a) PROVE CallsInv'
  BY Zenon, <1>3 DEF AccountGone, CallsInv
<1>4. QED
  BY Zenon, <1>1, <1>2, <1>3

\* Every step preserves it.
LEMMA CallsStep == CallsInv /\ [CallsNext]_callVars => CallsInv'
<1> SUFFICES ASSUME CallsInv, [CallsNext]_callVars PROVE CallsInv'
  BY Zenon
<1>1. ASSUME NEW a \in Peers, NEW x \in 0..MaxSent, NEW s \in CallStates,
             PlaceCall([action |-> x, by |-> a, call |-> 0, version |-> 0, state |-> s])
      PROVE  CallsInv'
  BY <1>1, SendInv, CallsAssumption DEF Request
<1>2. ASSUME NEW a \in Peers, NEW x \in 0..MaxSent, NEW s \in CallStates, NEW c \in Ids, calls[c] # NoCall,
             SendState([action |-> x, by |-> a, call |-> c, version |-> calls[c].version, state |-> s])
      PROVE  CallsInv'
  <2>1. calls[c].version \in Nat /\ c \in 0..MaxCalls /\ x \in Nat
    BY <1>2, RowsAreCalls, CallsAssumption DEF CallsInv, Ids
  <2>2. QED
    BY Zenon, <1>2, <2>1, SendInv DEF Request
<1>3. ASSUME NEW r \in sent, CreateCallSession(r) \/ TransitionCallSession(r) PROVE CallsInv'
  BY Zenon, <1>3, CreateCallInv, TransitionInv
<1>4. CASE (\E c \in Ids : CallExpires(c)) \/ PruneCallSessions \/ \E a \in Peers : AccountGone(a)
  BY Zenon, <1>4, CallsEndInv
<1>5. CASE UNCHANGED callVars
  BY Zenon, <1>5 DEF callVars, CallsInv
<1>6. QED
  BY Zenon, <1>1, <1>2, <1>3, <1>4, <1>5 DEF CallsNext

\* A request that is retried, delayed or overtaken changes its call once
\* (transitionCallSession compares the version under the writer's lock, and
\* a pruned call's id is not used again).
THEOREM AppliedOnce == CallsSpec => []ActionAppliedOnce
<1>1. CallsInv => ActionAppliedOnce
  BY Zenon DEF CallsInv, ActionAppliedOnce
<1>2. QED
  BY CallsInitInv, CallsStep, <1>1, PTL DEF CallsSpec


-----------------------------------------------------------------------------
(***************************************************************************)
(* Push wakes: none is lost, none is repeated without a fault, and no      *)
(* registration is retired for another one's failure, for any events,      *)
(* subscriptions, batch size, tracker and numbers of faults.               *)
(*                                                                         *)
(* The argument.  A task of the worker and the row it claimed are tied by  *)
(* the claim's token: the row is under it as long as it is there (TaskInv),*)
(* and no two tasks have the same wake (BatchInv).  So the row that a task *)
(* deletes is the one it was started for, and by then the wake has its     *)
(* reason to be gone.  A wake that was accepted without a fault is still   *)
(* held by the task that had the answer (JobsInv), so nobody claims it     *)
(* again.  What the tracker counts was really answered (TrackerInv).       *)
(***************************************************************************)
\* A row and a task are records of their fields.
IsJob(j) == j = [lease |-> j.lease, lapsed |-> j.lapsed, due |-> j.due, expired |-> j.expired]
IsTask(t) == t = [wake |-> t.wake, token |-> t.token, cred |-> t.cred, at |-> t.at]

\* The row of a task's wake is under the task's token as long as it is there; a
\* task that will delete the row is past the reason for it; and as long as
\* nothing went wrong, only a task whose send was accepted holds an accepted
\* wake.
TaskInv(t) ==
    /\ IsTask(t) /\ t.wake \in Wakes /\ t.wake[1] \in posted
    /\ t.wake \in DOMAIN jobs => jobs[t.wake].lease = t.token
    /\ t.at = "accepted" => t.wake \in settled
    /\ t.at = "drop" => t.wake \in settled \/ t.wake \notin DOMAIN jobs
    /\ t.at = "retire" => <<t.wake[2], t.cred>> \in condemned
    /\ faults = 0 /\ t.wake \in accepted => t.at = "accepted"

JobsInv ==
    /\ \A w \in DOMAIN jobs : w \in Wakes /\ w[1] \in posted /\ IsJob(jobs[w])
    /\ \A w \in queued \cup accepted : w[1] \in posted
    /\ faults \in Nat
    /\ \A w \in accepted : faults = 0 /\ w \in DOMAIN jobs => \E t \in batch : t.wake = w
    /\ NoLostWake /\ NoRepeatWithoutFault

BatchInv ==
    /\ \A t \in batch : TaskInv(t)
    /\ \A t, u \in batch : t.wake = u.wake => t = u

SubsInv ==
    /\ \A s \in DOMAIN subs : s \in SubIds /\ subs[s] \in Sub
    /\ \A g \in direct : g \in Target /\ (g.at = "disable" => <<g.sub, g.cred>> \in condemned)
    /\ RetiredMeansRefused

\* The tracker never counts more refusals in a row than there were.
TrackerInv ==
    /\ refusals \in [SubIds -> Nat]
    /\ \A s \in DOMAIN tracker : /\ s \in SubIds /\ tracker[s] \in [count : Nat, aged : BOOLEAN]
                                 /\ tracker[s].count <= refusals[s]

PushInv == JobsInv /\ BatchInv /\ SubsInv /\ TrackerInv

\* Nothing is queued at first.
LEMMA PushInitInv == Init => PushInv
<1> SUFFICES ASSUME Init PROVE PushInv
  BY Zenon
<1>1. DOMAIN subs = {} /\ DOMAIN jobs = {} /\ DOMAIN tracker = {}
  BY DEF Init
<1>2. JobsInv
  BY Zenon, <1>1 DEF Init, JobsInv, NoLostWake, NoRepeatWithoutFault
<1>3. BatchInv
  BY Zenon DEF Init, BatchInv
<1>4. SubsInv
  BY Zenon, <1>1 DEF Init, SubsInv, RetiredMeansRefused
<1>5. TrackerInv
  BY Zenon, <1>1 DEF Init, TrackerInv
<1>6. QED
  BY Zenon, <1>2, <1>3, <1>4, <1>5 DEF PushInv

\* A task that moves on is about the same row.
LEMMA TaskMoved ==
    ASSUME NEW t, IsTask(t), NEW a
    PROVE  /\ IsTask([t EXCEPT !.at = a])
           /\ [t EXCEPT !.at = a].wake = t.wake /\ [t EXCEPT !.at = a].token = t.token
           /\ [t EXCEPT !.at = a].cred = t.cred /\ [t EXCEPT !.at = a].at = a
<1>1. [t EXCEPT !.at = a] = [wake |-> t.wake, token |-> t.token, cred |-> t.cred, at |-> a]
  BY DEF IsTask
<1>2. QED
  BY <1>1, Zenon DEF IsTask

\* A record of known fields is a row.
LEMMA JobOfFields ==
    ASSUME NEW l, NEW a, NEW b, NEW c, NEW j \in [lease : {l}, lapsed : {a}, due : {b}, expired : {c}]
    PROVE  IsJob(j) /\ j.lease = l
BY Zenon DEF IsJob

\* What time and the worker change in a row.
LEMMA JobChanged ==
    ASSUME NEW j, IsJob(j), NEW v
    PROVE  /\ IsJob([j EXCEPT !.lapsed = v]) /\ [j EXCEPT !.lapsed = v].lease = j.lease
           /\ IsJob([j EXCEPT !.due = v]) /\ [j EXCEPT !.due = v].lease = j.lease
           /\ IsJob([j EXCEPT !.expired = v]) /\ [j EXCEPT !.expired = v].lease = j.lease
<1>1. j \in [lease : {j.lease}, lapsed : {j.lapsed}, due : {j.due}, expired : {j.expired}]
  BY Zenon DEF IsJob
<1>2. /\ [j EXCEPT !.lapsed = v] \in [lease : {j.lease}, lapsed : {v}, due : {j.due}, expired : {j.expired}]
      /\ [j EXCEPT !.due = v] \in [lease : {j.lease}, lapsed : {j.lapsed}, due : {v}, expired : {j.expired}]
      /\ [j EXCEPT !.expired = v] \in [lease : {j.lease}, lapsed : {j.lapsed}, due : {j.due}, expired : {v}]
  BY <1>1, Zenon
<1>3. IsJob([j EXCEPT !.lapsed = v]) /\ [j EXCEPT !.lapsed = v].lease = j.lease
  BY <1>2, JobOfFields, Zenon
<1>4. IsJob([j EXCEPT !.due = v]) /\ [j EXCEPT !.due = v].lease = j.lease
  BY <1>2, JobOfFields, ZenonT(60)
<1>5. IsJob([j EXCEPT !.expired = v]) /\ [j EXCEPT !.expired = v].lease = j.lease
  BY <1>2, JobOfFields, ZenonT(60)
<1>6. QED
  BY <1>3, <1>4, <1>5, Zenon

\* What a claim and the settling of a task change in it.
LEMMA JobLeased ==
    ASSUME NEW j, IsJob(j), NEW l, NEW v, NEW d
    PROVE  /\ IsJob([j EXCEPT !.lease = l, !.lapsed = v]) /\ [j EXCEPT !.lease = l, !.lapsed = v].lease = l
           /\ IsJob([j EXCEPT !.lease = l, !.lapsed = v, !.due = d])
<1>1. j \in [lease : {j.lease}, lapsed : {j.lapsed}, due : {j.due}, expired : {j.expired}]
  BY Zenon DEF IsJob
<1>2. [j EXCEPT !.lease = l, !.lapsed = v] \in [lease : {l}, lapsed : {v}, due : {j.due}, expired : {j.expired}]
  BY <1>1, Zenon
<1>3. [j EXCEPT !.lease = l, !.lapsed = v, !.due = d] \in [lease : {l}, lapsed : {v}, due : {d}, expired : {j.expired}]
  BY <1>1, Zenon
<1>4. IsJob([j EXCEPT !.lease = l, !.lapsed = v]) /\ [j EXCEPT !.lease = l, !.lapsed = v].lease = l
  BY <1>2, JobOfFields, ZenonT(60)
<1>5. IsJob([j EXCEPT !.lease = l, !.lapsed = v, !.due = d])
  <2> DEFINE k == [j EXCEPT !.lease = l, !.lapsed = v, !.due = d]
  <2>1. k \in [lease : {l}, lapsed : {v}, due : {d}, expired : {j.expired}]
    BY Zenon, <1>3
  <2> HIDE DEF k
  <2>2. IsJob(k)
    BY Zenon, <2>1, JobOfFields
  <2>3. QED
    BY Zenon, <2>2 DEF k
<1>6. QED
  BY <1>4, <1>5, Zenon

\* A step of the recipient leaves the queue alone.
LEMMA RecipientInv ==
    ASSUME PushInv,
           \/ \E d \in Devices, cred \in Creds, silent \in BOOLEAN : CreatePushSubscription(d, cred, silent)
           \/ \E s \in SubIds : DisablePushSubscription(s)
           \/ SuspendAccount \/ ChangeEligibility
    PROVE  PushInv'
<1>1. UNCHANGED <<jobs, batch, tracker, direct, posted, faults, queued, settled, accepted, repeated, refusals, condemned>>
  BY Zenon DEF CreatePushSubscription, DisablePushSubscription, SuspendAccount, ChangeEligibility, history
<1>2. ASSUME NEW d \in Devices, NEW cred \in Creds, NEW silent \in BOOLEAN, CreatePushSubscription(d, cred, silent)
      PROVE  \A s \in DOMAIN subs' : s \in SubIds /\ subs'[s] \in Sub
                                     /\ (subs'[s].disabled = "provider" => s \in DOMAIN subs /\ subs'[s] = subs[s])
  <2> DEFINE row == [device |-> d, cred |-> cred, silent |-> silent, disabled |-> "no"]
  <2>1. PICK s \in SubIds : subs' = With(subs, s, row)
    BY Zenon, <1>2 DEF CreatePushSubscription, ActiveSub, PushInv, SubsInv
  <2>2. row \in Sub /\ row.disabled = "no"
    BY Zenon DEF Sub
  <2> HIDE DEF row
  <2>3. QED
    BY Zenon, <2>1, <2>2 DEF With, PushInv, SubsInv
<1>3. ASSUME NEW S, Disable(S, "user")
      PROVE  \A s \in DOMAIN subs' : s \in SubIds /\ subs'[s] \in Sub
                                     /\ (subs'[s].disabled = "provider" => s \in DOMAIN subs /\ subs'[s] = subs[s])
  <2>1. \A s \in DOMAIN subs : /\ [subs[s] EXCEPT !.disabled = "user"] \in Sub
                               /\ [subs[s] EXCEPT !.disabled = "user"].disabled = "user"
    BY Zenon DEF PushInv, SubsInv, Sub
  <2>2. QED
    BY Zenon, <1>3, <2>1 DEF Disable, PushInv, SubsInv
<1>4. CASE UNCHANGED subs
  BY Zenon, <1>1, <1>4 DEF PushInv, JobsInv, BatchInv, TaskInv, SubsInv, TrackerInv, NoLostWake, NoRepeatWithoutFault, RetiredMeansRefused
<1>5. CASE \A s \in DOMAIN subs' : s \in SubIds /\ subs'[s] \in Sub
                                   /\ (subs'[s].disabled = "provider" => s \in DOMAIN subs /\ subs'[s] = subs[s])
  <2>1. RetiredMeansRefused'
    BY Zenon, <1>1, <1>5 DEF RetiredMeansRefused, PushInv, SubsInv
  <2>2. SubsInv'
    BY Zenon, <1>1, <1>5, <2>1 DEF PushInv, SubsInv
  <2>3. QED
    BY Zenon, <1>1, <2>2 DEF PushInv, JobsInv, BatchInv, TaskInv, TrackerInv, NoLostWake, NoRepeatWithoutFault
<1>6. QED
  BY Zenon, <1>2, <1>3, <1>4, <1>5 DEF DisablePushSubscription, SuspendAccount, ChangeEligibility

\* A message's wakes are of an event that had none.
LEMMA EnqueueInv ==
    ASSUME PushInv, NEW e \in Events, EnqueuePushWakeJobs(e)
    PROVE  PushInv'
<1> DEFINE woken == {<<e, s>> : s \in {s \in DOMAIN subs : Eligible(s) /\ Enabled(s)}}
           fresh == [lease |-> 0, lapsed |-> FALSE, due |-> TRUE, expired |-> FALSE]
<1>1. /\ e \notin posted /\ posted' = posted \cup {e} /\ queued' = queued \cup woken
      /\ jobs' = [w \in DOMAIN jobs \cup woken |-> IF w \in woken THEN fresh ELSE jobs[w]]
      /\ UNCHANGED <<subs, batch, tracker, direct, faults, settled, accepted, repeated, refusals, condemned>>
  BY Zenon DEF EnqueuePushWakeJobs, recipient
<1>2. \A w \in woken : w \in Wakes /\ w[1] = e
  BY DEF Wakes, PushInv, SubsInv
<1>3. IsJob(fresh)
  BY Zenon DEF IsJob
<1> HIDE DEF woken, fresh
<1>4. DOMAIN jobs' = DOMAIN jobs \cup woken /\ \A w \in DOMAIN jobs' : w \notin woken => jobs'[w] = jobs[w]
  BY Zenon, <1>1
<1>5. \A w \in woken : jobs'[w] = fresh
  BY Zenon, <1>1
<1>6. JobsInv'
  <2>1. \A w \in DOMAIN jobs' : w \in Wakes /\ w[1] \in posted' /\ IsJob(jobs'[w])
    BY Zenon, <1>1, <1>2, <1>3, <1>4, <1>5 DEF PushInv, JobsInv
  <2>2. \A w \in queued' \cup accepted' : w[1] \in posted'
    BY Zenon, <1>1, <1>2 DEF PushInv, JobsInv
  <2>3. \A w \in accepted' : faults' = 0 /\ w \in DOMAIN jobs' => \E t \in batch' : t.wake = w
    BY <1>1, <1>2, <1>4 DEF PushInv, JobsInv
  <2>4. NoLostWake' /\ NoRepeatWithoutFault'
    BY Zenon, <1>1, <1>4 DEF PushInv, JobsInv, NoLostWake, NoRepeatWithoutFault
  <2>5. QED
    BY Zenon, <1>1, <2>1, <2>2, <2>3, <2>4 DEF PushInv, JobsInv
<1>7. BatchInv'
  <2>1. \A t \in batch : t.wake \notin woken
    BY Zenon, <1>1, <1>2 DEF PushInv, BatchInv, TaskInv
  <2>2. \A t \in batch : TaskInv(t)'
    BY Zenon, <1>1, <1>4, <2>1 DEF PushInv, BatchInv, TaskInv
  <2>3. QED
    BY Zenon, <1>1, <2>2 DEF PushInv, BatchInv
<1>8. QED
  BY Zenon, <1>1, <1>6, <1>7 DEF PushInv, SubsInv, TrackerInv, RetiredMeansRefused

\* Time changes no lease.
LEMMA TimeInv ==
    ASSUME PushInv, \/ \E w \in Wakes : Passes(w) \/ Expires(w)
                    \/ \E s \in SubIds : ADayPasses(s)
    PROVE  PushInv'
<1>1. ASSUME NEW w \in Wakes, Passes(w) \/ Expires(w) PROVE PushInv'
  <2>1. /\ w \in DOMAIN jobs
        /\ UNCHANGED <<subs, batch, tracker, direct, posted, faults, queued, settled, accepted, repeated, refusals, condemned>>
    BY Zenon, <1>1 DEF Passes, LeaseLapses, BackoffEnds, Expires, recipient, history
  <2>2. PICK j : jobs' = [jobs EXCEPT ![w] = j] /\ IsJob(j) /\ j.lease = jobs[w].lease
    <3>1. IsJob(jobs[w])
      BY Zenon, <2>1 DEF PushInv, JobsInv
    <3>2. \/ jobs' = [jobs EXCEPT ![w] = [jobs[w] EXCEPT !.lapsed = TRUE]]
          \/ jobs' = [jobs EXCEPT ![w] = [jobs[w] EXCEPT !.due = TRUE]]
          \/ jobs' = [jobs EXCEPT ![w] = [jobs[w] EXCEPT !.expired = TRUE]]
      BY <1>1, Zenon DEF Passes, LeaseLapses, BackoffEnds, Expires
    <3>3. /\ IsJob([jobs[w] EXCEPT !.lapsed = TRUE]) /\ [jobs[w] EXCEPT !.lapsed = TRUE].lease = jobs[w].lease
          /\ IsJob([jobs[w] EXCEPT !.due = TRUE]) /\ [jobs[w] EXCEPT !.due = TRUE].lease = jobs[w].lease
          /\ IsJob([jobs[w] EXCEPT !.expired = TRUE]) /\ [jobs[w] EXCEPT !.expired = TRUE].lease = jobs[w].lease
      BY <3>1, JobChanged, Zenon
    <3>4. QED
      BY <3>2, <3>3, Zenon
  <2>3. DOMAIN jobs' = DOMAIN jobs /\ \A v \in DOMAIN jobs : jobs'[v].lease = jobs[v].lease /\ IsJob(jobs'[v])
    BY Zenon, <2>2 DEF PushInv, JobsInv
  <2>4. JobsInv'
    BY Zenon, <2>1, <2>3 DEF PushInv, JobsInv, NoLostWake, NoRepeatWithoutFault
  <2>5. BatchInv'
    BY Zenon, <2>1, <2>3 DEF PushInv, BatchInv, TaskInv
  <2>6. QED
    BY Zenon, <2>1, <2>4, <2>5 DEF PushInv, SubsInv, TrackerInv, RetiredMeansRefused
<1>2. ASSUME NEW s \in SubIds, ADayPasses(s) PROVE PushInv'
  <2>1. UNCHANGED <<subs, jobs, batch, direct, posted, faults, queued, settled, accepted, repeated, refusals, condemned>>
    BY Zenon, <1>2 DEF ADayPasses, recipient, history
  <2>2. s \in DOMAIN tracker /\ tracker' = [tracker EXCEPT ![s] = [tracker[s] EXCEPT !.aged = TRUE]]
    BY <1>2, Zenon DEF ADayPasses
  <2>3. /\ [tracker[s] EXCEPT !.aged = TRUE] \in [count : Nat, aged : BOOLEAN]
        /\ [tracker[s] EXCEPT !.aged = TRUE].count = tracker[s].count
    BY <2>2, Zenon DEF PushInv, TrackerInv
  <2>4. TrackerInv'
    BY Zenon, <2>1, <2>2, <2>3 DEF PushInv, TrackerInv
  <2>5. QED
    BY Zenon, <2>1, <2>4 DEF PushInv, JobsInv, BatchInv, TaskInv, SubsInv, NoLostWake, NoRepeatWithoutFault, RetiredMeansRefused
<1>3. QED
  BY Zenon, <1>1, <1>2

\* What the deletions of a claim remove had a reason not to be sent.
LEMMA ClaimInv ==
    ASSUME PushInv, ClaimPushWakeJobs
    PROVE  PushInv'
<1>1. /\ batch = {} /\ settled' = settled \cup Hopeless
      /\ UNCHANGED <<subs, tracker, direct, posted, faults, queued, accepted, repeated, refusals, condemned>>
  BY Zenon DEF ClaimPushWakeJobs, DrainIdle, recipient
<1>2. PICK gone, L :
         /\ gone \subseteq Hopeless /\ L \subseteq DOMAIN jobs \ gone
         /\ jobs' = [w \in DOMAIN jobs \ gone |-> IF w \in L
                       THEN [jobs[w] EXCEPT !.lease = NewToken, !.lapsed = FALSE]
                       ELSE jobs[w]]
         /\ batch' = batch \cup {[wake |-> w, token |-> NewToken, cred |-> subs[w[2]].cred, at |-> "queued"] : w \in L}
  <2>1. PICK A \in Limited(Abandoned), B \in Limited(Ineligible) :
        \E C \in Limited(Disabled \ (A \cup B)) :
          LET rest == DOMAIN jobs \ (A \cup B \cup C)
          IN  \E L \in Limited({w \in rest : Claimable(w)}) :
                /\ A \cup B \cup C \cup L # {}
                /\ jobs' = [w \in rest |-> IF w \in L
                              THEN [jobs[w] EXCEPT !.lease = NewToken, !.lapsed = FALSE]
                              ELSE jobs[w]]
                /\ batch' = batch \cup
                      {[wake |-> w, token |-> NewToken, cred |-> subs[w[2]].cred,
                        at |-> "queued"] : w \in L}
    BY Zenon DEF ClaimPushWakeJobs
  <2>2. PICK C \in Limited(Disabled \ (A \cup B)) :
          LET rest == DOMAIN jobs \ (A \cup B \cup C)
          IN  \E L \in Limited({w \in rest : Claimable(w)}) :
                /\ A \cup B \cup C \cup L # {}
                /\ jobs' = [w \in rest |-> IF w \in L
                              THEN [jobs[w] EXCEPT !.lease = NewToken, !.lapsed = FALSE]
                              ELSE jobs[w]]
                /\ batch' = batch \cup
                      {[wake |-> w, token |-> NewToken, cred |-> subs[w[2]].cred,
                        at |-> "queued"] : w \in L}
    BY <2>1, Zenon
  <2> DEFINE gone == A \cup B \cup C
  <2>3. PICK L \in Limited({w \in DOMAIN jobs \ gone : Claimable(w)}) :
                /\ jobs' = [w \in DOMAIN jobs \ gone |-> IF w \in L
                              THEN [jobs[w] EXCEPT !.lease = NewToken, !.lapsed = FALSE]
                              ELSE jobs[w]]
                /\ batch' = batch \cup
                      {[wake |-> w, token |-> NewToken, cred |-> subs[w[2]].cred,
                        at |-> "queued"] : w \in L}
    BY <2>2, Zenon
  <2>4. A \subseteq Abandoned /\ B \subseteq Ineligible /\ C \subseteq Disabled
    BY Zenon, <2>1, <2>2 DEF Limited
  <2>5. gone \subseteq Hopeless
    BY <2>4, Zenon DEF Abandoned, Ineligible, Disabled, Hopeless, Sendable
  <2>6. L \subseteq DOMAIN jobs \ gone
    BY Zenon, <2>3 DEF Limited
  <2> HIDE DEF gone
  <2>7. QED
    BY <2>3, <2>5, <2>6, Zenon
<1> DEFINE rest == DOMAIN jobs \ gone
           Leased(w) == [jobs[w] EXCEPT !.lease = NewToken, !.lapsed = FALSE]
           New(w) == [wake |-> w, token |-> NewToken, cred |-> subs[w[2]].cred, at |-> "queued"]
<1>3. ASSUME NEW w \in DOMAIN jobs PROVE IsJob(Leased(w)) /\ Leased(w).lease = NewToken
  <2>1. IsJob(jobs[w])
    BY Zenon DEF PushInv, JobsInv
  <2>2. QED
    BY <2>1, JobLeased, Zenon
<1>4. \A w \in L : /\ IsTask(New(w)) /\ New(w).wake = w /\ New(w).token = NewToken /\ New(w).at = "queued"
  BY Zenon DEF IsTask
<1>5. /\ DOMAIN jobs' = rest /\ batch' = {New(w) : w \in L}
      /\ \A w \in rest : jobs'[w] = IF w \in L THEN Leased(w) ELSE jobs[w]
  BY Zenon, <1>1, <1>2
<1> HIDE DEF Leased, New
<1>6. JobsInv'
  <2>1. \A w \in DOMAIN jobs' : w \in Wakes /\ w[1] \in posted' /\ IsJob(jobs'[w])
    BY Zenon, <1>1, <1>3, <1>5 DEF PushInv, JobsInv
  <2>2. \A w \in accepted : faults # 0 \/ w \notin DOMAIN jobs
    BY Zenon, <1>1 DEF PushInv, JobsInv
  <2>3. \A w \in accepted' : faults' = 0 /\ w \in DOMAIN jobs' => \E t \in batch' : t.wake = w
    BY Zenon, <1>1, <1>5, <2>2
  <2>4. NoLostWake' /\ NoRepeatWithoutFault'
    BY Zenon, <1>1, <1>2, <1>5 DEF PushInv, JobsInv, NoLostWake, NoRepeatWithoutFault
  <2>5. QED
    BY Zenon, <1>1, <2>1, <2>3, <2>4 DEF PushInv, JobsInv
<1>7. BatchInv'
  <2>1. ASSUME NEW t \in batch' PROVE TaskInv(t)'
    <3>1. PICK w \in L : t = New(w)
      BY Zenon, <1>5
    <3>2. IsTask(t) /\ t.wake = w /\ t.token = NewToken /\ t.at = "queued"
      BY Zenon, <1>4, <3>1
    <3>3. w \in Wakes /\ w[1] \in posted /\ w \in rest
      BY Zenon, <1>2 DEF PushInv, JobsInv
    <3>4. jobs'[w].lease = NewToken
      BY Zenon, <1>3, <1>5, <3>3
    <3>5. faults = 0 => w \notin accepted
      BY Zenon, <1>1, <3>3 DEF PushInv, JobsInv
    <3>6. QED
      BY Zenon, <1>1, <3>2, <3>3, <3>4, <3>5 DEF TaskInv
  <2>2. \A t, u \in batch' : t.wake = u.wake => t = u
    BY <1>4, <1>5
  <2>3. QED
    BY Zenon, <2>1, <2>2 DEF BatchInv
<1>8. QED
  BY Zenon, <1>1, <1>6, <1>7 DEF PushInv, SubsInv, TrackerInv, RetiredMeansRefused

\* A task moves on: what its row, the history and the tracker need of it is
\* said of the task that replaces it.
LEMMA MoveInv ==
    ASSUME PushInv, NEW t \in batch, NEW u, batch' = (batch \ {t}) \cup {u}, u.wake = t.wake,
           UNCHANGED <<subs, jobs, direct, posted, queued>>,
           faults' \in Nat, faults' = 0 => faults = 0,
           settled \subseteq settled', condemned \subseteq condemned',
           \/ UNCHANGED <<accepted, repeated>>
           \/ /\ accepted' = accepted \cup {t.wake}
              /\ repeated' = (IF t.wake \in accepted THEN repeated \cup {t.wake} ELSE repeated)
              /\ faults' # 0 \/ t.at # "accepted",
           TaskInv(u)', TrackerInv'
    PROVE  PushInv'
<1>1. TaskInv(t) /\ \A o \in batch : o.wake = t.wake => o = t
  BY Zenon DEF PushInv, BatchInv
<1>2. NoRepeatWithoutFault'
  BY Zenon, <1>1 DEF PushInv, JobsInv, NoRepeatWithoutFault, TaskInv
<1>3. \A w \in accepted' : w \in accepted \/ w = t.wake
  BY Zenon
<1>4. \A o \in batch : \E p \in batch' : p.wake = o.wake
  BY Zenon
<1>5. JobsInv'
  <2>1. \A w \in queued' \cup accepted' : w[1] \in posted'
    BY Zenon, <1>1, <1>3 DEF PushInv, JobsInv, TaskInv
  <2>2. \A w \in accepted' : faults' = 0 /\ w \in DOMAIN jobs' => \E p \in batch' : p.wake = w
    BY Zenon, <1>3, <1>4 DEF PushInv, JobsInv
  <2>3. NoLostWake'
    BY Zenon DEF PushInv, JobsInv, NoLostWake
  <2>4. QED
    BY Zenon, <1>2, <2>1, <2>2, <2>3 DEF PushInv, JobsInv
<1>6. BatchInv'
  <2>1. ASSUME NEW o \in batch, o # t PROVE TaskInv(o)'
    <3>1. TaskInv(o) /\ o.wake # t.wake
      BY Zenon, <1>1, <2>1 DEF PushInv, BatchInv
    <3>2. o.wake \in accepted' => o.wake \in accepted
      BY Zenon, <1>3, <3>1
    <3>3. QED
      BY Zenon, <3>1, <3>2 DEF TaskInv
  <2>2. \A o, p \in batch' : o.wake = p.wake => o = p
    BY Zenon, <1>1 DEF PushInv, BatchInv
  <2>3. QED
    BY Zenon, <2>1, <2>2 DEF BatchInv
<1>7. SubsInv'
  BY Zenon DEF PushInv, SubsInv, RetiredMeansRefused
<1>8. QED
  BY Zenon, <1>5, <1>6, <1>7 DEF PushInv

\* The refresh just before the send.
LEMMA RefreshInv ==
    ASSUME PushInv, NEW t \in batch, RefreshPushWakeJob(t) \/ RefreshFails(t)
    PROVE  PushInv'
<1>1. TaskInv(t) /\ IsTask(t) /\ TrackerInv /\ faults \in Nat
  BY Zenon DEF PushInv, BatchInv, TaskInv, JobsInv
<1>2. CASE RefreshFails(t)
  <2> DEFINE u == [t EXCEPT !.at = "retry"]
  <2>1. /\ batch' = (batch \ {t}) \cup {u} /\ faults' = faults + 1 /\ t.at = "queued"
        /\ UNCHANGED <<subs, jobs, tracker, direct, posted, queued, settled, accepted, repeated, refusals, condemned>>
    BY Zenon, <1>2 DEF RefreshFails, Fault, Moved, recipient, history
  <2>2. IsTask(u) /\ u.wake = t.wake /\ u.token = t.token /\ u.at = "retry"
    BY <1>1, TaskMoved, ZenonT(60)
  <2> HIDE DEF u
  <2>3. TrackerInv' /\ faults' \in Nat /\ faults' # 0
    BY <1>1, <2>1 DEF TrackerInv
  <2>4. PICK v : v = u
    BY Zenon
  <2>5. TaskInv(v)'
    BY Zenon, <1>1, <2>1, <2>2, <2>3, <2>4 DEF TaskInv
  <2>6. QED
    BY Zenon, <2>1, <2>2, <2>3, <2>4, <2>5, MoveInv
<1>3. CASE RefreshPushWakeJob(t)
  <2>1. /\ t.at = "queued" /\ settled' = settled \cup Hopeless
        /\ UNCHANGED <<subs, jobs, tracker, direct, posted, faults, queued, accepted, repeated, refusals, condemned>>
    BY Zenon, <1>3 DEF RefreshPushWakeJob, recipient
  <2>2. PICK v : /\ batch' = (batch \ {t}) \cup {v}
                 /\ IsTask(v) /\ v.wake = t.wake /\ v.token = t.token
                 /\ v.at = "sending" \/ (v.at = "drop" /\ ~Refreshed(t))
    <3>1. CASE Refreshed(t)
      <4> DEFINE u == [t EXCEPT !.at = "sending", !.cred = subs[t.wake[2]].cred]
      <4>1. batch' = (batch \ {t}) \cup {u}
        BY Zenon, <1>3, <3>1 DEF RefreshPushWakeJob
      <4>2. t \in [wake : {t.wake}, token : {t.token}, cred : {t.cred}, at : {t.at}]
        BY <1>1, Zenon DEF IsTask
      <4>3. u \in [wake : {t.wake}, token : {t.token}, cred : {subs[t.wake[2]].cred}, at : {"sending"}]
        BY <4>2, Zenon
      <4> HIDE DEF u
      <4>4. IsTask(u) /\ u.wake = t.wake /\ u.token = t.token /\ u.at = "sending"
        BY Zenon, <4>3 DEF IsTask
      <4>5. QED
        BY Zenon, <4>1, <4>4
    <3>2. CASE ~Refreshed(t)
      <4> DEFINE u == [t EXCEPT !.at = "drop"]
      <4>1. batch' = (batch \ {t}) \cup {u}
        BY Zenon, <1>3, <3>2 DEF RefreshPushWakeJob, Moved
      <4>2. IsTask(u) /\ u.wake = t.wake /\ u.token = t.token /\ u.at = "drop"
        BY <1>1, TaskMoved, Zenon
      <4> HIDE DEF u
      <4>3. QED
        BY Zenon, <3>2, <4>1, <4>2
    <3>3. QED
      BY Zenon, <3>1, <3>2
  <2>3. v.at = "drop" => t.wake \in settled' \/ t.wake \notin DOMAIN jobs
    <3>1. SUFFICES ASSUME v.at = "drop", t.wake \in DOMAIN jobs PROVE t.wake \in settled'
      BY Zenon
    <3>2. HeldBy(t) /\ ~Refreshed(t)
      BY Zenon, <1>1, <2>2, <3>1 DEF HeldBy, TaskInv
    <3>3. t.wake \in Hopeless
      BY <3>1, <3>2, Zenon DEF Refreshed, Hopeless
    <3>4. QED
      BY Zenon, <2>1, <3>3
  <2>4. TrackerInv'
    BY Zenon, <1>1, <2>1 DEF TrackerInv
  <2>5. TaskInv(v)'
    BY Zenon, <1>1, <2>1, <2>2, <2>3 DEF TaskInv
  <2>6. QED
    BY Zenon, <1>1, <2>1, <2>2, <2>4, <2>5, MoveInv
<1>4. QED
  BY Zenon, <1>2, <1>3

\* The provider takes the wake.
LEMMA AcceptedInv ==
    ASSUME PushInv, NEW t \in batch, SendAccepted(t)
    PROVE  PushInv'
<1> DEFINE u == [t EXCEPT !.at = "accepted"]
<1>1. TaskInv(t) /\ IsTask(t) /\ TrackerInv /\ faults \in Nat
  BY Zenon DEF PushInv, BatchInv, TaskInv, JobsInv
<1>2. /\ t.at = "sending" /\ batch' = (batch \ {t}) \cup {u}
      /\ accepted' = accepted \cup {t.wake} /\ settled' = settled \cup {t.wake}
      /\ repeated' = (IF t.wake \in accepted THEN repeated \cup {t.wake} ELSE repeated)
      /\ tracker' = Without(tracker, {t.wake[2]}) /\ refusals' = [refusals EXCEPT ![t.wake[2]] = 0]
      /\ UNCHANGED <<subs, jobs, direct, posted, faults, queued, condemned>>
  BY Zenon DEF SendAccepted, Moved, Accept, ClearRejections, recipient
<1>3. IsTask(u) /\ u.wake = t.wake /\ u.token = t.token /\ u.at = "accepted"
  BY <1>1, TaskMoved, Zenon
<1> HIDE DEF u
<1>4. PICK v : v = u
  BY Zenon
<1>5. TaskInv(v)'
  BY Zenon, <1>1, <1>2, <1>3, <1>4 DEF TaskInv
<1>6. TrackerInv'
  BY Zenon, <1>1, <1>2 DEF TrackerInv, Without, Restrict
<1>7. QED
  BY Zenon, <1>1, <1>2, <1>3, <1>4, <1>5, <1>6, MoveInv

\* The provider refuses it: the tracker retires a subscription only at the
\* last of MinCount refusals in a row.
LEMMA RejectedInv ==
    ASSUME PushInv, NEW t \in batch, SendRejected(t)
    PROVE  PushInv'
<1> DEFINE s == t.wake[2]
           n == refusals[s] + 1
           noted == NoteRejection(s)
           u == [t EXCEPT !.at = IF noted.retire THEN "retire" ELSE "drop"]
           entry == IF s \in DOMAIN tracker THEN tracker[s] ELSE [count |-> 0, aged |-> FALSE]
           count == IF entry.count < MinCount THEN entry.count + 1 ELSE MinCount
           dead == count >= MinCount /\ entry.aged
           marked == [count |-> count, aged |-> entry.aged]
<1>1. TaskInv(t) /\ IsTask(t) /\ TrackerInv /\ faults \in Nat /\ s \in SubIds
  BY Zenon DEF PushInv, BatchInv, TaskInv, JobsInv, Wakes
<1>2. /\ t.at = "sending" /\ batch' = (batch \ {t}) \cup {u}
      /\ tracker' \in noted.trackers
      /\ refusals' = [refusals EXCEPT ![s] = IF n > MinCount THEN MinCount ELSE n]
      /\ condemned' = (IF n >= MinCount THEN condemned \cup {<<s, t.cred>>} ELSE condemned)
      /\ settled' = settled \cup {t.wake}
      /\ UNCHANGED <<subs, jobs, direct, posted, faults, queued, accepted, repeated>>
  BY Zenon DEF SendRejected, Moved, recipient
<1>3. /\ entry.count \in Nat /\ entry.aged \in BOOLEAN /\ entry.count <= refusals[s] /\ refusals[s] \in Nat
      /\ MinCount \in Nat \ {0}
  <2>1. MinCount \in Nat \ {0} /\ refusals[s] \in Nat
    BY Zenon, <1>1, PushWakeConstants DEF TrackerInv
  <2>2. CASE s \in DOMAIN tracker
    BY Zenon, <1>1, <2>1, <2>2 DEF TrackerInv
  <2>3. CASE s \notin DOMAIN tracker
    <3>1. entry = [count |-> 0, aged |-> FALSE]
      BY Zenon, <2>3
    <3> HIDE DEF entry
    <3>2. entry.count = 0 /\ entry.aged \in BOOLEAN
      BY <3>1, Zenon
    <3>3. QED
      BY <2>1, <3>2
  <2>4. QED
    BY Zenon, <2>2, <2>3
<1>4. /\ noted.retire = dead
      /\ \E gone : tracker' = IF dead THEN Without(tracker, {s}) ELSE With(Without(tracker, gone), s, marked)
  BY <1>2, Zenon DEF NoteRejection
<1> HIDE DEF entry, noted
<1>5. /\ count \in Nat /\ count <= MinCount /\ count <= n
      /\ dead => n >= MinCount
  BY <1>3
<1>6. marked \in [count : Nat, aged : BOOLEAN] /\ marked.count = count
  BY <1>3, <1>5, Zenon
<1> HIDE DEF count, dead, marked
<1>7. TrackerInv'
  <2>1. refusals' \in [SubIds -> Nat] /\ count <= refusals'[s] /\ \A x \in SubIds \ {s} : refusals'[x] = refusals[x]
    BY <1>1, <1>2, <1>3, <1>5 DEF TrackerInv
  <2>2. \A x \in DOMAIN tracker' : (x \in DOMAIN tracker /\ x # s /\ tracker'[x] = tracker[x]) \/ (x = s /\ tracker'[x] = marked)
    BY <1>4 DEF Without, With, Restrict
  <2>3. QED
    BY Zenon, <1>1, <1>6, <2>1, <2>2 DEF TrackerInv
<1>8. IsTask(u) /\ u.wake = t.wake /\ u.token = t.token /\ u.cred = t.cred /\ u.at = IF dead THEN "retire" ELSE "drop"
  <2> DEFINE a == IF noted.retire THEN "retire" ELSE "drop"
  <2>1. u = [t EXCEPT !.at = a]
    BY Zenon
  <2>2. a = IF dead THEN "retire" ELSE "drop"
    BY <1>4, Zenon
  <2> HIDE DEF a, u
  <2>3. IsTask(u) /\ u.wake = t.wake /\ u.token = t.token /\ u.cred = t.cred /\ u.at = a
    BY <1>1, <2>1, TaskMoved, Zenon
  <2>4. QED
    BY <2>2, <2>3, Zenon
<1> HIDE DEF u
<1>9. PICK v : v = u
  BY Zenon
<1>10. v.at = "retire" => <<t.wake[2], t.cred>> \in condemned'
  BY Zenon, <1>2, <1>5, <1>8, <1>9
<1>11. v.at # "accepted"
  BY Zenon, <1>8, <1>9
<1>12. TaskInv(v)'
  BY Zenon, <1>1, <1>2, <1>8, <1>9, <1>10, <1>11 DEF TaskInv
<1>13. QED
  BY Zenon, <1>1, <1>2, <1>7, <1>8, <1>9, <1>12, MoveInv

\* The provider calls the target gone.
LEMMA GoneInv ==
    ASSUME PushInv, NEW t \in batch, SendGone(t)
    PROVE  PushInv'
<1> DEFINE u == [t EXCEPT !.at = "retire"]
<1>1. TaskInv(t) /\ IsTask(t) /\ TrackerInv /\ faults \in Nat
  BY Zenon DEF PushInv, BatchInv, TaskInv, JobsInv
<1>2. /\ t.at = "sending" /\ batch' = (batch \ {t}) \cup {u}
      /\ condemned' = condemned \cup {<<t.wake[2], t.cred>>}
      /\ UNCHANGED <<subs, jobs, tracker, direct, posted, faults, queued, settled, accepted, repeated, refusals>>
  BY Zenon DEF SendGone, Moved, recipient
<1>3. IsTask(u) /\ u.wake = t.wake /\ u.token = t.token /\ u.cred = t.cred /\ u.at = "retire"
  BY <1>1, TaskMoved, Zenon
<1> HIDE DEF u
<1>4. PICK v : v = u
  BY Zenon
<1>5. TaskInv(v)' /\ TrackerInv'
  BY Zenon, <1>1, <1>2, <1>3, <1>4 DEF TaskInv, TrackerInv
<1>6. QED
  BY Zenon, <1>1, <1>2, <1>3, <1>4, <1>5, MoveInv

\* The send fails, or only its answer is lost.
LEMMA FailsInv ==
    ASSUME PushInv, NEW t \in batch, SendFails(t)
    PROVE  PushInv'
<1> DEFINE u == [t EXCEPT !.at = "retry"]
<1>1. TaskInv(t) /\ IsTask(t) /\ TrackerInv /\ faults \in Nat
  BY Zenon DEF PushInv, BatchInv, TaskInv, JobsInv
<1>2. /\ t.at = "sending" /\ batch' = (batch \ {t}) \cup {u}
      /\ UNCHANGED <<subs, jobs, tracker, direct, posted, queued, refusals, condemned>>
      /\ \/ UNCHANGED <<faults, settled, accepted, repeated>>
         \/ /\ faults' = faults + 1 /\ accepted' = accepted \cup {t.wake} /\ settled' = settled \cup {t.wake}
            /\ repeated' = (IF t.wake \in accepted THEN repeated \cup {t.wake} ELSE repeated)
  BY Zenon DEF SendFails, Fault, Accept, Moved, recipient, history
<1>3. IsTask(u) /\ u.wake = t.wake /\ u.token = t.token /\ u.at = "retry"
  BY <1>1, TaskMoved, Zenon
<1> HIDE DEF u
<1>4. PICK v : v = u
  BY Zenon
<1>5. faults' \in Nat /\ (faults' = 0 => faults = 0 /\ accepted' = accepted) /\ settled \subseteq settled'
  BY <1>1, <1>2
<1>6. TaskInv(v)' /\ TrackerInv'
  BY Zenon, <1>1, <1>2, <1>3, <1>4, <1>5 DEF TaskInv, TrackerInv
<1>7. QED
  BY Zenon, <1>1, <1>2, <1>3, <1>4, <1>5, <1>6, MoveInv

\* A task ends: the rows it leaves are of other tasks, or it had its reason.
LEMMA DoneInv ==
    ASSUME PushInv, NEW t \in batch, batch' = batch \ {t},
           DOMAIN jobs' \subseteq DOMAIN jobs,
           \A w \in DOMAIN jobs' : IsJob(jobs'[w]) /\ (w # t.wake => jobs'[w] = jobs[w]),
           \A w \in DOMAIN jobs \ DOMAIN jobs' : w \in settled',
           UNCHANGED <<direct, posted, queued, accepted, repeated, condemned, tracker, refusals>>,
           settled \subseteq settled', SubsInv',
           faults' \in Nat, faults' = 0 => /\ faults = 0
                                           /\ t.at = "accepted" => t.wake \notin DOMAIN jobs'
    PROVE  PushInv'
<1>1. TaskInv(t) /\ \A o \in batch : TaskInv(o) /\ (o.wake = t.wake => o = t)
  BY Zenon DEF PushInv, BatchInv
<1>2. JobsInv'
  <2>1. \A w \in DOMAIN jobs' : w \in Wakes /\ w[1] \in posted' /\ IsJob(jobs'[w])
    BY Zenon DEF PushInv, JobsInv
  <2>2. ASSUME NEW w \in accepted', faults' = 0, w \in DOMAIN jobs' PROVE \E o \in batch' : o.wake = w
    <3>1. PICK o \in batch : o.wake = w
      BY Zenon, <2>2 DEF PushInv, JobsInv
    <3>2. o.at = "accepted"
      BY Zenon, <1>1, <2>2, <3>1 DEF TaskInv
    <3>3. o # t
      BY Zenon, <2>2, <3>1, <3>2
    <3>4. QED
      BY Zenon, <3>1, <3>3
  <2>3. NoLostWake' /\ NoRepeatWithoutFault'
    BY Zenon DEF PushInv, JobsInv, NoLostWake, NoRepeatWithoutFault
  <2>4. QED
    BY Zenon, <2>1, <2>2, <2>3 DEF PushInv, JobsInv
<1>3. BatchInv'
  <2>1. ASSUME NEW o \in batch' PROVE TaskInv(o)'
    <3>1. TaskInv(o) /\ o.wake # t.wake
      BY Zenon, <1>1
    <3>2. QED
      BY Zenon, <3>1 DEF TaskInv
  <2>2. QED
    BY Zenon, <2>1 DEF PushInv, BatchInv
<1>4. QED
  BY Zenon, <1>2, <1>3 DEF PushInv, TrackerInv

\* Completing, dropping and retrying, and a statement that fails.
LEMMA SettleInv ==
    ASSUME PushInv, NEW t \in batch,
           CompletePushWakeJob(t) \/ DropPushWakeJob(t) \/ RetryPushWakeJob(t) \/ WriteFails(t)
    PROVE  PushInv'
<1>1. TaskInv(t) /\ faults \in Nat /\ SubsInv /\ \A w \in DOMAIN jobs : IsJob(jobs[w])
  BY Zenon DEF PushInv, BatchInv, JobsInv
<1>2. /\ batch' = batch \ {t}
      /\ UNCHANGED <<subs, direct, posted, queued, settled, accepted, repeated, condemned, tracker, refusals>>
  BY Zenon DEF CompletePushWakeJob, DropPushWakeJob, RetryPushWakeJob, WriteFails, Done, recipient, history
<1>3. SubsInv'
  BY Zenon, <1>1, <1>2 DEF SubsInv, RetiredMeansRefused
<1>4. CASE CompletePushWakeJob(t) \/ DropPushWakeJob(t)
  <2>1. /\ jobs' = (IF HeldBy(t) THEN Without(jobs, {t.wake}) ELSE jobs) /\ UNCHANGED faults
        /\ t.at \in {"accepted", "drop"}
    BY Zenon, <1>4 DEF CompletePushWakeJob, DropPushWakeJob, DeleteHeld
  <2>2. HeldBy(t) <=> t.wake \in DOMAIN jobs
    BY Zenon, <1>1 DEF TaskInv, HeldBy
  <2>3. DOMAIN jobs' = DOMAIN jobs \ {t.wake} /\ \A w \in DOMAIN jobs' : jobs'[w] = jobs[w]
    BY Zenon, <2>1, <2>2 DEF Without, Restrict
  <2>4. t.wake \in DOMAIN jobs => t.wake \in settled
    BY Zenon, <1>1, <2>1 DEF TaskInv
  <2>5. QED
    BY Zenon, <1>1, <1>2, <1>3, <2>1, <2>3, <2>4, DoneInv
<1>5. CASE RetryPushWakeJob(t)
  <2> DEFINE k == [jobs[t.wake] EXCEPT !.lease = 0, !.lapsed = FALSE, !.due = FALSE]
  <2>1. t.at = "retry" /\ UNCHANGED faults
    BY Zenon, <1>5 DEF RetryPushWakeJob
  <2>2. \/ jobs' = jobs
        \/ t.wake \in DOMAIN jobs /\ jobs' = [jobs EXCEPT ![t.wake] = k]
    BY <1>5, Zenon DEF RetryPushWakeJob, HeldBy
  <2>3. t.wake \in DOMAIN jobs => IsJob(k)
    BY Zenon, <1>1, JobLeased
  <2> HIDE DEF k
  <2>4. DOMAIN jobs' = DOMAIN jobs /\ \A w \in DOMAIN jobs' : IsJob(jobs'[w]) /\ (w # t.wake => jobs'[w] = jobs[w])
    BY Zenon, <1>1, <2>2, <2>3
  <2>5. QED
    BY Zenon, <1>1, <1>2, <1>3, <2>1, <2>4, DoneInv
<1>6. CASE WriteFails(t)
  <2>1. jobs' = jobs /\ faults' = faults + 1
    BY Zenon, <1>6 DEF WriteFails, Fault
  <2>2. faults' \in Nat /\ faults' # 0
    BY <1>1, <2>1
  <2>3. QED
    BY Zenon, <1>1, <1>2, <1>3, <2>1, <2>2, DoneInv
<1>7. QED
  BY Zenon, <1>4, <1>5, <1>6

\* Disabling a target the provider condemned.
LEMMA DisabledTarget ==
    ASSUME SubsInv, NEW s, s \in DOMAIN subs => <<s, subs[s].cred>> \in condemned, Disable({s}, "provider")
    PROVE  /\ \A x \in DOMAIN subs' : x \in SubIds /\ subs'[x] \in Sub
           /\ \A x \in DOMAIN subs' : subs'[x].disabled = "provider" => <<x, subs'[x].cred>> \in condemned
<1>1. ASSUME NEW x \in DOMAIN subs
      PROVE  /\ [subs[x] EXCEPT !.disabled = "provider"] \in Sub
             /\ [subs[x] EXCEPT !.disabled = "provider"].cred = subs[x].cred
             /\ subs[x] \in Sub
  BY Zenon DEF SubsInv, Sub
<1>2. DOMAIN subs' = DOMAIN subs /\ \A x \in DOMAIN subs : subs'[x] = subs[x] \/ (x = s /\ subs'[x] = [subs[x] EXCEPT !.disabled = "provider"])
  BY Zenon DEF Disable
<1>3. ASSUME NEW x \in DOMAIN subs' PROVE subs'[x] \in Sub /\ subs'[x].cred = subs[x].cred /\ (x = s \/ subs'[x] = subs[x])
  <2>1. CASE subs'[x] = subs[x]
    BY <1>1, <1>2, <2>1, Zenon
  <2>2. CASE x = s /\ subs'[x] = [subs[x] EXCEPT !.disabled = "provider"]
    BY <1>1, <1>2, <2>2, Zenon
  <2>3. QED
    BY Zenon, <1>2, <2>1, <2>2
<1>4. QED
  BY Zenon, <1>2, <1>3 DEF SubsInv, RetiredMeansRefused

\* Retiring a subscription takes its jobs with it.
LEMMA RetireInv ==
    ASSUME PushInv, NEW t \in batch, RetirePushWakeSubscription(t)
    PROVE  PushInv'
<1> DEFINE s == t.wake[2]
           ofSub == {w \in DOMAIN jobs : w[2] = s}
<1>1. TaskInv(t) /\ faults \in Nat /\ SubsInv /\ \A w \in DOMAIN jobs : IsJob(jobs[w])
  BY Zenon DEF PushInv, BatchInv, JobsInv
<1>2. /\ batch' = batch \ {t} /\ t.at = "retire"
      /\ UNCHANGED <<direct, posted, queued, accepted, repeated, condemned, tracker, refusals, faults>>
  BY Zenon DEF RetirePushWakeSubscription, Done
<1>3. <<s, t.cred>> \in condemned
  BY Zenon, <1>1, <1>2 DEF TaskInv
<1>4. CASE SameTarget(s, t.cred)
  <2>1. /\ Disable({s}, "provider") /\ jobs' = Without(jobs, ofSub)
        /\ settled' = settled \cup Hopeless \cup {w \in ofSub : <<s, subs[s].cred>> \in condemned}
    BY Zenon, <1>4 DEF RetirePushWakeSubscription
  <2>2. <<s, subs[s].cred>> \in condemned
    BY Zenon, <1>3, <1>4 DEF SameTarget
  <2>3. DOMAIN jobs' = DOMAIN jobs \ ofSub /\ \A w \in DOMAIN jobs' : jobs'[w] = jobs[w]
    BY Zenon, <2>1 DEF Without, Restrict
  <2>4. SubsInv'
    BY Zenon, <1>1, <1>2, <2>1, <2>2, DisabledTarget DEF SubsInv, RetiredMeansRefused
  <2>5. \A w \in DOMAIN jobs \ DOMAIN jobs' : w \in settled'
    BY Zenon, <2>1, <2>2, <2>3
  <2>6. QED
    BY Zenon, <1>1, <1>2, <2>1, <2>3, <2>4, <2>5, DoneInv
<1>5. CASE ~SameTarget(s, t.cred)
  <2> DEFINE k == [jobs[t.wake] EXCEPT !.lease = 0, !.lapsed = FALSE]
  <2>1. UNCHANGED <<subs, settled>>
    BY Zenon, <1>5 DEF RetirePushWakeSubscription
  <2>2. \/ jobs' = jobs
        \/ t.wake \in DOMAIN jobs /\ jobs' = [jobs EXCEPT ![t.wake] = k]
    BY <1>5, Zenon DEF RetirePushWakeSubscription, HeldBy
  <2>3. t.wake \in DOMAIN jobs => IsJob(k)
    BY Zenon, <1>1, JobLeased
  <2> HIDE DEF k
  <2>4. DOMAIN jobs' = DOMAIN jobs /\ \A w \in DOMAIN jobs' : IsJob(jobs'[w]) /\ (w # t.wake => jobs'[w] = jobs[w])
    BY Zenon, <1>1, <2>2, <2>3
  <2>5. SubsInv'
    BY Zenon, <1>1, <1>2, <2>1 DEF SubsInv, RetiredMeansRefused
  <2>6. QED
    BY Zenon, <1>1, <1>2, <2>1, <2>4, <2>5, DoneInv
<1>6. QED
  BY Zenon, <1>4, <1>5

\* A crash takes the batch and the tracker; a row that is left under its lease
\* is claimed again.
LEMMA CrashInv ==
    ASSUME PushInv, Crash
    PROVE  PushInv'
<1>1. /\ batch' = {} /\ DOMAIN tracker' = {} /\ direct' = {} /\ faults' = faults + 1
      /\ UNCHANGED <<subs, jobs, posted, queued, settled, accepted, repeated, refusals, condemned>>
  BY DEF Crash, Fault, recipient, history
<1>2. faults' \in Nat /\ faults' # 0
  BY <1>1 DEF PushInv, JobsInv
<1>3. JobsInv'
  BY Zenon, <1>1, <1>2 DEF PushInv, JobsInv, NoLostWake, NoRepeatWithoutFault
<1>4. BatchInv' /\ TrackerInv'
  BY Zenon, <1>1 DEF PushInv, BatchInv, TrackerInv
<1>5. SubsInv'
  BY Zenon, <1>1 DEF PushInv, SubsInv, RetiredMeansRefused
<1>6. QED
  BY Zenon, <1>3, <1>4, <1>5 DEF PushInv

\* Self-tests and recovery wakes.
LEMMA DirectInv ==
    ASSUME PushInv, \/ \E s \in SubIds : DirectSend(s)
                    \/ \E g \in direct : DirectEnds(g) \/ DisablePushTarget(g)
    PROVE  PushInv'
<1>1. UNCHANGED <<jobs, batch, tracker, posted, faults, queued, settled, accepted, repeated, refusals>> /\ condemned \subseteq condemned'
  BY Zenon DEF DirectSend, DirectEnds, DisablePushTarget, recipient, history
<1>2. ASSUME NEW s \in SubIds, DirectSend(s) PROVE SubsInv'
  <2> DEFINE g == [sub |-> s, cred |-> subs[s].cred, at |-> "sending"]
  <2>1. s \in DOMAIN subs /\ direct' = {g} /\ UNCHANGED <<subs, condemned>>
    BY Zenon, <1>2 DEF DirectSend, Enabled, recipient, history
  <2>2. subs[s].cred \in Creds
    BY Zenon, <2>1 DEF PushInv, SubsInv, Sub
  <2>3. g \in Target /\ g.at = "sending"
    BY Zenon, <2>2 DEF Target
  <2> HIDE DEF g
  <2>4. QED
    BY Zenon, <2>1, <2>3 DEF PushInv, SubsInv, RetiredMeansRefused
<1>3. ASSUME NEW g \in direct, DirectEnds(g) PROVE SubsInv'
  <2> DEFINE h == [g EXCEPT !.at = "disable"]
  <2>1. /\ UNCHANGED subs
        /\ \/ direct' = {} /\ UNCHANGED condemned
           \/ direct' = {h} /\ condemned' = condemned \cup {<<g.sub, g.cred>>}
    BY Zenon, <1>3 DEF DirectEnds, recipient
  <2>2. h \in Target /\ h.sub = g.sub /\ h.cred = g.cred
    BY Zenon DEF PushInv, SubsInv, Target
  <2> HIDE DEF h
  <2>3. QED
    BY Zenon, <2>1, <2>2 DEF PushInv, SubsInv, RetiredMeansRefused
<1>4. ASSUME NEW g \in direct, DisablePushTarget(g) PROVE SubsInv'
  <2>1. direct' = {} /\ UNCHANGED condemned /\ <<g.sub, g.cred>> \in condemned
    BY Zenon, <1>4 DEF DisablePushTarget, history, PushInv, SubsInv
  <2>2. CASE SameTarget(g.sub, g.cred)
    <3>1. Disable({g.sub}, "provider") /\ <<g.sub, subs[g.sub].cred>> \in condemned
      BY Zenon, <1>4, <2>1, <2>2 DEF DisablePushTarget, SameTarget
    <3>2. QED
      BY Zenon, <2>1, <3>1, DisabledTarget DEF PushInv, SubsInv, RetiredMeansRefused
  <2>3. CASE ~SameTarget(g.sub, g.cred)
    <3>1. UNCHANGED subs
      BY Zenon, <1>4, <2>3 DEF DisablePushTarget
    <3>2. QED
      BY Zenon, <2>1, <3>1 DEF PushInv, SubsInv, RetiredMeansRefused
  <2>4. QED
    BY Zenon, <2>2, <2>3
<1>5. SubsInv'
  BY Zenon, <1>2, <1>3, <1>4
<1>6. BatchInv' /\ JobsInv' /\ TrackerInv'
  BY Zenon, <1>1 DEF PushInv, BatchInv, TaskInv, JobsInv, TrackerInv, NoLostWake, NoRepeatWithoutFault
<1>7. QED
  BY Zenon, <1>5, <1>6 DEF PushInv

\* Every step preserves it.
LEMMA PushStepInv == PushInv /\ [Next]_vars => PushInv'
<1> SUFFICES ASSUME PushInv, [Next]_vars PROVE PushInv'
  BY Zenon
<1>1. CASE Next
  BY ZenonT(60), <1>1, RecipientInv, EnqueueInv, TimeInv, ClaimInv, RefreshInv, AcceptedInv, RejectedInv, GoneInv, FailsInv,
     SettleInv, RetireInv, CrashInv, DirectInv, Zenon DEF Next, Answer, Settle
<1>2. CASE UNCHANGED vars
  <2>1. UNCHANGED <<subs, jobs, batch, tracker, direct, posted, faults, queued, settled, accepted, repeated, refusals, condemned>>
    BY Zenon, <1>2 DEF vars, recipient, history
  <2>2. QED
    BY Zenon, <2>1 DEF PushInv, BatchInv, TaskInv, JobsInv, TrackerInv, SubsInv, NoLostWake, NoRepeatWithoutFault, RetiredMeansRefused
<1>3. QED
  BY Zenon, <1>1, <1>2

\* No wake is lost (ClaimPushWakeJobs, CompletePushWakeJob, DropPushWakeJob,
\* RetirePushWakeSubscription), for any events, subscriptions, batch size and
\* numbers of crashes and changes.
THEOREM NoWakeIsLost == Spec => []NoLostWake
<1>1. PushInv => NoLostWake
  BY Zenon DEF PushInv, JobsInv
<1>2. QED
  BY PushInitInv, PushStepInv, <1>1, PTL DEF Spec

\* A registration is disabled only for an answer that was about it
\* (RetirePushWakeSubscription, DisablePushTarget), for every threshold and
\* size of the tracker.
THEOREM RetiredWereRefused == Spec => []RetiredMeansRefused
<1>1. PushInv => RetiredMeansRefused
  BY Zenon DEF PushInv, SubsInv
<1>2. QED
  BY PushInitInv, PushStepInv, <1>1, PTL DEF Spec

\* Without a fault no wake is accepted twice, although leases lapse while their
\* tasks send (ClaimPushWakeJobs, CompletePushWakeJob).
THEOREM NoRepeats == Spec => []NoRepeatWithoutFault
<1>1. PushInv => NoRepeatWithoutFault
  BY Zenon DEF PushInv, JobsInv
<1>2. QED
  BY PushInitInv, PushStepInv, <1>1, PTL DEF Spec

=============================================================================
