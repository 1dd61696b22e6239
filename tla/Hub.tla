-------------------------------- MODULE Hub --------------------------------
(***************************************************************************)
(* The realtime hub: which sockets are subscribed, what they are counted   *)
(* under, and how handlers that end sessions cut their sockets off.  A     *)
(* handshake authenticates, registers, reads its session again and only    *)
(* then serves; a handler that ends sessions commits that first and        *)
(* disconnects sockets afterwards, so the two interleave.                  *)
(*                                                                         *)
(* A socket's queue is a count: what an event says does not matter here.   *)
(***************************************************************************)
EXTENDS Integers, FiniteSets, FiniteSetsExt

CONSTANTS
    Sockets,          \* handshakes
    HubDevices,       \* devices that connect, all of one account
    Addresses,        \* remote addresses
    InPrefix,         \* those in one IPv6 /64; the others are IPv4
    MaxTotal,         \* maxConnections
    MaxPerAccount, MaxPerDevice, MaxPerIP, MaxPerPrefix,
    Buffer,           \* capacity of a socket's queue
    MaxLogins         \* bound: session tokens issued

VARIABLES
    live,             \* device -> the token of its session, 0 for none
    logins,           \* tokens issued
    socket,           \* socket -> its handshake or connection
    subscribers,      \* sockets in Hub.subscribers
    perIP,            \* Hub.perIP
    perPrefix,        \* Hub.perPrefix of the /64
    total,            \* Hub.total
    draining,         \* Hub.draining
    pending,          \* disconnects of handlers that have committed: sets of devices
    publishing        \* sockets a publisher copied under the lock and has still to send to

hubVars == <<live, logins, socket, subscribers, perIP, perPrefix, total, draining, pending, publishing>>

Connection(at, d, token, address) ==
    [at |-> at, device |-> d, token |-> token, address |-> address, queued |-> 0, closed |-> FALSE]
NewSocket == Connection("idle", 0, 0, 0)

HubInit ==
    /\ live = [d \in HubDevices |-> 0]
    /\ logins = 0
    /\ socket = [s \in Sockets |-> NewSocket]
    /\ subscribers = {}
    /\ perIP = [a \in Addresses |-> 0] /\ perPrefix = 0
    /\ total = 0
    /\ draining = FALSE
    /\ pending = {}
    /\ publishing = {}

Of(device) == {s \in subscribers : socket[s].device = device}

-----------------------------------------------------------------------------
(* The indexes.                                                            *)

\* removeLocked for every socket of gone, which is part of subscribers.
RemoveLocked(gone) ==
    /\ subscribers' = subscribers \ gone
    /\ total' = total - Cardinality(gone)
    /\ perIP' = [a \in Addresses |-> perIP[a] - Cardinality({s \in gone : socket[s].address = a})]
    /\ perPrefix' = perPrefix - Cardinality({s \in gone : socket[s].address \in InPrefix})

\* A socket that was disconnected or drained is no longer in the indexes.
Unregister(s) == RemoveLocked(subscribers \cap {s})

\* The buffered events of a closed socket are still written.
Close(gone) == [s \in Sockets |-> IF s \in gone THEN [socket[s] EXCEPT !.closed = TRUE] ELSE socket[s]]

-----------------------------------------------------------------------------
(* A handshake and its connection.                                         *)

Login(d) ==
    /\ live[d] = 0
    /\ logins < MaxLogins
    /\ logins' = logins + 1
    /\ live' = [live EXCEPT ![d] = logins + 1]
    /\ UNCHANGED <<socket, subscribers, perIP, perPrefix, total, draining, pending, publishing>>

Authenticate(s, d, a) ==
    /\ socket[s].at = "idle"
    /\ live[d] # 0
    /\ socket' = [socket EXCEPT ![s] = Connection("authenticated", d, live[d], a)]
    /\ UNCHANGED <<live, logins, subscribers, perIP, perPrefix, total, draining, pending, publishing>>

Admits(s) ==
    /\ ~draining
    /\ total < MaxTotal
    /\ Cardinality(subscribers) < MaxPerAccount
    /\ Cardinality(Of(socket[s].device)) < MaxPerDevice
    /\ perIP[socket[s].address] < MaxPerIP
    /\ socket[s].address \in InPrefix => perPrefix < MaxPerPrefix

Register(s) ==
    /\ socket[s].at = "authenticated"
    /\ \/ /\ Admits(s)
          /\ subscribers' = subscribers \cup {s}
          /\ perIP' = [perIP EXCEPT ![socket[s].address] = @ + 1]
          /\ perPrefix' = perPrefix + (IF socket[s].address \in InPrefix THEN 1 ELSE 0)
          /\ total' = total + 1
          /\ socket' = [socket EXCEPT ![s].at = "registered"]
       \/ /\ ~Admits(s)
          /\ socket' = [socket EXCEPT ![s] = NewSocket]
          /\ UNCHANGED <<subscribers, perIP, perPrefix, total>>
    /\ UNCHANGED <<live, logins, draining, pending, publishing>>

\* A handshake that trusts the session it authenticated with.
ServeUnchecked(s) ==
    /\ socket[s].at = "registered"
    /\ socket' = [socket EXCEPT ![s].at = "serving"]
    /\ UNCHANGED <<live, logins, subscribers, perIP, perPrefix, total, draining, pending, publishing>>

\* recheckSession: a deleted session, or a failed read, ends the handshake.
RecheckSession(s) ==
    /\ socket[s].at = "registered"
    /\ \/ /\ live[socket[s].device] = socket[s].token
          /\ socket' = [socket EXCEPT ![s].at = "serving"]
          /\ UNCHANGED <<subscribers, perIP, perPrefix, total>>
          /\ UNCHANGED publishing
       \/ /\ Unregister(s)
          /\ socket' = [socket EXCEPT ![s] = NewSocket]
          /\ publishing' = publishing \ {s}
    /\ UNCHANGED <<live, logins, draining, pending>>

\* The writer loop takes a queued event.
WriteEvent(s) ==
    /\ socket[s].at = "serving" /\ socket[s].queued > 0
    /\ socket' = [socket EXCEPT ![s].queued = @ - 1]
    /\ UNCHANGED <<live, logins, subscribers, perIP, perPrefix, total, draining, pending, publishing>>

\* ServeWebSocket returns: the queue is closed and empty, the peer is gone, a
\* write failed, or the session's expiry timer fired.
ServeWebSocketReturns(s) ==
    /\ socket[s].at = "serving"
    /\ Unregister(s)
    /\ socket' = [socket EXCEPT ![s] = NewSocket]
    /\ publishing' = publishing \ {s}
    /\ UNCHANGED <<live, logins, draining, pending>>

-----------------------------------------------------------------------------
(* Handlers that end sessions, publishers and shutdown.                    *)

\* revokeDevice, logout: one device.  setAdminAccountStatus, deleteAccount:
\* every device.  The disconnect follows the commit.
EndSessions(devices) ==
    /\ \E d \in devices : live[d] # 0
    /\ live' = [d \in HubDevices |-> IF d \in devices THEN 0 ELSE live[d]]
    /\ pending' = pending \cup {devices}
    /\ UNCHANGED <<logins, socket, subscribers, perIP, perPrefix, total, draining, publishing>>

\* changePassword, logoutAll of device d: the other devices' sessions end, and
\* disconnectAccountForRevocation takes the lock twice.
EndOtherSessions(d) ==
    /\ live[d] # 0
    /\ live' = [o \in HubDevices |-> IF o = d THEN live[d] ELSE 0]
    /\ pending' = pending \cup {HubDevices \ {d}, {d}}
    /\ UNCHANGED <<logins, socket, subscribers, perIP, perPrefix, total, draining, publishing>>

\* DisconnectDevice, DisconnectAccount, DisconnectAccountExceptDevice.
Disconnect(devices) ==
    LET gone == {s \in subscribers : socket[s].device \in devices} IN
    /\ devices \in pending
    /\ pending' = pending \ {devices}
    /\ RemoveLocked(gone)
    /\ socket' = Close(gone)
    /\ UNCHANGED <<live, logins, draining, publishing>>

\* Publish copies the subscribers under the lock and sends after it.
Publish ==
    /\ publishing = {}
    /\ publishing' = subscribers
    /\ UNCHANGED <<live, logins, socket, subscribers, perIP, perPrefix, total, draining, pending>>

\* A full queue drops the event for its socket; a closed one ignores it.
TrySend(s) ==
    /\ s \in publishing
    /\ publishing' = publishing \ {s}
    /\ socket' = IF socket[s].closed \/ socket[s].queued = Buffer
                 THEN socket ELSE [socket EXCEPT ![s].queued = @ + 1]
    /\ UNCHANGED <<live, logins, subscribers, perIP, perPrefix, total, draining, pending>>

Drain ==
    /\ ~draining
    /\ draining' = TRUE
    /\ socket' = Close(subscribers)
    /\ subscribers' = {}
    /\ perIP' = [a \in Addresses |-> 0] /\ perPrefix' = 0
    /\ total' = 0
    /\ UNCHANGED <<live, logins, pending, publishing>>

HubNext ==
    \/ \E d \in HubDevices : Login(d) \/ EndOtherSessions(d)
    \/ \E s \in Sockets, d \in HubDevices, a \in Addresses : Authenticate(s, d, a)
    \/ \E s \in Sockets : \/ Register(s) \/ RecheckSession(s) \/ WriteEvent(s)
                          \/ ServeWebSocketReturns(s) \/ TrySend(s)
    \/ \E devices \in {{d} : d \in HubDevices} \cup {HubDevices} : EndSessions(devices)
    \/ \E devices \in pending : Disconnect(devices)
    \/ Publish
    \/ Drain

-----------------------------------------------------------------------------
(* Properties.                                                             *)

\* A socket that serves has a session that still stands, or the handler that
\* ended the session has yet to disconnect it: "either the disconnect saw this
\* registration or this read sees the deleted session"
\* (call_sync_handlers.go:259-263).
NoStaleSocket ==
    \A s \in Sockets :
        socket[s].at = "serving" /\ ~socket[s].closed /\ live[socket[s].device] # socket[s].token =>
            \E devices \in pending : socket[s].device \in devices

=============================================================================
