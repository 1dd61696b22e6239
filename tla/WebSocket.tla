----------------------------- MODULE WebSocket -----------------------------
(***************************************************************************)
(* One realtime connection: the loop that writes events, pings and pongs,  *)
(* one at a time, and the reader that parses the peer's frames and gives   *)
(* up on a peer that sends nothing for pongWait.                           *)
(*                                                                         *)
(* Time is counted in ticks, and work that is due happens before the next  *)
(* one: a write takes up to writeWait, a live peer answers a ping within   *)
(* RoundTrip of receiving it.  The bytes of a frame are abstracted to what *)
(* the reader tells apart.                                                 *)
(***************************************************************************)
EXTENDS Integers

CONSTANTS
    PingPeriod, PongWait, WriteWait,   \* the keepalive of productionKeepalive, in ticks
    RoundTrip,                         \* how late a live peer's pong is
    MaxPongs,                          \* maxQueuedPongs
    MaxMessage                         \* maxClientMessageSize, in units

\* websocket.go:41-45: the difference of pongWait and pingPeriod "must exceed
\* 2*writeWait with room to spare for the round trip".
ASSUME KeepaliveAssumption ==
    /\ PingPeriod \in Nat \ {0} /\ PongWait \in Nat /\ WriteWait \in Nat /\ RoundTrip \in Nat
    /\ PingPeriod + 2 * WriteWait + RoundTrip < PongWait

VARIABLES
    conn,        \* open, stopping (the reader is done), closed
    why,         \* why the reader stopped: "", timeout, or the close code sent
    peer,        \* alive, or silent for good
    quiet,       \* ticks since the last complete inbound frame
    nextPing,    \* ticks until the ping ticker fires
    pingDue,     \* the ticker's channel holds a tick
    writing,     \* the frame being written: none, text, ping or pong
    left,        \* ticks that write still takes
    asked,       \* ticks since the peer received a ping it has not answered, -1 for none
    pongs,       \* pong replies queued
    fragment,    \* opcode of the open fragmented message, none when there is none
    fragmentSize \* len(fragmentedPayload)

socketVars == <<conn, why, peer, quiet, nextPing, pingDue, writing, left, asked, pongs, fragment, fragmentSize>>

WebSocketInit ==
    /\ conn = "open" /\ why = "" /\ peer = "alive"
    /\ quiet = 0 /\ nextPing = PingPeriod /\ pingDue = FALSE
    /\ writing = "none" /\ left = 0
    /\ asked = -1 /\ pongs = 0
    /\ fragment = "none" /\ fragmentSize = 0

\* wellFormed: known opcode, no reserved bits, masked, minimal length, a control
\* payload of at most 125 bytes, a valid close code.  utf8: its text is valid.
Frame == [op : {"continuation", "text", "binary", "close", "ping", "pong"}, fin : BOOLEAN,
          wellFormed : BOOLEAN, size : 0..(MaxMessage + 1), utf8 : BOOLEAN]

IsControl(f) == f.op \in {"close", "ping", "pong"}

ProtocolError(f) ==
    \/ ~f.wellFormed
    \/ IsControl(f) /\ ~f.fin
    \/ f.op = "continuation" /\ fragment = "none"
    \/ f.op \in {"text", "binary"} /\ fragment # "none"

TooBig(f) ==
    \/ f.size > MaxMessage
    \/ f.op = "continuation" /\ fragmentSize + f.size > MaxMessage

InvalidText(f) ==
    ~f.utf8 /\ (f.op = "text" \/ (f.op = "continuation" /\ fragment = "text"))

-----------------------------------------------------------------------------
(* The reader.                                                             *)

\* A frame the reader refuses or that asks to close: the reader returns a reply.
ReaderReplies(f) ==
    /\ why' = CASE ProtocolError(f) -> "protocolError"
                [] ~ProtocolError(f) /\ TooBig(f) -> "tooBig"
                [] ~ProtocolError(f) /\ ~TooBig(f) /\ f.op = "close" /\ f.utf8 -> "echo"
                [] OTHER -> "invalidPayload"
    /\ conn' = "stopping"
    /\ UNCHANGED <<quiet, asked, pongs, fragment, fragmentSize>>

\* queuePong drops the oldest reply when the queue is full.
ReaderAccepts(f) ==
    /\ quiet' = 0
    /\ asked' = IF f.op = "pong" THEN -1 ELSE asked
    /\ pongs' = IF f.op = "ping" /\ pongs < MaxPongs THEN pongs + 1 ELSE pongs
    /\ fragment' = CASE f.op \in {"text", "binary"} /\ ~f.fin -> f.op
                     [] f.op = "continuation" /\ f.fin -> "none"
                     [] OTHER -> fragment
    /\ fragmentSize' = CASE f.op \in {"text", "binary"} /\ ~f.fin -> f.size
                         [] f.op = "continuation" -> IF f.fin THEN 0 ELSE fragmentSize + f.size
                         [] OTHER -> fragmentSize
    /\ UNCHANGED <<conn, why>>

ReadFrame(f) ==
    /\ conn = "open" /\ peer = "alive"
    /\ IF ProtocolError(f) \/ TooBig(f) \/ InvalidText(f) \/ f.op = "close"
       THEN ReaderReplies(f)
       ELSE ReaderAccepts(f)
    /\ UNCHANGED <<peer, nextPing, pingDue, writing, left>>

\* The read deadline passes.
ReaderTimesOut ==
    /\ conn = "open" /\ quiet = PongWait
    /\ conn' = "stopping" /\ why' = "timeout"
    /\ UNCHANGED <<peer, quiet, nextPing, pingDue, writing, left, asked, pongs, fragment, fragmentSize>>

PeerFallsSilent ==
    /\ conn = "open" /\ peer = "alive"
    /\ peer' = "silent"
    /\ UNCHANGED <<conn, why, quiet, nextPing, pingDue, writing, left, asked, pongs, fragment, fragmentSize>>

-----------------------------------------------------------------------------
(* The writer loop.                                                        *)

Write(kind, ticks) == writing' = kind /\ left' = ticks

WritePing(ticks) ==
    /\ conn = "open" /\ writing = "none" /\ pingDue
    /\ Write("ping", ticks)
    /\ pingDue' = FALSE
    /\ UNCHANGED <<conn, why, peer, quiet, nextPing, asked, pongs, fragment, fragmentSize>>

\* Go's select alone: an event may go before a ping that is due.
WriteAnyReady(kind, ticks) ==
    /\ conn = "open" /\ writing = "none"
    /\ kind = "pong" => pongs > 0
    /\ pongs' = IF kind = "pong" THEN pongs - 1 ELSE pongs
    /\ Write(kind, ticks)
    /\ UNCHANGED <<conn, why, peer, quiet, nextPing, pingDue, asked, fragment, fragmentSize>>

\* A due ping goes first; then an event or a pong, whichever select picks.
WriteOther(kind, ticks) ==
    /\ conn = "open" /\ writing = "none" /\ ~pingDue
    /\ kind = "pong" => pongs > 0
    /\ pongs' = IF kind = "pong" THEN pongs - 1 ELSE pongs
    /\ Write(kind, ticks)
    /\ UNCHANGED <<conn, why, peer, quiet, nextPing, pingDue, asked, fragment, fragmentSize>>

\* A write that also renews the read deadline.
WrittenRenews ==
    /\ conn = "open" /\ writing # "none" /\ left = 0
    /\ writing' = "none"
    /\ asked' = IF writing = "ping" /\ asked = -1 THEN 0 ELSE asked
    /\ quiet' = 0
    /\ UNCHANGED <<conn, why, peer, nextPing, pingDue, left, pongs, fragment, fragmentSize>>

\* The frame is on the wire.  Nothing the server writes renews the deadline.
Written ==
    /\ conn = "open" /\ writing # "none" /\ left = 0
    /\ writing' = "none"
    /\ asked' = IF writing = "ping" /\ asked = -1 THEN 0 ELSE asked
    /\ UNCHANGED <<conn, why, peer, quiet, nextPing, pingDue, left, pongs, fragment, fragmentSize>>

\* The queue was closed, the session expired, the server stops, or a write to
\* a peer that no longer reads passed its deadline.
WriterStops ==
    /\ conn = "open"
    /\ writing = "none" \/ (left = 0 /\ peer = "silent")
    /\ conn' = "closed"
    /\ UNCHANGED <<why, peer, quiet, nextPing, pingDue, writing, left, asked, pongs, fragment, fragmentSize>>

\* The loop sees the reader done: queued pongs, the close frame, the end.
CloseHandshake ==
    /\ conn = "stopping"
    /\ conn' = "closed" /\ pongs' = 0 /\ writing' = "none" /\ left' = 0
    /\ UNCHANGED <<why, peer, quiet, nextPing, pingDue, asked, fragment, fragmentSize>>

\* A tick passes once nothing is due in this one.
Tick ==
    /\ conn = "open"
    /\ quiet < PongWait
    /\ IF writing = "none" THEN ~pingDue ELSE left > 0
    /\ peer = "alive" => asked < RoundTrip
    /\ quiet' = quiet + 1
    /\ left' = IF writing = "none" THEN left ELSE left - 1
    /\ asked' = IF peer = "alive" /\ asked >= 0 THEN asked + 1 ELSE asked
    /\ nextPing' = IF nextPing = 1 THEN PingPeriod ELSE nextPing - 1
    /\ pingDue' = (pingDue \/ nextPing = 1)
    /\ UNCHANGED <<conn, why, peer, writing, pongs, fragment, fragmentSize>>

WebSocketNext ==
    \/ \E f \in Frame : ReadFrame(f)
    \/ \E ticks \in 0..WriteWait : WritePing(ticks) \/ \E kind \in {"text", "pong"} : WriteOther(kind, ticks)
    \/ ReaderTimesOut \/ PeerFallsSilent \/ Written \/ WriterStops \/ CloseHandshake
    \/ Tick

\* Time passes, and the two goroutines run.
WebSocketFairness ==
    /\ SF_socketVars(Tick)
    /\ WF_socketVars(ReaderTimesOut)
    /\ WF_socketVars(Written \/ CloseHandshake \/ \E ticks \in 0..WriteWait : WritePing(ticks))

-----------------------------------------------------------------------------
(* Properties.                                                             *)

\* A peer that answers every ping is never taken for dead, however many events
\* are queued and however slow the writes are (websocket.go:41-45: the ping may
\* wait behind one write and its own; :230-232: "A due ping goes first").
AnsweringPeerKept == why = "timeout" => peer = "silent"

\* A peer that has fallen silent is dropped, so it cannot hold its subscription
\* for ever, although the server keeps writing to it (websocket.go:36-39;
\* :506: "Only inbound frames renew it: nothing the server writes does").
SilentPeerDropped == (peer = "silent") ~> (conn = "closed")

=============================================================================
