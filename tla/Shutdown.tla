----------------------------- MODULE Shutdown ------------------------------
(***************************************************************************)
(* Stopping the server.  One goroutine drains the HTTP server and waits    *)
(* for its handlers; Serve waits for it, then for the push workers, the    *)
(* delivery writers and the account wakes, and its caller closes storage.  *)
(* Handlers start delivery writers and wakes until they return, and a      *)
(* hijacked socket is a handler that http.Server.Shutdown does not see.    *)
(*                                                                         *)
(* The drain timeout, the deadline of the whole stop and the grace of the  *)
(* cancelled wakes pass at any moment, in this order.                      *)
(***************************************************************************)
EXTENDS Integers

CONSTANTS
    HttpRequests, \* ordinary requests
    Upgrades,     \* requests that become realtime sockets
    MaxStarted    \* bound: delivery writers, and wakes, running at a time

VARIABLES
    requests,  \* request -> where its connection or handler is
    writers,   \* deliveryQueue.workers
    wakes,     \* accountWakes.running
    noWakes,   \* accountWakes.stopped
    working,   \* the push workers run
    drainer,   \* the shutdown goroutine
    caller,    \* Serve and its caller
    clock,     \* the last of the stop's timers to pass: "start", "drain", "deadline", "grace"
    uncounted  \* requests read but not yet counted when connections were cut

shutdownVars == <<requests, writers, wakes, noWakes, working, drainer, caller, clock, uncounted>>

Served == HttpRequests \cup Upgrades
At(place) == {r \in Served : requests[r] = place}
Late(timer) ==
    CASE timer = "drain" -> clock # "start"
      [] timer = "deadline" -> clock \in {"deadline", "grace"}
      [] OTHER -> clock = "grace"

ShutdownInit ==
    /\ requests = [r \in Served |-> "none"]
    /\ writers = 0 /\ wakes = 0 /\ noWakes = FALSE
    /\ working = TRUE
    /\ drainer = "serving" /\ caller = "listening"
    /\ clock = "start" /\ uncounted = {}

-----------------------------------------------------------------------------
(* Requests, and what their handlers start.                                *)

AcceptRequest(r) ==
    /\ drainer = "serving" /\ requests[r] = "none"
    /\ requests' = [requests EXCEPT ![r] = "accepted"]
    /\ UNCHANGED <<writers, wakes, noWakes, working, drainer, caller, clock, uncounted>>

\* trackInflight counts the handler.
TrackInflight(r) ==
    /\ requests[r] = "accepted"
    /\ requests' = [requests EXCEPT ![r] = "running"]
    /\ UNCHANGED <<writers, wakes, noWakes, working, drainer, caller, clock, uncounted>>

HandlerReturns(r) ==
    /\ requests[r] = "running"
    /\ requests' = [requests EXCEPT ![r] = "returned"]
    /\ UNCHANGED <<writers, wakes, noWakes, working, drainer, caller, clock, uncounted>>

StartDeliveryWriter(r) ==
    /\ requests[r] = "running" /\ r \in HttpRequests
    /\ writers < MaxStarted
    /\ writers' = writers + 1
    /\ UNCHANGED <<requests, wakes, noWakes, working, drainer, caller, clock, uncounted>>

\* accountWakes.start: refused once shutdown has stopped new wakes.
StartWake(r) ==
    /\ requests[r] = "running" /\ r \in HttpRequests
    /\ ~noWakes /\ wakes < MaxStarted
    /\ wakes' = wakes + 1
    /\ UNCHANGED <<requests, writers, noWakes, working, drainer, caller, clock, uncounted>>

DeliveryWriterEnds ==
    /\ writers > 0
    /\ writers' = writers - 1
    /\ UNCHANGED <<requests, wakes, noWakes, working, drainer, caller, clock, uncounted>>

WakeEnds ==
    /\ wakes > 0
    /\ wakes' = wakes - 1
    /\ UNCHANGED <<requests, writers, noWakes, working, drainer, caller, clock, uncounted>>

\* runPushWakeWorkers returns some time after its context is cancelled.
PushWorkersEnd ==
    /\ working /\ drainer # "serving"
    /\ working' = FALSE
    /\ UNCHANGED <<requests, writers, wakes, noWakes, drainer, caller, clock, uncounted>>

-----------------------------------------------------------------------------
(* The shutdown goroutine.                                                 *)

\* A signal, or a listener that failed: new requests and sockets are refused.
StopServing ==
    /\ drainer = "serving"
    /\ drainer' = "draining"
    /\ UNCHANGED <<requests, writers, wakes, noWakes, working, caller, clock, uncounted>>

\* http.Server.Shutdown returns when no connection is in use, hijacked ones
\* aside, or at its timeout; then Close cuts the rest.
ShutdownHttp ==
    LET busy == At("accepted") \cup (At("running") \cap HttpRequests) IN
    /\ drainer = "draining"
    /\ busy = {} \/ Late("drain")
    /\ drainer' = "waiting"
    /\ uncounted' = At("accepted")
    /\ UNCHANGED <<requests, writers, wakes, noWakes, working, caller, clock>>

\* Only http.Server.Shutdown's own answer is waited for.
WaitForHttpOnly ==
    /\ drainer = "waiting"
    /\ drainer' = "done"
    /\ UNCHANGED <<requests, writers, wakes, noWakes, working, caller, clock, uncounted>>

\* waitInflight.
WaitInflight ==
    /\ drainer = "waiting"
    /\ At("running") = {} \/ Late("deadline")
    /\ drainer' = "done"
    /\ UNCHANGED <<requests, writers, wakes, noWakes, working, caller, clock, uncounted>>

-----------------------------------------------------------------------------
(* Serve, from the listener's return on, and the caller's Close.           *)

Waits(place, condition, next) ==
    /\ caller = place /\ condition
    /\ caller' = next

\* One wait after the other, each until its condition holds or the one
\* deadline passes.
ServeReturns ==
    /\ \/ Waits("listening", drainer # "serving", "drained")
       \/ Waits("drained", drainer = "done" \/ Late("deadline"), "workers")
       \/ Waits("workers", ~working \/ Late("deadline"), "deliveries")
       \/ Waits("deliveries", writers = 0 \/ Late("deadline"), "wakes")
    /\ UNCHANGED <<requests, writers, wakes, noWakes, working, drainer, clock, uncounted>>

\* WaitPushWakes: after the wait new wakes are stopped, running ones cancelled
\* and given a grace to return.
WaitPushWakes ==
    /\ \/ Waits("wakes", wakes = 0 \/ Late("deadline"), "grace") /\ noWakes' = TRUE
       \/ Waits("grace", wakes = 0 \/ Late("grace"), "closed") /\ UNCHANGED noWakes
    /\ UNCHANGED <<requests, writers, wakes, working, drainer, clock, uncounted>>

TimerPasses ==
    /\ drainer # "serving" /\ caller # "closed"
    /\ \/ clock = "start" /\ clock' = "drain"
       \/ clock = "drain" /\ clock' = "deadline"
       \/ clock = "deadline" /\ caller = "grace" /\ clock' = "grace"
    /\ UNCHANGED <<requests, writers, wakes, noWakes, working, drainer, caller, uncounted>>

ShutdownNext ==
    \/ \E r \in Served : AcceptRequest(r) \/ TrackInflight(r) \/ HandlerReturns(r)
                            \/ StartDeliveryWriter(r) \/ StartWake(r)
    \/ DeliveryWriterEnds \/ WakeEnds \/ PushWorkersEnd \/ StopServing \/ ShutdownHttp \/ WaitInflight
    \/ ServeReturns \/ WaitPushWakes \/ TimerPasses

-----------------------------------------------------------------------------
(* Properties.                                                             *)

\* Storage closes under nothing that uses it: a stop that keeps its deadline
\* closes it only when every handler, socket, push worker, delivery writer
\* and wake has returned (app.go:227-229 "so Serve can keep storage open until
\* they return", 325-330; account_recovery_wake.go:15-18).  A request read but
\* not yet counted when the drain timeout cuts connections is the exception.
ClosedWhenIdle ==
    (caller = "closed" /\ ~Late("deadline") /\ uncounted = {}) =>
        /\ At("accepted") \cup At("running") = {}
        /\ writers = 0 /\ wakes = 0 /\ ~working

=============================================================================
