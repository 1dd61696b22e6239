----------------------------- MODULE MC_Realtime -----------------------------
(***************************************************************************)
(* Instances of what serves connected clients: the realtime hub, one of    *)
(* its connections, the delivery workers behind the sync handler, calls,   *)
(* and the shutdown that ends it all.  They share no state here: a         *)
(* behaviour is one part's, chosen at the start.                           *)
(***************************************************************************)
EXTENDS Hub, WebSocket, Deliveries, Calls, Shutdown

CONSTANTS p1, p2   \* callers

VARIABLE part

Init ==
    /\ part \in {"hub", "socket", "deliveries", "calls", "shutdown"}
    /\ HubInit /\ WebSocketInit /\ DeliveriesInit /\ CallsInit /\ ShutdownInit

Live ==
    /\ \/ part = "hub" /\ HubNext /\ UNCHANGED <<socketVars, deliveryVars>>
       \/ part = "socket" /\ WebSocketNext /\ UNCHANGED <<hubVars, deliveryVars>>
       \/ part = "deliveries" /\ DeliveriesNext /\ UNCHANGED <<hubVars, socketVars>>
    /\ UNCHANGED <<callVars, shutdownVars>>

Other ==
    /\ \/ part = "calls" /\ CallsNext /\ UNCHANGED shutdownVars
       \/ part = "shutdown" /\ ShutdownNext /\ UNCHANGED callVars
    /\ UNCHANGED <<hubVars, socketVars, deliveryVars>>

Next == (Live \/ Other) /\ UNCHANGED part

\* The delivery workers' fairness asks nothing of the other parts: no worker runs
\* there, so none of the actions it names is enabled.
Spec ==
    /\ Init /\ [][Next]_<<part, hubVars, socketVars, deliveryVars, callVars, shutdownVars>>
    /\ part = "socket" => WebSocketFairness
    /\ DeliveriesFairness

=============================================================================
