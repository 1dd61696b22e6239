------------------------------- MODULE Calls -------------------------------
(***************************************************************************)
(* Calls between the two members of a direct conversation.  Clients send   *)
(* versioned requests, each with an action id; the network may delay,      *)
(* repeat and reorder them, and a row expires and is pruned on a timer.    *)
(*                                                                         *)
(* A call's metadata is encrypted: of it the server reads the action id.   *)
(* callActionHash is injective on a request here, so the request stands    *)
(* for its hash.                                                           *)
(***************************************************************************)
EXTENDS Integers, FiniteSets

CONSTANTS
    Peers,    \* the two accounts of the conversation
    MaxCalls, \* bound: call rows ever created
    MaxSent   \* bound: requests sent

ASSUME CallsAssumption == MaxCalls \in Nat /\ MaxSent \in Nat

VARIABLES
    calls,    \* call_sessions: id -> row; NoCall before it is created and after pruning
    placed,   \* rows created
    sent,     \* requests on their way; one may be delivered any number of times
    active,   \* accounts neither disabled nor deleted
    applied   \* per request, how often a call's row changed for it

callVars == <<calls, placed, sent, active, applied>>

NoCall == [state |-> "none"]
Ids == 1..MaxCalls
CallStates == {"ringing", "active", "rejected", "missed", "ended"}
Terminal == {"rejected", "missed", "ended"}

\* A request is [action, by, call, version, state].  call = 0 asks for a new
\* call; action 0 is a request without metadata.
NoRequest == [action |-> 0]

CallsInit ==
    /\ calls = [c \in Ids |-> NoCall]
    /\ placed = 0
    /\ sent = {} /\ active = Peers
    /\ applied = [x \in {} |-> 0]

CountApplied(r) ==
    applied' = [x \in DOMAIN applied \cup {r} |-> IF x \in DOMAIN applied THEN applied[x] + (IF x = r THEN 1 ELSE 0) ELSE 1]

-----------------------------------------------------------------------------
(* The clients.  Action ids are drawn at random, so any new number will    *)
(* do, and each is used for one request; a client acts on the version it   *)
(* has seen, which may be stale by the time it arrives.                   *)

NewAction(r) == r.action = Cardinality({q \in sent : q.action # 0}) + 1

PlaceCall(r) ==
    /\ r.call = 0 /\ r.version = 0 /\ r.state = "ringing"
    /\ NewAction(r) /\ Cardinality(sent) < MaxSent
    /\ sent' = sent \cup {r}
    /\ UNCHANGED <<calls, placed, active, applied>>

SendState(r) ==
    /\ r.call # 0 /\ calls[r.call] # NoCall /\ r.version = calls[r.call].version
    /\ NewAction(r) \/ (r.action = 0 /\ r.state # calls[r.call].state)
    /\ Cardinality(sent) < MaxSent
    /\ sent' = sent \cup {r}
    /\ UNCHANGED <<calls, placed, active, applied>>

-----------------------------------------------------------------------------
(* The server.                                                             *)

\* createCallSession: the same action of the same account is answered with
\* the row it made, as long as that row is there.
CreateCallSession(r) ==
    /\ r \in sent /\ r.call = 0
    /\ active = Peers
    /\ ~\E c \in Ids : calls[c] # NoCall /\ calls[c].by = r.by /\ calls[c].create = r.action
    /\ placed < MaxCalls
    /\ placed' = placed + 1
    /\ calls' = [calls EXCEPT ![placed'] =
                    [state |-> "ringing", by |-> r.by, version |-> 1, expired |-> FALSE,
                     create |-> r.action, last |-> NoRequest]]
    /\ UNCHANGED <<sent, active, applied>>

\* The transitions each side may ask for; the same state again updates the
\* metadata of a call that is not over.
Allowed(call, r) ==
    \/ r.state = call.state /\ r.action # 0 /\ call.state \notin Terminal
    \/ r.by = call.by /\ call.state \in {"ringing", "active"} /\ r.state = "ended"
    \/ r.by # call.by /\ call.state = "ringing" /\ r.state \in {"active", "rejected", "missed"}
    \/ r.by # call.by /\ call.state = "active" /\ r.state = "ended"

\* The row after the step; answering and ending a call give it a new expiry.
After(call, r) == [call EXCEPT !.state = r.state, !.version = @ + 1, !.last = r]

\* The last action recognised, but not the version it was sent for.
TransitionUnversioned(r) ==
    /\ r \in sent /\ r.call # 0
    /\ LET call == calls[r.call] IN
       /\ call # NoCall /\ ~call.expired
       /\ active = Peers
       /\ r.action = 0 \/ r.action # call.last.action
       /\ Allowed(call, r)
       /\ calls' = [calls EXCEPT ![r.call] = After(call, r)]
    /\ CountApplied(r)
    /\ UNCHANGED <<placed, sent, active>>

\* transitionCallSession, the cases that change the row.  A repeat of the last
\* action is answered from the row; an expired row answers as a pruned one.
TransitionCallSession(r) ==
    /\ r \in sent /\ r.call # 0
    /\ LET call == calls[r.call] IN
       /\ call # NoCall /\ ~call.expired
       /\ active = Peers
       /\ r.action = 0 \/ r.action # call.last.action
       /\ r.version = call.version
       /\ Allowed(call, r)
       /\ calls' = [calls EXCEPT ![r.call] = After(call, r)]
    /\ CountApplied(r)
    /\ UNCHANGED <<placed, sent, active>>

CallExpires(c) ==
    /\ calls[c] # NoCall /\ ~calls[c].expired
    /\ calls' = [calls EXCEPT ![c].expired = TRUE]
    /\ UNCHANGED <<placed, sent, active, applied>>

PruneCallSessions ==
    /\ \E c \in Ids : calls[c] # NoCall /\ calls[c].expired
    /\ calls' = [c \in Ids |-> IF calls[c] # NoCall /\ calls[c].expired THEN NoCall ELSE calls[c]]
    /\ UNCHANGED <<placed, sent, active, applied>>

AccountGone(a) ==
    /\ a \in active
    /\ active' = active \ {a}
    /\ UNCHANGED <<calls, placed, sent, applied>>

CallsNext ==
    \/ \E a \in Peers, x \in 0..MaxSent, s \in CallStates :
        \/ PlaceCall([action |-> x, by |-> a, call |-> 0, version |-> 0, state |-> s])
        \/ \E c \in Ids : calls[c] # NoCall
            /\ SendState([action |-> x, by |-> a, call |-> c, version |-> calls[c].version, state |-> s])
    \/ \E r \in sent : CreateCallSession(r) \/ TransitionCallSession(r)
    \/ \E c \in Ids : CallExpires(c)
    \/ PruneCallSessions
    \/ \E a \in Peers : AccountGone(a)

-----------------------------------------------------------------------------
(* Properties.                                                             *)

\* However often a request is retried or delivered late, and whatever the other
\* side did meanwhile, it changes the call once (content_store.go:717-726: the
\* last action is recognised by its id, an older one by its version).
ActionAppliedOnce == \A r \in DOMAIN applied : applied[r] = 1

=============================================================================
