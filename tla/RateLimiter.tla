---------------------------- MODULE RateLimiter ----------------------------
(***************************************************************************)
(* The request rate limiter: a bounded table of one bucket per client      *)
(* address and minute, the overflow bucket that serves new addresses while *)
(* the table is full of buckets that must not be forgotten, and the        *)
(* two-step charge of a request that carries a session token.              *)
(*                                                                         *)
(* Times are relative: a bucket has toReset ticks to its reset, -1 once it *)
(* is past; nobody reads its counts then.  A count stops at its limit: the *)
(* code counts the request and refuses it above the limit, which is to     *)
(* refuse it at the limit and not to count it.  The least used of several  *)
(* victims is left open.  A table is no larger than the eviction sample.   *)
(* The account budgets are a second table under the same rules and are     *)
(* left out.                                                               *)
(***************************************************************************)
EXTENDS Integers, FiniteSets, FiniteSetsExt

CONSTANTS
    Hosts,      \* client addresses
    Watched,    \* the one whose credential requests are counted: any, they are alike
    Limit,      \* [general, auth, enrollment, signedIn -> requests a minute]
    MaxEntries, \* maxEntries
    Minute,     \* the bucket's minute, in ticks
    MaxCharging \* bound: signed-in requests handled at once

VARIABLES
    buckets,    \* address -> bucket, for the addresses in the table
    overflow,   \* the shared bucket
    charging,   \* addresses with an admitted signed-in request not yet settled
    guesses     \* age in ticks -> credential requests of Watched admitted

limiterVars == <<buckets, overflow, charging, guesses>>

NewBucket == [general |-> 0, auth |-> 0, enrollment |-> 0, signedIn |-> 0, toReset |-> Minute]

LimiterInit ==
    /\ buckets = [h \in {} |-> NewBucket]
    /\ overflow = [NewBucket EXCEPT !.toReset = -1]
    /\ charging = {}
    /\ guesses = [age \in 0..(Minute - 1) |-> 0]

-----------------------------------------------------------------------------
(* bucketLocked and evictOneLocked.                                        *)

Tabled == DOMAIN buckets
Over == {h \in Tabled : buckets[h].toReset <= 0}
Unguessed == {h \in Tabled : buckets[h].auth = 0 /\ buckets[h].enrollment = 0}

\* Any live bucket may go, its credential use with it.
AnyVictims == IF Over # {} THEN Over ELSE Tabled

\* Expired buckets go first; live ones only without credential or enrollment use.
Victims == IF Over # {} THEN Over ELSE Unguessed

Current(b) == IF b.toReset < 0 THEN NewBucket ELSE b
Without(hs) == [h \in Tabled \ hs |-> buckets[h]]

\* The ways to find h's bucket: what the table keeps, and the bucket.
Lookups(h) ==
    IF h \in Tabled THEN {[rest |-> buckets, shared |-> FALSE, bucket |-> Current(buckets[h])]}
    ELSE IF Cardinality(Tabled) < MaxEntries THEN {[rest |-> buckets, shared |-> FALSE, bucket |-> NewBucket]}
    ELSE IF Victims # {} THEN {[rest |-> Without({v}), shared |-> FALSE, bucket |-> NewBucket] : v \in Victims}
    ELSE {[rest |-> buckets, shared |-> TRUE, bucket |-> Current(overflow)]}

\* h's bucket, found as found, becomes b.
Keep(h, found, b) ==
    IF found.shared
    THEN buckets' = buckets /\ overflow' = b
    ELSE /\ buckets' = [x \in DOMAIN found.rest \cup {h} |-> IF x = h THEN b ELSE found.rest[x]]
         /\ overflow' = overflow

-----------------------------------------------------------------------------
(* middleware.                                                             *)

\* credential and enrollment routes, an ordinary route with a bearer token
\* ("signedIn"), and everything else ("open").
Classes == {"credential", "enrollment", "signedIn", "open"}

Counters(class) ==
    CASE class = "credential" -> {"general", "auth"}
      [] class = "enrollment" -> {"general", "enrollment"}
      [] class = "signedIn" -> {"signedIn"}
      [] class = "open" -> {"general"}

Charged(b, counters) ==
    [f \in DOMAIN b |-> IF f \in counters THEN Min({b[f] + 1, Limit[f]}) ELSE b[f]]

Arrives(h, class) ==
    /\ class = "signedIn" => h \notin charging /\ Cardinality(charging) < MaxCharging
    /\ \E found \in Lookups(h) :
        LET admitted == \A f \in Counters(class) : found.bucket[f] < Limit[f] IN
        /\ Keep(h, found, Charged(found.bucket, Counters(class)))
        /\ charging' = IF class = "signedIn" /\ admitted THEN charging \cup {h} ELSE charging
        /\ guesses' = IF class = "credential" /\ admitted /\ h = Watched THEN [guesses EXCEPT ![0] = @ + 1] ELSE guesses

\* accountCharge.Authenticated: the account's own bucket pays.
Authenticated(h) ==
    /\ h \in charging
    /\ charging' = charging \ {h}
    /\ UNCHANGED <<buckets, overflow, guesses>>

\* Unauthenticated or settleUnused: the address pays, as for an open request.
Unauthenticated(h) ==
    /\ h \in charging
    /\ charging' = charging \ {h}
    /\ \E found \in Lookups(h) : Keep(h, found, Charged(found.bucket, {"general"}))
    /\ UNCHANGED guesses

\* One turn of cleanupLoop.
CleanupBuckets ==
    LET past == {h \in Tabled : buckets[h].toReset < 0} IN
    /\ past # {}
    /\ buckets' = Without(past)
    /\ UNCHANGED <<overflow, charging, guesses>>

ClockTicks ==
    LET Older(b) == IF b.toReset <= 0 THEN [NewBucket EXCEPT !.toReset = -1] ELSE [b EXCEPT !.toReset = @ - 1] IN
    /\ buckets' = [h \in Tabled |-> Older(buckets[h])]
    /\ overflow' = Older(overflow)
    /\ guesses' = [age \in 0..(Minute - 1) |-> IF age = 0 THEN 0 ELSE guesses[age - 1]]
    /\ UNCHANGED charging

LimiterNext ==
    \/ \E h \in Hosts, class \in Classes : Arrives(h, class)
    \/ \E h \in Hosts : Authenticated(h) \/ Unauthenticated(h)
    \/ CleanupBuckets
    \/ ClockTicks

-----------------------------------------------------------------------------
(* Property.                                                               *)

\* However full the table is and whatever is evicted from it, one address gets
\* no more credential requests into any minute than two minutes of its own
\* bucket and two of the overflow bucket can bring into it (bucketLocked and
\* evictOneLocked: a credential budget is not reset before its minute ends).
CredentialRate ==
    MapThenSumSet(LAMBDA age : guesses[age], 0..(Minute - 1)) <= 4 * Limit.auth

=============================================================================
