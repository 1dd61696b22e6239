---------------------------- MODULE Deliveries -----------------------------
(***************************************************************************)
(* Delivery receipts of one conversation.  A sync page served to a member  *)
(* makes its newest message a candidate for that member's delivery cursor; *)
(* the candidate is queued after the answer, coalesced with what is        *)
(* pending, and written by one of a few background workers, which retry a  *)
(* failing store a bounded number of times.                                *)
(*                                                                         *)
(* Messages are numbered by created_at; 0 stands for no message.  All were *)
(* sent by somebody else, in a conversation small enough for receipts.     *)
(***************************************************************************)
EXTENDS Integers, FiniteSets, FiniteSetsExt

CONSTANTS
    Readers,     \* member accounts that sync
    LastMessage, \* bound: messages 1..LastMessage
    Writers,     \* worker slots: as many as maxDeliveryWriters
    MaxRetries,  \* maxDeliveryRetries
    MaxRefusals  \* bound: writes the store refuses

VARIABLES
    present,   \* messages in message_envelopes
    joined,    \* accounts in memberships
    cursor,    \* delivery_receipts: account -> message
    answering, \* account -> candidate of a sync answer on its way
    queued,    \* deliveryQueue.pending: account -> message
    worker,    \* slot -> the worker's state
    stopped,   \* deliveryQueue.stopped
    newest,    \* account -> newest candidate queued so far
    dropped,   \* accounts an advance was given up for
    refusals   \* writes the store has refused

deliveryVars == <<present, joined, cursor, answering, queued, worker, stopped, newest, dropped, refusals>>

None == [a \in Readers |-> 0]
Off == [at |-> "off", batch |-> None, failed |-> {}, failures |-> 0]

DeliveriesInit ==
    /\ present = {} /\ joined = Readers
    /\ cursor = None /\ answering = None /\ queued = None
    /\ worker = [w \in Writers |-> Off]
    /\ stopped = FALSE
    /\ newest = None /\ dropped = {} /\ refusals = 0

Running == {w \in Writers : worker[w].at # "off"}

-----------------------------------------------------------------------------
(* The conversation.                                                       *)

MessageArrives(m) ==
    /\ m \in 1..LastMessage /\ \A n \in present : n < m
    /\ \A a \in Readers : newest[a] < m
    /\ present' = present \cup {m}
    /\ UNCHANGED <<joined, cursor, answering, queued, worker, stopped, newest, dropped, refusals>>

\* Retention deletes a message, and by cascade the cursors at it.
MessageGone(m) ==
    /\ m \in present
    /\ present' = present \ {m}
    /\ cursor' = [a \in Readers |-> IF cursor[a] = m THEN 0 ELSE cursor[a]]
    /\ UNCHANGED <<joined, answering, queued, worker, stopped, newest, dropped, refusals>>

MemberLeaves(a) ==
    /\ a \in joined
    /\ joined' = joined \ {a}
    /\ cursor' = [cursor EXCEPT ![a] = 0]
    /\ UNCHANGED <<present, answering, queued, worker, stopped, newest, dropped, refusals>>

-----------------------------------------------------------------------------
(* The sync handler.                                                       *)

\* DeliveryCandidates for a page whose newest creation event is m's.
SyncEvents(a, m) ==
    /\ a \in joined /\ m \in present /\ answering[a] = 0
    /\ cursor[a] < m
    /\ answering' = [answering EXCEPT ![a] = m]
    /\ UNCHANGED <<present, joined, cursor, queued, worker, stopped, newest, dropped, refusals>>

\* The later arrival replaces what is pending, whichever is older.
LatestArrivalWins(q, a, m) == [q EXCEPT ![a] = m]

\* mergeLocked: a pending candidate that is further along stays.
Merge(q, a, m) == [q EXCEPT ![a] = IF m < @ THEN @ ELSE m]

\* The answer is out: the candidate is queued, and a worker started if a slot
\* is free.
RecordDeliveredAsync(a) ==
    LET m == answering[a] IN
    /\ m # 0
    /\ answering' = [answering EXCEPT ![a] = 0]
    /\ queued' = Merge(queued, a, m)
    /\ newest' = [newest EXCEPT ![a] = Max({@, m})]
    /\ worker' = IF Running = Writers THEN worker
                 ELSE [worker EXCEPT ![CHOOSE w \in Writers \ Running : TRUE] = [Off EXCEPT !.at = "take"]]
    /\ UNCHANGED <<present, joined, cursor, stopped, dropped, refusals>>

-----------------------------------------------------------------------------
(* runDeliveryWorker.                                                      *)

\* take: everything pending, or, under the same lock, the slot released.
TakeBatch(w) ==
    /\ worker[w].at = "take"
    /\ worker' = [worker EXCEPT ![w] = IF queued = None THEN Off
                                       ELSE [@ EXCEPT !.at = "write", !.batch = queued]]
    /\ queued' = None
    /\ UNCHANGED <<present, joined, cursor, answering, stopped, newest, dropped, refusals>>

\* ApplyDeliveries: the write checks everything again; the cursor only moves
\* forward.
ApplyDeliveries(a, m) ==
    cursor' = IF m \in present /\ a \in joined /\ cursor[a] < m THEN [cursor EXCEPT ![a] = m] ELSE cursor

\* writeDeliveries for one account of the batch; the store may refuse.
WriteDeliveries(w, a) ==
    /\ worker[w].at = "write"
    /\ worker[w].batch[a] # 0 /\ a \notin worker[w].failed
    /\ \/ /\ ApplyDeliveries(a, worker[w].batch[a])
          /\ worker' = [worker EXCEPT ![w].batch[a] = 0]
          /\ UNCHANGED refusals
       \/ /\ refusals < MaxRefusals /\ refusals' = refusals + 1
          /\ cursor' = cursor
          /\ worker' = [worker EXCEPT ![w].failed = @ \cup {a}]
    /\ UNCHANGED <<present, joined, answering, queued, stopped, newest, dropped>>

\* The batch is through: what failed is put back, or given up after too many
\* failures in a row or once shutdown has stopped waiting.
EndBatch(w) ==
    /\ worker[w].at = "write"
    /\ \A a \in Readers \ worker[w].failed : worker[w].batch[a] = 0
    /\ LET back == worker[w].batch
           giveUp == worker[w].failures + 1 > MaxRetries \/ stopped
           retry == worker[w].failed # {} /\ ~giveUp
       IN /\ queued' = IF retry
                       THEN [a \in Readers |-> IF a \in worker[w].failed THEN Merge(queued, a, back[a])[a] ELSE queued[a]]
                       ELSE queued
          /\ dropped' = IF giveUp THEN dropped \cup worker[w].failed ELSE dropped
          /\ worker' = [worker EXCEPT ![w] = [Off EXCEPT !.at = "take",
                                                         !.failures = IF retry THEN worker[w].failures + 1 ELSE 0]]
    /\ UNCHANGED <<present, joined, cursor, answering, stopped, newest, refusals>>

\* WaitDeliveryWrites passes its deadline with work left.
StopWaiting ==
    /\ ~stopped /\ (Running # {} \/ queued # None)
    /\ stopped' = TRUE
    /\ UNCHANGED <<present, joined, cursor, answering, queued, worker, newest, dropped, refusals>>

DeliveriesNext ==
    \/ \E m \in 1..LastMessage : MessageArrives(m) \/ MessageGone(m)
    \/ \E a \in Readers : MemberLeaves(a) \/ RecordDeliveredAsync(a) \/ \E m \in present : SyncEvents(a, m)
    \/ \E w \in Writers : TakeBatch(w) \/ EndBatch(w) \/ \E a \in Readers : WriteDeliveries(w, a)
    \/ StopWaiting

\* Workers run.
DeliveriesFairness ==
    \A w \in Writers : WF_deliveryVars(TakeBatch(w) \/ EndBatch(w) \/ \E a \in Readers : WriteDeliveries(w, a))

-----------------------------------------------------------------------------
(* Properties.                                                             *)

\* A message that was queued as delivered to a member gets its cursor, however
\* pages, workers, coalescing and retries interleave: unless it is gone, the
\* member has left, a newer one took its place or the store kept failing
\* (receipts.go:50-55: "a dropped write would never recover", "a late older
\* page cannot discard a newer pending cursor"; :101-103: the slot is released
\* "under the same lock").
DeliveryRecorded ==
    \A a \in Readers : \A m \in 1..LastMessage :
        newest[a] = m ~>
            (cursor[a] >= m \/ m \notin present \/ a \notin joined \/ newest[a] > m \/ a \in dropped)

=============================================================================
