---------------------------- MODULE LogForwarder ----------------------------
(***************************************************************************)
(* Forwarding of log entries to a sink (services/logCollector.ts): one     *)
(* queue, one timer and any number of overlapping flushes, shared by every *)
(* log collector of the process, whatever its tenant and configuration.    *)
(*                                                                         *)
(* Entries are numbered in the order they are processed, those of a batch  *)
(* after they have been sorted by timestamp.  A step is what runs between  *)
(* two awaits, but the entries of one request take a step each, and        *)
(* nothing else runs between them (Quiet).                                 *)
(***************************************************************************)
EXTENDS Naturals, Sequences, FiniteSets

CONSTANTS
    Configs,    \* configurations that have a forwardUrl; a change makes another
    BatchSize,  \* Configs -> forwardBatchSize
    MaxSize,    \* Configs -> maxQueueSize
    Interval,   \* Configs -> forwardFlushIntervalMs
    MaxEntries, \* entries there are
    MaxPosted,  \* entries of one request
    None

ASSUME ForwarderConstants ==
    /\ BatchSize \in [Configs -> Nat] /\ MaxSize \in [Configs -> Nat]
    /\ Interval \in [Configs -> Nat]
    /\ MaxEntries \in Nat /\ MaxPosted \in Nat /\ None \notin Configs

VARIABLES
    posted,     \* entries processed so far
    left,       \* entries of the request in hand that are still to be processed
    by,         \* its service's configuration
    queue,
    timer,      \* flushTimer, named by the configuration its callback has and
                \* activeForwardConfig is, or None
    flights,    \* the flushes that await their response
    delivered,  \* entries the sink took with a response that was ok, in this order
    dropped,    \* entries dropped from a full queue
    discarded,  \* entries whose flush ended with a network error
    overlapped  \* history: two flushes were under way at once

vars == <<posted, left, by, queue, timer, flights, delivered, dropped, discarded, overlapped>>

Entries == 1..MaxEntries

Flight == [batch : Seq(Entries) \ {<<>>}, to : Configs]

TypeOK ==
    /\ posted \in 0..MaxEntries /\ left \in 0..MaxPosted
    /\ by \in Configs \cup {None}
    /\ queue \in Seq(Entries) /\ delivered \in Seq(Entries)
    /\ timer \in Configs \cup {None}
    /\ \A f \in flights : f \in Flight
    /\ dropped \subseteq Entries /\ discarded \subseteq Entries
    /\ overlapped \in BOOLEAN

Init ==
    /\ posted = 0 /\ left = 0 /\ by = None
    /\ queue = <<>> /\ timer = None /\ flights = {}
    /\ delivered = <<>> /\ dropped = {} /\ discarded = {}
    /\ overlapped = FALSE

Quiet == left = 0

-----------------------------------------------------------------------------
(* Helpers *)

\* flushQueue up to its fetch, the queue being q: all of it is sent.
Flush(q, c) ==
    IF q = <<>> THEN queue' = q /\ UNCHANGED <<flights, overlapped>>
    ELSE /\ queue' = <<>>
         /\ flights' = flights \cup {[batch |-> q, to |-> c]}
         /\ overlapped' = (overlapped \/ flights # {})

\* ensureFlushTimer: one timer for all, set again when the interval differs.
EnsureFlushTimer(c) ==
    timer' = IF timer # None /\ Interval[timer] = Interval[c] THEN timer ELSE c

Full(c) == queue # <<>> /\ Len(queue) >= MaxSize[c]

-----------------------------------------------------------------------------
(* Requests *)

\* A request with n valid entries begins to process them.
Post(c, n) ==
    /\ Quiet /\ posted + n <= MaxEntries
    /\ left' = n /\ by' = c
    /\ UNCHANGED <<posted, queue, timer, flights, delivered, dropped, discarded, overlapped>>

\* processEntry: enqueue, which drops the oldest if the queue is full and sends
\* it all if it has the size of a batch; then ensureFlushTimer.
ProcessEntry ==
    LET kept == IF Full(by) THEN Tail(queue) ELSE queue
        q == Append(kept, posted + 1)
    IN  /\ left > 0
        /\ posted' = posted + 1 /\ left' = left - 1
        /\ dropped' = IF Full(by) THEN dropped \cup {Head(queue)} ELSE dropped
        /\ \/ Len(q) >= BatchSize[by] /\ Flush(q, by)
           \/ Len(q) < BatchSize[by] /\ queue' = q /\ UNCHANGED <<flights, overlapped>>
        /\ EnsureFlushTimer(by)
        /\ UNCHANGED <<by, delivered, discarded>>

-----------------------------------------------------------------------------
(* Flushes *)

\* MUTANT: the timer fires once.
TimerFiresOnce ==
    /\ Quiet /\ timer # None
    /\ Flush(queue, timer) /\ timer' = None
    /\ UNCHANGED <<posted, left, by, delivered, dropped, discarded>>

\* The interval is over: what is queued goes to the sink of the configuration
\* that set the timer.
TimerFires ==
    /\ Quiet /\ timer # None
    /\ Flush(queue, timer)
    /\ UNCHANGED <<posted, left, by, timer, delivered, dropped, discarded>>

Ends(f) == Quiet /\ f \in flights /\ flights' = flights \ {f}

Accepted(f) ==
    /\ Ends(f)
    /\ delivered' = delivered \o f.batch
    /\ UNCHANGED <<posted, left, by, queue, timer, dropped, discarded, overlapped>>

\* MUTANT: what was refused goes behind what came meanwhile.
RefusedToTheEnd(f) ==
    /\ Ends(f)
    /\ queue' = queue \o f.batch
    /\ UNCHANGED <<posted, left, by, timer, delivered, dropped, discarded, overlapped>>

\* The response is not ok: the batch goes back to the front of the queue.
Refused(f) ==
    /\ Ends(f)
    /\ queue' = f.batch \o queue
    /\ UNCHANGED <<posted, left, by, timer, delivered, dropped, discarded, overlapped>>

\* fetch throws.
NetworkError(f) ==
    /\ Ends(f)
    /\ discarded' = discarded \cup {f.batch[i] : i \in DOMAIN f.batch}
    /\ UNCHANGED <<posted, left, by, queue, timer, delivered, dropped, overlapped>>

Next ==
    \/ \E c \in Configs, n \in 1..MaxPosted : Post(c, n)
    \/ ProcessEntry
    \/ TimerFires
    \/ \E f \in flights : Accepted(f) \/ Refused(f) \/ NetworkError(f)

Spec == Init /\ [][Next]_vars

In(e, s) == \E i \in DOMAIN s : s[i] = e

SettlesWith(e) == \E f \in flights : In(e, f.batch) /\ (Accepted(f) \/ NetworkError(f))
AnswersWith(e) == \E f \in flights : In(e, f.batch) /\ (Accepted(f) \/ Refused(f) \/ NetworkError(f))

\* A request is processed to its end, the interval comes round, and every fetch
\* is answered or fails.
FairSpec ==
    /\ Spec
    /\ WF_vars(ProcessEntry) /\ WF_vars(TimerFires)
    /\ \A e \in Entries : WF_vars(AnswersWith(e))

-----------------------------------------------------------------------------
(* Properties *)

Held(e, place) ==
    CASE place = "queue" -> In(e, queue)
      [] place = "flight" -> \E f \in flights : In(e, f.batch)
      [] place = "delivered" -> In(e, delivered)
      [] place = "dropped" -> e \in dropped
      [] place = "discarded" -> e \in discarded

Places == {"queue", "flight", "delivered", "dropped", "discarded"}

Injective(s) == \A i, j \in DOMAIN s : s[i] = s[j] => i = j

\* However flushes overlap and whatever the sink answers, every entry that was
\* processed is in exactly one place, once: queued, in one flush, delivered,
\* dropped because the queue was full, or discarded because the network failed.
EachEntryOnce ==
    /\ \A e \in Entries :
        /\ e <= posted <=> \E place \in Places : Held(e, place)
        /\ \A p1, p2 \in Places : Held(e, p1) /\ Held(e, p2) => p1 = p2
        /\ \A f1, f2 \in flights : In(e, f1.batch) /\ In(e, f2.batch) => f1 = f2
    /\ Injective(queue) /\ Injective(delivered)
    /\ \A f \in flights : Injective(f.batch)

Before(s, t) == \A i \in DOMAIN s, j \in DOMAIN t : s[i] < t[j]

Ordered(s) == \A i, j \in DOMAIN s : i < j => s[i] < s[j]

\* As long as no two flushes overlap, entries reach the sink in the order they
\* were processed, those that were refused and sent again included: what is
\* queued is later than what is in flight, and that later than what is delivered.
OrderKept ==
    ~overlapped =>
        /\ Ordered(queue) /\ Ordered(delivered) /\ Before(delivered, queue)
        /\ \A f \in flights :
            Ordered(f.batch) /\ Before(delivered, f.batch) /\ Before(f.batch, queue)

\* The sink does not refuse an entry for ever.
SinkRecovers == \A e \in Entries : SF_vars(SettlesWith(e))

\* If so, every entry is delivered, dropped or discarded in the end: none stays in
\* the queue because nothing is posted any more, or because its batch was refused.
EveryEntrySettles ==
    SinkRecovers =>
        \A e \in Entries : e <= posted ~> In(e, delivered) \/ e \in dropped \cup discarded
=============================================================================
