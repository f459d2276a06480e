----------------------------- MODULE FileLocks -----------------------------
(***************************************************************************)
(* The in-process, per-path lock manager of adapter/LocalFileAdapter.ts    *)
(* (lines 32-170).                                                         *)
(*                                                                         *)
(* `fileLocks` is the module-level Map from a file path to its LockState   *)
(* object.  The closures the manager hands out (release functions, timer   *)
(* callbacks) capture the OBJECT, not the path, and an object is dropped   *)
(* from the Map when it falls idle: objects therefore have identities      *)
(* here, and two of them could in principle serve one path.                *)
(*                                                                         *)
(* A request stands for one call of acquireReadLock / acquireWriteLock     *)
(* with the promise it returned and the release function the promise       *)
(* delivers.  An identity is used again once its call is over.             *)
(***************************************************************************)
EXTENDS Naturals, Sequences, FiniteSets

CONSTANTS
    Paths,      \* full file paths
    Requests,   \* identities of lock requests
    LockIds,    \* identities of LockState objects
    None        \* undefined

ASSUME LockConstants ==
    /\ None \notin Paths
    /\ None \notin LockIds
    /\ IsFiniteSet(Requests)

VARIABLES
    fileLocks,  \* Paths -> the LockState object in the Map, or None
    locks,      \* LockIds -> the fields of the object
    reqs        \* Requests -> the request and its promise

lockVars == <<fileLocks, locks, reqs>>

Modes == {"read", "write"}

\* A promise is pending ("queued"), resolved with a release function that has
\* not been called ("held"), or rejected with LockTimeoutError ("rejected").
Statuses == {"idle", "queued", "held", "rejected"}

LockState == [readers : Nat, writer : BOOLEAN, queue : Seq(Requests)]

Request == [status : Statuses, mode : Modes, path : Paths \cup {None},
            lock : LockIds \cup {None}, timed : BOOLEAN]

NoRequest == [status |-> "idle", mode |-> "read", path |-> None,
              lock |-> None, timed |-> FALSE]

FreshLock == [readers |-> 0, writer |-> FALSE, queue |-> <<>>]

TypeOK ==
    /\ fileLocks \in [Paths -> LockIds \cup {None}]
    /\ locks \in [LockIds -> LockState]
    /\ reqs \in [Requests -> Request]

LockInit ==
    /\ fileLocks = [p \in Paths |-> None]
    /\ locks = [s \in LockIds |-> FreshLock]
    /\ reqs = [r \in Requests |-> NoRequest]

-----------------------------------------------------------------------------
(* Helpers *)

Live(r) == reqs[r].status \in {"queued", "held"}

\* Neither the Map nor a closure that can still act refers to the object.
Unreferenced(s) ==
    /\ \A p \in Paths : fileLocks[p] # s
    /\ \A r \in Requests : Live(r) => reqs[r].lock # s

\* The identity of the next object created: which one does not matter.
NewLockId == CHOOSE s \in LockIds : Unreferenced(s)

\* getLockState(p) returns the object s, creating it when the Map has none.
GetsLockState(p, s) ==
    \/ fileLocks[p] = s
    \/ fileLocks[p] = None /\ Unreferenced(s) /\ s = NewLockId

StateGot(p, s) == IF fileLocks[p] = s THEN locks[s] ELSE FreshLock

\* Nobody holds or awaits the lock: release drops the object from the Map.
Idle(st) == ~st.writer /\ st.readers = 0 /\ st.queue = <<>>

\* MUTANT: a read is let in past the queue.
AdmitsBarging(mode, st) ==
    /\ ~st.writer
    /\ mode = "write" => st.readers = 0 /\ st.queue = <<>>

\* An acquire call is granted at once.
Admits(mode, st) ==
    /\ ~st.writer
    /\ st.queue = <<>>
    /\ mode = "write" => st.readers = 0

Taken(mode, st) ==
    IF mode = "read" THEN [st EXCEPT !.readers = @ + 1]
                     ELSE [st EXCEPT !.writer = TRUE]

GivenBack(mode, st) ==
    IF mode = "read"
    THEN [st EXCEPT !.readers = IF @ > 0 THEN @ - 1 ELSE 0]
    ELSE [st EXCEPT !.writer = FALSE]

Reads(st, rq, i) == rq[st.queue[i]].mode = "read"

\* MUTANT: a queued write does not wait for the readers to leave.
GrantsWriteAmongReaders(st, rq, n) ==
    LET q == st.queue IN
    \/ n = 0 /\ (q = <<>> \/ st.writer)
    \/ n = 1 /\ q # <<>> /\ ~st.writer /\ ~Reads(st, rq, 1)
    \/ /\ n > 0 /\ n <= Len(q) /\ ~st.writer
       /\ \A i \in 1..n : Reads(st, rq, i)
       /\ n < Len(q) => ~Reads(st, rq, n + 1)

\* serviceQueue's loop grants exactly the first n requests of the queue: one
\* write when nobody holds the lock, or every read up to the first write.
Grants(st, rq, n) ==
    LET q == st.queue IN
    \/ /\ n = 0
       /\ q # <<>> => st.writer \/ (~Reads(st, rq, 1) /\ st.readers > 0)
    \/ /\ n = 1 /\ q # <<>> /\ ~st.writer /\ st.readers = 0
       /\ ~Reads(st, rq, 1)
    \/ /\ n > 0 /\ n <= Len(q) /\ ~st.writer
       /\ \A i \in 1..n : Reads(st, rq, i)
       /\ n < Len(q) => ~Reads(st, rq, n + 1)

FirstOf(q, n) == {q[i] : i \in 1..n}

\* The object after its first n queued requests were granted.
AfterGrants(st, rq, n) ==
    [readers |-> IF n > 0 /\ Reads(st, rq, 1) THEN st.readers + n ELSE st.readers,
     writer  |-> st.writer \/ (n > 0 /\ ~Reads(st, rq, 1)),
     queue   |-> SubSeq(st.queue, n + 1, Len(st.queue))]

WithStatus(rq, R, status) ==
    [r \in Requests |-> IF r \in R THEN [rq[r] EXCEPT !.status = status] ELSE rq[r]]

\* serviceQueue(filePath, state), the object s having the fields st and the
\* requests being rq.  A granted request leaves the queue, its timer is
\* cleared and its promise resolves.
ServiceQueue(s, st, rq) ==
    \E n \in 0..Len(st.queue) :
        /\ Grants(st, rq, n)
        /\ locks' = [locks EXCEPT ![s] = AfterGrants(st, rq, n)]
        /\ reqs' = WithStatus(rq, FirstOf(st.queue, n), "held")

Without(q, i) == SubSeq(q, 1, i - 1) \o SubSeq(q, i + 1, Len(q))

-----------------------------------------------------------------------------
(* Operations *)

\* acquireReadLock / acquireWriteLock when the lock is free for the mode.
AcquireNow(r, mode, p, timed) ==
    /\ reqs[r].status = "idle"
    /\ \E s \in LockIds :
        /\ GetsLockState(p, s)
        /\ Admits(mode, StateGot(p, s))
        /\ fileLocks' = [fileLocks EXCEPT ![p] = s]
        /\ locks' = [locks EXCEPT ![s] = Taken(mode, StateGot(p, s))]
        /\ reqs' = [reqs EXCEPT ![r] =
               [status |-> "held", mode |-> mode, path |-> p, lock |-> s, timed |-> timed]]

\* The same when it is not: the request is queued, with a timer if a positive
\* timeout was given, and the queue is serviced.
AcquireQueued(r, mode, p, timed) ==
    /\ reqs[r].status = "idle"
    /\ \E s \in LockIds :
        LET st == StateGot(p, s)
            rq == [reqs EXCEPT ![r] =
               [status |-> "queued", mode |-> mode, path |-> p, lock |-> s, timed |-> timed]]
        IN  /\ GetsLockState(p, s)
            /\ ~Admits(mode, st)
            /\ fileLocks' = [fileLocks EXCEPT ![p] = s]
            /\ ServiceQueue(s, [st EXCEPT !.queue = Append(@, r)], rq)

Acquire(r, mode, p, timed) ==
    AcquireNow(r, mode, p, timed) \/ AcquireQueued(r, mode, p, timed)

\* The release function: the first call gives the lock back and drops the
\* idle object from the Map or wakes the queue.  (The closure's `released`
\* flag makes a second call a no-op: the request is no longer "held".)
Release(r) ==
    /\ reqs[r].status = "held"
    /\ LET s == reqs[r].lock
           st == GivenBack(reqs[r].mode, locks[s])
           rq == [reqs EXCEPT ![r] = NoRequest]
       IN  \/ /\ Idle(st)
              /\ fileLocks' = [fileLocks EXCEPT ![reqs[r].path] = None]
              /\ locks' = [locks EXCEPT ![s] = st]
              /\ reqs' = rq
           \/ /\ ~Idle(st)
              /\ UNCHANGED fileLocks
              /\ ServiceQueue(s, st, rq)

\* A request's timer fires: it leaves the queue wherever it stands, its
\* promise rejects, and the queue behind it is serviced.
Timeout(r) ==
    /\ reqs[r].status = "queued" /\ reqs[r].timed
    /\ LET s == reqs[r].lock
           st == locks[s]
       IN  \E i \in DOMAIN st.queue :
            /\ st.queue[i] = r
            /\ ServiceQueue(s, [st EXCEPT !.queue = Without(@, i)],
                            WithStatus(reqs, {r}, "rejected"))
    /\ UNCHANGED fileLocks

\* The caller takes note of the rejection.
Forget(r) ==
    /\ reqs[r].status = "rejected"
    /\ reqs' = [reqs EXCEPT ![r] = NoRequest]
    /\ UNCHANGED <<fileLocks, locks>>

LockNext ==
    \E r \in Requests :
        \/ \E mode \in Modes, p \in Paths, timed \in BOOLEAN : Acquire(r, mode, p, timed)
        \/ Release(r)
        \/ Timeout(r)
        \/ Forget(r)

LockSpec == LockInit /\ [][LockNext]_lockVars

-----------------------------------------------------------------------------
(* Properties *)

HeldOn(s, mode) ==
    {r \in Requests : reqs[r].status = "held" /\ reqs[r].lock = s /\ reqs[r].mode = mode}

\* Mutual exclusion per PATH (not per object): whoever holds a write lock on a
\* path is alone on it, whatever LockState object each holder went through.
MutualExclusion ==
    \A r1, r2 \in Requests :
        /\ reqs[r1].status = "held" /\ reqs[r2].status = "held"
        /\ reqs[r1].path = reqs[r2].path /\ r1 # r2
        => reqs[r1].mode = "read" /\ reqs[r2].mode = "read"

\* The counters of an object agree with the release functions still to be
\* called: nothing is released twice or never counted.
CountersMatch ==
    \A s \in LockIds :
        /\ locks[s].readers = Cardinality(HeldOn(s, "read"))
        /\ locks[s].writer <=> HeldOn(s, "write") # {}

\* The Map holds an object for a path exactly while somebody holds a lock on
\* the path, and every request that is waiting or holding works on that object:
\* no entry leaks, and nobody waits on an object nobody else can reach.
MapIsLive ==
    /\ \A p \in Paths :
        fileLocks[p] # None <=> \E r \in Requests : reqs[r].status = "held" /\ reqs[r].path = p
    /\ \A r \in Requests : Live(r) => fileLocks[reqs[r].path] = reqs[r].lock

\* No lost wakeup: between two steps the head of a queue is never grantable.
NoLostWakeup ==
    \A s \in LockIds :
        LET st == locks[s] IN
        st.queue # <<>> =>
            \/ st.writer
            \/ st.readers > 0 /\ reqs[st.queue[1]].mode = "write"
=============================================================================
