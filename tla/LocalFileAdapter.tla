-------------------------- MODULE LocalFileAdapter --------------------------
(***************************************************************************)
(* The operations of LocalFileAdapter (adapter/LocalFileAdapter.ts, lines  *)
(* 262-501) over the lock manager of FileLocks, and the files they touch.  *)
(*                                                                         *)
(* Each member of Ops is a slot that runs one call after another.  A step  *)
(* is what JavaScript runs between two awaits: the call up to the promise  *)
(* of its lock, then every continuation.  A `finally` block that releases  *)
(* two locks takes two steps here; nothing else runs between them (Quiet). *)
(* Answers (200, 404, 423, 500) are named where they are given.            *)
(***************************************************************************)
EXTENDS FileLocks, Integers

CONSTANTS
    Ops,            \* concurrent calls
    CallKinds,      \* the locking operations that are called
    Removable,      \* files whose name ends with deleteableFileSuffix
    Timings         \* whether an adapter's lock timeout is configured and positive:
                    \* services with adapters of their own share the Map

ASSUME FileConstants ==
    /\ Requests = Ops \X {1, 2}     \* a call takes at most two locks
    /\ Paths \subseteq Int          \* path strings are compared with <
    /\ CallKinds \subseteq {"read", "write", "delete", "check", "move"}
    /\ Removable \subseteq Paths
    /\ Timings \subseteq BOOLEAN

VARIABLES
    ops,    \* Ops -> the call in progress
    file    \* Paths -> what is on disk

vars == <<lockVars, ops, file>>

\* A file being written, or whose write failed half way, is "partial".
Contents == {"absent", "partial", "whole"}

Kinds == {"none", "read", "write", "delete", "check", "move", "deleteDirectory"}

\* first/second: awaiting that lock; stream: a stream is open on the file;
\* purge: deleteDirectory has looked at the directory; unwind: `finally`.
PCs == {"idle", "first", "second", "stream", "purge", "unwind"}

Call == [kind : Kinds, pc : PCs, from : Paths \cup {None}, to : Paths \cup {None},
         timed : BOOLEAN]

NoCall == [kind |-> "none", pc |-> "idle", from |-> None, to |-> None, timed |-> FALSE]

AdapterTypeOK ==
    /\ TypeOK
    /\ ops \in [Ops -> Call]
    /\ file \in [Paths -> Contents]

Init ==
    /\ LockInit
    /\ ops = [o \in Ops |-> NoCall]
    /\ file \in [Paths -> {"absent", "whole"}]

-----------------------------------------------------------------------------

\* JavaScript runs a `finally` block to its end before anything else.
Quiet == \A o \in Ops : ops[o].pc # "unwind"

Lower(p, q) == IF p < q THEN p ELSE q

\* MUTANT: a move locks the path it moves from first.
FirstPathAsGiven(c) == c.from

FirstPath(c) == Lower(c.from, c.to)
SecondPath(c) == IF FirstPath(c) = c.from THEN c.to ELSE c.from

\* MUTANT: delete takes a read lock.
LockModeOfWriters(kind) == IF kind = "write" \/ kind = "move" THEN "write" ELSE "read"

LockMode(kind) == IF kind \in {"read", "check"} THEN "read" ELSE "write"

\* check gives no timeout: "we always wait indefinitely rather than fail-fast".
TimingOf(kind) == IF kind = "check" THEN {FALSE} ELSE Timings

Has(o, i) == reqs[<<o, i>>].status = "held"

\* The call o has the lock(s) it needs and its continuation runs.
Ready(o, kind) ==
    /\ Quiet /\ ops[o].kind = kind
    /\ \/ ops[o].pc = "first" /\ Has(o, 1) /\ ops[o].from = ops[o].to
       \/ ops[o].pc = "second" /\ Has(o, 2)

Goto(o, pc) == ops' = [ops EXCEPT ![o].pc = pc]

\* The body is over: `finally` releases what the call holds.
Finish(o) == Goto(o, "unwind") /\ UNCHANGED lockVars

-----------------------------------------------------------------------------
(* Operations *)

\* read, write, delete, check, move up to their first await.
Start(o, kind, from, to, timed) ==
    LET c == [kind |-> kind, pc |-> "first", from |-> from, to |-> to, timed |-> timed]
    IN  /\ Quiet /\ ops[o].pc = "idle"
        /\ kind # "move" => from = to
        /\ ops' = [ops EXCEPT ![o] = c]
        /\ Acquire(<<o, 1>>, LockMode(kind), FirstPath(c), timed)
        /\ UNCHANGED file

\* LockTimeoutError on the first lock: the answer is 423.
Locked(o) ==
    /\ Quiet /\ ops[o].pc = "first"
    /\ Forget(<<o, 1>>)
    /\ ops' = [ops EXCEPT ![o] = NoCall]
    /\ UNCHANGED file

\* move goes on to the second path.
MoveSecond(o) ==
    /\ Quiet /\ ops[o].kind = "move" /\ ops[o].pc = "first" /\ Has(o, 1)
    /\ ops[o].from # ops[o].to
    /\ Acquire(<<o, 2>>, "write", SecondPath(ops[o]), ops[o].timed)
    /\ Goto(o, "second")
    /\ UNCHANGED file

\* LockTimeoutError on the second lock: 423, and `finally` gives the first back.
SecondLocked(o) ==
    /\ Quiet /\ ops[o].pc = "second"
    /\ Forget(<<o, 2>>)
    /\ Goto(o, "unwind")
    /\ UNCHANGED file

\* The body of read fails to open the file (404, or an error is thrown); that
\* of write fails to open or create it (404, 500); those of delete and move
\* fail (404, 500); check answers, with the metadata or with "none".
Fail(o) ==
    /\ \E kind \in CallKinds : Ready(o, kind)
    /\ Finish(o)
    /\ UNCHANGED file

\* read hands its caller a stream that keeps the lock.
ReadOpened(o) ==
    /\ Ready(o, "read") /\ file[ops[o].from] # "absent"
    /\ Goto(o, "stream")
    /\ UNCHANGED <<lockVars, file>>

\* The stream was read to its end, failed, or was cancelled.
ReadEnd(o) ==
    /\ Quiet /\ ops[o].kind = "read" /\ ops[o].pc = "stream"
    /\ Finish(o)
    /\ UNCHANGED file

\* writeFileStream creates or truncates the file.
WriteOpened(o) ==
    /\ Ready(o, "write")
    /\ file' = [file EXCEPT ![ops[o].from] = "partial"]
    /\ Goto(o, "stream")
    /\ UNCHANGED lockVars

\* pipeTo succeeds (200) or fails half way (500).  A file that
\* deleteDirectory unlinked meanwhile stays unlinked.
WriteEnd(o) ==
    /\ Quiet /\ ops[o].kind = "write" /\ ops[o].pc = "stream"
    /\ \/ file' = [file EXCEPT ![ops[o].from] = IF @ = "absent" THEN @ ELSE "whole"]
       \/ UNCHANGED file
    /\ Finish(o)

Remove(o) ==
    /\ Ready(o, "delete") /\ file[ops[o].from] # "absent"
    /\ file' = [file EXCEPT ![ops[o].from] = "absent"]
    /\ Finish(o)

Rename(o) ==
    LET from == ops[o].from
        to == ops[o].to
    IN  /\ Ready(o, "move") /\ file[from] # "absent"
        /\ file' = [p \in Paths |-> IF p = to THEN file[from]
                                    ELSE IF p = from THEN "absent" ELSE file[p]]
        /\ Finish(o)

\* MUTANT: `finally` releases one lock only.
UnwindOne(o) ==
    /\ ops[o].pc = "unwind"
    /\ Release(IF Has(o, 2) THEN <<o, 2>> ELSE <<o, 1>>)
    /\ ops' = [ops EXCEPT ![o] = NoCall]
    /\ UNCHANGED file

\* `finally`: the second lock, then the first.
Unwind(o) ==
    /\ ops[o].pc = "unwind"
    /\ \/ /\ Has(o, 2)
          /\ Release(<<o, 2>>)
          /\ UNCHANGED ops
       \/ /\ ~Has(o, 2)
          /\ Release(<<o, 1>>)
          /\ ops' = [ops EXCEPT ![o] = NoCall]
    /\ UNCHANGED file

\* deleteDirectory finds nothing but removable files (else 400, or 200 for a
\* directory that is not there) ...
DirectoryScan(o) ==
    /\ Quiet /\ ops[o].pc = "idle"
    /\ \A p \in Paths : file[p] # "absent" => p \in Removable
    /\ ops' = [ops EXCEPT ![o] = [NoCall EXCEPT !.kind = "deleteDirectory", !.pc = "purge"]]
    /\ UNCHANGED <<lockVars, file>>

\* ... and removes the directory with all that is in it by now.  No lock.
DirectoryRemove(o) ==
    /\ Quiet /\ ops[o].pc = "purge"
    /\ file' = [p \in Paths |-> "absent"]
    /\ ops' = [ops EXCEPT ![o] = NoCall]
    /\ UNCHANGED lockVars

LockTimer(o) ==
    /\ Quiet
    /\ \E i \in {1, 2} : Timeout(<<o, i>>)
    /\ UNCHANGED <<ops, file>>

\* A continuation that the event loop will run once it is ready.
Continue(o) ==
    \/ Locked(o) \/ MoveSecond(o) \/ SecondLocked(o)
    \/ Fail(o) \/ ReadOpened(o) \/ WriteOpened(o)
    \/ Remove(o) \/ Rename(o)
    \/ DirectoryRemove(o)
    \/ Unwind(o)

\* Up to whoever reads the stream, or sends it.
StreamEnd(o) == ReadEnd(o) \/ WriteEnd(o)

Next ==
    \E o \in Ops :
        \/ \E kind \in CallKinds : \E from, to \in Paths, timed \in TimingOf(kind) :
              Start(o, kind, from, to, timed)
        \/ DirectoryScan(o)
        \/ Continue(o)
        \/ StreamEnd(o)
        \/ LockTimer(o)

Spec == Init /\ [][Next]_vars

\* The event loop runs every continuation that stays or keeps becoming ready,
\* and timers fire; nothing is assumed of whoever owns a stream.
FairSpec ==
    /\ Spec
    /\ \A o \in Ops : SF_vars(Continue(o)) /\ SF_vars(LockTimer(o))

-----------------------------------------------------------------------------
(* Properties *)

\* A call that is over holds no lock and waits for none, whatever way it ended
\* (a timeout on the second lock of a move, a failed open, a cancelled stream);
\* and a call with a stream open on a file still has its lock.
NoLeakedLock ==
    \A o \in Ops :
        /\ ops[o].pc \in {"idle", "purge"} => \A i \in {1, 2} : reqs[<<o, i>>] = NoRequest
        /\ ops[o].pc = "stream" => Has(o, 1)

\* While a read stream is open, no write, delete or move changes the file under
\* it: only deleteDirectory, which takes no lock, can.
StableRead ==
    [][\A o \in Ops :
        ops[o].kind = "read" /\ ops[o].pc = "stream" /\ ~(\E d \in Ops : DirectoryRemove(d))
            => file'[ops[o].from] = file[ops[o].from]]_vars

\* The call o waits for a path on which the call h has a lock.
WaitsFor(o, h) ==
    \E i, j \in {1, 2} :
        reqs[<<o, i>>].status = "queued" /\ Has(h, j) /\ reqs[<<h, j>>].path = reqs[<<o, i>>].path

\* No calls, however many, wait for each other in a circle: whatever moves lock two paths
\* in opposite directions while others read and write them, there is one to end next.
NoDeadlock == ~\E group \in SUBSET Ops : group # {} /\ \A o \in group : \E h \in group : WaitsFor(o, h)

\* Both wait for a lock on one path, q in front of r.
Ahead(q, r) ==
    LET queue == locks[reqs[q].lock].queue IN
    /\ reqs[q].status = "queued" /\ reqs[r].status = "queued" /\ reqs[q].path = reqs[r].path
    /\ \E i, j \in DOMAIN queue : i < j /\ queue[i] = q /\ queue[j] = r

\* Who waits for a path is overtaken by nobody, whatever is released or times out: a lock is
\* given to one whom all who still wait were behind, late readers included, and those who
\* wait keep their order.
NoOvertaking ==
    [][\A q, r \in Requests :
        q # r /\ reqs'[r].status = "queued" /\ reqs'[r].path = reqs'[q].path =>
            /\ reqs[q].status # "held" /\ reqs'[q].status = "held" => Ahead(q, r)
            /\ reqs[q].status = "queued" /\ reqs'[q].status = "queued" =>
                    (Ahead(q, r) \/ reqs[r].status # "queued" => Ahead(q, r)')]_vars

\* Bodies arrive, and whoever is handed a stream drains or cancels it.
StreamsEnd == \A o \in Ops : SF_vars(StreamEnd(o))

\* If streams end, every call is answered and gives its locks back: no call,
\* timed or not, starves behind later ones.
EveryCallEnds == StreamsEnd => \A o \in Ops : ops[o].pc # "idle" ~> ops[o].pc = "idle"

\* What the lock manager promises (module ReadersWriterLock).
Promise == INSTANCE ReadersWriterLock WITH
    lock <- [r \in Requests |->
                [status |-> reqs[r].status, mode |-> reqs[r].mode, path |-> reqs[r].path]]

\* The lock manager, as its callers use it, keeps the abstract lock's promise.
KeepsPromise == Promise!Spec
=============================================================================
